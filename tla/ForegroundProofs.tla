-------------------------- MODULE ForegroundProofs --------------------------
(***************************************************************************)
(* Proofs about one request of the child process that sends a reply: for   *)
(* any number of names to search for and of inputs of the user, it posts   *)
(* the payload in the chat it is for and takes nothing of the user's away, *)
(* unless it could not read what was in the composer.                      *)
(* And about the parts an answer is sent in: for answers and limits of any *)
(* size, nothing of it is lost, doubled or out of order.                   *)
(***************************************************************************)
EXTENDS ForegroundSend, ReplyParts, FiniteSetTheorems, WellFoundedInduction, TLAPS

-----------------------------------------------------------------------------
(* The invariant. *)

\* The user has not touched anything yet: an input is either still to be seen
\* by the guard, or was taken for the driver's own.
Alone == ~mistaken /\ ~acted

\* Where a run is that may be over.
Ending == {"cleanup", "handle", "end"}

\* The guard sees what the user did; no acceptance is due when a run ends.
GuardOK ==
    /\ acted => touched # {}
    /\ step \in Ending => accepts = "none"

\* Which driver works on what, and on how many names.
DriverOK ==
    /\ driver = "uia" => kind = "text" \/ kind \in Quotes
    /\ driver = "mcp" => ~wrote /\ ~selected
    /\ kind \in Quotes => ~blind
    /\ selected => kind \in Quotes
    /\ step \in {"activate", "open_search", "search", "name", "enter", "verify",
                 "open", "query", "result"} => left >= 1
    /\ driver = "mcp" => step \notin {"open", "opened", "input", "banner", "quote",
                                      "surface", "attach", "readback", "select",
                                      "query", "result", "scroll", "write"}
    /\ driver = "uia" => step \notin {"open_search", "search", "name", "enter",
                                      "verify", "find_input", "focus", "copy",
                                      "draft", "paste_text", "paste_image"}
    /\ step \in {"banner", "scroll", "quote", "surface", "attach"} => kind \in Quotes

\* Once the send action was made the run ends, as sent or as unknown.
TriggerOK ==
    /\ triggered =>
          /\ step \in {"sent"} \cup Ending
          /\ driver = "uia" => accepts = "none"
          /\ step \in {"cleanup", "handle"} => Outcome \in {"ok", "unknown"}
          /\ step = "end" => result \in {"ok", "unknown"}
    /\ step = "sent" => triggered

\* The right chat is in front, and what its composer holds: all that the step
\* counts on and, if the draft was read, nothing else.
InFront ==
    /\ driver = "mcp" /\ step \in {"find_input", "focus", "copy", "draft",
                                   "paste_text", "paste_image", "send"}
       => chat = "target" \/ blind
    /\ driver = "uia" /\ step \in {"input", "banner", "scroll", "quote", "surface",
                                   "write", "attach", "readback", "send"}
       => chat = "target"

Composer ==
    /\ step \in {"name", "enter"} => focus = "search"
    /\ driver = "mcp" /\ step \in {"copy", "draft", "paste_text", "paste_image", "send"}
       => focus = "input"
    /\ step = "draft" => seen \subseteq draft[chat] /\ (~misread => seen = draft[chat])
    /\ step = "paste_text" => (~misread => draft[chat] = {}) /\ kind \in {"text", "both"}
    /\ step = "paste_image" => /\ Payload[kind] \ {"image"} \subseteq draft[chat]
                               /\ ~misread => draft[chat] = Payload[kind] \ {"image"}
                               /\ kind \in {"image", "both"}
    /\ step = "write" => seen = draft[chat] /\ seen \subseteq Payload[kind] \ {"image"}
                         /\ (kind \in Quotes => seen = {})
    /\ step = "attach" => kind = "quotedImage" /\ draft[chat] = {}
    /\ step \in {"readback", "send"} => /\ Payload[kind] \subseteq draft[chat]
                                        /\ ~misread => draft[chat] = Payload[kind]

\* The banner of a quote is the driver's, in the chat in front; what a quote
\* has left when it ends without it is nothing.
QuoteOK ==
    kind \in Quotes =>
       /\ ~wrote => \A c \in Chats : "image" \notin draft[c]
       /\ ~selected => \A c \in Chats : banner[c] # "driver"
       /\ selected => /\ step \in {"surface", "input", "write", "attach", "readback",
                                   "send", "sent"} \cup Ending
                      /\ \A c \in Chats : banner[c] = "driver" => c = chat
       /\ step \in {"surface", "input", "write", "attach", "readback", "send"} =>
             banner[chat] = "driver" /\ selected
       /\ step = "handle" /\ ~triggered =>
             error = "unknown" \/ \A c \in Chats : banner[c] # "driver"

\* What was posted.
PostOK ==
    /\ posts # <<>> => triggered
    /\ Len(posts) <= 1
    /\ OnlyThePayload

ForegroundIInv ==
    /\ ForegroundTypeOK /\ GuardOK /\ DriverOK /\ TriggerOK
    /\ Alone => InFront /\ Composer /\ QuoteOK
    /\ ~mistaken => PostOK /\ NothingLeftBehind

-----------------------------------------------------------------------------
(* The steps, in groups. *)

GuardStep == Interrupted \/ AcceptInput \/ Fail
McpSearches == McpActivate \/ OpenSearch \/ ClickSearch \/ TypeName \/ EnterName
               \/ VerifyTarget
McpReads == McpReadInput \/ McpRenderedInput \/ McpFocus \/ McpCopy \/ McpDraft
McpWrites == PasteText \/ PasteImage \/ McpSend
UiaOpens == UiaActivate \/ OpenChat \/ SelectSession \/ Query \/ OpenQuery \/ ChatOpened
UiaWrites == ReadInput \/ Write \/ ReadBack \/ UiaSend
UiaQuotes == OldBanner \/ Scroll \/ NotFound \/ SelectQuote \/ QuoteBanner \/ Attach
RunEnds == Sent \/ Cleanup \/ Retry \/ FallBack \/ Answer
UserStep == UserTypes \/ UserClicks

\* Every step belongs to one of the groups.
LEMMA Steps ==
    ForegroundNext => \/ GuardStep \/ McpSearches \/ McpReads \/ McpWrites
                      \/ UiaOpens \/ UiaWrites \/ UiaQuotes \/ RunEnds \/ UserStep
BY DEF ForegroundNext, GuardStep, McpSearches, McpReads, McpWrites, UiaOpens,
       UiaWrites, UiaQuotes, RunEnds, UserStep

\* A request begins with the invariant.
LEMMA ForegroundInitOK == ForegroundInit => ForegroundIInv
<1>. SUFFICES ASSUME ForegroundInit PROVE ForegroundIInv
  OBVIOUS
<1>. USE ForegroundAssumption
     DEF ForegroundInit, Kinds, Quotes, Chats, Items, Errors, Checked, Ending
<1>1. ForegroundTypeOK
  <2>1. driver \in {"mcp", "uia"} /\ (kind \in Quotes => driver = "uia")
    OBVIOUS
  <2>2. draft \in [Chats -> SUBSET Items]
    OBVIOUS
  <2>3. banner \in [Chats -> {"none", "user", "driver"}]
    OBVIOUS
  <2>4. {acted, mistaken, blind, misread, retried, wrote, selected, triggered}
         \subseteq BOOLEAN
    BY Zenon
  <2>5. inputs \in 0..MaxInputs /\ left \in 0..Names
    OBVIOUS
  <2>6. (result # "none") <=> (step = "end")
    OBVIOUS
  <2>7. posts \in Seq([chat : Chats, items : SUBSET Items,
                      banner : {"none", "user", "driver"}])
    OBVIOUS
  <2>. QED  BY <2>1, <2>2, <2>3, <2>4, <2>5, <2>6, <2>7 DEF ForegroundTypeOK
<1>2. GuardOK /\ DriverOK /\ TriggerOK
  BY DEF GuardOK, DriverOK, TriggerOK
<1>3. InFront /\ Composer
  BY DEF InFront, Composer
<1>4. QuoteOK
  BY DEF QuoteOK
<1>5. PostOK /\ NothingLeftBehind
  BY DEF PostOK, OnlyThePayload, NothingLeftBehind
<1>. QED  BY <1>1, <1>2, <1>3, <1>4, <1>5 DEF ForegroundIInv

\* The guard keeps seeing what the user does.
LEMMA GuardKept ==
    ASSUME ForegroundTypeOK, GuardOK, ForegroundNext
    PROVE  GuardOK'
<1>. USE DEF GuardOK, ForegroundTypeOK, Ending, At, Goto, Raise, Input, Key,
         Click, Message, guardVars, runVars, readVars, flagVars
<1>1. CASE GuardStep
  BY <1>1 DEF GuardStep, Interrupted, AcceptInput, Fail
<1>2. CASE McpSearches
  BY <1>2 DEF McpSearches, McpActivate, OpenSearch, ClickSearch, TypeName, EnterName,
              VerifyTarget
<1>3. CASE McpReads
  BY <1>3 DEF McpReads, McpReadInput, McpRenderedInput, McpFocus, McpCopy, McpDraft
<1>4. CASE McpWrites
  BY <1>4 DEF McpWrites, PasteText, PasteImage, Paste, McpSend
<1>5. CASE UiaOpens
  BY <1>5 DEF UiaOpens, UiaActivate, OpenChat, SelectSession, Query, OpenQuery,
              ChatOpened, ChatIsOpen, ChatIsTarget
<1>6. CASE UiaWrites
  BY <1>6 DEF UiaWrites, ReadInput, Write, ReadBack, UiaSend
<1>7. CASE UiaQuotes
  BY <1>7 DEF UiaQuotes, OldBanner, Scroll, NotFound, SelectQuote, QuoteBanner, Attach
<1>8. CASE RunEnds
  BY <1>8 DEF RunEnds, Sent, Cleanup, Retry, FallBack, Answer
<1>9. CASE UserStep
  BY <1>9 DEF UserStep, UserTypes, UserClicks, UserActs
<1>. QED  BY <1>1, <1>2, <1>3, <1>4, <1>5, <1>6, <1>7, <1>8, <1>9, Steps

\* A driver only takes its own steps, and while names are left.
LEMMA DriverKept ==
    ASSUME ForegroundTypeOK, DriverOK, ForegroundNext
    PROVE  DriverOK'
<1>. USE ForegroundAssumption
     DEF DriverOK, ForegroundTypeOK, Ending, At, Goto, Raise, Quotes, Kinds,
         guardVars, runVars, readVars, flagVars
<1>1. CASE GuardStep
  BY <1>1 DEF GuardStep, Interrupted, AcceptInput, Fail
<1>2. CASE McpSearches
  BY <1>2 DEF McpSearches, McpActivate, OpenSearch, ClickSearch, TypeName, EnterName,
              VerifyTarget
<1>3. CASE McpReads
  BY <1>3 DEF McpReads, McpReadInput, McpRenderedInput, McpFocus, McpCopy, McpDraft
<1>4. CASE McpWrites
  BY <1>4 DEF McpWrites, PasteText, PasteImage, Paste, McpSend
<1>5. CASE UiaOpens
  BY <1>5 DEF UiaOpens, UiaActivate, OpenChat, SelectSession, Query, OpenQuery,
              ChatOpened, ChatIsOpen, ChatIsTarget
<1>6. CASE UiaWrites
  BY <1>6 DEF UiaWrites, ReadInput, Write, ReadBack, UiaSend
<1>7. CASE UiaQuotes
  BY <1>7 DEF UiaQuotes, OldBanner, Scroll, NotFound, SelectQuote, QuoteBanner, Attach
<1>8. CASE RunEnds
  BY <1>8 DEF RunEnds, Sent, Cleanup, Retry, FallBack, Answer
<1>9. CASE UserStep
  BY <1>9 DEF UserStep, UserTypes, UserClicks, UserActs
<1>. QED  BY <1>1, <1>2, <1>3, <1>4, <1>5, <1>6, <1>7, <1>8, <1>9, Steps

\* What the kinds of request post.
LEMMA PayloadFacts ==
    /\ Payload["text"] = {"text"} /\ Payload["quote"] = {"text"}
    /\ Payload["image"] = {"image"} /\ Payload["quotedImage"] = {"image"}
    /\ Payload["both"] = {"text", "image"}
BY DEF Payload, Kinds

\* How a run ends, from the error it ended with.
LEMMA NextOutcome ==
    /\ error' = "none" => Outcome' = "ok"
    /\ error' = "unknown" => Outcome' = "unknown"
    /\ error' = "interrupted" /\ driver' = "mcp" /\ triggered' => Outcome' = "unknown"
<1>1. ASSUME error' = "none" PROVE Outcome' = "ok"
  BY <1>1 DEF Outcome
<1>2. ASSUME error' = "unknown" PROVE Outcome' = "unknown"
  BY <1>2 DEF Outcome
<1>3. ASSUME error' = "interrupted", driver' = "mcp", triggered'
      PROVE  Outcome' = "unknown"
  BY <1>3 DEF Outcome
<1>. QED  BY <1>1, <1>2, <1>3

\* What the driver takes the draft for is the draft, unless it misreads it.
LEMMA ReadsFacts ==
    ASSUME NEW content, Reads(content)
    PROVE  /\ seen' = content /\ misread' \in BOOLEAN
           /\ ~misread' => content = draft[chat]
BY Zenon DEF Reads

\* The Enter key changes the window within its types.
LEMMA EnterTyped ==
    ASSUME ForegroundTypeOK, Enter \/ UNCHANGED windowVars
    PROVE  /\ draft' \in [Chats -> SUBSET Items]
           /\ banner' \in [Chats -> {"none", "user", "driver"}]
           /\ posts' \in Seq([chat : Chats, items : SUBSET Items,
                             banner : {"none", "user", "driver"}])
           /\ chat' \in Chats /\ focus' \in {"search", "input"}
<1>1. CASE UNCHANGED windowVars
  BY <1>1 DEF ForegroundTypeOK, windowVars
<1>2. CASE Enter /\ ~(focus = "input" /\ draft[chat] # {})
  BY <1>2 DEF Enter, ForegroundTypeOK, windowVars
<1>3. CASE Enter /\ focus = "input" /\ draft[chat] # {}
  <2>1. [chat |-> chat, items |-> draft[chat], banner |-> banner[chat]]
           \in [chat : Chats, items : SUBSET Items, banner : {"none", "user", "driver"}]
    BY DEF ForegroundTypeOK
  <2>2. /\ draft' \in [Chats -> SUBSET Items]
        /\ banner' \in [Chats -> {"none", "user", "driver"}]
    BY <1>3 DEF Enter, ForegroundTypeOK
  <2>3. posts' = Append(posts, [chat |-> chat, items |-> draft[chat],
                                banner |-> banner[chat]])
        /\ UNCHANGED <<chat, focus>>
    BY <1>3 DEF Enter
  <2>. QED  BY <2>1, <2>2, <2>3 DEF ForegroundTypeOK
<1>. QED  BY <1>1, <1>2, <1>3

\* Every variable keeps its type.
LEMMA TypesKept ==
    ASSUME ForegroundTypeOK, GuardOK, DriverOK, ForegroundNext
    PROVE  ForegroundTypeOK'
<1>. USE ForegroundAssumption
     DEF ForegroundTypeOK, GuardOK, DriverOK, Ending, Errors, Checked, Quotes,
         Kinds, Chats, Items, At, Goto, Raise, Input, Key, Click, Message,
         guardVars, runVars, readVars, flagVars, windowVars, Type, Enter, OpenResult, Outcome
<1>1. CASE Interrupted
  BY <1>1 DEF Interrupted
<1>2. CASE AcceptInput
  <2>1. {acted', mistaken', blind', misread', retried', wrote', selected', triggered'}
           \subseteq BOOLEAN
    BY <1>2, Zenon DEF AcceptInput
  <2>2. CASE "cursor" \in touched /\ accepts = "plain"
    BY <1>2, <2>1, <2>2 DEF AcceptInput
  <2>3. CASE ~("cursor" \in touched /\ accepts = "plain")
    BY <1>2, <2>1, <2>3 DEF AcceptInput
  <2>. QED  BY <2>2, <2>3
<1>3. CASE Fail
  BY <1>3 DEF Fail
<1>4. CASE McpActivate
  BY <1>4 DEF McpActivate
<1>5. CASE OpenSearch
  BY <1>5 DEF OpenSearch
<1>6. CASE ClickSearch
  BY <1>6 DEF ClickSearch
<1>7. CASE TypeName
  BY <1>7 DEF TypeName
<1>8. CASE EnterName
  <2>1. {acted', mistaken', blind', misread', retried', wrote', selected', triggered'}
           \subseteq BOOLEAN
    BY <1>8, Zenon DEF EnterName
  <2>2. CASE focus = "search"
    <3>. HIDE DEF Enter
    <3>. QED  BY <1>8, <2>1, <2>2 DEF EnterName
  <2>3. CASE focus # "search"
    <3>1. Enter
      BY <1>8, <2>3 DEF EnterName
    <3>2. /\ draft' \in [Chats -> SUBSET Items]
          /\ banner' \in [Chats -> {"none", "user", "driver"}]
          /\ posts' \in Seq([chat : Chats, items : SUBSET Items,
                            banner : {"none", "user", "driver"}])
          /\ chat' \in Chats /\ focus' \in {"search", "input"}
      BY <3>1, EnterTyped
    <3>. HIDE DEF Enter
    <3>. QED  BY <1>8, <2>1, <2>3, <3>2 DEF EnterName
  <2>. QED  BY <2>2, <2>3
<1>9. CASE VerifyTarget
  <2>1. {acted', mistaken', blind', misread', retried', wrote', selected', triggered'}
           \subseteq BOOLEAN
    BY <1>9, Zenon DEF VerifyTarget
  <2>. QED  BY <1>9, <2>1 DEF VerifyTarget
<1>10. CASE McpReads
  <2>1. CASE McpReadInput
    <3>1. PICK value \in {draft[chat], {}} : Reads(value)
      BY <2>1 DEF McpReadInput
    <3>2. seen' = value /\ misread' \in BOOLEAN
      BY <3>1, ReadsFacts, Zenon
    <3>3. seen' \subseteq Items
      BY <3>1, <3>2
    <3>4. \/ Raise("busy") /\ UNCHANGED <<focus, guardVars>>
          \/ focus' = "input" /\ Click /\ Goto("draft")
      BY <2>1 DEF McpReadInput
    <3>5. /\ UNCHANGED <<chat, draft, banner, posts, kind, driver, left, flagVars, retried, blind>>
          /\ step = "find_input"
      BY <2>1 DEF McpReadInput
    <3>6. {acted', mistaken', blind', misread', retried', wrote', selected', triggered'}
             \subseteq BOOLEAN
      BY <3>2, <3>4, <3>5
    <3>. QED  BY <3>3, <3>4, <3>5, <3>6
  <2>2. CASE McpCopy
    <3>1. PICK copied \in SUBSET (IF focus = "input" THEN draft[chat] ELSE {}) : Reads(copied)
      BY <2>2 DEF McpCopy
    <3>2. seen' = copied /\ misread' \in BOOLEAN
      BY <3>1, ReadsFacts, Zenon
    <3>3. seen' \subseteq Items
      BY <3>1, <3>2
    <3>. QED  BY <2>2, <3>2, <3>3 DEF McpCopy
  <2>3. CASE McpRenderedInput \/ McpFocus \/ McpDraft
    BY <2>3 DEF McpRenderedInput, McpFocus, McpDraft
  <2>. QED  BY <1>10, <2>1, <2>2, <2>3 DEF McpReads
<1>11. CASE PasteText
  BY <1>11 DEF PasteText, Paste
<1>12. CASE PasteImage
  BY <1>12 DEF PasteImage, Paste
<1>13. CASE McpSend
  <2>1. {acted', mistaken', blind', misread', retried', wrote', selected', triggered'}
           \subseteq BOOLEAN
    BY <1>13, SMTT(20) DEF McpSend
  <2>2. Enter \/ UNCHANGED windowVars
    BY <1>13 DEF McpSend
  <2>3. /\ draft' \in [Chats -> SUBSET Items]
        /\ banner' \in [Chats -> {"none", "user", "driver"}]
        /\ posts' \in Seq([chat : Chats, items : SUBSET Items,
                          banner : {"none", "user", "driver"}])
        /\ chat' \in Chats /\ focus' \in {"search", "input"}
    BY <2>2, EnterTyped
  <2>. HIDE DEF Enter
  <2>. QED  BY <1>13, <2>1, <2>3 DEF McpSend
<1>14. CASE UiaActivate
  BY <1>14 DEF UiaActivate
<1>15. CASE OpenChat
  BY <1>15 DEF OpenChat, ChatIsOpen
<1>16. CASE SelectSession
  BY <1>16 DEF SelectSession
<1>17. CASE Query
  BY <1>17 DEF Query
<1>18. CASE OpenQuery
  BY <1>18 DEF OpenQuery
<1>19. CASE ChatOpened
  BY <1>19 DEF ChatOpened, ChatIsOpen, ChatIsTarget
<1>20. CASE ReadInput
  <2>1. seen' \subseteq Items /\ misread' \in BOOLEAN
    BY <1>20, ReadsFacts DEF ReadInput
  <2>. QED  BY <1>20, <2>1 DEF ReadInput
<1>21. CASE Write
  <2>1. {acted', mistaken', blind', misread', retried', wrote', selected', triggered'}
           \subseteq BOOLEAN
    BY <1>21, Zenon DEF Write
  <2>. QED  BY <1>21, <2>1 DEF Write
<1>22. CASE ReadBack
  BY <1>22 DEF ReadBack
<1>23. CASE UiaSend
  <2>1. {acted', mistaken', blind', misread', retried', wrote', selected', triggered'}
           \subseteq BOOLEAN
    BY <1>23, Zenon DEF UiaSend
  <2>2. Enter \/ UNCHANGED windowVars
    BY <1>23 DEF UiaSend
  <2>3. /\ draft' \in [Chats -> SUBSET Items]
        /\ banner' \in [Chats -> {"none", "user", "driver"}]
        /\ posts' \in Seq([chat : Chats, items : SUBSET Items,
                          banner : {"none", "user", "driver"}])
        /\ chat' \in Chats /\ focus' \in {"search", "input"}
    BY <2>2, EnterTyped
  <2>. HIDE DEF Enter
  <2>. QED  BY <1>23, <2>1, <2>3 DEF UiaSend
<1>24. CASE OldBanner
  <2>1. {acted', mistaken', blind', misread', retried', wrote', selected', triggered'}
           \subseteq BOOLEAN
    BY <1>24, Zenon DEF OldBanner
  <2>. QED  BY <1>24, <2>1, ZenonT(30) DEF OldBanner
<1>25. CASE Scroll
  BY <1>25 DEF Scroll
<1>26. CASE NotFound
  BY <1>26 DEF NotFound
<1>27. CASE SelectQuote
  BY <1>27 DEF SelectQuote
<1>28. CASE QuoteBanner
  BY <1>28 DEF QuoteBanner
<1>29. CASE Attach
  BY <1>29 DEF Attach
<1>30. CASE Sent
  BY <1>30 DEF Sent
<1>31. CASE Cleanup
  BY <1>31 DEF Cleanup, TakesBack, Dismisses
<1>32. CASE Retry
  BY <1>32 DEF Retry
<1>33. CASE FallBack
  <2>1. {acted', mistaken', blind', misread', retried', wrote', selected', triggered'}
           \subseteq BOOLEAN
    BY <1>33, Zenon DEF FallBack
  <2>. QED  BY <1>33, <2>1 DEF FallBack
<1>34. CASE Answer
  BY <1>34 DEF Answer
<1>35. CASE UserTypes
  BY <1>35 DEF UserTypes, UserActs
<1>36. CASE UserClicks
  BY <1>36 DEF UserClicks, UserActs
<1>. QED
  BY <1>1, <1>2, <1>3, <1>4, <1>5, <1>6, <1>7, <1>8, <1>9, <1>10, <1>11, <1>12,
     <1>13, <1>14, <1>15, <1>16, <1>17, <1>18, <1>19, <1>20, <1>21, <1>22, <1>23,
     <1>24, <1>25, <1>26, <1>27, <1>28, <1>29, <1>30, <1>31, <1>32, <1>33, <1>34,
     <1>35, <1>36, Steps
  DEF GuardStep, McpSearches, McpWrites, UiaOpens, UiaWrites, UiaQuotes, RunEnds, UserStep

\* A run that has made the send action goes to its end.
LEMMA TriggerKept ==
    ASSUME ForegroundTypeOK, GuardOK, DriverOK, TriggerOK, ForegroundNext
    PROVE  TriggerOK'
<1>. USE DEF ForegroundTypeOK, GuardOK, DriverOK, TriggerOK, Ending, Errors,
         Checked, Quotes,
         At, Goto, Raise, Input, Key, Click, Message,
         guardVars, runVars, readVars, flagVars, windowVars, Outcome, TakesOver
<1>1. CASE Interrupted
  BY <1>1 DEF Interrupted
<1>2. CASE AcceptInput
  BY <1>2, NextOutcome DEF AcceptInput
<1>3. CASE Fail
  BY <1>3, NextOutcome DEF Fail
<1>4. CASE McpSearches
  BY <1>4 DEF McpSearches, McpActivate, OpenSearch, ClickSearch, TypeName, EnterName,
             VerifyTarget
<1>5. CASE McpReads
  BY <1>5 DEF McpReads, McpReadInput, McpRenderedInput, McpFocus, McpCopy, McpDraft
<1>6. CASE McpWrites
  BY <1>6 DEF McpWrites, PasteText, PasteImage, Paste, McpSend
<1>7. CASE UiaOpens
  BY <1>7 DEF UiaOpens, UiaActivate, OpenChat, SelectSession, Query, OpenQuery,
             ChatOpened, ChatIsOpen, ChatIsTarget
<1>8. CASE ReadInput
  BY <1>8 DEF ReadInput
<1>9. CASE Write
  BY <1>9 DEF Write
<1>10. CASE ReadBack
  BY <1>10 DEF ReadBack
<1>11. CASE UiaSend
  BY <1>11, NextOutcome DEF UiaSend
<1>12. CASE UiaQuotes
  BY <1>12 DEF UiaQuotes, OldBanner, Scroll, NotFound, SelectQuote, QuoteBanner,
              Attach
<1>13. CASE Sent
  BY <1>13, NextOutcome DEF Sent
<1>14. CASE Cleanup
  BY <1>14 DEF Cleanup, TakesBack, Dismisses
<1>15. CASE Retry
  BY <1>15 DEF Retry
<1>16. CASE FallBack
  BY <1>16 DEF FallBack
<1>17. CASE Answer
  BY <1>17 DEF Answer
<1>18. CASE UserStep
  BY <1>18 DEF UserStep, UserTypes, UserClicks, UserActs
<1>. QED
  BY <1>1, <1>2, <1>3, <1>4, <1>5, <1>6, <1>7, <1>8, <1>9, <1>10, <1>11, <1>12,
     <1>13, <1>14, <1>15, <1>16, <1>17, <1>18, Steps
  DEF GuardStep, UiaWrites, RunEnds

\* Until the user acts, the composer holds what the step says.
LEMMA ComposerKept ==
    ASSUME ForegroundTypeOK, GuardOK, DriverOK,
           Alone => InFront /\ Composer, Alone', ForegroundNext
    PROVE  Composer'
<1>. USE PayloadFacts
     DEF ForegroundTypeOK, GuardOK, DriverOK, Alone, InFront, Composer, Checked, Quotes,
         Kinds, Chats, Items, At, Goto, Raise, Input, Key, Click, Message,
         guardVars, runVars, readVars, flagVars, windowVars, Type, Enter, OpenResult, MustStop
<1>1. CASE GuardStep
  BY <1>1 DEF GuardStep, Interrupted, AcceptInput, Fail
<1>2. CASE McpSearches
  BY <1>2 DEF McpSearches, McpActivate, OpenSearch, ClickSearch, TypeName, EnterName,
             VerifyTarget
<1>3. CASE McpReads
  <2>1. CASE McpReadInput
    <3>1. PICK value \in {draft[chat], {}} : Reads(value)
      BY <2>1 DEF McpReadInput
    <3>2. seen' = value /\ (~misread' => value = draft[chat])
      BY <3>1, ReadsFacts, Zenon
    <3>3. seen' \subseteq draft[chat] /\ (~misread' => seen' = draft[chat])
      BY <3>1, <3>2
    <3>. QED  BY <2>1, <3>3 DEF McpReadInput
  <2>2. CASE McpCopy
    <3>1. PICK copied \in SUBSET (IF focus = "input" THEN draft[chat] ELSE {}) : Reads(copied)
      BY <2>2 DEF McpCopy
    <3>2. seen' = copied /\ (~misread' => copied = draft[chat])
      BY <3>1, ReadsFacts, Zenon
    <3>3. seen' \subseteq draft[chat] /\ (~misread' => seen' = draft[chat])
      BY <3>1, <3>2
    <3>. QED  BY <2>2, <3>3 DEF McpCopy
  <2>3. CASE McpRenderedInput \/ McpFocus
    BY <2>3 DEF McpRenderedInput, McpFocus
  <2>4. CASE McpDraft
    <3>1. CASE MustStop(seen)
      BY <2>4, <3>1 DEF McpDraft
    <3>2. CASE ~MustStop(seen) /\ seen = {}
      BY <2>4, <3>2 DEF McpDraft
    <3>3. CASE ~MustStop(seen) /\ seen # {}
      <4>1. seen = {"text"} /\ kind = "text" /\ Payload[kind] = seen
        BY <2>4, <3>3 DEF McpDraft
      <4>. QED  BY <2>4, <3>3, <4>1 DEF McpDraft
    <3>. QED  BY <3>1, <3>2, <3>3
  <2>. QED  BY <1>3, <2>1, <2>2, <2>3, <2>4 DEF McpReads
<1>4. CASE PasteText
  <2>1. /\ Alone /\ focus = "input" /\ kind \in {"text", "both"}
        /\ ~misread => draft[chat] = {}
    BY <1>4 DEF PasteText
  <2>2. /\ UNCHANGED <<chat, focus, kind, driver, misread>>
        /\ {"text"} \subseteq draft'[chat] /\ draft'[chat] \subseteq draft[chat] \cup {"text"}
    BY <1>4, <2>1 DEF PasteText, Paste
  <2>3. ~misread => draft'[chat] = {"text"}
    BY <2>1, <2>2
  <2>4. step' = IF kind = "both" THEN "paste_image" ELSE "send"
    BY <1>4 DEF PasteText
  <2>5. Payload["both"] \ {"image"} = {"text"}
    OBVIOUS
  <2>. QED  BY <2>1, <2>2, <2>3, <2>4, <2>5
<1>5. CASE PasteImage
  <2>1. /\ Alone /\ focus = "input" /\ kind \in {"image", "both"} /\ step' = "send"
        /\ Payload[kind] \ {"image"} \subseteq draft[chat]
        /\ ~misread => draft[chat] = Payload[kind] \ {"image"}
    BY <1>5 DEF PasteImage
  <2>2. /\ UNCHANGED <<chat, focus, kind, driver, misread>>
        /\ \/ draft'[chat] = draft[chat] \cup {"image"}
           \/ kind = "image" /\ draft'[chat] = {"image"}
    BY <1>5, <2>1 DEF PasteImage, Paste
  <2>3. Payload[kind] \subseteq draft'[chat]
    BY <2>1, <2>2
  <2>4. ~misread => draft'[chat] = Payload[kind]
    BY <2>1, <2>2, ZenonT(30)
  <2>. QED  BY <2>1, <2>2, <2>3, <2>4
<1>6. CASE McpSend
  BY <1>6 DEF McpSend
<1>7. CASE UiaOpens
  BY <1>7 DEF UiaOpens, UiaActivate, OpenChat, SelectSession, Query, OpenQuery,
             ChatOpened, ChatIsOpen, ChatIsTarget
<1>8. CASE ReadInput
  <2>1. seen' = draft[chat]
    BY <1>8, ReadsFacts DEF ReadInput
  <2>. QED  BY <1>8, <2>1 DEF ReadInput
<1>9. CASE Write
  <2>1. CASE seen # {} /\ kind # "quotedImage"
    <3>1. kind = "text" /\ seen = draft[chat] /\ seen \subseteq {"text"}
      BY <1>9, <2>1 DEF Write
    <3>2. draft[chat] = {"text"}
      BY <2>1, <3>1
    <3>. QED  BY <1>9, <2>1, <3>1, <3>2 DEF Write
  <2>2. CASE kind = "quotedImage"
    BY <1>9, <2>2 DEF Write
  <2>3. CASE seen = {} /\ kind # "quotedImage"
    <3>1. kind \in {"text", "quote"} /\ draft'[chat'] = {"text"}
      BY <1>9, <2>3 DEF Write
    <3>2. draft'[chat'] = Payload[kind']
      BY <1>9, <3>1 DEF Write
    <3>. QED  BY <1>9, <2>3, <3>1, <3>2 DEF Write
  <2>. QED  BY <2>1, <2>2, <2>3
<1>10. CASE ReadBack
  BY <1>10 DEF ReadBack
<1>11. CASE UiaSend
  BY <1>11 DEF UiaSend
<1>12. CASE OldBanner
  BY <1>12 DEF OldBanner
<1>13. CASE Scroll
  BY <1>13 DEF Scroll
<1>14. CASE NotFound
  BY <1>14 DEF NotFound
<1>15. CASE SelectQuote
  BY <1>15 DEF SelectQuote
<1>16. CASE QuoteBanner
  BY <1>16 DEF QuoteBanner
<1>17. CASE Attach
  BY <1>17 DEF Attach
<1>18. CASE RunEnds
  BY <1>18 DEF RunEnds, Sent, Cleanup, Retry, FallBack, Answer, TakesBack, Dismisses
<1>19. CASE UserStep
  BY <1>19 DEF UserStep, UserTypes, UserClicks, UserActs
<1>. QED
  BY <1>1, <1>2, <1>3, <1>4, <1>5, <1>6, <1>7, <1>8, <1>9, <1>10, <1>11, <1>12,
     <1>13, <1>14, <1>15, <1>16, <1>17, <1>18, <1>19, Steps
  DEF McpWrites, UiaWrites, UiaQuotes

\* The Enter that sends posts what the composer of the right chat holds.
LEMMA EnterPosts ==
    ASSUME ForegroundTypeOK, Enter \/ UNCHANGED windowVars, posts = <<>>,
           kind' = kind, blind' = blind, misread' = misread, triggered',
           chat = "target" \/ blind, Payload[kind] \subseteq draft[chat],
           ~misread => draft[chat] = Payload[kind],
           kind \in Quotes => chat = "target" /\ banner[chat] = "driver"
    PROVE  PostOK'
<1>1. CASE posts' = <<>>
  BY <1>1 DEF PostOK, OnlyThePayload
<1>2. CASE posts' # <<>>
  <2>1. posts' = Append(posts, [chat |-> chat, items |-> draft[chat], banner |-> banner[chat]])
    BY <1>2 DEF Enter, windowVars
  <2>2. /\ Len(posts') = 1
        /\ posts'[1] = [chat |-> chat, items |-> draft[chat], banner |-> banner[chat]]
    BY <2>1 DEF ForegroundTypeOK
  <2>3. ASSUME NEW i \in DOMAIN posts' PROVE i = 1
    BY <2>1, <2>2 DEF ForegroundTypeOK
  <2>. QED  BY <2>2, <2>3 DEF PostOK, OnlyThePayload
<1>. QED  BY <1>1, <1>2

\* Until the user acts, the steps behind the opening of the chat are in it.
LEMMA FrontKept ==
    ASSUME ForegroundTypeOK, GuardOK, DriverOK, Alone => InFront, Alone', ForegroundNext
    PROVE  InFront'
<1>. USE DEF ForegroundTypeOK, GuardOK, DriverOK, Alone, InFront, Checked, Quotes,
         Kinds, Chats, Ending, At, Goto, Raise, Input, Key, Click, Message,
         guardVars, runVars, readVars, flagVars, windowVars, Type, Enter, OpenResult
<1>1. CASE GuardStep
  BY <1>1 DEF GuardStep, Interrupted, AcceptInput, Fail
<1>2. CASE McpSearches
  BY <1>2 DEF McpSearches, McpActivate, OpenSearch, ClickSearch, TypeName, EnterName,
              VerifyTarget
<1>3. CASE McpReads
  BY <1>3 DEF McpReads, McpReadInput, McpRenderedInput, McpFocus, McpCopy, McpDraft
<1>4. CASE McpWrites
  BY <1>4 DEF McpWrites, PasteText, PasteImage, Paste, McpSend
<1>5. CASE UiaOpens
  BY <1>5 DEF UiaOpens, UiaActivate, OpenChat, SelectSession, Query, OpenQuery,
              ChatOpened, ChatIsOpen, ChatIsTarget
<1>6. CASE UiaWrites
  BY <1>6 DEF UiaWrites, ReadInput, Write, ReadBack, UiaSend
<1>7. CASE UiaQuotes
  BY <1>7 DEF UiaQuotes, OldBanner, Scroll, NotFound, SelectQuote, QuoteBanner, Attach
<1>8. CASE RunEnds
  BY <1>8 DEF RunEnds, Sent, Cleanup, Retry, FallBack, Answer
<1>9. CASE UserStep
  BY <1>9 DEF UserStep, UserTypes, UserClicks, UserActs
<1>. QED  BY <1>1, <1>2, <1>3, <1>4, <1>5, <1>6, <1>7, <1>8, <1>9, Steps

\* Until the user acts, the banner of a quote is the driver's or none.
LEMMA QuoteKept ==
    ASSUME ForegroundTypeOK, GuardOK, DriverOK, TriggerOK,
           Alone => InFront /\ Composer /\ QuoteOK, Alone', ForegroundNext
    PROVE  QuoteOK'
<1>. USE PayloadFacts
     DEF ForegroundTypeOK, GuardOK, DriverOK, TriggerOK, Alone, InFront, Composer,
         QuoteOK, Checked, Ending, Quotes, Kinds, Chats, Items, At, Goto, Raise, Input, Key, Click, Message,
         guardVars, runVars, readVars, flagVars, windowVars, Type, Enter, OpenResult
<1>1. CASE GuardStep
  BY <1>1 DEF GuardStep, Interrupted, AcceptInput, Fail
<1>2. CASE McpSearches
  BY <1>2 DEF McpSearches, McpActivate, OpenSearch, ClickSearch, TypeName, EnterName,
             VerifyTarget
<1>3. CASE McpReads
  BY <1>3 DEF McpReads, McpReadInput, McpRenderedInput, McpFocus, McpCopy, McpDraft
<1>4. CASE McpWrites
  BY <1>4 DEF McpWrites, PasteText, PasteImage, Paste, McpSend
<1>5. CASE UiaOpens
  BY <1>5 DEF UiaOpens, UiaActivate, OpenChat, SelectSession, Query, OpenQuery,
             ChatOpened, ChatIsOpen, ChatIsTarget
<1>6. CASE UiaWrites
  BY <1>6 DEF UiaWrites, ReadInput, Write, ReadBack, UiaSend
<1>7. CASE UiaQuotes
  BY <1>7 DEF UiaQuotes, OldBanner, Scroll, NotFound, SelectQuote, QuoteBanner,
             Attach
<1>8. CASE RunEnds
  BY <1>8 DEF RunEnds, Sent, Cleanup, Retry, FallBack, Answer, TakesBack, Dismisses
<1>9. CASE UserStep
  BY <1>9 DEF UserStep, UserTypes, UserClicks, UserActs
<1>. QED
  BY <1>1, <1>2, <1>3, <1>4, <1>5, <1>6, <1>7, <1>8, <1>9, Steps

\* Only the send action posts, and it posts the payload once.
LEMMA PostKept ==
    ASSUME ForegroundTypeOK, GuardOK, DriverOK, TriggerOK,
           Alone => InFront /\ Composer /\ QuoteOK, ~mistaken => PostOK, ~mistaken', ForegroundNext
    PROVE  PostOK'
<1>. USE DEF ForegroundTypeOK, GuardOK, TriggerOK, PostOK, OnlyThePayload, Checked, Ending,
         At, Goto, Raise, Input, Key, Click, Message,
         guardVars, runVars, readVars, flagVars, windowVars, Type
<1>1. CASE GuardStep
  BY <1>1 DEF GuardStep, Interrupted, AcceptInput, Fail
<1>2. CASE McpActivate
  BY <1>2 DEF McpActivate
<1>3. CASE OpenSearch
  BY <1>3 DEF OpenSearch
<1>4. CASE ClickSearch
  BY <1>4 DEF ClickSearch
<1>5. CASE TypeName
  BY <1>5 DEF TypeName
<1>6. CASE EnterName
  <2>1. focus = "search"
    BY <1>6 DEF EnterName, Alone, Composer
  <2>. QED  BY <1>6, <2>1 DEF EnterName, OpenResult
<1>7. CASE VerifyTarget
  BY <1>7 DEF VerifyTarget
<1>8. CASE McpReads
  BY <1>8 DEF McpReads, McpReadInput, McpRenderedInput, McpFocus, McpCopy, McpDraft
<1>9. CASE PasteText
  BY <1>9 DEF PasteText, Paste
<1>10. CASE PasteImage
  BY <1>10 DEF PasteImage, Paste
<1>11. CASE McpSend
  <2>1. posts = <<>> /\ triggered' /\ kind' = kind /\ blind' = blind /\ misread' = misread
    BY <1>11 DEF McpSend
  <2>2. ~mistaken /\ ~acted
    <3>1. touched = {} /\ mistaken' = mistaken
      BY <1>11 DEF McpSend
    <3>. QED  BY <3>1
  <2>3. /\ chat = "target" \/ blind
        /\ Payload[kind] \subseteq draft[chat]
        /\ ~misread => draft[chat] = Payload[kind]
        /\ kind \in Quotes => chat = "target" /\ banner[chat] = "driver"
    BY <1>11, <2>2 DEF McpSend, Alone, InFront, Composer, QuoteOK, Quotes, DriverOK
  <2>4. Enter \/ UNCHANGED windowVars
    BY <1>11 DEF McpSend
  <2>. QED  BY <2>1, <2>3, <2>4, EnterPosts
<1>12. CASE UiaOpens
  BY <1>12 DEF UiaOpens, UiaActivate, OpenChat, SelectSession, Query, OpenQuery,
              ChatOpened, ChatIsOpen, ChatIsTarget
<1>13. CASE ReadInput
  BY <1>13 DEF ReadInput
<1>14. CASE Write
  BY <1>14 DEF Write
<1>15. CASE ReadBack
  BY <1>15 DEF ReadBack
<1>16. CASE UiaSend
  <2>1. posts = <<>> /\ triggered' /\ kind' = kind /\ blind' = blind /\ misread' = misread
    BY <1>16 DEF UiaSend
  <2>2. ~mistaken /\ ~acted
    <3>1. touched = {} /\ mistaken' = mistaken
      BY <1>16 DEF UiaSend
    <3>. QED  BY <3>1
  <2>3. /\ chat = "target" \/ blind
        /\ Payload[kind] \subseteq draft[chat]
        /\ ~misread => draft[chat] = Payload[kind]
        /\ kind \in Quotes => chat = "target" /\ banner[chat] = "driver"
    BY <1>16, <2>2 DEF UiaSend, Alone, InFront, Composer, QuoteOK, Quotes, DriverOK
  <2>4. Enter \/ UNCHANGED windowVars
    BY <1>16 DEF UiaSend
  <2>. QED  BY <2>1, <2>3, <2>4, EnterPosts
<1>17. CASE UiaQuotes
  BY <1>17 DEF UiaQuotes, OldBanner, Scroll, NotFound, SelectQuote, QuoteBanner,
              Attach
<1>18. CASE Sent
  BY <1>18 DEF Sent
<1>19. CASE Cleanup
  BY <1>19 DEF Cleanup, TakesBack, Dismisses
<1>20. CASE Retry
  BY <1>20 DEF Retry
<1>21. CASE FallBack
  <2>1. ~triggered /\ UNCHANGED <<posts, kind, blind, misread, mistaken>>
    BY <1>21 DEF FallBack, TakesOver, windowVars
  <2>. QED  BY <1>21, <2>1 DEF FallBack
<1>22. CASE Answer
  BY <1>22 DEF Answer
<1>23. CASE UserStep
  BY <1>23 DEF UserStep, UserTypes, UserClicks, UserActs
<1>. QED
  BY <1>1, <1>2, <1>3, <1>4, <1>5, <1>6, <1>7, <1>8, <1>9, <1>10, <1>11, <1>12,
     <1>13, <1>14, <1>15, <1>16, <1>17, <1>18, <1>19, <1>20, <1>21, <1>22, <1>23,
     Steps
  DEF McpSearches, McpWrites, UiaWrites, RunEnds

\* The answer that a quote was not made leaves nothing of it behind.
LEMMA NothingLeft ==
    ASSUME ForegroundTypeOK, GuardOK, TriggerOK,
           Alone => QuoteOK, ~mistaken => NothingLeftBehind, ~mistaken', ForegroundNext
    PROVE  NothingLeftBehind'
<1>. USE DEF ForegroundTypeOK, GuardOK, Ending, NothingLeftBehind, Alone,
         At, Goto, Raise, Input, Key, Click, Message,
         guardVars, runVars, readVars, flagVars, windowVars
<1>1. CASE GuardStep
  BY <1>1 DEF GuardStep, Interrupted, AcceptInput, Fail
<1>2. CASE McpSearches
  BY <1>2 DEF McpSearches, McpActivate, OpenSearch, ClickSearch, TypeName, EnterName,
             VerifyTarget
<1>3. CASE McpReads
  BY <1>3 DEF McpReads, McpReadInput, McpRenderedInput, McpFocus, McpCopy, McpDraft
<1>4. CASE McpWrites
  BY <1>4 DEF McpWrites, PasteText, PasteImage, Paste, McpSend
<1>5. CASE UiaOpens
  BY <1>5 DEF UiaOpens, UiaActivate, OpenChat, SelectSession, Query, OpenQuery,
             ChatOpened, ChatIsOpen, ChatIsTarget
<1>6. CASE UiaWrites
  BY <1>6 DEF UiaWrites, ReadInput, Write, ReadBack, UiaSend
<1>7. CASE UiaQuotes
  BY <1>7 DEF UiaQuotes, OldBanner, Scroll, NotFound, SelectQuote, QuoteBanner,
             Attach
<1>8. CASE Sent
  BY <1>8 DEF Sent
<1>9. CASE Cleanup
  BY <1>9 DEF Cleanup, TakesBack, Dismisses
<1>10. CASE Retry
  BY <1>10 DEF Retry
<1>11. CASE FallBack
  BY <1>11 DEF FallBack
<1>12. CASE Answer
  <2>1. SUFFICES ASSUME result' = "quote_unavailable", ~acted', ~mistaken'
                  PROVE  \A c \in Chats : banner'[c] # "driver" /\ "image" \notin draft'[c]
    OBVIOUS
  <2>2. Alone /\ step = "handle" /\ Outcome = "quote_unavailable"
    BY <1>12, <2>1 DEF Answer
  <2>3. kind \in Quotes /\ ~wrote /\ ~triggered /\ error # "unknown"
    BY <2>2 DEF Outcome, TriggerOK, Errors
  <2>. QED  BY <1>12, <2>2, <2>3 DEF Answer, QuoteOK
<1>13. CASE UserStep
  BY <1>13 DEF UserStep, UserTypes, UserClicks, UserActs
<1>. QED
  BY <1>1, <1>2, <1>3, <1>4, <1>5, <1>6, <1>7, <1>8, <1>9, <1>10, <1>11, <1>12,
     <1>13, Steps
  DEF RunEnds

\* What the user did is not undone, it can only be mistaken for the driver's.
LEMMA UntouchedBefore ==
    ASSUME ForegroundTypeOK, ForegroundNext
    PROVE  (Alone' => Alone) /\ (~mistaken' => ~mistaken)
<1>. USE DEF ForegroundTypeOK, Alone, At, Goto, Raise, Input, Key, Click, Message, guardVars
<1>1. CASE GuardStep
  BY <1>1 DEF GuardStep, Interrupted, AcceptInput, Fail
<1>2. CASE McpSearches
  BY <1>2 DEF McpSearches, McpActivate, OpenSearch, ClickSearch, TypeName, EnterName,
              VerifyTarget
<1>3. CASE McpReads
  BY <1>3 DEF McpReads, McpReadInput, McpRenderedInput, McpFocus, McpCopy, McpDraft
<1>4. CASE McpWrites
  BY <1>4 DEF McpWrites, PasteText, PasteImage, Paste, McpSend
<1>5. CASE UiaOpens
  BY <1>5 DEF UiaOpens, UiaActivate, OpenChat, SelectSession, Query, OpenQuery,
              ChatOpened, ChatIsOpen, ChatIsTarget
<1>6. CASE UiaWrites
  BY <1>6 DEF UiaWrites, ReadInput, Write, ReadBack, UiaSend
<1>7. CASE UiaQuotes
  BY <1>7 DEF UiaQuotes, OldBanner, Scroll, NotFound, SelectQuote, QuoteBanner, Attach
<1>8. CASE RunEnds
  BY <1>8 DEF RunEnds, Sent, Cleanup, Retry, FallBack, Answer
<1>9. CASE UserStep
  BY <1>9 DEF UserStep, UserTypes, UserClicks, UserActs
<1>. QED  BY <1>1, <1>2, <1>3, <1>4, <1>5, <1>6, <1>7, <1>8, <1>9, Steps

\* A step keeps the invariant.
LEMMA ForegroundStepOK ==
    ASSUME ForegroundIInv, [ForegroundNext]_foregroundVars
    PROVE  ForegroundIInv'
<1>1. CASE ForegroundNext
  <2>1. ForegroundTypeOK' /\ GuardOK' /\ DriverOK' /\ TriggerOK'
    BY <1>1, TypesKept, GuardKept, DriverKept, TriggerKept DEF ForegroundIInv
  <2>2. (Alone' => Alone) /\ (~mistaken' => ~mistaken)
    BY <1>1, UntouchedBefore DEF ForegroundIInv
  <2>3. ASSUME Alone' PROVE (InFront /\ Composer /\ QuoteOK)'
    BY <1>1, <2>3, FrontKept, ComposerKept, QuoteKept DEF ForegroundIInv
  <2>4. ASSUME ~mistaken' PROVE (PostOK /\ NothingLeftBehind)'
    BY <1>1, <2>2, <2>4, PostKept, NothingLeft DEF ForegroundIInv
  <2>. QED  BY <2>1, <2>3, <2>4 DEF ForegroundIInv
<1>2. CASE UNCHANGED foregroundVars
  <2>. USE <1>2 DEF foregroundVars, windowVars, guardVars, runVars, readVars, flagVars
  <2>1. Outcome' = Outcome
    BY DEF Outcome
  <2>2. ForegroundTypeOK' /\ GuardOK' /\ DriverOK'
    BY DEF ForegroundIInv, ForegroundTypeOK, GuardOK, DriverOK
  <2>3. TriggerOK'
    BY <2>1 DEF ForegroundIInv, TriggerOK
  <2>4. (Alone => InFront /\ Composer /\ QuoteOK)'
    BY DEF ForegroundIInv, Alone, InFront, Composer, QuoteOK
  <2>5. (~mistaken => PostOK /\ NothingLeftBehind)'
    BY DEF ForegroundIInv, PostOK, OnlyThePayload, NothingLeftBehind
  <2>. QED  BY <2>2, <2>3, <2>4, <2>5 DEF ForegroundIInv
<1>. QED  BY <1>1, <1>2

\* The invariant of a request: as long as the user does not act, the driver is
\* in the right chat, and its composer holds what the step counts on, and that
\* alone if the draft was read (wechat_mcp_driver.py reads one it cannot read as
\* empty).
THEOREM ForegroundInvariance == ForegroundSpec => []ForegroundIInv
BY ForegroundInitOK, ForegroundStepOK, PTL DEF ForegroundSpec

\* PostsThePayload: a request posts the whole payload of its kind in the chat it
\* is for, at most once and only if it ends as sent or as unknown; nothing else
\* goes with it, unless WeChatMCP took a draft it could not read for an empty
\* one; and a quote that is answered as not available has left nothing that the
\* next send would post (_send_payload, send_text, send_quote, their handlers).
THEOREM PayloadIsPosted == ForegroundSpec => []PostsThePayload
<1>1. ASSUME ForegroundIInv PROVE PostsThePayload
  <2>1. ASSUME ~mistaken, result \notin {"none", "ok", "unknown"} PROVE posts = <<>>
    <3>1. step = "end"
      BY <1>1, <2>1 DEF ForegroundIInv, ForegroundTypeOK
    <3>. QED  BY <1>1, <2>1, <3>1 DEF ForegroundIInv, TriggerOK, PostOK
  <2>2. UnsentMeansUnsent
    BY <1>1, <2>1 DEF UnsentMeansUnsent, ForegroundIInv, PostOK
  <2>3. OnlyThePayload /\ NothingLeftBehind
    BY <1>1 DEF ForegroundIInv, PostOK, OnlyThePayload, NothingLeftBehind
  <2>. QED  BY <2>2, <2>3 DEF PostsThePayload
<1>. QED  BY <1>1, ForegroundInvariance, PTL

\* No step of a plain send takes the user's text out of a composer.
LEMMA TextKept ==
    ASSUME ForegroundIInv, ForegroundNext
    PROVE  kind \notin Quotes /\ ~mistaken' /\ ~misread' =>
               \A c \in Chats : "user" \in draft[c] => "user" \in draft'[c]
<1>. USE PayloadFacts
     DEF ForegroundIInv, ForegroundTypeOK, GuardOK, DriverOK, Alone, InFront, Composer,
         Checked, Quotes, Kinds, Items, At, Goto, Raise, Input, Key, Click, Message,
         guardVars, runVars, readVars, flagVars, windowVars, Type, Enter, OpenResult, TakesBack
<1>1. CASE GuardStep
  BY <1>1 DEF GuardStep, Interrupted, AcceptInput, Fail
<1>2. CASE McpSearches
  BY <1>2 DEF McpSearches, McpActivate, OpenSearch, ClickSearch, TypeName, EnterName,
             VerifyTarget
<1>3. CASE McpReads
  BY <1>3 DEF McpReads, McpReadInput, McpRenderedInput, McpFocus, McpCopy, McpDraft
<1>4. CASE PasteText
  BY <1>4, ZenonT(30) DEF PasteText, Paste
<1>5. CASE PasteImage
  <2>1. ASSUME kind \notin Quotes, ~mistaken', ~misread', NEW c \in Chats, "user" \in draft[c]
        PROVE  "user" \in draft'[c]
    <3>1. /\ Alone /\ ~misread /\ focus = "input"
          /\ draft[chat] = Payload[kind] \ {"image"} /\ kind \in {"image", "both"}
      BY <1>5, <2>1 DEF PasteImage
    <3>2. c # chat
      BY <2>1, <3>1
    <3>. QED  BY <1>5, <2>1, <3>2 DEF PasteImage, Paste
  <2>. QED  BY <2>1
<1>6. CASE McpSend
  <2>1. ASSUME kind \notin Quotes, ~mistaken', ~misread' PROVE "user" \notin draft[chat]
    <3>1. touched = {} /\ mistaken' = mistaken
      BY <1>6 DEF McpSend
    <3>2. Alone /\ ~misread
      BY <1>6, <2>1, <3>1 DEF McpSend
    <3>3. draft[chat] = Payload[kind]
      BY <1>6, <3>2 DEF McpSend
    <3>. QED  BY <3>3
  <2>2. \A c \in Chats : draft'[c] = draft[c] \/ c = chat
    BY <1>6 DEF McpSend
  <2>. QED  BY <2>1, <2>2
<1>7. CASE UiaOpens
  BY <1>7 DEF UiaOpens, UiaActivate, OpenChat, SelectSession, Query, OpenQuery,
             ChatOpened, ChatIsOpen, ChatIsTarget
<1>8. CASE ReadInput
  BY <1>8 DEF ReadInput
<1>9. CASE Write
  <2>1. ASSUME kind \notin Quotes, ~mistaken', ~misread' PROVE "user" \notin draft[chat]
    BY <1>9, <2>1 DEF Write
  <2>2. \A c \in Chats : draft'[c] = draft[c] \/ c = chat
    BY <1>9 DEF Write
  <2>. QED  BY <2>1, <2>2
<1>10. CASE ReadBack
  BY <1>10 DEF ReadBack
<1>11. CASE UiaSend
  BY <1>11, ZenonT(40) DEF UiaSend
<1>12. CASE UiaQuotes
  BY <1>12 DEF UiaQuotes, OldBanner, Scroll, NotFound, SelectQuote, QuoteBanner,
              Attach
<1>13. CASE RunEnds
  BY <1>13 DEF RunEnds, Sent, Cleanup, Retry, FallBack, Answer, TakesBack, Dismisses
<1>14. CASE UserStep
  BY <1>14, SMTT(30) DEF UserStep, UserTypes, UserClicks, UserActs
<1>. QED
  BY <1>1, <1>2, <1>3, <1>4, <1>5, <1>6, <1>7, <1>8, <1>9, <1>10, <1>11, <1>12,
     <1>13, <1>14, Steps
  DEF McpWrites, UiaWrites

\* UserTextKept: whatever the user types into a composer before or while a plain
\* send runs stays there, unless the guard took it for an input of the driver's
\* own, or the driver took the draft for something else than it was.
THEOREM UserTextIsKept == ForegroundSpec => UserTextKept
<1>1. ASSUME ForegroundIInv, [ForegroundNext]_foregroundVars
      PROVE  [kind \notin Quotes /\ ~mistaken' /\ ~misread' =>
                 \A c \in Chats : "user" \in draft[c] => "user" \in draft'[c]
             ]_foregroundVars
  BY <1>1, TextKept
<1>. QED  BY <1>1, ForegroundInvariance, PTL DEF ForegroundSpec, UserTextKept

-----------------------------------------------------------------------------
(* ReplyParts: the parts of an answer.                                     *)

\* The values of the variables.
Character == Nat \X Nat
LineTypes == [fence : BOOLEAN, size : Nat]
PartTypes == [text : Seq(Character), image : Nat]

ReplyTypes ==
    /\ answer \in Seq(LineTypes) /\ accepted \in Seq(Nat)
    /\ row \in 1..(Len(answer) + 1)
    /\ current \in Seq(Character) /\ chunks \in Seq(Seq(Character))
    /\ outgoing \in Seq(PartTypes) /\ given \in Seq(PartTypes)

\* The places of the readable characters of some texts: <<text, place in it>>.
Places(texts) ==
    {p \in (1..Len(texts)) \X Nat :
        p[2] \in 1..Len(texts[p[1]]) /\ Readable(texts[p[1]][p[2]])}
CharAt(texts, p) == texts[p[1]][p[2]]

\* What the texts tell are the lines before n: each character of these once,
\* in order.
TellLines(texts, n) ==
    /\ \A p, q \in Places(texts) :
         Precedes(p, q) => Precedes(CharAt(texts, p), CharAt(texts, q))
    /\ \A p \in Places(texts) :
         CharAt(texts, p) \in Characters /\ CharAt(texts, p)[1] < n
    /\ \A c \in Characters : c[1] < n => \E p \in Places(texts) : CharAt(texts, p) = c

\* The chunks and what is kept for the next one tell the lines before row.
SplitInv ==
    /\ Len(current) <= ReplyLimit
    /\ \A i \in 1..Len(chunks) : Len(chunks[i]) <= ReplyLimit + 4
    /\ TellLines(Append(chunks, current), row)
    /\ row = 1 => chunks = <<>> /\ current = <<>>

\* What was given and what is to be sent are the messages of the whole answer.
SendInv ==
    /\ replying = "splitting" => given = <<>> /\ outgoing = <<>>
    /\ replying # "splitting" =>
         row = Len(answer) + 1 /\ given \o outgoing = MessagesOf(Split)
    /\ replying = "done" => outgoing = <<>>

ReplyInv == ReplyTypes /\ SplitInv /\ SendInv

-----------------------------------------------------------------------------

LEMMA ReplyBounds ==
    /\ LineSizes \subseteq Nat /\ FenceSizes \subseteq Nat /\ NoticeSize \in Nat
    /\ ReplyLimit \in Nat /\ ReplyLimit > 0
    /\ \A ds \in Directives : ds \in Seq({"image", "refused"})
  BY ReplyAssumption

\* A set of natural numbers has a least element.
LEMMA LeastNumber ==
    ASSUME NEW T, T \subseteq Nat, T # {}
    PROVE  \E x \in T : \A y \in T : x <= y
<1> DEFINE R == {p \in Nat \X Nat : p[1] < p[2]}
<1>1. OpToRel(<, Nat) = R
  BY DEF OpToRel
<1>2. IsWellFoundedOn(R, Nat)
  BY <1>1, NatLessThanWellFounded
<1> HIDE DEF R
<1>3. PICK x \in T : \A y \in T : ~(<<y, x>> \in R)
  BY <1>2, WFMin
<1>4. \A y \in T : ~(y < x)
  BY <1>3 DEF R
<1> QED BY <1>4

\* A bounded set of numbers has a greatest element.
LEMMA GreatestNumber ==
    ASSUME NEW n \in Nat, NEW T, T \subseteq 0..n, T # {}
    PROVE  Max(T) \in T /\ \A y \in T : y <= Max(T)
<1> DEFINE D == {n - x : x \in T}
<1>1. D \subseteq Nat /\ D # {}
  <2>1. PICK t \in T : TRUE
    OBVIOUS
  <2>2. n - t \in D
    OBVIOUS
  <2>3. \A x \in T : n - x \in Nat
    OBVIOUS
  <2> QED BY <2>2, <2>3
<1>2. PICK d \in D : \A e \in D : d <= e
  <2> HIDE DEF D
  <2> QED BY <1>1, LeastNumber
<1>3. PICK x \in T : d = n - x
  OBVIOUS
<1>4. \A y \in T : n - x <= n - y
  BY <1>2, <1>3
<1>5. \A y \in T : x >= y
  BY <1>4
<1>6. Max(T) \in T /\ \A y \in T : Max(T) >= y
  BY <1>5, Zenon DEF Max
<1> QED BY <1>6

\* Two sequences put together.
Joined(u, s, t) ==
    /\ Len(u) = Len(s) + Len(t)
    /\ \A k \in 1..Len(s) : k \in 1..Len(u) /\ u[k] = s[k]
    /\ \A k \in 1..Len(t) : Len(s) + k \in 1..Len(u) /\ u[Len(s) + k] = t[k]
    /\ \A k \in 1..Len(u) : k \in 1..Len(s) \/ \E m \in 1..Len(t) : k = Len(s) + m

LEMMA Concatenated ==
    ASSUME NEW S, NEW s \in Seq(S), NEW t \in Seq(S)
    PROVE  s \o t \in Seq(S) /\ Joined(s \o t, s, t)
<1> DEFINE u == s \o t
<1>1. Len(s) \in Nat /\ Len(t) \in Nat
  OBVIOUS
<1>2. u \in Seq(S) /\ Len(u) = Len(s) + Len(t)
  OBVIOUS
<1>3. \A k \in 1..Len(s) : k \in 1..Len(u) /\ u[k] = s[k]
  BY <1>1, <1>2
<1>4. \A k \in 1..Len(t) : Len(s) + k \in 1..Len(u) /\ u[Len(s) + k] = t[k]
  BY <1>1, <1>2
<1>5. ASSUME NEW k \in 1..Len(u), k \notin 1..Len(s)
      PROVE  \E m \in 1..Len(t) : k = Len(s) + m
  <2>1. k - Len(s) \in 1..Len(t) /\ k = Len(s) + (k - Len(s))
    BY <1>1, <1>2, <1>5
  <2> QED BY <2>1
<1> HIDE DEF u
<1>6. u \in Seq(S) /\ Joined(u, s, t)
  BY <1>2, <1>3, <1>4, <1>5 DEF Joined
<1> QED BY <1>6 DEF u

\* A character of the answer.
LEMMA CharactersFacts ==
    ASSUME answer \in Seq(LineTypes)
    PROVE  /\ \A c : c \in Characters <=>
                \E l \in 1..Len(answer) : \E k \in 1..answer[l].size : c = <<l, k>>
           /\ \A l \in 1..Len(answer) : answer[l].size \in Nat
<1>1. \A l \in 1..Len(answer) : answer[l].size \in Nat
  <2>1. \A l \in 1..Len(answer) : answer[l] \in LineTypes
    OBVIOUS
  <2> QED BY <2>1 DEF LineTypes
<1>2. \A c : c \in Characters <=>
                \E l \in 1..Len(answer) : \E k \in 1..answer[l].size : c = <<l, k>>
  BY DEF Characters
<1> QED BY <1>1, <1>2

-----------------------------------------------------------------------------
(* Texts that tell lines.                                                  *)

\* A text of its own tells line l.
TellsLine(s, l) ==
    /\ \A a, b \in 1..Len(s) : Readable(s[a]) /\ Readable(s[b]) /\ a < b =>
         s[a][2] < s[b][2]
    /\ \A a \in 1..Len(s) : Readable(s[a]) =>
         s[a][1] = l /\ s[a][2] \in 1..answer[l].size
    /\ \A k \in 1..answer[l].size : \E a \in 1..Len(s) : s[a] = <<l, k>>

\* The characters of a line.
LEMMA CharsFacts ==
    ASSUME answer \in Seq(LineTypes), NEW l \in 1..Len(answer)
    PROVE  /\ Chars(l) \in Seq(Character) /\ TellsLine(Chars(l), l)
           /\ Len(Chars(l)) <= answer[l].size + 1
<1> DEFINE n == answer[l].size
           head == [k \in 1..n |-> <<l, k>>]
           tail == IF l < Len(answer) THEN <<Break(l)>> ELSE <<>>
<1>1. n \in Nat /\ l \in Nat /\ l > 0
  BY CharactersFacts
<1>2. head \in Seq(Character) /\ Len(head) = n /\ \A k \in 1..n : head[k] = <<l, k>>
  <2> HIDE DEF n
  <2> QED BY <1>1 DEF Character
<1>3. /\ tail \in Seq(Character) /\ Len(tail) \in {0, 1}
      /\ \A k \in 1..Len(tail) : tail[k] = <<l, 0>>
  <2>1. CASE l < Len(answer)
    <3>1. tail = <<<<l, 0>>>>
      BY <2>1 DEF Break
    <3>2. <<l, 0>> \in Character
      BY <1>1 DEF Character
    <3> HIDE DEF tail
    <3> QED BY <3>1, <3>2
  <2>2. CASE ~(l < Len(answer))
    <3>1. tail = <<>>
      BY <2>2
    <3> HIDE DEF tail
    <3> QED BY <3>1
  <2> QED BY <2>1, <2>2
<1>4. Chars(l) = head \o tail
  BY DEF Chars
<1> HIDE DEF head, tail
<1>5. /\ Chars(l) \in Seq(Character) /\ Len(Chars(l)) = n + Len(tail)
      /\ \A k \in 1..n : k \in 1..Len(Chars(l)) /\ Chars(l)[k] = <<l, k>>
      /\ \A k \in 1..Len(Chars(l)) : k \in 1..n \/ Chars(l)[k] = <<l, 0>>
  <2> DEFINE u == Chars(l)
             hd == head
             tl == tail
  <2>1. u = hd \o tl /\ hd \in Seq(Character) /\ tl \in Seq(Character)
    BY <1>2, <1>3, <1>4
  <2> HIDE DEF n, u, hd, tl
  <2>2. u \in Seq(Character) /\ Joined(u, hd, tl)
    BY <2>1, Concatenated
  <2> USE DEF hd, tl
  <2>3. \A k \in 1..n : k \in 1..Len(u) /\ u[k] = <<l, k>>
    BY <1>2, <2>2 DEF Joined
  <2>4. ASSUME NEW k \in 1..Len(u), k \notin 1..n
        PROVE  u[k] = <<l, 0>>
    <3>1. PICK m \in 1..Len(tail) : k = Len(head) + m
      BY <1>2, <2>2, <2>4 DEF Joined
    <3>2. u[k] = tail[m] /\ tail[m] = <<l, 0>>
      BY <1>3, <2>2, <3>1 DEF Joined
    <3> QED BY <3>2
  <2>5. Len(u) = n + Len(tail)
    BY <1>2, <2>2 DEF Joined
  <2> QED BY <2>2, <2>3, <2>4, <2>5 DEF u
<1>6. \A a \in 1..Len(Chars(l)) : Readable(Chars(l)[a]) =>
        a \in 1..n /\ Chars(l)[a] = <<l, a>>
  BY <1>5 DEF Readable, Visible
<1>7. TellsLine(Chars(l), l)
  <2> DEFINE u == Chars(l)
  <2>1. \A a \in 1..Len(u) : Readable(u[a]) => a \in 1..n /\ u[a] = <<l, a>>
    BY <1>6
  <2>2. \A k \in 1..n : \E a \in 1..Len(u) : u[a] = <<l, k>>
    BY <1>5
  <2> HIDE DEF u, n
  <2>3. \A a, b \in 1..Len(u) : Readable(u[a]) /\ Readable(u[b]) /\ a < b =>
          u[a][2] < u[b][2]
    BY <2>1
  <2>4. \A a \in 1..Len(u) : Readable(u[a]) => u[a][1] = l /\ u[a][2] \in 1..n
    BY <2>1
  <2> QED BY <2>2, <2>3, <2>4 DEF TellsLine, u, n
<1>8. Len(Chars(l)) <= n + 1
  <2> HIDE DEF n
  <2> QED BY <1>1, <1>3, <1>5
<1> QED BY <1>5, <1>7, <1>8

\* Texts with the same readable characters in the same order tell the same:
\* f takes a place in the second to the place of its character in the first.
Retells(X, Y, f) ==
    /\ \A p \in Places(Y) : f[p] \in Places(X) /\ CharAt(X, f[p]) = CharAt(Y, p)
    /\ \A p, q \in Places(Y) : Precedes(p, q) => Precedes(f[p], f[q])
    /\ \A q \in Places(X) : \E p \in Places(Y) : f[p] = q

LEMMA Retold ==
    ASSUME NEW X, NEW Y, NEW n, NEW f, TellLines(X, n), Retells(X, Y, f)
    PROVE  TellLines(Y, n)
<1>1. \A p, q \in Places(Y) : Precedes(p, q) => Precedes(CharAt(Y, p), CharAt(Y, q))
  BY Zenon DEF TellLines, Retells
<1>2. \A p \in Places(Y) : CharAt(Y, p) \in Characters /\ CharAt(Y, p)[1] < n
  BY Zenon DEF TellLines, Retells
<1>3. ASSUME NEW c \in Characters, c[1] < n
      PROVE  \E p \in Places(Y) : CharAt(Y, p) = c
  <2>1. PICK q \in Places(X) : CharAt(X, q) = c
    BY <1>3, Zenon DEF TellLines, Retells
  <2>2. PICK p \in Places(Y) : f[p] = q
    BY Zenon DEF Retells
  <2> QED BY <2>1, <2>2, Zenon DEF Retells
<1> QED BY <1>1, <1>2, <1>3, Zenon DEF TellLines, Retells

\* A place, and one in texts that one more is put to.
LEMMA PlaceFacts ==
    ASSUME NEW X
    PROVE  \A i, a : <<i, a>> \in Places(X) <=>
             i \in 1..Len(X) /\ a \in Nat /\ a \in 1..Len(X[i]) /\ Readable(X[i][a])
  BY DEF Places

Longer(Y, X, s) ==
    /\ Y \in Seq(Seq(Character)) /\ Len(Y) = Len(X) + 1
    /\ \A i, a : <<i, a>> \in Places(Y) <=>
         \/ <<i, a>> \in Places(X)
         \/ i = Len(X) + 1 /\ a \in 1..Len(s) /\ Readable(s[a])
    /\ \A p \in Places(X) : p \in Places(Y) /\ CharAt(Y, p) = CharAt(X, p)
                            /\ p[1] \in 1..Len(X)
    /\ \A a \in 1..Len(s) : CharAt(Y, <<Len(X) + 1, a>>) = s[a]
    /\ \A p \in Places(Y) : p \in Nat \X Nat /\ p = <<p[1], p[2]>>

LEMMA AppendedPlaces ==
    ASSUME NEW X \in Seq(Seq(Character)), NEW s \in Seq(Character),
           NEW Y, Y = Append(X, s)
    PROVE  Longer(Y, X, s)
<1>1. Y \in Seq(Seq(Character)) /\ Len(Y) = Len(X) + 1 /\ Len(X) \in Nat
  OBVIOUS
<1>2. Y[Len(X) + 1] = s /\ \A i \in 1..Len(X) : Y[i] = X[i]
  OBVIOUS
<1>3. \A i : i \in 1..Len(Y) <=> i \in 1..Len(X) \/ i = Len(X) + 1
  BY <1>1
<1>4. \A a \in 1..Len(s) : a \in Nat
  OBVIOUS
<1>5. ASSUME NEW i, NEW a
      PROVE  <<i, a>> \in Places(Y) <=>
                \/ <<i, a>> \in Places(X)
                \/ i = Len(X) + 1 /\ a \in 1..Len(s) /\ Readable(s[a])
  <2>1. CASE i \in 1..Len(X)
    <3>1. i # Len(X) + 1
      BY <1>1, <2>1
    <3>2. Y[i] = X[i] /\ i \in 1..Len(Y)
      BY <1>2, <1>3, <2>1
    <3>3. <<i, a>> \in Places(Y) <=>
            i \in 1..Len(Y) /\ a \in Nat /\ a \in 1..Len(Y[i]) /\ Readable(Y[i][a])
      BY PlaceFacts
    <3>4. <<i, a>> \in Places(X) <=>
            i \in 1..Len(X) /\ a \in Nat /\ a \in 1..Len(X[i]) /\ Readable(X[i][a])
      BY PlaceFacts
    <3> QED BY ONLY <2>1, <3>1, <3>2, <3>3, <3>4
  <2>2. CASE i = Len(X) + 1
    <3>1. i \notin 1..Len(X)
      BY <1>1, <2>2
    <3>2. Y[i] = s /\ i \in 1..Len(Y)
      BY <1>2, <1>3, <2>2
    <3>3. <<i, a>> \in Places(Y) <=>
            i \in 1..Len(Y) /\ a \in Nat /\ a \in 1..Len(Y[i]) /\ Readable(Y[i][a])
      BY PlaceFacts
    <3>4. <<i, a>> \notin Places(X)
      BY <3>1, PlaceFacts
    <3> QED BY ONLY <1>4, <2>2, <3>2, <3>3, <3>4
  <2>3. CASE i \notin 1..Len(X) /\ i # Len(X) + 1
    BY <1>3, <2>3, PlaceFacts
  <2> QED BY <2>1, <2>2, <2>3
<1>6. ASSUME NEW p \in Places(X)
      PROVE  p \in Places(Y) /\ CharAt(Y, p) = CharAt(X, p) /\ p[1] \in 1..Len(X)
  <2>1. p[1] \in 1..Len(X) /\ p = <<p[1], p[2]>>
    BY DEF Places
  <2> QED BY <1>2, <1>5, <2>1 DEF CharAt
<1>7. \A a \in 1..Len(s) : CharAt(Y, <<Len(X) + 1, a>>) = s[a]
  BY <1>2 DEF CharAt
<1>8. \A p \in Places(Y) : p \in Nat \X Nat /\ p = <<p[1], p[2]>>
  <2>1. \A i \in 1..Len(Y) : i \in Nat
    BY <1>1
  <2> QED BY <2>1 DEF Places
<1> QED BY <1>1, <1>5, <1>6, <1>7, <1>8 DEF Longer

\* The last text is continued with one that tells the next line.
LEMMA Extended ==
    ASSUME answer \in Seq(LineTypes), NEW X \in Seq(Seq(Character)),
           NEW s \in Seq(Character), NEW t \in Seq(Character),
           NEW n \in 1..Len(answer), TellLines(Append(X, s), n), TellsLine(t, n)
    PROVE  TellLines(Append(X, s \o t), n + 1)
<1> DEFINE u == s \o t
           Y == Append(X, s)
           Z == Append(X, u)
           N == Len(X) + 1
<1>1. u \in Seq(Character) /\ Joined(u, s, t)
  BY Concatenated
<1>2. Len(s) \in Nat /\ Len(t) \in Nat /\ N \in Nat
  OBVIOUS
<1> HIDE DEF u
<1>3. Longer(Y, X, s)
  BY AppendedPlaces
<1>4. Longer(Z, X, u)
  BY <1>1, AppendedPlaces
<1> DEFINE Old(p) == /\ p \in Places(Y) /\ CharAt(Z, p) = CharAt(Y, p)
                     /\ p[1] <= N /\ (p[1] = N => p[2] <= Len(s))
           New(p) == \E m \in 1..Len(t) : /\ p = <<N, Len(s) + m>> /\ Readable(t[m])
                                          /\ CharAt(Z, p) = t[m]
<1> HIDE DEF Y, Z
<1>5. ASSUME NEW p \in Places(Y)
      PROVE  p \in Places(Z) /\ Old(p)
  <2>1. CASE p \in Places(X)
    <3>1. p \in Places(Z) /\ CharAt(Z, p) = CharAt(X, p) /\ CharAt(Y, p) = CharAt(X, p)
          /\ p[1] \in 1..Len(X)
      BY <1>3, <1>4, <2>1, Zenon DEF Longer
    <3> QED BY <1>2, <3>1
  <2>2. CASE p \notin Places(X)
    <3> DEFINE i == p[1]
               a == p[2]
    <3>10. p = <<i, a>>
      BY <1>3 DEF Longer
    <3> HIDE DEF i, a
    <3>11. i = N /\ a \in 1..Len(s) /\ Readable(s[a])
      BY <1>3, <2>2, <3>10 DEF Longer
    <3>1. p = <<N, a>> /\ a \in 1..Len(s) /\ Readable(s[a])
      BY <3>10, <3>11
    <3>2. a \in 1..Len(u) /\ u[a] = s[a]
      BY <1>1, <3>1 DEF Joined
    <3>3. p \in Places(Z)
      BY <1>4, <3>1, <3>2 DEF Longer
    <3>4. CharAt(Z, p) = u[a] /\ CharAt(Y, p) = s[a]
      BY <1>3, <1>4, <3>1, <3>2 DEF Longer
    <3>5. p[1] = N /\ p[2] <= Len(s)
      BY <1>2, <3>1
    <3> QED BY <1>2, <3>2, <3>3, <3>4, <3>5
  <2> QED BY <2>1, <2>2
<1>6. ASSUME NEW m \in 1..Len(t), Readable(t[m])
      PROVE  <<N, Len(s) + m>> \in Places(Z) /\ CharAt(Z, <<N, Len(s) + m>>) = t[m]
  <2>1. Len(s) + m \in 1..Len(u) /\ u[Len(s) + m] = t[m]
    BY <1>1 DEF Joined
  <2> QED BY <1>4, <1>6, <2>1 DEF Longer
<1>7. ASSUME NEW p \in Places(Z)
      PROVE  Old(p) \/ New(p)
  <2>1. CASE p \in Places(X)
    <3>1. p \in Places(Y)
      BY <1>3, <2>1, Zenon DEF Longer
    <3> QED BY <1>5, <3>1, Zenon
  <2>2. CASE p \notin Places(X)
    <3> DEFINE i == p[1]
               a == p[2]
    <3>10. p = <<i, a>>
      BY <1>4 DEF Longer
    <3> HIDE DEF i, a
    <3>11. i = N /\ a \in 1..Len(u) /\ Readable(u[a])
      BY <1>4, <2>2, <3>10 DEF Longer
    <3>1. p = <<N, a>> /\ a \in 1..Len(u) /\ Readable(u[a])
      BY <3>10, <3>11
    <3>2. CASE a \in 1..Len(s)
      <4>1. u[a] = s[a]
        BY <1>1, <3>2 DEF Joined
      <4>2. p \in Places(Y)
        BY <1>3, <3>1, <3>2, <4>1 DEF Longer
      <4> QED BY <1>5, <4>2, Zenon
    <3>3. CASE a \notin 1..Len(s)
      <4>1. PICK m \in 1..Len(t) : a = Len(s) + m
        BY <1>1, <3>1, <3>3 DEF Joined
      <4>2. u[a] = t[m]
        BY <1>1, <4>1 DEF Joined
      <4>3. Readable(t[m])
        BY <3>1, <4>2
      <4> QED BY <1>6, <3>1, <4>1, <4>3
    <3> QED BY <3>2, <3>3
  <2> QED BY <2>1, <2>2
<1>8. /\ n \in Nat /\ answer[n].size \in Nat
      /\ \A m \in 1..Len(t) : Readable(t[m]) =>
           t[m] = <<n, t[m][2]>> /\ t[m][2] \in 1..answer[n].size
  <2>1. \A m \in 1..Len(t) : t[m] \in Character
    OBVIOUS
  <2>2. n \in Nat /\ answer[n].size \in Nat
    BY CharactersFacts
  <2>3. ASSUME NEW m \in 1..Len(t)
        PROVE  t[m] = <<t[m][1], t[m][2]>>
    <3>1. t[m] \in Nat \X Nat
      BY <2>1 DEF Character
    <3> QED BY <3>1
  <2>4. ASSUME NEW m \in 1..Len(t), Readable(t[m])
        PROVE  t[m] = <<n, t[m][2]>> /\ t[m][2] \in 1..answer[n].size
    <3>1. t[m][1] = n /\ t[m][2] \in 1..answer[n].size
      BY <2>4 DEF TellsLine
    <3> QED BY <2>3, <3>1, Zenon
  <2> QED BY <2>2, <2>4
<1>9. ASSUME NEW p \in Places(Z), NEW q \in Places(Z), Precedes(p, q)
      PROVE  Precedes(CharAt(Z, p), CharAt(Z, q))
  <2>1. CASE Old(p) /\ Old(q)
    BY <1>9, <2>1 DEF TellLines, Y
  <2>2. CASE Old(p) /\ New(q)
    <3>1. PICK m \in 1..Len(t) : CharAt(Z, q) = t[m] /\ Readable(t[m])
      BY <2>2
    <3>2. CharAt(Z, p)[1] < n
      BY <2>2 DEF TellLines, Y
    <3>3. CharAt(Z, q)[1] = n
      BY <1>8, <3>1, SMTT(20)
    <3> QED BY <3>2, <3>3 DEF Precedes
  <2>3. CASE New(p) /\ Old(q)
    <3>1. PICK m \in 1..Len(t) : p = <<N, Len(s) + m>>
      BY <2>3
    <3>2. q[1] \in Nat /\ q[2] \in Nat /\ q[1] <= N /\ (q[1] = N => q[2] <= Len(s))
      BY <1>4, <2>3 DEF Longer
    <3>3. p[1] = N /\ p[2] = Len(s) + m
      BY <3>1
    <3> HIDE DEF N
    <3>4. ~Precedes(p, q)
      BY <1>2, <3>2, <3>3 DEF Precedes
    <3> QED BY <1>9, <3>4
  <2>4. CASE New(p) /\ New(q)
    <3>1. PICK m \in 1..Len(t) : p = <<N, Len(s) + m>> /\ CharAt(Z, p) = t[m] /\ Readable(t[m])
      BY <2>4
    <3>2. PICK k \in 1..Len(t) : q = <<N, Len(s) + k>> /\ CharAt(Z, q) = t[k] /\ Readable(t[k])
      BY <2>4
    <3>3. p[1] = N /\ p[2] = Len(s) + m /\ q[1] = N /\ q[2] = Len(s) + k
      BY <3>1, <3>2
    <3> HIDE DEF N
    <3>4. m < k
      BY <1>2, <1>9, <3>3 DEF Precedes
    <3>5. t[m][2] < t[k][2] /\ t[m][1] = n /\ t[k][1] = n
      BY <3>1, <3>2, <3>4 DEF TellsLine
    <3> QED BY <3>1, <3>2, <3>5 DEF Precedes
  <2> QED BY <1>7, <2>1, <2>2, <2>3, <2>4, Zenon
<1>10. ASSUME NEW p \in Places(Z)
       PROVE  CharAt(Z, p) \in Characters /\ CharAt(Z, p)[1] < n + 1
  <2>1. CASE Old(p)
    <3>1. CharAt(Y, p) \in Characters /\ CharAt(Y, p)[1] < n
      BY <2>1 DEF TellLines, Y
    <3>2. CharAt(Y, p)[1] \in Nat
      BY <3>1, CharactersFacts
    <3> QED BY <1>8, <2>1, <3>1, <3>2
  <2>2. CASE New(p)
    <3>1. PICK m \in 1..Len(t) : CharAt(Z, p) = t[m] /\ Readable(t[m])
      BY <2>2
    <3>2. t[m] \in Characters
      BY <1>8, <3>1, CharactersFacts
    <3>3. t[m][1] = n
      BY <3>1 DEF TellsLine
    <3> QED BY <1>8, <3>1, <3>2, <3>3
  <2> QED BY <1>7, <2>1, <2>2
<1>11. ASSUME NEW c \in Characters, c[1] < n + 1
       PROVE  \E p \in Places(Z) : CharAt(Z, p) = c
  <2>1. PICK l \in 1..Len(answer) : \E k \in 1..answer[l].size : c = <<l, k>>
    BY CharactersFacts
  <2>2. PICK k \in 1..answer[l].size : c = <<l, k>>
    BY <2>1
  <2>3. CASE l < n
    <3>1. PICK p \in Places(Y) : CharAt(Y, p) = c
      BY <2>2, <2>3 DEF TellLines, Y
    <3> QED BY <1>5, <3>1
  <2>4. CASE l = n
    <3>1. PICK m \in 1..Len(t) : t[m] = <<n, k>>
      BY <2>4 DEF TellsLine
    <3>2. n # 0 /\ k # 0
      BY <1>8, <2>4
    <3>3. Readable(t[m])
      BY <3>1, <3>2 DEF Readable, Visible, Inserted
    <3> QED BY <1>6, <2>2, <2>4, <3>1, <3>3
  <2>5. l < n \/ l = n
    BY <1>8, <1>11, <2>2
  <2> QED BY <2>3, <2>4, <2>5
<1>12. TellLines(Z, n + 1)
  BY <1>9, <1>10, <1>11 DEF TellLines
<1> QED BY <1>12 DEF Z, u

\* Texts with the same places and the same characters there.
LEMMA SamePlaces ==
    ASSUME NEW Y, NEW Z, NEW n, TellLines(Y, n), Places(Y) = Places(Z),
           \A p \in Places(Y) : CharAt(Y, p) = CharAt(Z, p)
    PROVE  TellLines(Z, n)
<1>1. \A p, q \in Places(Z) : Precedes(p, q) => Precedes(CharAt(Z, p), CharAt(Z, q))
  BY DEF TellLines
<1>2. \A p \in Places(Z) : CharAt(Z, p) \in Characters /\ CharAt(Z, p)[1] < n
  BY DEF TellLines
<1>3. \A c \in Characters : c[1] < n => \E p \in Places(Z) : CharAt(Z, p) = c
  BY DEF TellLines
<1> QED BY <1>1, <1>2, <1>3 DEF TellLines

\* Two texts begin with the same characters, and no others can be read.
SameText(s, t) ==
    \E m \in Nat : /\ m <= Len(s) /\ m <= Len(t)
                   /\ \A k \in 1..m : s[k] = t[k]
                   /\ \A k \in 1..Len(s) : k > m => ~Readable(s[k])
                   /\ \A k \in 1..Len(t) : k > m => ~Readable(t[k])

LEMMA Replaced ==
    ASSUME NEW X \in Seq(Seq(Character)), NEW s \in Seq(Character),
           NEW t \in Seq(Character), NEW n, TellLines(Append(X, s), n),
           SameText(s, t)
    PROVE  TellLines(Append(X, t), n)
<1> DEFINE Y == Append(X, s)
           Z == Append(X, t)
           N == Len(X) + 1
<1>1. PICK m \in Nat : /\ m <= Len(s) /\ m <= Len(t)
                       /\ \A k \in 1..m : s[k] = t[k]
                       /\ \A k \in 1..Len(s) : k > m => ~Readable(s[k])
                       /\ \A k \in 1..Len(t) : k > m => ~Readable(t[k])
  BY DEF SameText
<1>2. Len(s) \in Nat /\ Len(t) \in Nat
  OBVIOUS
<1>3. ASSUME NEW a
      PROVE  /\ a \in 1..Len(s) /\ Readable(s[a]) <=> a \in 1..m /\ Readable(s[a])
             /\ a \in 1..Len(t) /\ Readable(t[a]) <=> a \in 1..m /\ Readable(s[a])
  <2>1. a \in 1..m => a \in 1..Len(s) /\ a \in 1..Len(t) /\ s[a] = t[a]
    <3>1. m \in Nat /\ m <= Len(s) /\ m <= Len(t)
      BY <1>1
    <3>2. a \in 1..m => a \in 1..Len(s) /\ a \in 1..Len(t)
      BY <1>2, <3>1
    <3> QED BY <1>1, <3>2
  <2>2. a \in 1..Len(s) /\ Readable(s[a]) => a \in 1..m
    <3>1. a \in 1..Len(s) /\ Readable(s[a]) => ~(a > m)
      BY <1>1
    <3>2. a \in 1..Len(s) /\ ~(a > m) => a \in 1..m
      BY <1>1, <1>2
    <3> QED BY <3>1, <3>2
  <2>3. a \in 1..Len(t) /\ Readable(t[a]) => a \in 1..m
    <3>1. a \in 1..Len(t) /\ Readable(t[a]) => ~(a > m)
      BY <1>1
    <3>2. a \in 1..Len(t) /\ ~(a > m) => a \in 1..m
      BY <1>1, <1>2
    <3> QED BY <3>1, <3>2
  <2> QED BY ONLY <2>1, <2>2, <2>3
<1>4. Longer(Y, X, s)
  BY AppendedPlaces
<1>5. Longer(Z, X, t)
  BY AppendedPlaces
<1> HIDE DEF Y, Z
<1>6. \A i, a : <<i, a>> \in Places(Y) <=> <<i, a>> \in Places(Z)
  <2>1. ASSUME NEW i, NEW a
        PROVE  <<i, a>> \in Places(Y) <=> <<i, a>> \in Places(Z)
    <3>1. <<i, a>> \in Places(Y) <=>
             <<i, a>> \in Places(X) \/ (i = N /\ a \in 1..m /\ Readable(s[a]))
      BY <1>3, <1>4 DEF Longer
    <3>2. <<i, a>> \in Places(Z) <=>
             <<i, a>> \in Places(X) \/ (i = N /\ a \in 1..m /\ Readable(s[a]))
      BY <1>3, <1>5 DEF Longer
    <3> QED BY <3>1, <3>2
  <2> QED BY <2>1
<1>7. Places(Y) = Places(Z)
  <2>1. \A p : p \in Places(Y) => p \in Places(Z)
    BY <1>4, <1>6 DEF Longer
  <2>2. \A p : p \in Places(Z) => p \in Places(Y)
    BY <1>5, <1>6 DEF Longer
  <2> QED BY <2>1, <2>2
<1>8. ASSUME NEW p \in Places(Y)
      PROVE  CharAt(Y, p) = CharAt(Z, p)
  <2>1. CASE p \in Places(X)
    BY <1>4, <1>5, <2>1, Zenon DEF Longer
  <2>2. CASE p \notin Places(X)
    <3> DEFINE i == p[1]
               a == p[2]
    <3>1. p = <<i, a>>
      BY <1>4 DEF Longer
    <3> HIDE DEF i, a
    <3>2. i = N /\ a \in 1..Len(s) /\ a \in 1..m /\ a \in 1..Len(t)
      <4>1. i = N /\ a \in 1..Len(s) /\ Readable(s[a])
        BY <1>4, <2>2, <3>1 DEF Longer
      <4> QED BY <1>1, <1>2, <1>3, <4>1
    <3>3. CharAt(Y, p) = s[a] /\ CharAt(Z, p) = t[a]
      BY <1>4, <1>5, <3>1, <3>2 DEF Longer
    <3> QED BY <1>1, <3>2, <3>3
  <2> QED BY <2>1, <2>2
<1>9. TellLines(Y, n)
  BY DEF Y
<1>10. TellLines(Z, n)
  BY <1>7, <1>8, <1>9, SamePlaces
<1> QED BY <1>10 DEF Z

\* A text that is empty tells nothing.
LEMMA EmptyText ==
    ASSUME NEW X \in Seq(Seq(Character)), NEW n
    PROVE  TellLines(Append(X, <<>>), n) <=> TellLines(X, n)
<1> DEFINE Y == Append(X, <<>>)
           e == <<>>
<1>1. e \in Seq(Character) /\ Len(e) = 0 /\ Y = Append(X, e)
  OBVIOUS
<1> HIDE DEF e, Y
<1>2. Longer(Y, X, e)
  BY <1>1, AppendedPlaces
<1>3. \A i, a : <<i, a>> \in Places(Y) => <<i, a>> \in Places(X)
  BY <1>1, <1>2 DEF Longer
<1>4. Places(Y) = Places(X)
  <2>1. \A p \in Places(Y) : p \in Places(X)
    BY <1>2, <1>3 DEF Longer
  <2>2. \A p \in Places(X) : p \in Places(Y)
    BY <1>2 DEF Longer
  <2> QED BY <2>1, <2>2
<1>5. \A p \in Places(X) : CharAt(Y, p) = CharAt(X, p) /\ CharAt(X, p) = CharAt(Y, p)
  BY <1>2 DEF Longer
<1>6. TellLines(X, n) => TellLines(Y, n)
  BY <1>4, <1>5, SamePlaces
<1>7. TellLines(Y, n) => TellLines(X, n)
  BY <1>4, <1>5, SamePlaces
<1> QED BY <1>6, <1>7 DEF Y

-----------------------------------------------------------------------------
(* A text that is cut to messages.                                         *)

\* The bounds of the pieces.
LEMMA CutsFacts ==
    ASSUME NEW s \in Seq(Character), s # <<>>, NEW r, r = ReplyLimit,
           NEW c, c = Cuts(s)
    PROVE  c \in Nat /\ c * r < Len(s) /\ Len(s) <= c * r + r
<1>1. Len(s) \in Nat /\ Len(s) > 0 /\ r \in Nat /\ r > 0
  BY ReplyBounds
<1> DEFINE x == Len(s) - 1
<1>2. x \in Nat /\ c = x \div r /\ Len(s) = x + 1
  BY <1>1 DEF Cuts
<1> HIDE DEF x
<1>3. c \in Nat /\ c * r <= x
  BY <1>1, <1>2
<1>4. x < c * r + r
  BY <1>1, <1>2
<1>5. c * r \in Nat
  BY <1>1, <1>3
<1> DEFINE y == c * r
<1> HIDE DEF y
<1>6. y \in Nat /\ y <= x /\ x < y + r
  BY <1>3, <1>4, <1>5 DEF y
<1>7. y < Len(s) /\ Len(s) <= y + r
  BY <1>1, <1>2, <1>6
<1> QED BY <1>3, <1>7 DEF y

\* Multiples of the limit.
LEMMA Multiples ==
    ASSUME NEW r \in Nat, NEW x \in Nat, NEW y \in Nat
    PROVE  x * r \in Nat /\ (x < y => x * r + r <= y * r) /\ (x + 1) * r = x * r + r
  OBVIOUS

LEMMA Quotients ==
    ASSUME NEW r \in Nat, r > 0, NEW x \in Nat, NEW d, d = x \div r
    PROVE  d \in Nat /\ d * r <= x /\ x < d * r + r
<1>1. d \in Nat /\ d * r <= x
  OBVIOUS
<1>2. x < d * r + r
  OBVIOUS
<1> QED BY <1>1, <1>2

\* The pieces are the text, one place after the other.
Cutting(P, t, s, c, r) ==
    /\ P \in Seq(Seq(Character)) /\ Len(P) = c
    /\ t \in Seq(Character) /\ Len(t) = Len(s) - c * r
    /\ \A j \in 1..c : Len(P[j]) = r
    /\ \A j \in 1..c : \A a \in 1..r : P[j][a] = s[(j - 1) * r + a]
    /\ \A a \in 1..Len(t) : t[a] = s[c * r + a]

LEMMA PiecesFacts ==
    ASSUME NEW s \in Seq(Character), s # <<>>, NEW r, r = ReplyLimit,
           NEW c, c = Cuts(s)
    PROVE  Cutting(Pieces(s), Rest(s), s, c, r)
<1>1. Len(s) \in Nat /\ r \in Nat /\ r > 0
  BY ReplyBounds
<1>2. c \in Nat /\ c * r < Len(s) /\ Len(s) <= c * r + r
  BY CutsFacts
<1>3. c * r \in Nat
  BY <1>1, <1>2
<1>4. \A i \in 1..Len(s) : s[i] \in Character
  OBVIOUS
<1>5. Rest(s) = SubSeq(s, c * r + 1, Len(s))
  BY DEF Rest
<1>6. /\ Rest(s) \in Seq(Character) /\ Len(Rest(s)) = Len(s) - c * r
      /\ \A a \in 1..Len(Rest(s)) : Rest(s)[a] = s[c * r + a]
  <2> DEFINE y == c * r
  <2> HIDE DEF y
  <2>1. y \in Nat /\ y < Len(s)
    BY <1>2, <1>3 DEF y
  <2>2. Rest(s) = SubSeq(s, y + 1, Len(s))
    BY <1>5 DEF y
  <2>3. /\ SubSeq(s, y + 1, Len(s)) \in Seq(Character)
        /\ Len(SubSeq(s, y + 1, Len(s))) = Len(s) - y
    BY <1>1, <2>1
  <2>4. \A a \in 1..(Len(s) - y) : SubSeq(s, y + 1, Len(s))[a] = s[y + a]
    BY <1>1, <2>1
  <2> QED BY <2>2, <2>3, <2>4 DEF y
<1>7. Pieces(s) = [i \in 1..c |-> SubSeq(s, (i - 1) * r + 1, i * r)]
  BY DEF Pieces
<1>8. ASSUME NEW j \in 1..c
      PROVE  /\ Pieces(s)[j] \in Seq(Character) /\ Len(Pieces(s)[j]) = r
             /\ \A a \in 1..r : Pieces(s)[j][a] = s[(j - 1) * r + a]
  <2> DEFINE x == (j - 1) * r
             z == j * r
  <2>1. j - 1 \in Nat /\ j \in Nat /\ j <= c
    BY <1>2
  <2>2. x \in Nat
    BY <1>1, <2>1, Multiples
  <2>3. z = x + r
    BY <1>1, <2>1
  <2>4. z <= c * r
    <3>1. CASE j = c
      BY <1>3, <3>1
    <3>2. CASE j < c
      <4>1. z + r <= c * r /\ z \in Nat
        BY <1>1, <1>2, <2>1, <3>2, Multiples
      <4> QED BY <1>1, <1>3, <4>1
    <3> QED BY <1>2, <2>1, <3>1, <3>2
  <2>5. Pieces(s)[j] = SubSeq(s, x + 1, z)
    BY <1>7
  <2> HIDE DEF x, z
  <2>6. z <= Len(s)
    BY <1>1, <1>2, <1>3, <2>2, <2>3, <2>4
  <2>7. SubSeq(s, x + 1, z) \in Seq(Character) /\ Len(SubSeq(s, x + 1, z)) = r
    BY <1>1, <2>2, <2>3, <2>6
  <2>8. \A a \in 1..r : SubSeq(s, x + 1, z)[a] = s[x + a]
    BY <1>1, <2>2, <2>3, <2>6
  <2> QED BY <2>5, <2>7, <2>8 DEF x
<1>9. Pieces(s) \in Seq(Seq(Character)) /\ Len(Pieces(s)) = c
  <2>1. DOMAIN Pieces(s) = 1..c
    BY <1>7
  <2>2. \A j \in 1..c : Pieces(s)[j] \in Seq(Character)
    BY <1>8
  <2>3. Pieces(s) = [i \in 1..c |-> Pieces(s)[i]]
    BY <1>7
  <2> DEFINE P == Pieces(s)
  <2> HIDE DEF P
  <2> QED BY <1>2, <2>1, <2>2, <2>3 DEF P
<1> QED BY <1>6, <1>8, <1>9 DEF Cutting

\* The last text is cut to messages.
LEMMA CutToMessages ==
    ASSUME NEW X \in Seq(Seq(Character)), NEW s \in Seq(Character), s # <<>>,
           NEW n, TellLines(Append(X, s), n)
    PROVE  TellLines(Append(X \o Pieces(s), Rest(s)), n)
<1> DEFINE Y == Append(X, s)
           N == Len(X) + 1
           r == ReplyLimit
           c == Cuts(s)
           P == Pieces(s)
           t == Rest(s)
           W == X \o P
           Z == Append(W, t)
<1>1. c \in Nat /\ c * r < Len(s) /\ Len(s) <= c * r + r
  BY CutsFacts
<1>2. Cutting(P, t, s, c, r)
  BY PiecesFacts
<1>3. Longer(Y, X, s)
  BY AppendedPlaces
<1>4. W \in Seq(Seq(Character)) /\ Joined(W, X, P)
  <2>1. P \in Seq(Seq(Character))
    BY <1>2 DEF Cutting
  <2> HIDE DEF P
  <2> QED BY <2>1, Concatenated
<1> HIDE DEF W, P, t
<1>5. Longer(Z, W, t)
  BY <1>2, <1>4, AppendedPlaces DEF Cutting
<1>6. Len(X) \in Nat /\ Len(s) \in Nat /\ r \in Nat /\ r > 0 /\ N = Len(X) + 1
  BY ReplyBounds
<1>7. TellLines(Y, n)
  OBVIOUS
<1>8. Len(W) = Len(X) + c /\ Len(P) = c /\ c * r \in Nat
  BY <1>1, <1>2, <1>4, <1>6, Multiples DEF Joined, Cutting
<1> HIDE DEF Y, Z, r, c, N
<1>9. ASSUME NEW p \in Places(Z)
      PROVE  p = <<p[1], p[2]>> /\ p[1] \in Nat /\ p[2] \in Nat
  BY <1>5 DEF Longer
<1>10. ASSUME NEW i, NEW a, <<i, a>> \in Places(Z), i <= Len(X)
       PROVE  <<i, a>> \in Places(X) /\ CharAt(Z, <<i, a>>) = CharAt(X, <<i, a>>)
  <2>1. i \in Nat /\ i # Len(W) + 1
    <3>1. i \in Nat
      BY <1>9, <1>10
    <3>2. Len(W) + 1 > Len(X)
      BY <1>1, <1>6, <1>8
    <3> QED BY <1>6, <1>10, <3>1, <3>2
  <2>2. <<i, a>> \in Places(W)
    BY <1>5, <1>10, <2>1 DEF Longer
  <2>3. i \in 1..Len(W) /\ a \in Nat /\ a \in 1..Len(W[i]) /\ Readable(W[i][a])
    BY <2>2, PlaceFacts
  <2>4. i \in 1..Len(X)
    BY <1>6, <1>10, <2>1, <2>3
  <2>5. W[i] = X[i]
    BY <1>4, <2>4 DEF Joined
  <2>6. <<i, a>> \in Places(X)
    BY <2>3, <2>4, <2>5, PlaceFacts
  <2>7. CharAt(Z, <<i, a>>) = CharAt(W, <<i, a>>)
    BY <1>5, <2>2 DEF Longer
  <2> QED BY <2>5, <2>6, <2>7 DEF CharAt
<1>11. ASSUME NEW i, NEW a, <<i, a>> \in Places(Z), i > Len(X)
       PROVE  /\ i - N \in Nat /\ a \in 1..r /\ (i - N) * r + a \in 1..Len(s)
              /\ Readable(s[(i - N) * r + a])
              /\ CharAt(Z, <<i, a>>) = s[(i - N) * r + a]
  <2>1. i \in Nat /\ a \in Nat
    BY <1>9, <1>11
  <2>2. CASE i = Len(W) + 1
    <3>1. i - N = c
      BY <1>1, <1>6, <1>8, <2>2
    <3>2. <<i, a>> \notin Places(W)
      <4>1. i \notin 1..Len(W)
        BY <1>1, <1>6, <1>8, <2>2
      <4> QED BY <4>1, PlaceFacts
    <3>3. a \in 1..Len(t) /\ Readable(t[a])
      BY <1>5, <1>11, <3>2 DEF Longer
    <3>4. t[a] = s[c * r + a] /\ Len(t) = Len(s) - c * r
      BY <1>2, <3>3 DEF Cutting
    <3>5. CharAt(Z, <<i, a>>) = t[a]
      BY <1>5, <2>2, <3>3 DEF Longer
    <3>6. a \in 1..r /\ c * r + a \in 1..Len(s)
      <4> DEFINE y == c * r
      <4> HIDE DEF y
      <4>1. y \in Nat /\ y < Len(s) /\ Len(s) <= y + r /\ Len(t) = Len(s) - y
        BY <1>1, <1>8, <3>4 DEF y
      <4>2. a \in 1..r /\ y + a \in 1..Len(s)
        BY <1>6, <3>3, <4>1
      <4> QED BY <4>2 DEF y
    <3> QED BY <1>1, <3>1, <3>3, <3>4, <3>5, <3>6
  <2>3. CASE i # Len(W) + 1
    <3>1. <<i, a>> \in Places(W)
      BY <1>5, <1>11, <2>3 DEF Longer
    <3>2. i \in 1..Len(W) /\ a \in 1..Len(W[i]) /\ Readable(W[i][a])
      BY <3>1, PlaceFacts
    <3> DEFINE j == i - Len(X)
    <3>3. j \in 1..c /\ i = Len(X) + j /\ i - N = j - 1 /\ j - 1 \in Nat
      BY <1>1, <1>6, <1>8, <1>11, <2>1, <3>2
    <3> HIDE DEF j
    <3>4. W[i] = P[j]
      BY <1>4, <1>8, <3>3 DEF Joined
    <3>5. Len(P[j]) = r /\ a \in 1..r
      BY <1>2, <3>2, <3>3, <3>4 DEF Cutting
    <3>6. P[j][a] = s[(j - 1) * r + a]
      BY <1>2, <3>3, <3>5 DEF Cutting
    <3>7. CharAt(Z, <<i, a>>) = P[j][a]
      <4>1. CharAt(Z, <<i, a>>) = CharAt(W, <<i, a>>)
        BY <1>5, <3>1 DEF Longer
      <4> QED BY <3>4, <4>1 DEF CharAt
    <3>8. (j - 1) * r + a \in 1..Len(s)
      <4> DEFINE x == (j - 1) * r
                 y == c * r
      <4>1. x \in Nat /\ x + r <= y /\ y < Len(s) /\ y \in Nat
        <5>1. j - 1 < c
          BY <1>1, <3>3
        <5> QED BY <1>1, <1>6, <1>8, <3>3, <5>1, Multiples
      <4> HIDE DEF x, y
      <4>2. x + a \in 1..Len(s)
        BY <1>6, <3>5, <4>1
      <4> QED BY <4>2 DEF x
    <3> QED BY <3>2, <3>3, <3>4, <3>5, <3>6, <3>7, <3>8
  <2> QED BY <2>2, <2>3
<1>12. ASSUME NEW b \in 1..Len(s), Readable(s[b])
       PROVE  \E i, a : <<i, a>> \in Places(Z) /\ i > Len(X) /\ (i - N) * r + a = b
  <2> DEFINE d == (b - 1) \div r
             a == b - d * r
             i == N + d
  <2>1. b - 1 \in Nat /\ b \in Nat
    OBVIOUS
  <2>2. d \in Nat /\ d * r <= b - 1 /\ b - 1 < d * r + r
    BY <1>6, <2>1, Quotients
  <2>3. d * r \in Nat
    BY <1>6, <2>2, Multiples
  <2> HIDE DEF d
  <2>4. a \in 1..r /\ d * r + a = b
    <3> DEFINE y == d * r
    <3> HIDE DEF y
    <3>1. y \in Nat /\ y <= b - 1 /\ b - 1 < y + r
      BY <2>2, <2>3 DEF y
    <3>2. b - y \in 1..r /\ y + (b - y) = b
      BY <1>6, <2>1, <3>1
    <3> QED BY <3>2 DEF y
  <2>5. d <= c
    <3>1. CASE c < d
      <4>1. c * r + r <= d * r
        BY <1>1, <1>6, <2>2, <3>1, Multiples
      <4> DEFINE y == d * r
                 z == c * r
      <4> HIDE DEF y, z
      <4>2. y \in Nat /\ z \in Nat /\ y <= b - 1 /\ z + r <= y /\ Len(s) <= z + r
        BY <1>1, <1>8, <2>2, <2>3, <4>1 DEF y, z
      <4> QED BY <1>6, <2>1, <4>2
    <3> QED BY <1>1, <2>2, <3>1
  <2>6. i \in Nat /\ i - N = d /\ i > Len(X)
    BY <1>6, <2>2
  <2> HIDE DEF a, i
  <2>7. CASE d = c
    <3>1. a \in 1..Len(t)
      <4> DEFINE y == c * r
      <4> HIDE DEF y
      <4>1. y \in Nat /\ y + a = b /\ Len(t) = Len(s) - y
        BY <1>2, <1>8, <2>4, <2>7 DEF y, Cutting
      <4> QED BY <1>6, <2>1, <2>4, <4>1
    <3>2. t[a] = s[b]
      BY <1>2, <2>4, <2>7, <3>1 DEF Cutting
    <3>3. i = Len(W) + 1
      BY <1>1, <1>6, <1>8, <2>6, <2>7
    <3>4. <<i, a>> \in Places(Z)
      BY <1>5, <1>12, <3>1, <3>2, <3>3 DEF Longer
    <3> QED BY <2>4, <2>6, <3>4
  <2>8. CASE d # c
    <3> DEFINE j == d + 1
    <3>1. j \in 1..c /\ i = Len(X) + j /\ j - 1 = d
      BY <1>1, <1>6, <2>2, <2>5, <2>6, <2>8
    <3> HIDE DEF j
    <3>2. i \in 1..Len(W) /\ W[i] = P[j]
      BY <1>4, <1>8, <3>1 DEF Joined
    <3>3. P[j][a] = s[b] /\ a \in 1..Len(P[j])
      BY <1>2, <2>4, <3>1 DEF Cutting
    <3>4. <<i, a>> \in Places(W)
      <4>1. a \in Nat /\ a \in 1..Len(W[i]) /\ Readable(W[i][a])
        BY <1>12, <2>4, <3>2, <3>3
      <4>2. <<i, a>> \in Places(W) <=>
              i \in 1..Len(W) /\ a \in Nat /\ a \in 1..Len(W[i]) /\ Readable(W[i][a])
        BY PlaceFacts
      <4> QED BY ONLY <3>2, <4>1, <4>2
    <3>5. <<i, a>> \in Places(Z)
      BY <1>5, <3>4 DEF Longer
    <3> QED BY <2>4, <2>6, <3>5
  <2> QED BY <2>7, <2>8
<1>13. ASSUME NEW i, NEW a, <<i, a>> \in Places(X)
       PROVE  <<i, a>> \in Places(Z) /\ i <= Len(X)
  <2>1. i \in 1..Len(X) /\ a \in Nat /\ a \in 1..Len(X[i]) /\ Readable(X[i][a])
    BY <1>13, PlaceFacts
  <2>2. i \in 1..Len(W) /\ W[i] = X[i]
    BY <1>4, <2>1 DEF Joined
  <2>3. <<i, a>> \in Places(W)
    BY <2>1, <2>2, PlaceFacts
  <2> QED BY <1>5, <1>6, <2>1, <2>3 DEF Longer
<1> DEFINE f == [p \in Places(Z) |-> IF p[1] <= Len(X) THEN p
                                       ELSE <<N, (p[1] - N) * r + p[2]>>]
<1>14. ASSUME NEW p \in Places(Z), p[1] <= Len(X)
       PROVE  f[p] = p /\ p \in Places(X) /\ p \in Places(Y) /\ CharAt(Z, p) = CharAt(Y, p)
  <2> DEFINE i == p[1]
             a == p[2]
  <2>1. p = <<i, a>>
    BY <1>9
  <2>2. f[p] = p
    BY <1>14
  <2> HIDE DEF i, a, f
  <2>3. i <= Len(X)
    BY <1>14 DEF i
  <2>4. p \in Places(X) /\ CharAt(Z, p) = CharAt(X, p)
    BY <1>10, <2>1, <2>3
  <2>5. p \in Places(Y) /\ CharAt(Y, p) = CharAt(X, p)
    BY <1>3, <2>4 DEF Longer
  <2> QED BY <2>2, <2>4, <2>5
<1>15. ASSUME NEW p \in Places(Z), ~(p[1] <= Len(X))
       PROVE  /\ f[p] = <<N, (p[1] - N) * r + p[2]>> /\ p[1] - N \in Nat /\ p[2] \in 1..r
              /\ (p[1] - N) * r + p[2] \in 1..Len(s)
              /\ f[p] \in Places(Y) /\ CharAt(Z, p) = CharAt(Y, f[p])
  <2> DEFINE i == p[1]
             a == p[2]
  <2>1. p = <<i, a>> /\ i \in Nat
    BY <1>9
  <2>2. f[p] = <<N, (i - N) * r + a>>
    BY <1>15
  <2>3. i > Len(X)
    BY <1>6, <1>15, <2>1
  <2> HIDE DEF i, a, f
  <2> DEFINE b == (i - N) * r + a
  <2>4. /\ i - N \in Nat /\ a \in 1..r /\ b \in 1..Len(s)
        /\ Readable(s[b]) /\ CharAt(Z, <<i, a>>) = s[b]
    BY <1>11, <2>1, <2>3
  <2> HIDE DEF b
  <2>5. <<N, b>> \in Places(Y) /\ CharAt(Y, <<N, b>>) = s[b]
    BY <1>3, <1>6, <2>4 DEF Longer
  <2> QED BY <2>1, <2>2, <2>4, <2>5 DEF i, a, b
<1> HIDE DEF f
<1>16. \A p \in Places(Z) : f[p] \in Places(Y) /\ CharAt(Y, f[p]) = CharAt(Z, p)
  <2>1. ASSUME NEW p \in Places(Z)
        PROVE  f[p] \in Places(Y) /\ CharAt(Y, f[p]) = CharAt(Z, p)
    <3>1. CASE p[1] <= Len(X)
      BY <1>14, <3>1
    <3>2. CASE ~(p[1] <= Len(X))
      BY <1>15, <3>2
    <3> QED BY <3>1, <3>2
  <2> QED BY <2>1
<1>17. \A p, q \in Places(Z) : Precedes(p, q) => Precedes(f[p], f[q])
  <2>1. ASSUME NEW p \in Places(Z), NEW q \in Places(Z), Precedes(p, q)
        PROVE  Precedes(f[p], f[q])
    <3>1. p[1] \in Nat /\ p[2] \in Nat /\ q[1] \in Nat /\ q[2] \in Nat
      BY <1>9
    <3>2. CASE p[1] <= Len(X) /\ q[1] <= Len(X)
      BY <1>14, <2>1, <3>2
    <3>3. CASE p[1] <= Len(X) /\ ~(q[1] <= Len(X))
      <4>1. f[p][1] <= Len(X) /\ f[q][1] = N
        BY <1>14, <1>15, <3>3
      <4>2. f[p][1] \in Nat
        BY <1>14, <3>1, <3>3
      <4> QED BY <1>6, <4>1, <4>2 DEF Precedes
    <3>4. CASE ~(p[1] <= Len(X)) /\ q[1] <= Len(X)
      BY <1>6, <2>1, <3>1, <3>4 DEF Precedes
    <3>5. CASE ~(p[1] <= Len(X)) /\ ~(q[1] <= Len(X))
      <4> DEFINE d == p[1] - N
                 e == q[1] - N
                 a == p[2]
                 b == q[2]
      <4>1. /\ f[p] = <<N, d * r + a>> /\ d \in Nat /\ a \in 1..r
            /\ f[q] = <<N, e * r + b>> /\ e \in Nat /\ b \in 1..r
        BY <1>15, <3>5
      <4>2. d < e \/ (d = e /\ a < b)
        BY <1>6, <2>1, <3>1 DEF Precedes
      <4> HIDE DEF d, e, a, b
      <4> DEFINE x == d * r
                 y == e * r
      <4>3. x \in Nat /\ y \in Nat /\ (d < e => x + r <= y) /\ (d = e => x = y)
        BY <1>6, <4>1, Multiples
      <4> HIDE DEF x, y
      <4>4. x + a < y + b
        BY <1>6, <4>1, <4>2, <4>3
      <4>5. f[p] = <<N, x + a>> /\ f[q] = <<N, y + b>>
        BY <4>1 DEF x, y
      <4> QED BY <4>4, <4>5 DEF Precedes
    <3> QED BY <3>2, <3>3, <3>4, <3>5
  <2> QED BY <2>1
<1>18. \A q \in Places(Y) : \E p \in Places(Z) : f[p] = q
  <2>1. ASSUME NEW q \in Places(Y)
        PROVE  \E p \in Places(Z) : f[p] = q
    <3> DEFINE i == q[1]
               b == q[2]
    <3>1. q = <<i, b>>
      BY <1>3 DEF Longer
    <3> HIDE DEF i, b
    <3>2. CASE q \in Places(X)
      <4>1. q \in Places(Z) /\ i <= Len(X)
        BY <1>13, <3>1, <3>2
      <4>2. q[1] <= Len(X)
        BY <4>1 DEF i
      <4> QED BY <1>14, <4>1, <4>2
    <3>3. CASE q \notin Places(X)
      <4>1. i = N /\ b \in 1..Len(s) /\ Readable(s[b])
        BY <1>3, <1>6, <3>1, <3>3 DEF Longer
      <4>2. PICK k, a : <<k, a>> \in Places(Z) /\ k > Len(X) /\ (k - N) * r + a = b
        BY <1>12, <4>1
      <4> DEFINE p == <<k, a>>
      <4>3. p \in Places(Z) /\ p[1] = k /\ p[2] = a /\ k \in Nat
        BY <1>9, <4>2
      <4>4. ~(p[1] <= Len(X))
        BY <1>6, <4>2, <4>3
      <4> HIDE DEF p
      <4>5. f[p] = <<N, (p[1] - N) * r + p[2]>>
        BY <1>15, <4>3, <4>4
      <4>6. f[p] = <<N, b>>
        BY <4>2, <4>3, <4>5
      <4> QED BY <3>1, <4>1, <4>3, <4>6
    <3> QED BY <3>2, <3>3
  <2> QED BY <2>1
<1>19. TellLines(Z, n)
  <2>1. Retells(Y, Z, f)
    BY <1>16, <1>17, <1>18, Zenon DEF Retells
  <2> QED BY <1>7, <2>1, Retold
<1> QED BY <1>19 DEF Z, W, P, t

-----------------------------------------------------------------------------
(* What is put before and after a text.                                    *)

\* What cannot be read may be put before a line.
LEMMA Prefixed ==
    ASSUME answer \in Seq(LineTypes), NEW l \in 1..Len(answer),
           NEW p \in Seq(Character), NEW t \in Seq(Character),
           \A k \in 1..Len(p) : ~Readable(p[k]), TellsLine(t, l)
    PROVE  TellsLine(p \o t, l)
<1> DEFINE u == p \o t
<1>1. u \in Seq(Character) /\ Joined(u, p, t)
  BY Concatenated
<1>2. Len(p) \in Nat /\ Len(t) \in Nat
  OBVIOUS
<1> HIDE DEF u
<1>3. ASSUME NEW a \in 1..Len(u), Readable(u[a])
      PROVE  \E m \in 1..Len(t) : a = Len(p) + m /\ u[a] = t[m] /\ Readable(t[m])
  <2>1. a \notin 1..Len(p)
    BY <1>1, <1>3 DEF Joined
  <2>2. PICK m \in 1..Len(t) : a = Len(p) + m
    BY <1>1, <2>1 DEF Joined
  <2>3. u[a] = t[m]
    BY <1>1, <2>2 DEF Joined
  <2> QED BY <1>3, <2>2, <2>3
<1>4. ASSUME NEW a \in 1..Len(u), NEW b \in 1..Len(u),
             Readable(u[a]), Readable(u[b]), a < b
      PROVE  u[a][2] < u[b][2]
  <2>1. PICK m \in 1..Len(t) : a = Len(p) + m /\ u[a] = t[m] /\ Readable(t[m])
    BY <1>3, <1>4
  <2>2. PICK k \in 1..Len(t) : b = Len(p) + k /\ u[b] = t[k] /\ Readable(t[k])
    BY <1>3, <1>4
  <2>3. m < k
    BY <1>2, <1>4, <2>1, <2>2
  <2> QED BY <2>1, <2>2, <2>3 DEF TellsLine
<1>5. ASSUME NEW a \in 1..Len(u), Readable(u[a])
      PROVE  u[a][1] = l /\ u[a][2] \in 1..answer[l].size
  BY <1>3, <1>5 DEF TellsLine
<1>6. ASSUME NEW k \in 1..answer[l].size
      PROVE  \E a \in 1..Len(u) : u[a] = <<l, k>>
  <2>1. PICK m \in 1..Len(t) : t[m] = <<l, k>>
    BY DEF TellsLine
  <2>2. Len(p) + m \in 1..Len(u) /\ u[Len(p) + m] = t[m]
    BY <1>1 DEF Joined
  <2> QED BY <2>1, <2>2
<1>7. TellsLine(u, l)
  BY <1>4, <1>5, <1>6 DEF TellsLine
<1> QED BY <1>7 DEF u

\* A text without its blanks at the end, and the fence that may close it.
LEMMA StrippedFacts ==
    ASSUME NEW s \in Seq(Character), NEW full, full = Stripped(s)
    PROVE  /\ full \in Seq(Character) /\ Len(full) <= Len(s)
           /\ \A k \in 1..Len(full) : full[k] = s[k]
           /\ \A k \in 1..Len(s) : k > Len(full) => ~Readable(s[k])
<1> DEFINE T == {0} \cup {i \in 1..Len(s) : Visible(s[i])}
           m == Max(T)
<1>1. Len(s) \in Nat /\ T \subseteq 0..Len(s) /\ T # {}
  OBVIOUS
<1>2. m \in T /\ \A y \in T : y <= m
  <2> HIDE DEF T
  <2> QED BY <1>1, GreatestNumber
<1>3. m \in 0..Len(s)
  BY <1>1, <1>2
<1>4. full = SubSeq(s, 1, m)
  BY DEF Stripped
<1>5. \A k \in 1..Len(s) : k > m => ~Visible(s[k])
  <2>1. \A k \in 1..Len(s) : Visible(s[k]) => k \in T
    OBVIOUS
  <2> HIDE DEF T, m
  <2>2. ASSUME NEW k \in 1..Len(s), k > m, Visible(s[k])
        PROVE  FALSE
    <3>1. k <= m
      BY <1>2, <2>1, <2>2
    <3> QED BY <1>1, <1>3, <2>2, <3>1
  <2> QED BY <2>2
<1> HIDE DEF T, m
<1>6. /\ SubSeq(s, 1, m) \in Seq(Character) /\ Len(SubSeq(s, 1, m)) = m
      /\ \A k \in 1..m : SubSeq(s, 1, m)[k] = s[k]
  BY <1>1, <1>3
<1>7. \A k \in 1..Len(s) : k > m => ~Readable(s[k])
  BY <1>5 DEF Readable
<1> QED BY <1>1, <1>3, <1>4, <1>6, <1>7

LEMMA StrippedText ==
    ASSUME NEW s \in Seq(Character), NEW full, full = Stripped(s)
    PROVE  SameText(s, full)
<1>1. /\ full \in Seq(Character) /\ Len(full) <= Len(s)
      /\ \A k \in 1..Len(full) : full[k] = s[k]
      /\ \A k \in 1..Len(s) : k > Len(full) => ~Readable(s[k])
  BY StrippedFacts
<1>2. Len(full) \in Nat /\ \A k \in 1..Len(full) : ~(k > Len(full))
  BY <1>1
<1> QED BY <1>1, <1>2 DEF SameText

\* What the split inserts cannot be read.
LEMMA FenceFacts ==
    /\ Backticks \in Seq(Character) /\ Len(Backticks) = 3
    /\ \A k \in 1..3 : ~Readable(Backticks[k])
    /\ Break(0) \in Character /\ ~Readable(Break(0))
<1>1. \A k \in {0, 1, 2, 3} : <<0, k>> \in Character /\ ~Readable(<<0, k>>)
  BY DEF Character, Readable, Inserted
<1>2. Backticks \in Seq(Character) /\ Len(Backticks) = 3
  BY <1>1 DEF Backticks
<1>3. Backticks[1] = <<0, 1>> /\ Backticks[2] = <<0, 2>> /\ Backticks[3] = <<0, 3>>
  BY DEF Backticks
<1>4. \A k \in 1..3 : k = 1 \/ k = 2 \/ k = 3
  OBVIOUS
<1>5. ~Readable(Backticks[1]) /\ ~Readable(Backticks[2]) /\ ~Readable(Backticks[3])
  BY <1>1, <1>3
<1>6. \A k \in 1..3 : ~Readable(Backticks[k])
  BY <1>4, <1>5
<1> QED BY <1>1, <1>2, <1>6 DEF Break

LEMMA ReopenFacts ==
    ASSUME NEW p, p = Append(Backticks, Break(0))
    PROVE  p \in Seq(Character) /\ \A k \in 1..Len(p) : ~Readable(p[k])
<1> DEFINE b == Backticks
           e == Break(0)
<1>1. /\ b \in Seq(Character) /\ Len(b) = 3 /\ \A k \in 1..3 : ~Readable(b[k])
      /\ e \in Character /\ ~Readable(e)
  BY FenceFacts
<1> HIDE DEF b, e
<1>2. p = Append(b, e)
  BY DEF b, e
<1>3. /\ p \in Seq(Character) /\ Len(p) = Len(b) + 1
      /\ p[Len(b) + 1] = e /\ \A k \in 1..Len(b) : p[k] = b[k]
  <2>1. b \in Seq(Character) /\ e \in Character
    BY <1>1
  <2> QED BY ONLY <1>2, <2>1
<1>4. \A k \in 1..Len(p) : k = 4 \/ k \in 1..3
  BY <1>1, <1>3
<1> QED BY <1>1, <1>3, <1>4

LEMMA ClosedText ==
    ASSUME NEW s \in Seq(Character), NEW u,
           u = Append(Stripped(s), Break(0)) \o Backticks
    PROVE  u \in Seq(Character) /\ Len(u) <= Len(s) + 4 /\ SameText(s, u)
<1> DEFINE full == Stripped(s)
           e == Break(0)
           v == Append(full, e)
<1>1. /\ full \in Seq(Character) /\ Len(full) <= Len(s)
      /\ \A k \in 1..Len(full) : full[k] = s[k]
      /\ \A k \in 1..Len(s) : k > Len(full) => ~Readable(s[k])
  BY StrippedFacts
<1>2. e \in Character /\ ~Readable(e)
  BY FenceFacts
<1> HIDE DEF full, e
<1>3. /\ v \in Seq(Character) /\ Len(v) = Len(full) + 1 /\ Len(full) \in Nat
      /\ \A k \in 1..Len(full) : v[k] = full[k]
      /\ v[Len(full) + 1] = e /\ Len(s) \in Nat
  BY <1>1, <1>2
<1> HIDE DEF v
<1>4. u = v \o Backticks
  BY DEF v, full, e
<1>5. u \in Seq(Character) /\ Joined(u, v, Backticks)
  BY <1>3, <1>4, FenceFacts, Concatenated
<1>6. Len(u) = Len(full) + 4
  BY <1>3, <1>5, FenceFacts DEF Joined
<1>7. \A k \in 1..Len(full) : s[k] = u[k]
  <2>1. \A k \in 1..Len(full) : k \in 1..Len(v)
    BY <1>3
  <2> QED BY <1>1, <1>3, <1>5, <2>1 DEF Joined
<1>8. ASSUME NEW k \in 1..Len(u), k > Len(full)
      PROVE  ~Readable(u[k])
  <2>1. CASE k \in 1..Len(v)
    <3>1. k = Len(full) + 1
      BY <1>3, <1>8, <2>1
    <3>2. u[k] = v[k]
      BY <1>5, <2>1 DEF Joined
    <3> QED BY <1>2, <1>3, <3>1, <3>2
  <2>2. CASE k \notin 1..Len(v)
    <3>1. PICK m \in 1..Len(Backticks) : k = Len(v) + m
      BY <1>5, <2>2 DEF Joined
    <3>2. u[k] = Backticks[m]
      BY <1>5, <3>1 DEF Joined
    <3> QED BY <3>1, <3>2, FenceFacts
  <2> QED BY <2>1, <2>2
<1>9. Len(full) <= Len(u)
  BY <1>3, <1>6
<1>10. SameText(s, u)
  BY <1>1, <1>3, <1>7, <1>8, <1>9 DEF SameText
<1> QED BY <1>1, <1>3, <1>5, <1>6, <1>10

-----------------------------------------------------------------------------
(* The text as a whole.                                                    *)

\* The function by which FlattenSeq is defined.
Flattens(g, L, n) == g = [i \in 1..n |-> IF i = 1 THEN L[i] ELSE g[i - 1] \o L[i]]

LEMMA FlatteningExists ==
    ASSUME NEW L, NEW n \in Nat, n >= 1
    PROVE  \E g : Flattens(g, L, n)
<1> DEFINE T == {m \in Nat : m >= 1 /\ ~\E g : Flattens(g, L, m)}
<1>1. SUFFICES ASSUME T # {} PROVE FALSE
  OBVIOUS
<1>2. PICK m \in T : \A y \in T : m <= y
  <2> DEFINE U == T
  <2>1. U \subseteq Nat /\ U # {}
    BY <1>1
  <2> HIDE DEF U
  <2>2. \E x \in U : \A y \in U : x <= y
    BY <2>1, LeastNumber
  <2> QED BY <2>2 DEF U
<1>3. m \in Nat /\ m >= 1 /\ ~\E g : Flattens(g, L, m)
  OBVIOUS
<1>4. CASE m = 1
  <2> DEFINE g == [i \in 1..1 |-> L[1]]
  <2>1. g = [i \in 1..1 |-> IF i = 1 THEN L[i] ELSE g[i - 1] \o L[i]]
    OBVIOUS
  <2>2. Flattens(g, L, m)
    BY <1>4, <2>1 DEF Flattens
  <2> QED BY <1>3, <2>2
<1>5. CASE m # 1
  <2>1. m - 1 \in Nat /\ m - 1 >= 1 /\ ~(m <= m - 1)
    BY <1>3, <1>5
  <2>2. m - 1 \notin T
    BY <1>2, <2>1
  <2>3. PICK h : Flattens(h, L, m - 1)
    BY <2>1, <2>2
  <2> DEFINE g == [i \in 1..m |-> IF i = m THEN h[m - 1] \o L[m] ELSE h[i]]
  <2>4. ASSUME NEW i \in 1..m
        PROVE  g[i] = IF i = 1 THEN L[i] ELSE g[i - 1] \o L[i]
    <3>1. CASE i = m
      <4>1. g[i] = h[m - 1] \o L[m] /\ i # 1
        BY <1>5, <3>1
      <4>2. m - 1 \in 1..m /\ m - 1 # m
        BY <2>1
      <4>3. g[m - 1] = h[m - 1]
        BY <4>2
      <4> HIDE DEF g
      <4> QED BY <3>1, <4>1, <4>3
    <3>2. CASE i # m
      <4>1. g[i] = h[i] /\ i \in 1..(m - 1)
        BY <1>3, <3>2
      <4>2. h[i] = IF i = 1 THEN L[i] ELSE h[i - 1] \o L[i]
        BY <2>3, <4>1 DEF Flattens
      <4>3. CASE i = 1
        BY <4>1, <4>2, <4>3
      <4>4. CASE i # 1
        <5>1. i - 1 \in 1..m /\ i - 1 # m
          BY <1>3, <4>1, <4>4
        <5>2. g[i - 1] = h[i - 1]
          BY <5>1
        <5> HIDE DEF g
        <5> QED BY <4>1, <4>2, <4>4, <5>2
      <4> QED BY <4>3, <4>4
    <3> QED BY <3>1, <3>2
  <2>5. g = [i \in 1..m |-> g[i]]
    OBVIOUS
  <2> HIDE DEF g
  <2>6. g = [i \in 1..m |-> IF i = 1 THEN L[i] ELSE g[i - 1] \o L[i]]
    BY <2>4, <2>5
  <2>7. Flattens(g, L, m)
    BY <2>6 DEF Flattens
  <2> QED BY <1>3, <2>7
<1> QED BY <1>4, <1>5

LEMMA FlattenedSeq ==
    ASSUME NEW L, NEW n \in Nat, n >= 1, Len(L) = n
    PROVE  \E g : Flattens(g, L, n) /\ FlattenSeq(L) = g[n]
<1> DEFINE F == CHOOSE g : g = [i \in 1..n |-> IF i = 1 THEN L[i] ELSE g[i - 1] \o L[i]]
<1>1. \E g : g = [i \in 1..n |-> IF i = 1 THEN L[i] ELSE g[i - 1] \o L[i]]
  BY FlatteningExists DEF Flattens
<1>2. F = [i \in 1..n |-> IF i = 1 THEN L[i] ELSE F[i - 1] \o L[i]]
  BY <1>1, Zenon
<1>3. FlattenSeq(L) = F[n]
  <2>1. Len(L) # 0
    OBVIOUS
  <2> QED BY <2>1, Zenon DEF FlattenSeq
<1> HIDE DEF F
<1>4. Flattens(F, L, n)
  BY <1>2 DEF Flattens
<1> QED BY <1>3, <1>4

\* The whole answer in one text.
LEMMA TextFacts ==
    ASSUME answer \in Seq(LineTypes), Len(answer) >= 1, NEW t, t = Text
    PROVE  t \in Seq(Character) /\ TellLines(<<t>>, Len(answer) + 1)
<1> DEFINE n == Len(answer)
           L == [l \in 1..n |-> Chars(l)]
<1>1. n \in Nat /\ n >= 1 /\ Len(L) = n /\ \A l \in 1..n : L[l] = Chars(l)
  OBVIOUS
<1>2. Text = FlattenSeq(L)
  BY DEF Text
<1> HIDE DEF L
<1>3. PICK g : Flattens(g, L, n) /\ FlattenSeq(L) = g[n]
  BY <1>1, FlattenedSeq
<1> DEFINE Good(m) == g[m] \in Seq(Character) /\ TellLines(<<g[m]>>, m + 1)
           T == {m \in 1..n : ~Good(m)}
<1>4. \A l \in 1..n : Chars(l) \in Seq(Character) /\ TellsLine(Chars(l), l)
  BY CharsFacts
<1>5. ASSUME NEW m \in 1..n, NEW s \in Seq(Character), TellLines(<<s>>, m)
      PROVE  TellLines(<<s \o Chars(m)>>, m + 1)
  <2> DEFINE X == <<>>
             t2 == Chars(m)
  <2>1. X \in Seq(Seq(Character)) /\ Append(X, s) = <<s>>
    OBVIOUS
  <2>2. t2 \in Seq(Character) /\ TellsLine(t2, m)
    BY <1>4
  <2>3. Append(X, s \o t2) = <<s \o t2>>
    OBVIOUS
  <2> HIDE DEF X, t2, n
  <2>4. TellLines(Append(X, s), m)
    BY <1>5, <2>1
  <2>5. m \in 1..Len(answer)
    BY DEF n
  <2>6. TellLines(Append(X, s \o t2), m + 1)
    BY <2>1, <2>2, <2>4, <2>5, Extended
  <2> QED BY <2>3, <2>6 DEF t2
<1>6. SUFFICES ASSUME T # {} PROVE FALSE
  <2>1. n \in 1..n
    BY <1>1
  <2>2. Good(n)
    BY <1>6, <2>1
  <2> QED BY <1>2, <1>3, <2>2
<1>7. PICK m \in T : \A y \in T : m <= y
  <2> DEFINE U == T
  <2>1. U \subseteq Nat /\ U # {}
    BY <1>6
  <2> HIDE DEF U
  <2>2. \E x \in U : \A y \in U : x <= y
    BY <2>1, LeastNumber
  <2> QED BY <2>2 DEF U
<1>8. m \in 1..n /\ m \in Nat /\ ~Good(m)
  OBVIOUS
<1>9. g[m] = IF m = 1 THEN L[m] ELSE g[m - 1] \o L[m]
  BY <1>3, <1>8 DEF Flattens
<1>10. CASE m = 1
  <2> DEFINE e == <<>>
             c == Chars(m)
  <2>1. e \in Seq(Character) /\ Len(e) = 0
    OBVIOUS
  <2>2. TellLines(<<e>>, 1)
    <3>1. \A c2 \in Characters : ~(c2[1] < 1)
      BY CharactersFacts
    <3>2. Places(<<e>>) = {}
      BY <2>1 DEF Places
    <3> QED BY <3>1, <3>2 DEF TellLines
  <2>3. c \in Seq(Character) /\ e \o c = c
    BY <1>4, <1>8
  <2>4. TellLines(<<e \o c>>, m + 1)
    BY <1>5, <1>8, <1>10, <2>1, <2>2
  <2>5. g[m] = c
    BY <1>1, <1>8, <1>9, <1>10
  <2> QED BY <1>8, <2>3, <2>4, <2>5
<1>11. CASE m # 1
  <2>1. m - 1 \in 1..n /\ ~(m <= m - 1) /\ (m - 1) + 1 = m
    BY <1>8, <1>11
  <2>2. Good(m - 1)
    BY <1>7, <2>1
  <2> DEFINE s == g[m - 1]
  <2>3. s \in Seq(Character) /\ TellLines(<<s>>, m)
    BY <2>1, <2>2
  <2>4. g[m] = s \o Chars(m)
    BY <1>1, <1>8, <1>9, <1>11
  <2> HIDE DEF s
  <2>5. TellLines(<<s \o Chars(m)>>, m + 1)
    BY <1>5, <1>8, <2>3
  <2>6. s \o Chars(m) \in Seq(Character)
    BY <1>4, <1>8, <2>3
  <2> QED BY <1>8, <2>4, <2>5, <2>6
<1> QED BY <1>10, <1>11

-----------------------------------------------------------------------------
(* The messages.                                                           *)

\* The parts that come before the first image.
TextsOnly(texts) ==
    IF accepted = <<>> THEN Len(texts) ELSE IF texts = <<>> THEN 0 ELSE Len(texts) - 1

\* What the messages of some texts are.
AreMessages(M, texts) ==
    /\ M \in Seq(PartTypes) /\ Len(M) = TextsOnly(texts) + Len(accepted)
    /\ Len(texts) <= Len(M)
    /\ \A i \in 1..Len(texts) : M[i].text = texts[i]
    /\ \A i \in 1..Len(M) : i > Len(texts) => M[i].text = <<>>
    /\ \A i \in 1..Len(M) : i <= TextsOnly(texts) => M[i].image = NoImage
    /\ \A i \in 1..Len(M) : i > TextsOnly(texts) =>
         M[i].image = accepted[i - TextsOnly(texts)]

LEMMA MessagesFacts ==
    ASSUME accepted \in Seq(Nat), NEW texts \in Seq(Seq(Character)), NEW M,
           M = MessagesOf(texts)
    PROVE  AreMessages(M, texts)
<1> DEFINE n == Len(texts)
           k == Len(accepted)
           images == IF texts = <<>> \/ accepted = <<>> THEN accepted ELSE Tail(accepted)
           last == IF accepted # <<>> THEN accepted[1] ELSE NoImage
           A == [i \in 1..n |-> Part(texts[i], IF i = n THEN last ELSE NoImage)]
           B == [i \in 1..Len(images) |-> Part(<<>>, images[i])]
<1>1. n \in Nat /\ k \in Nat /\ (accepted = <<>> <=> k = 0) /\ (texts = <<>> <=> n = 0)
  OBVIOUS
<1>2. images \in Seq(Nat) /\ last \in Nat
  BY DEF NoImage
<1>3. M = A \o B
  <2>1. A = [i \in 1..n |-> Part(texts[i], IF i = n /\ accepted # <<>>
                                           THEN accepted[1] ELSE NoImage)]
    OBVIOUS
  <2> QED BY <2>1, Zenon DEF MessagesOf
<1>4. /\ texts # <<>> /\ accepted # <<>> =>
           /\ Len(images) = k - 1
           /\ \A i \in 1..(k - 1) : images[i] = accepted[i + 1]
      /\ texts = <<>> \/ accepted = <<>> => images = accepted
  BY <1>1
<1> HIDE DEF images, last
<1>5. /\ A \in Seq(PartTypes) /\ Len(A) = n
      /\ \A i \in 1..n : A[i].text = texts[i] /\ A[i].image = IF i = n THEN last ELSE 0
  <2>1. \A i \in 1..n : /\ Part(texts[i], IF i = n THEN last ELSE NoImage) \in PartTypes
                        /\ A[i] = Part(texts[i], IF i = n THEN last ELSE NoImage)
    BY <1>2 DEF Part, PartTypes, NoImage
  <2>2. \A i \in 1..n : A[i].text = texts[i] /\ A[i].image = IF i = n THEN last ELSE 0
    BY <2>1 DEF Part, NoImage
  <2>3. A \in [1..n -> PartTypes]
    BY <2>1
  <2> HIDE DEF A, n
  <2>4. A \in Seq(PartTypes) /\ Len(A) = n
    BY <1>1, <2>3
  <2> QED BY <2>2, <2>4
<1>6. /\ B \in Seq(PartTypes) /\ Len(B) = Len(images)
      /\ \A i \in 1..Len(images) : B[i].text = <<>> /\ B[i].image = images[i]
  <2>1. \A i \in 1..Len(images) : /\ Part(<<>>, images[i]) \in PartTypes
                                  /\ B[i] = Part(<<>>, images[i])
    BY <1>2 DEF Part, PartTypes
  <2>2. \A i \in 1..Len(images) : B[i].text = <<>> /\ B[i].image = images[i]
    BY <2>1 DEF Part
  <2>3. B \in [1..Len(images) -> PartTypes] /\ Len(images) \in Nat
    BY <1>2, <2>1
  <2> DEFINE l == Len(images)
  <2> HIDE DEF B, l
  <2>5. B \in [1..l -> PartTypes] /\ l \in Nat
    BY <2>3 DEF l
  <2>4. B \in Seq(PartTypes) /\ Len(B) = l
    BY <2>5
  <2> USE DEF l
  <2> QED BY <2>2, <2>4
<1> HIDE DEF A, B, n, k
<1>7. M \in Seq(PartTypes) /\ Joined(M, A, B)
  BY <1>3, <1>5, <1>6, Concatenated
<1> DEFINE e == TextsOnly(texts)
           m == Len(images)
<1>8. /\ n = 0 => e = 0 /\ m = k
      /\ k = 0 => e = n /\ m = 0
      /\ n # 0 /\ k # 0 => e = n - 1 /\ m = k - 1 /\ last = accepted[1]
      /\ k = 0 => last = 0
  <2>1. n \in Nat /\ k \in Nat /\ (accepted = <<>> <=> k = 0) /\ (texts = <<>> <=> n = 0)
    BY <1>1 DEF n, k
  <2>2. e = IF accepted = <<>> THEN n ELSE IF texts = <<>> THEN 0 ELSE n - 1
    BY DEF TextsOnly, n
  <2>3. k = 0 => last = 0
    BY <2>1 DEF last, NoImage
  <2>4. k # 0 => last = accepted[1]
    BY <2>1 DEF last
  <2>5. k # 0 /\ n # 0 => m = k - 1
    BY <1>4, <2>1 DEF k
  <2>6. k = 0 \/ n = 0 => m = k
    BY <1>4, <2>1 DEF k
  <2> HIDE DEF e, m
  <2>7. CASE k = 0
    <3>1. e = n
      BY <2>1, <2>2, <2>7
    <3> QED BY ONLY <2>1, <2>3, <2>6, <2>7, <3>1
  <2>8. CASE k # 0 /\ n = 0
    <3>1. e = 0
      BY <2>1, <2>2, <2>8
    <3> QED BY ONLY <2>1, <2>6, <2>8, <3>1
  <2>9. CASE k # 0 /\ n # 0
    <3>1. e = n - 1
      BY <2>1, <2>2, <2>9
    <3> QED BY ONLY <2>1, <2>4, <2>5, <2>9, <3>1
  <2> QED BY <2>7, <2>8, <2>9
<1>9. Len(M) = n + m /\ m \in Nat
  BY <1>2, <1>5, <1>6, <1>7 DEF Joined
<1> HIDE DEF e, m
<1>10. Len(M) = e + k /\ n <= Len(M) /\ e \in Nat
  <2>1. n \in Nat /\ k \in Nat
    BY <1>1
  <2>2. /\ n = 0 => e = 0 /\ m = k
        /\ k = 0 => e = n /\ m = 0
        /\ n # 0 /\ k # 0 => e = n - 1 /\ m = k - 1
    BY <1>8
  <2> DEFINE l == Len(M)
  <2>3. l = n + m
    BY <1>9
  <2> HIDE DEF l
  <2>5. m \in Nat
    BY <1>9
  <2>4. l = e + k /\ n <= l /\ e \in Nat
    <3>1. CASE k = 0
      BY ONLY <2>1, <2>2, <2>3, <2>5, <3>1
    <3>2. CASE n = 0
      BY ONLY <2>1, <2>2, <2>3, <2>5, <3>2
    <3>3. CASE n # 0 /\ k # 0
      BY ONLY <2>1, <2>2, <2>3, <2>5, <3>3
    <3> QED BY <3>1, <3>2, <3>3
  <2> QED BY <2>4 DEF l
<1>11. ASSUME NEW i \in 1..n
       PROVE  M[i].text = texts[i] /\ M[i].image = IF i = n THEN last ELSE 0
  <2>1. M[i] = A[i]
    BY <1>5, <1>7 DEF Joined
  <2> QED BY <1>5, <2>1
<1>12. ASSUME NEW i \in 1..Len(M), i > n
       PROVE  i - n \in 1..m /\ M[i].text = <<>> /\ M[i].image = images[i - n]
  <2>1. i - n \in 1..m /\ i = n + (i - n)
    BY <1>1, <1>9, <1>12
  <2> DEFINE j == i - n
  <2> HIDE DEF j
  <2>2. j \in 1..m /\ i = n + j
    BY <2>1 DEF j
  <2>3. M[i] = B[j]
    BY <1>5, <1>6, <1>7, <2>2 DEF Joined, m
  <2>4. B[j].text = <<>> /\ B[j].image = images[j]
    BY <1>6, <2>2 DEF m
  <2> QED BY <2>1, <2>3, <2>4 DEF j
<1>13. ASSUME NEW i \in 1..Len(M), i <= e
       PROVE  M[i].image = 0
  <2>1. i \in 1..n /\ (i = n => k = 0)
    BY <1>1, <1>8, <1>13
  <2> QED BY <1>8, <1>11, <2>1
<1>14. ASSUME NEW i \in 1..Len(M), i > e
       PROVE  M[i].image = accepted[i - e]
  <2>1. CASE i <= n
    <3>1. i = n /\ n # 0 /\ k # 0 /\ i - e = 1
      BY <1>1, <1>8, <1>14, <2>1
    <3>2. i \in 1..n
      BY <1>1, <3>1
    <3> QED BY <1>8, <1>11, <3>1, <3>2
  <2>2. CASE i > n
    <3>1. i - n \in 1..m /\ M[i].image = images[i - n]
      BY <1>12, <2>2
    <3>2. CASE n = 0
      <4>1. images = accepted /\ i - e = i - n
        BY <1>1, <1>4, <1>8, <3>2
      <4> QED BY <3>1, <4>1
    <3>3. CASE n # 0
      <4>1. k # 0 /\ (i - n) + 1 = i - e /\ i - n \in 1..(k - 1)
        BY <1>1, <1>8, <1>9, <3>1, <3>3
      <4>2. \A a \in 1..(k - 1) : images[a] = accepted[a + 1]
        BY <1>1, <1>4, <3>3, <4>1 DEF k
      <4>3. images[i - n] = accepted[(i - n) + 1]
        BY <4>1, <4>2
      <4> QED BY <3>1, <4>1, <4>3
    <3> QED BY <3>2, <3>3
  <2> QED BY <1>1, <2>1, <2>2
<1>15. \A i \in 1..Len(M) : i > n => M[i].text = <<>>
  BY <1>12
<1> QED BY <1>7, <1>10, <1>11, <1>13, <1>14, <1>15 DEF AreMessages, e, n, k, NoImage

\* The texts when the split is over, or where it stands.
LEMMA SplitFacts ==
    ASSUME ReplyTypes, SplitInv, NEW S, S = Split
    PROVE  /\ S \in Seq(Seq(Character)) /\ TellLines(S, row)
           /\ \A i \in 1..Len(S) : Len(S[i]) <= ReplyLimit + 4
<1>1. /\ chunks \in Seq(Seq(Character)) /\ current \in Seq(Character)
      /\ TellLines(Append(chunks, current), row) /\ Len(current) <= ReplyLimit
      /\ \A i \in 1..Len(chunks) : Len(chunks[i]) <= ReplyLimit + 4
  BY DEF ReplyTypes, SplitInv
<1>2. CASE current = <<>>
  <2>1. S = chunks
    BY <1>1, <1>2 DEF Split
  <2>2. TellLines(chunks, row)
    BY <1>1, <1>2, EmptyText
  <2> QED BY <1>1, <2>1, <2>2
<1>3. CASE current # <<>>
  <2> DEFINE t == Stripped(current)
  <2>1. t \in Seq(Character) /\ Len(t) <= Len(current) /\ SameText(current, t)
    BY <1>1, StrippedFacts, StrippedText
  <2>2. S = Append(chunks, t)
    <3>1. S = chunks \o <<t>>
      BY <1>3 DEF Split
    <3> HIDE DEF t
    <3> QED BY <1>1, <2>1, <3>1
  <2> HIDE DEF t
  <2>3. TellLines(S, row)
    BY <1>1, <2>1, <2>2, Replaced
  <2>4. S \in Seq(Seq(Character)) /\ Len(S) = Len(chunks) + 1
    BY <1>1, <2>1, <2>2
  <2>5. ASSUME NEW i \in 1..Len(S)
        PROVE  Len(S[i]) <= ReplyLimit + 4
    <3>1. CASE i \in 1..Len(chunks)
      <4>1. S[i] = chunks[i]
        BY <1>1, <2>1, <2>2, <3>1
      <4> QED BY <1>1, <3>1, <4>1
    <3>2. CASE i \notin 1..Len(chunks)
      <4>1. S[i] = t
        BY <1>1, <2>1, <2>2, <2>4, <3>2
      <4> QED BY <1>1, <2>1, <4>1, ReplyBounds
    <3> QED BY <3>1, <3>2
  <2> QED BY <2>3, <2>4, <2>5
<1> QED BY <1>2, <1>3

-----------------------------------------------------------------------------
(* The invariant.                                                          *)

\* The directives that are looked at, by their outcome.
LEMMA LookedFacts ==
    ASSUME NEW ds \in Directives, NEW outcome, NEW T, T = Looked(ds, outcome)
    PROVE  T \subseteq Nat /\ Cardinality(T) \in Nat
<1>1. Len(ds) \in Nat
  BY ReplyBounds
<1>2. T \subseteq 1..Len(ds)
  BY DEF Looked
<1>3. IsFiniteSet(1..Len(ds))
  BY <1>1, FS_Interval
<1>4. IsFiniteSet(T)
  BY <1>2, <1>3, FS_Subset
<1>5. Cardinality(T) \in Nat
  BY <1>4, FS_CardinalityType
<1> QED BY <1>1, <1>2, <1>5

LEMMA InitTypes == ReplyInit => ReplyTypes
<1> SUFFICES ASSUME ReplyInit PROVE ReplyTypes
  OBVIOUS
<1>10. PICK n \in 0..MaxLines :
         \E text \in [1..n -> Lines] : \E ds \in Directives :
            answer = FullAnswer(text, Notices(ds)) /\ accepted \in Accepted(ds)
  BY Zenon DEF ReplyInit
<1>11. PICK text \in [1..n -> Lines] : \E ds \in Directives :
         answer = FullAnswer(text, Notices(ds)) /\ accepted \in Accepted(ds)
  BY <1>10, Zenon
<1>1. PICK ds \in Directives :
         answer = FullAnswer(text, Notices(ds)) /\ accepted \in Accepted(ds)
  BY <1>11, Zenon
<1>2. Lines \subseteq LineTypes
  BY ReplyBounds DEF Lines, LineTypes
<1>3. Line(FALSE, 0) \in LineTypes /\ Line(FALSE, NoticeSize) \in LineTypes
  BY ReplyBounds DEF Line, LineTypes
<1>4. text \in Seq(LineTypes)
  <2>1. n \in Nat
    BY ReplyAssumption
  <2>2. text \in [1..n -> LineTypes]
    BY <1>2
  <2> QED BY <2>1, <2>2
<1>5. Notices(ds) \in Seq(LineTypes)
  <2> DEFINE count == Cardinality(Looked(ds, "refused"))
                      + IF Len(ds) > MaxImages THEN 1 ELSE 0
             e == Line(FALSE, NoticeSize)
  <2>1. count \in Nat
    <3> DEFINE c == Cardinality(Looked(ds, "refused"))
    <3>1. c \in Nat
      BY LookedFacts
    <3> HIDE DEF c
    <3>2. (c + IF Len(ds) > MaxImages THEN 1 ELSE 0) \in Nat
      BY <3>1
    <3> QED BY <3>2 DEF c
  <2>2. Notices(ds) = [i \in 1..count |-> e]
    BY DEF Notices
  <2> HIDE DEF count, e
  <2>3. e \in LineTypes
    BY <1>3 DEF e
  <2>4. [i \in 1..count |-> e] \in Seq(LineTypes)
    BY <2>1, <2>3
  <2> QED BY <2>2, <2>4
<1>6. answer \in Seq(LineTypes)
  <2> DEFINE between == IF text # <<>> /\ Notices(ds) # <<>> THEN <<Line(FALSE, 0)>>
                        ELSE <<>>
             notices == Notices(ds)
  <2>1. between \in Seq(LineTypes)
    <3> DEFINE e == Line(FALSE, 0)
    <3>1. e \in LineTypes
      BY <1>3
    <3> HIDE DEF e
    <3>2. <<e>> \in Seq(LineTypes)
      BY <3>1
    <3>3. between = <<e>> \/ between = <<>>
      BY DEF e
    <3> HIDE DEF between
    <3>4. <<>> \in Seq(LineTypes)
      OBVIOUS
    <3> QED BY <3>2, <3>3, <3>4
  <2>2. answer = text \o between \o notices
    BY <1>1 DEF FullAnswer
  <2> HIDE DEF between, notices
  <2>3. notices \in Seq(LineTypes)
    BY <1>5 DEF notices
  <2> QED BY <1>4, <2>1, <2>2, <2>3
<1>7. accepted \in Seq(Nat)
  <2> DEFINE T == Looked(ds, "image")
             c == Cardinality(T)
  <2>1. accepted \in [1..c -> T]
    BY <1>1, Zenon DEF Accepted
  <2>2. T \subseteq Nat /\ c \in Nat
    BY LookedFacts
  <2> HIDE DEF T, c
  <2>3. accepted \in [1..c -> Nat]
    BY <2>1, <2>2
  <2> QED BY <2>2, <2>3
<1>8. /\ row = 1 /\ current = <<>> /\ chunks = <<>> /\ outgoing = <<>> /\ given = <<>>
  BY DEF ReplyInit
<1>9. row \in 1..(Len(answer) + 1)
  BY <1>6, <1>8
<1> QED BY <1>6, <1>7, <1>8, <1>9 DEF ReplyTypes

\* Nothing tells the lines before the first.
LEMMA NothingTold ==
    ASSUME answer \in Seq(LineTypes)
    PROVE  TellLines(<<>>, 1)
<1>1. \A c \in Characters : ~(c[1] < 1)
  BY CharactersFacts
<1>2. Places(<<>>) = {}
  BY DEF Places
<1> QED BY <1>1, <1>2 DEF TellLines

LEMMA InitReply == ReplyInit => ReplyInv
<1> SUFFICES ASSUME ReplyInit PROVE ReplyInv
  OBVIOUS
<1>1. ReplyTypes
  BY InitTypes
<1>2. /\ row = 1 /\ current = <<>> /\ chunks = <<>> /\ outgoing = <<>> /\ given = <<>>
      /\ replying = "splitting"
  BY DEF ReplyInit
<1>3. TellLines(Append(chunks, current), row)
  <2>1. TellLines(chunks, 1)
    <3>1. answer \in Seq(LineTypes)
      BY <1>1 DEF ReplyTypes
    <3>2. TellLines(<<>>, 1)
      BY <3>1, NothingTold
    <3> QED BY <1>2, <3>2
  <2>2. chunks \in Seq(Seq(Character))
    BY <1>1 DEF ReplyTypes
  <2>3. TellLines(Append(chunks, <<>>), 1)
    BY <2>1, <2>2, EmptyText
  <2> QED BY <1>2, <2>3
<1>4. SplitInv
  BY <1>2, <1>3, ReplyBounds DEF SplitInv
<1>5. SendInv
  BY <1>2 DEF SendInv
<1> QED BY <1>1, <1>4, <1>5 DEF ReplyInv

\* The answer does not change, so that what texts tell of it does not either.
LEMMA SameAnswer ==
    ASSUME answer' = answer,
           TellLines(Append(chunks', current'), row')
    PROVE  TellLines(Append(chunks, current), row)'
<1> DEFINE X == Append(chunks', current')
           n == row'
<1>1. Characters' = Characters
  BY DEF Characters
<1>2. TellLines(X, n)
  OBVIOUS
<1> HIDE DEF X, n
<1>3. /\ \A p, q \in Places(X) : Precedes(p, q) => Precedes(CharAt(X, p), CharAt(X, q))
      /\ \A p \in Places(X) : CharAt(X, p) \in Characters' /\ CharAt(X, p)[1] < n
      /\ \A c \in Characters' : c[1] < n => \E p \in Places(X) : CharAt(X, p) = c
  BY <1>1, <1>2 DEF TellLines
<1> QED BY <1>3, Zenon DEF TellLines, X, n

\* What the split keeps of the other variables.
LEMMA Splitting ==
    ASSUME ReplyInv, answer' = answer, accepted' = accepted, outgoing' = outgoing,
           given' = given, replying' = replying, replying = "splitting",
           row' \in 1..(Len(answer) + 1), row' # 1, NEW k, k = current', NEW C, C = chunks',
           k \in Seq(Character), C \in Seq(Seq(Character)), Len(k) <= ReplyLimit,
           \A i \in 1..Len(C) : Len(C[i]) <= ReplyLimit + 4,
           TellLines(Append(C, k), row')
    PROVE  ReplyInv'
<1>1. ReplyTypes'
  BY DEF ReplyInv, ReplyTypes
<1>2. TellLines(Append(chunks, current), row)'
  BY SameAnswer
<1>3. SplitInv'
  BY <1>2 DEF SplitInv
<1>4. SendInv'
  BY DEF ReplyInv, SendInv
<1> QED BY <1>1, <1>3, <1>4 DEF ReplyInv

LEMMA KeepsWholeText ==
    ASSUME ReplyInv, WholeText
    PROVE  ReplyInv'
<1> DEFINE t == Text
<1>1. /\ replying = "splitting" /\ row \in 1..(Len(answer) + 1) /\ row <= Len(answer)
      /\ row = 1 /\ Len(t) <= ReplyLimit /\ chunks' = <<t>> /\ row' = Len(answer) + 1
      /\ answer' = answer /\ accepted' = accepted /\ current' = current
      /\ outgoing' = outgoing /\ given' = given /\ replying' = replying
  BY DEF WholeText, Fits, ReplyInv, ReplyTypes
<1>2. answer \in Seq(LineTypes) /\ Len(answer) \in Nat
  BY DEF ReplyInv, ReplyTypes
<1>3. t \in Seq(Character) /\ TellLines(<<t>>, Len(answer) + 1)
  BY <1>1, <1>2, TextFacts
<1>4. current = <<>>
  BY <1>1 DEF ReplyInv, SplitInv
<1> HIDE DEF t
<1> DEFINE C == <<t>>
<1>5. C \in Seq(Seq(Character)) /\ Len(C) = 1 /\ C[1] = t
  BY <1>3
<1>6. TellLines(C, row')
  BY <1>1, <1>3
<1> HIDE DEF C
<1>7. TellLines(Append(C, current'), row')
  BY <1>1, <1>4, <1>5, <1>6, EmptyText
<1>8. \A i \in 1..Len(C) : Len(C[i]) <= ReplyLimit + 4
  <2>1. Len(t) \in Nat /\ Len(t) <= ReplyLimit + 4
    BY <1>1, <1>3, ReplyBounds
  <2> QED BY <1>5, <2>1
<1>9. chunks' = C /\ row' \in 1..(Len(answer) + 1) /\ row' # 1
  BY <1>1, <1>2 DEF C
<1>10. current' \in Seq(Character) /\ Len(current') <= ReplyLimit
  BY <1>1, <1>4, ReplyBounds
<1> QED BY <1>1, <1>5, <1>7, <1>8, <1>9, <1>10, Splitting

\* A line that fits to the message that is being filled.
LineFits ==
    /\ Len(current) + Len(Chars(row)) <= ReplyLimit
    /\ current' = current \o Chars(row) /\ chunks' = chunks

LEMMA KeepsLineThatFits ==
    ASSUME ReplyInv, SplitLine, LineFits
    PROVE  ReplyInv'
<1>1. /\ replying = "splitting" /\ row \in 1..(Len(answer) + 1) /\ row <= Len(answer)
      /\ row' = row + 1
      /\ answer' = answer /\ accepted' = accepted
      /\ outgoing' = outgoing /\ given' = given /\ replying' = replying
  BY DEF SplitLine, ReplyInv, ReplyTypes
<1>2. /\ answer \in Seq(LineTypes) /\ Len(answer) \in Nat
      /\ current \in Seq(Character) /\ chunks \in Seq(Seq(Character))
      /\ TellLines(Append(chunks, current), row)
      /\ \A i \in 1..Len(chunks) : Len(chunks[i]) <= ReplyLimit + 4
  BY DEF ReplyInv, ReplyTypes, SplitInv
<1>3. row \in 1..Len(answer) /\ row' \in 1..(Len(answer) + 1) /\ row' # 1
  BY <1>1, <1>2
<1> DEFINE t == Chars(row)
           k == current \o t
<1>4. t \in Seq(Character) /\ TellsLine(t, row)
  BY <1>2, <1>3, CharsFacts
<1>5. k = current' /\ Len(current) + Len(t) <= ReplyLimit /\ chunks' = chunks
  BY DEF LineFits
<1> HIDE DEF t
<1>6. k \in Seq(Character) /\ Len(k) = Len(current) + Len(t)
  BY <1>2, <1>4
<1>7. TellLines(Append(chunks, k), row + 1)
  BY <1>2, <1>3, <1>4, Extended
<1> HIDE DEF k
<1> QED BY <1>1, <1>2, <1>3, <1>5, <1>6, <1>7, Splitting

\* A line that does not fit: the message that was filled is closed, and the
\* line begins the next one.
LineOverflows(next) ==
    LET full == Stripped(current)
        reopen == current # <<>> /\ fenced' /\ ~EndsWithFence(full)
    IN /\ next = (IF reopen THEN Append(Backticks, Break(0)) ELSE <<>>) \o Chars(row)
       /\ chunks' = chunks \o (IF current = <<>> THEN <<>>
                               ELSE IF reopen
                                    THEN <<Append(full, Break(0)) \o Backticks>>
                                    ELSE <<full>>)
                           \o Pieces(next)
       /\ current' = Rest(next)

LEMMA LineCases ==
    ASSUME SplitLine
    PROVE  LineFits \/
           (/\ Len(current) + Len(Chars(row)) > ReplyLimit
            /\ \E next : LineOverflows(next))
<1>1. CASE Len(current) + Len(Chars(row)) <= ReplyLimit /\ current' = current \o Chars(row)
           /\ UNCHANGED chunks
  BY <1>1 DEF LineFits
<1>2. CASE /\ Len(current) + Len(Chars(row)) > ReplyLimit
           /\ LET full == Stripped(current)
                  reopen == current # <<>> /\ fenced' /\ ~EndsWithFence(full)
                  next == (IF reopen THEN Append(Backticks, Break(0)) ELSE <<>>)
                          \o Chars(row)
              IN /\ chunks' = chunks
                              \o (IF current = <<>> THEN <<>>
                                  ELSE IF reopen
                                       THEN <<Append(full, Break(0)) \o Backticks>>
                                       ELSE <<full>>)
                              \o Pieces(next)
                 /\ current' = Rest(next)
  BY <1>2, Zenon DEF LineOverflows
<1> QED BY <1>1, <1>2, Zenon DEF SplitLine

\* The chunks before the line, when it does not fit to the message.
LEMMA Closed ==
    ASSUME ReplyInv, NEW next, LineOverflows(next)
    PROVE  \E p, X :
             /\ p \in Seq(Character) /\ \A k \in 1..Len(p) : ~Readable(p[k])
             /\ next = p \o Chars(row)
             /\ X \in Seq(Seq(Character)) /\ TellLines(X, row)
             /\ \A i \in 1..Len(X) : Len(X[i]) <= ReplyLimit + 4
             /\ chunks' = X \o Pieces(next) /\ current' = Rest(next)
<1> DEFINE full == Stripped(current)
           reopen == current # <<>> /\ fenced' /\ ~EndsWithFence(full)
           p == IF reopen THEN Append(Backticks, Break(0)) ELSE <<>>
           z == IF reopen THEN Append(full, Break(0)) \o Backticks ELSE full
           X == IF current = <<>> THEN chunks ELSE Append(chunks, z)
<1>1. /\ current \in Seq(Character) /\ chunks \in Seq(Seq(Character))
      /\ TellLines(Append(chunks, current), row) /\ Len(current) <= ReplyLimit
      /\ \A i \in 1..Len(chunks) : Len(chunks[i]) <= ReplyLimit + 4
  BY DEF ReplyInv, ReplyTypes, SplitInv
<1>2. p \in Seq(Character) /\ \A k \in 1..Len(p) : ~Readable(p[k])
  <2>1. CASE reopen
    <3>1. p = Append(Backticks, Break(0))
      BY <2>1, Zenon
    <3> HIDE DEF p
    <3> QED BY <3>1, ReopenFacts
  <2>2. CASE ~reopen
    <3>1. p = <<>>
      BY <2>2
    <3> HIDE DEF p
    <3> QED BY <3>1
  <2> QED BY <2>1, <2>2
<1>3. z \in Seq(Character) /\ Len(z) <= Len(current) + 4 /\ SameText(current, z)
  <2>1. CASE reopen
    <3>1. z = Append(Stripped(current), Break(0)) \o Backticks
      BY <2>1
    <3> HIDE DEF z
    <3> QED BY <1>1, <3>1, ClosedText
  <2>2. CASE ~reopen
    <3>1. z = Stripped(current)
      BY <2>2
    <3> HIDE DEF z
    <3>2. z \in Seq(Character) /\ Len(z) <= Len(current) /\ SameText(current, z)
      BY <1>1, <3>1, StrippedFacts, StrippedText
    <3> QED BY <1>1, <3>2
  <2> QED BY <2>1, <2>2
<1>4. next = p \o Chars(row) /\ current' = Rest(next)
  BY DEF LineOverflows
<1>5. chunks' = X \o Pieces(next)
  <2>1. CASE current = <<>>
    <3>1. chunks' = chunks \o <<>> \o Pieces(next) /\ X = chunks
      BY <2>1 DEF LineOverflows
    <3>2. chunks \o <<>> = chunks
      BY <1>1
    <3> QED BY <3>1, <3>2
  <2>2. CASE current # <<>>
    <3>1. chunks' = chunks \o <<z>> \o Pieces(next) /\ X = Append(chunks, z)
      BY <2>2 DEF LineOverflows
    <3> HIDE DEF z
    <3>2. chunks \o <<z>> = Append(chunks, z)
      BY <1>1, <1>3
    <3> QED BY <3>1, <3>2
  <2> QED BY <2>1, <2>2
<1> HIDE DEF p, z
<1>6. /\ X \in Seq(Seq(Character)) /\ TellLines(X, row)
      /\ \A i \in 1..Len(X) : Len(X[i]) <= ReplyLimit + 4
  <2>1. CASE current = <<>>
    <3>1. TellLines(chunks, row)
      BY <1>1, <2>1, EmptyText
    <3> QED BY <1>1, <2>1, <3>1
  <2>2. CASE current # <<>>
    <3>1. X = Append(chunks, z)
      BY <2>2
    <3> HIDE DEF X
    <3>2. TellLines(X, row)
      BY <1>1, <1>3, <3>1, Replaced
    <3>3. /\ X \in Seq(Seq(Character)) /\ Len(X) = Len(chunks) + 1
          /\ X[Len(chunks) + 1] = z /\ \A i \in 1..Len(chunks) : X[i] = chunks[i]
      BY <1>1, <1>3, <3>1
    <3>4. Len(z) \in Nat /\ Len(z) <= ReplyLimit + 4 /\ Len(chunks) \in Nat
      BY <1>1, <1>3, ReplyBounds
    <3>5. \A i \in 1..Len(X) : i \in 1..Len(chunks) \/ i = Len(chunks) + 1
      BY <3>3, <3>4
    <3> QED BY <1>1, <3>2, <3>3, <3>4, <3>5
  <2> QED BY <2>1, <2>2
<1> QED BY <1>2, <1>4, <1>5, <1>6

LEMMA KeepsLineThatOverflows ==
    ASSUME ReplyInv, SplitLine, Len(current) + Len(Chars(row)) > ReplyLimit,
           NEW next, LineOverflows(next)
    PROVE  ReplyInv'
<1>1. /\ replying = "splitting" /\ row \in 1..(Len(answer) + 1) /\ row <= Len(answer)
      /\ row' = row + 1
      /\ answer' = answer /\ accepted' = accepted
      /\ outgoing' = outgoing /\ given' = given /\ replying' = replying
  BY DEF SplitLine, ReplyInv, ReplyTypes
<1>2. /\ answer \in Seq(LineTypes) /\ Len(answer) \in Nat
      /\ current \in Seq(Character) /\ Len(current) <= ReplyLimit
  BY DEF ReplyInv, ReplyTypes, SplitInv
<1>3. row \in 1..Len(answer) /\ row' \in 1..(Len(answer) + 1) /\ row' # 1
  BY <1>1, <1>2
<1> DEFINE t == Chars(row)
<1>4. t \in Seq(Character) /\ TellsLine(t, row) /\ Len(t) > 0
  <2>1. t \in Seq(Character) /\ TellsLine(t, row)
    BY <1>2, <1>3, CharsFacts
  <2>2. Len(current) + Len(t) > ReplyLimit
    OBVIOUS
  <2> HIDE DEF t
  <2>3. Len(t) > 0
    BY <1>2, <2>1, <2>2, ReplyBounds
  <2> QED BY <2>1, <2>3
<1> HIDE DEF t
<1>5. PICK p, X :
        /\ p \in Seq(Character) /\ \A k \in 1..Len(p) : ~Readable(p[k])
        /\ next = p \o t
        /\ X \in Seq(Seq(Character)) /\ TellLines(X, row)
        /\ \A i \in 1..Len(X) : Len(X[i]) <= ReplyLimit + 4
        /\ chunks' = X \o Pieces(next) /\ current' = Rest(next)
  BY Closed DEF t
<1>6. next \in Seq(Character) /\ next # <<>> /\ TellsLine(next, row)
  <2>1. next \in Seq(Character) /\ Joined(next, p, t)
    BY <1>4, <1>5, Concatenated
  <2>2. Len(next) = Len(p) + Len(t) /\ Len(p) \in Nat /\ Len(t) \in Nat
    BY <1>4, <1>5, <2>1 DEF Joined
  <2>3. next # <<>>
    BY <1>4, <2>2
  <2>4. TellsLine(next, row)
    BY <1>2, <1>3, <1>4, <1>5, Prefixed
  <2> QED BY <2>1, <2>3, <2>4
<1>7. TellLines(Append(X, next), row + 1)
  <2> DEFINE e == <<>>
  <2>1. e \in Seq(Character) /\ e \o next = next
    BY <1>6
  <2>2. TellLines(Append(X, e), row)
    BY <1>5, EmptyText
  <2> HIDE DEF e
  <2>3. TellLines(Append(X, e \o next), row + 1)
    BY <1>2, <1>3, <1>5, <1>6, <2>1, <2>2, Extended
  <2> QED BY <2>1, <2>3
<1>8. TellLines(Append(X \o Pieces(next), Rest(next)), row + 1)
  BY <1>5, <1>6, <1>7, CutToMessages
<1> DEFINE P == Pieces(next)
           k == Rest(next)
           c == Cuts(next)
           C == X \o P
<1>9. Cutting(P, k, next, c, ReplyLimit) /\ c * ReplyLimit < Len(next)
      /\ c \in Nat /\ Len(next) <= c * ReplyLimit + ReplyLimit
  BY <1>6, PiecesFacts, CutsFacts
<1> HIDE DEF P, k, c
<1>10. k \in Seq(Character) /\ Len(k) <= ReplyLimit
  <2> DEFINE y == c * ReplyLimit
  <2>1. y \in Nat
    BY <1>9, ReplyBounds, Multiples
  <2>2. Len(k) = Len(next) - y /\ Len(next) <= y + ReplyLimit /\ k \in Seq(Character)
    BY <1>9 DEF Cutting
  <2> HIDE DEF y
  <2> QED BY <1>6, <2>1, <2>2, ReplyBounds
<1>11. C \in Seq(Seq(Character)) /\ Joined(C, X, P)
  BY <1>5, <1>9, Concatenated DEF Cutting
<1>12. \A i \in 1..Len(C) : Len(C[i]) <= ReplyLimit + 4
  <2>1. ASSUME NEW i \in 1..Len(C)
        PROVE  Len(C[i]) <= ReplyLimit + 4
    <3>1. CASE i \in 1..Len(X)
      <4>1. C[i] = X[i]
        BY <1>11, <3>1 DEF Joined
      <4> QED BY <1>5, <3>1, <4>1
    <3>2. CASE i \notin 1..Len(X)
      <4>1. PICK m \in 1..Len(P) : i = Len(X) + m
        BY <1>11, <3>2 DEF Joined
      <4>2. C[i] = P[m]
        BY <1>11, <4>1 DEF Joined
      <4>3. Len(P[m]) = ReplyLimit
        BY <1>9, <4>1 DEF Cutting
      <4> QED BY <4>2, <4>3, ReplyBounds
    <3> QED BY <3>1, <3>2
  <2> QED BY <2>1
<1>13. chunks' = C /\ current' = k
  BY <1>5 DEF P, k
<1>14. TellLines(Append(C, k), row')
  BY <1>1, <1>8 DEF P, k
<1> HIDE DEF C
<1> QED BY <1>1, <1>3, <1>10, <1>11, <1>12, <1>13, <1>14, Splitting

\* What the other actions keep: the split is over.
LEMMA SplitStays ==
    ASSUME ReplyInv, UNCHANGED <<answer, accepted, row, current, fenced, chunks>>
    PROVE  SplitInv' /\ MessagesOf(Split)' = MessagesOf(Split)
<1>1. TellLines(Append(chunks', current'), row')
  BY DEF ReplyInv, SplitInv
<1>2. TellLines(Append(chunks, current), row)'
  BY <1>1, SameAnswer
<1>3. SplitInv'
  BY <1>2 DEF ReplyInv, SplitInv
<1>4. MessagesOf(Split)' = MessagesOf(Split)
  BY DEF MessagesOf, Split
<1> QED BY <1>3, <1>4

LEMMA KeepsDeliver ==
    ASSUME ReplyInv, Deliver
    PROVE  ReplyInv'
<1> DEFINE M == MessagesOf(Split)
<1>1. ReplyTypes /\ SplitInv /\ SendInv
  BY DEF ReplyInv
<1>2. /\ replying = "splitting" /\ row > Len(answer) /\ outgoing' = M
      /\ replying' = "sending" /\ given' = given
      /\ UNCHANGED <<answer, accepted, row, current, fenced, chunks>>
  BY DEF Deliver
<1>3. SplitInv' /\ MessagesOf(Split)' = M
  BY <1>2, SplitStays
<1>4. M \in Seq(PartTypes)
  <2>1. Split \in Seq(Seq(Character)) /\ accepted \in Seq(Nat)
    BY <1>1, SplitFacts DEF ReplyTypes
  <2> DEFINE S == Split
  <2> HIDE DEF S
  <2>2. AreMessages(MessagesOf(S), S)
    <3>1. S \in Seq(Seq(Character)) /\ accepted \in Seq(Nat)
      BY <2>1 DEF S
    <3> QED BY <3>1, MessagesFacts
  <2> QED BY <2>2 DEF AreMessages, S
<1> HIDE DEF M
<1>5. ReplyTypes'
  <2>1. /\ answer' = answer /\ accepted' = accepted /\ row' = row
        /\ current' = current /\ chunks' = chunks
    BY <1>2
  <2>2. outgoing' \in Seq(PartTypes) /\ given' = given
    BY <1>2, <1>4
  <2> QED BY <1>1, <2>1, <2>2 DEF ReplyTypes
<1>6. given = <<>> /\ row = Len(answer) + 1
  <2>1. given = <<>>
    BY <1>1, <1>2 DEF SendInv
  <2>2. answer \in Seq(LineTypes) /\ row \in 1..(Len(answer) + 1)
    BY <1>1 DEF ReplyTypes
  <2>3. Len(answer) \in Nat
    BY <2>2
  <2>4. row = Len(answer) + 1
    BY <1>2, <2>2, <2>3
  <2> QED BY <2>1, <2>4
<1>7. given' \o outgoing' = M
  BY <1>2, <1>4, <1>6
<1>8. SendInv'
  BY <1>2, <1>3, <1>6, <1>7 DEF SendInv
<1> QED BY <1>3, <1>5, <1>8 DEF ReplyInv

LEMMA KeepsSendPart ==
    ASSUME ReplyInv, SendPart
    PROVE  ReplyInv'
<1> DEFINE M == MessagesOf(Split)
<1>1. ReplyTypes /\ SplitInv /\ SendInv
  BY DEF ReplyInv
<1>2. /\ replying = "sending" /\ outgoing # <<>>
      /\ UNCHANGED <<answer, accepted, row, current, fenced, chunks>>
  BY DEF SendPart
<1>3. SplitInv' /\ MessagesOf(Split)' = M
  BY <1>2, SplitStays
<1> HIDE DEF M
<1>4. given \in Seq(PartTypes) /\ outgoing \in Seq(PartTypes)
  BY <1>1 DEF ReplyTypes
<1>5. row = Len(answer) + 1 /\ given \o outgoing = M
  BY <1>1, <1>2 DEF SendInv, M
<1>6. CASE /\ given' = Append(given, Head(outgoing)) /\ outgoing' = Tail(outgoing)
           /\ UNCHANGED replying
  <2> DEFINE h == Head(outgoing)
             t == Tail(outgoing)
  <2>1. h \in PartTypes /\ t \in Seq(PartTypes) /\ outgoing = <<h>> \o t
    BY <1>2, <1>4
  <2> HIDE DEF h, t
  <2>2. Append(given, h) \in Seq(PartTypes) /\ Append(given, h) \o t = given \o (<<h>> \o t)
    BY <1>4, <2>1
  <2>3. given' = Append(given, h) /\ outgoing' = t /\ replying' = replying
    BY <1>6 DEF h, t
  <2>4. given' \o outgoing' = M
    BY <1>5, <2>1, <2>2, <2>3
  <2>5. ReplyTypes'
    BY <1>1, <1>2, <2>1, <2>2, <2>3 DEF ReplyTypes
  <2>6. SendInv'
    BY <1>2, <1>3, <1>5, <2>3, <2>4 DEF SendInv
  <2> QED BY <1>3, <2>5, <2>6 DEF ReplyInv
<1>7. CASE replying' = "failed" /\ UNCHANGED <<given, outgoing>>
  <2>1. ReplyTypes'
    BY <1>1, <1>2, <1>7 DEF ReplyTypes
  <2>2. SendInv'
    BY <1>2, <1>3, <1>5, <1>7 DEF SendInv
  <2> QED BY <1>3, <2>1, <2>2 DEF ReplyInv
<1> QED BY <1>6, <1>7 DEF SendPart

LEMMA KeepsAllSent ==
    ASSUME ReplyInv, AllSent
    PROVE  ReplyInv'
<1> DEFINE M == MessagesOf(Split)
<1>1. ReplyTypes /\ SplitInv /\ SendInv
  BY DEF ReplyInv
<1>2. /\ replying = "sending" /\ outgoing = <<>> /\ replying' = "done"
      /\ given' = given /\ outgoing' = outgoing
      /\ UNCHANGED <<answer, accepted, row, current, fenced, chunks>>
  BY DEF AllSent
<1>3. SplitInv' /\ MessagesOf(Split)' = M
  BY <1>2, SplitStays
<1>4. row = Len(answer) + 1 /\ given \o outgoing = M
  BY <1>1, <1>2 DEF SendInv
<1> HIDE DEF M
<1>5. ReplyTypes'
  <2>1. /\ answer' = answer /\ accepted' = accepted /\ row' = row
        /\ current' = current /\ chunks' = chunks
        /\ given' = given /\ outgoing' = outgoing
    BY <1>2
  <2> QED BY <1>1, <2>1 DEF ReplyTypes
<1>6. SendInv'
  BY <1>2, <1>3, <1>4 DEF SendInv
<1> QED BY <1>3, <1>5, <1>6 DEF ReplyInv

LEMMA ReplyStep == ReplyInv /\ [ReplyNext]_replyVars => ReplyInv'
<1> SUFFICES ASSUME ReplyInv, [ReplyNext]_replyVars
             PROVE  ReplyInv'
  OBVIOUS
<1>1. CASE WholeText
  BY <1>1, KeepsWholeText
<1>2. CASE SplitLine
  <2>1. CASE LineFits
    BY <1>2, <2>1, KeepsLineThatFits
  <2>2. CASE /\ Len(current) + Len(Chars(row)) > ReplyLimit
             /\ \E next : LineOverflows(next)
    BY <1>2, <2>2, KeepsLineThatOverflows
  <2> QED BY <1>2, <2>1, <2>2, LineCases
<1>3. CASE Deliver
  BY <1>3, KeepsDeliver
<1>4. CASE SendPart
  BY <1>4, KeepsSendPart
<1>5. CASE AllSent
  BY <1>5, KeepsAllSent
<1>6. CASE UNCHANGED replyVars
  <2>1. UNCHANGED <<answer, accepted, row, current, fenced, chunks>>
    BY <1>6 DEF replyVars
  <2>2. UNCHANGED <<outgoing, given, replying>>
    BY <1>6 DEF replyVars
  <2>3. SplitInv' /\ MessagesOf(Split)' = MessagesOf(Split)
    BY <2>1, SplitStays
  <2>4. ReplyTypes'
    BY <2>1, <2>2 DEF ReplyInv, ReplyTypes
  <2>5. SendInv'
    BY <2>1, <2>2, <2>3 DEF ReplyInv, SendInv
  <2> QED BY <2>3, <2>4, <2>5 DEF ReplyInv
<1> QED BY <1>1, <1>2, <1>3, <1>4, <1>5, <1>6 DEF ReplyNext

\* The split never loses its place in the answer, and what was given and what
\* is to be sent are the messages of all of it (dispatcher.py:1138-1164).
THEOREM ReplyInvariance == ReplySpec => []ReplyInv
<1> QED BY InitReply, ReplyStep, PTL DEF ReplySpec

-----------------------------------------------------------------------------
(* What the invariant says of the messages that were given.                *)

\* What was given are the first of the messages.
Given(M, S) ==
    /\ AreMessages(M, S) /\ S \in Seq(Seq(Character)) /\ TellLines(S, Len(answer) + 1)
    /\ \A i \in 1..Len(S) : Len(S[i]) <= ReplyLimit + 4
    /\ Len(given) <= Len(M) /\ \A i \in 1..Len(given) : i \in 1..Len(M) /\ given[i] = M[i]
    /\ replying = "done" => Len(given) = Len(M)

LEMMA GivenFacts ==
    ASSUME ReplyInv, replying # "splitting"
    PROVE  \E M, S : Given(M, S)
<1> DEFINE S == Split
           M == MessagesOf(S)
<1>1. /\ ReplyTypes /\ SplitInv /\ row = Len(answer) + 1 /\ given \o outgoing = M
      /\ replying = "done" => outgoing = <<>>
  BY DEF ReplyInv, SendInv
<1>2. /\ S \in Seq(Seq(Character)) /\ TellLines(S, row)
      /\ \A i \in 1..Len(S) : Len(S[i]) <= ReplyLimit + 4
  BY <1>1, SplitFacts
<1>3. given \in Seq(PartTypes) /\ outgoing \in Seq(PartTypes) /\ accepted \in Seq(Nat)
  BY <1>1 DEF ReplyTypes
<1> HIDE DEF S
<1>4. AreMessages(M, S)
  BY <1>2, <1>3, MessagesFacts
<1> HIDE DEF M
<1>5. Joined(M, given, outgoing)
  <2>1. Joined(given \o outgoing, given, outgoing)
    BY <1>3, Concatenated
  <2> QED BY <1>1, <2>1
<1>6. Len(given) \in Nat /\ Len(outgoing) \in Nat /\ Len(M) = Len(given) + Len(outgoing)
  BY <1>3, <1>5 DEF Joined
<1>7. \A i \in 1..Len(given) : i \in 1..Len(M) /\ given[i] = M[i]
  BY <1>5 DEF Joined
<1>8. replying = "done" => Len(outgoing) = 0
  BY <1>1
<1>9. Given(M, S)
  <2>1. Len(given) <= Len(M)
    BY <1>6
  <2>2. replying = "done" => Len(given) = Len(M)
    BY <1>6, <1>8
  <2>3. TellLines(S, Len(answer) + 1)
    BY <1>1, <1>2
  <2> QED BY <1>2, <1>4, <1>7, <2>1, <2>2, <2>3 DEF Given
<1> QED BY <1>9

\* The characters that were given are those of the texts.
LEMMA GivenPlaces ==
    ASSUME ReplyTypes, NEW M, NEW S, Given(M, S), NEW G, G = GivenTexts
    PROVE  /\ Len(G) = Len(given) /\ Len(given) \in Nat
           /\ \A i \in 1..Len(given) : i \in 1..Len(S) => G[i] = S[i]
           /\ \A i \in 1..Len(given) : i \notin 1..Len(S) => G[i] = <<>>
           /\ \A i \in 1..Len(given) : Len(G[i]) <= ReplyLimit + 4
           /\ \A i \in 1..Len(given) : \A a \in 1..Len(G[i]) : Readable(G[i][a]) =>
                <<i, a>> \in Places(S) /\ CharAt(S, <<i, a>>) = G[i][a]
<1>1. /\ AreMessages(M, S) /\ S \in Seq(Seq(Character))
      /\ \A i \in 1..Len(S) : Len(S[i]) <= ReplyLimit + 4
      /\ \A i \in 1..Len(given) : i \in 1..Len(M) /\ given[i] = M[i]
  BY DEF Given
<1>2. given \in Seq(PartTypes) /\ Len(given) \in Nat
  BY DEF ReplyTypes
<1>3. G = [i \in 1..Len(given) |-> given[i].text]
  BY DEF GivenTexts
<1>4. Len(G) = Len(given)
  BY <1>2, <1>3
<1>5. ASSUME NEW i \in 1..Len(given), i \in 1..Len(S)
      PROVE  G[i] = S[i]
  BY <1>1, <1>3, <1>5 DEF AreMessages
<1>6. ASSUME NEW i \in 1..Len(given), i \notin 1..Len(S)
      PROVE  G[i] = <<>>
  <2>1. i > Len(S)
    BY <1>1, <1>2, <1>6
  <2>2. M[i].text = <<>>
    BY <1>1, <2>1 DEF AreMessages
  <2> QED BY <1>1, <1>3, <2>2
<1>7. ASSUME NEW i \in 1..Len(given)
      PROVE  Len(G[i]) <= ReplyLimit + 4
  <2>1. CASE i \in 1..Len(S)
    BY <1>1, <1>5, <2>1
  <2>2. CASE i \notin 1..Len(S)
    BY <1>6, <2>2, ReplyBounds
  <2> QED BY <2>1, <2>2
<1>8. ASSUME NEW i \in 1..Len(given), NEW a \in 1..Len(G[i]), Readable(G[i][a])
      PROVE  <<i, a>> \in Places(S) /\ CharAt(S, <<i, a>>) = G[i][a]
  <2>1. CASE i \in 1..Len(S)
    <3>1. G[i] = S[i]
      BY <1>5, <2>1
    <3>2. a \in Nat /\ a \in 1..Len(S[i]) /\ Readable(S[i][a])
      BY <1>1, <1>8, <2>1, <3>1
    <3>3. <<i, a>> \in Places(S)
      BY <2>1, <3>2, PlaceFacts
    <3> QED BY <3>1, <3>3 DEF CharAt
  <2>2. CASE i \notin 1..Len(S)
    <3>1. Len(G[i]) = 0
      BY <1>6, <2>2
    <3> QED BY <3>1
  <2> QED BY <2>1, <2>2
<1> QED BY <1>2, <1>4, <1>5, <1>6, <1>7, <1>8

\* A character of the answer, and where the texts tell it.
LEMMA ToldAt ==
    ASSUME ReplyTypes, NEW S \in Seq(Seq(Character)), TellLines(S, Len(answer) + 1),
           NEW c \in Characters
    PROVE  /\ c[1] \in Nat /\ c[2] \in Nat
           /\ \E q \in Places(S) : /\ CharAt(S, q) = c /\ q = <<q[1], q[2]>>
                                   /\ q[1] \in 1..Len(S) /\ q[2] \in 1..Len(S[q[1]])
                                   /\ q[1] \in Nat /\ q[2] \in Nat
<1>1. answer \in Seq(LineTypes) /\ Len(answer) \in Nat /\ Len(S) \in Nat
  BY DEF ReplyTypes
<1>2. PICK l \in 1..Len(answer) : \E k \in 1..answer[l].size : c = <<l, k>>
  BY <1>1, CharactersFacts
<1>3. PICK k \in 1..answer[l].size : c = <<l, k>>
  BY <1>2
<1>4. c[1] \in Nat /\ c[2] \in Nat /\ c[1] < Len(answer) + 1
  <2>1. answer[l].size \in Nat
    BY <1>1, CharactersFacts
  <2> QED BY <1>1, <1>3, <2>1
<1>5. PICK q \in Places(S) : CharAt(S, q) = c
  BY <1>4 DEF TellLines
<1>6. q = <<q[1], q[2]>> /\ q[1] \in 1..Len(S) /\ q[2] \in 1..Len(S[q[1]]) /\ q[2] \in Nat
  BY DEF Places
<1>7. q[1] \in Nat
  BY <1>1, <1>6
<1> QED BY <1>4, <1>5, <1>6, <1>7

LEMMA GivenInOrder ==
    ASSUME ReplyTypes, NEW M, NEW S, Given(M, S)
    PROVE  /\ ReadInOrder(GivenTexts) /\ NothingSkipped(GivenTexts)
           /\ Len(given) >= Len(S) => Complete(GivenTexts)
           /\ \A i \in 1..Len(given) : Len(given[i].text) <= ReplyLimit + 4
<1> DEFINE G == GivenTexts
<1>1. /\ Len(G) = Len(given) /\ Len(given) \in Nat
      /\ \A i \in 1..Len(given) : i \in 1..Len(S) => G[i] = S[i]
      /\ \A i \in 1..Len(given) : i \notin 1..Len(S) => G[i] = <<>>
      /\ \A i \in 1..Len(given) : Len(G[i]) <= ReplyLimit + 4
      /\ \A i \in 1..Len(given) : \A a \in 1..Len(G[i]) : Readable(G[i][a]) =>
           <<i, a>> \in Places(S) /\ CharAt(S, <<i, a>>) = G[i][a]
  BY GivenPlaces
<1>2. \A i \in 1..Len(given) : Len(given[i].text) <= ReplyLimit + 4
  <2>1. \A i \in 1..Len(given) : G[i] = given[i].text
    BY DEF GivenTexts
  <2> QED BY <1>1, <2>1
<1> HIDE DEF G
<1>3. S \in Seq(Seq(Character)) /\ TellLines(S, Len(answer) + 1)
  BY DEF Given
<1>4. ASSUME NEW i \in 1..Len(G), NEW k \in 1..Len(G),
             NEW a \in 1..Len(G[i]), NEW b \in 1..Len(G[k]),
             Readable(G[i][a]), Readable(G[k][b]), Precedes(<<i, a>>, <<k, b>>)
      PROVE  Precedes(G[i][a], G[k][b])
  <2>1. <<i, a>> \in Places(S) /\ CharAt(S, <<i, a>>) = G[i][a]
    BY <1>1, <1>4
  <2>2. <<k, b>> \in Places(S) /\ CharAt(S, <<k, b>>) = G[k][b]
    BY <1>1, <1>4
  <2>3. Precedes(CharAt(S, <<i, a>>), CharAt(S, <<k, b>>))
    BY <1>3, <1>4, <2>1, <2>2 DEF TellLines
  <2> QED BY <2>1, <2>2, <2>3
<1>5. ReadInOrder(G)
  BY <1>4, Zenon DEF ReadInOrder
<1>6. ASSUME NEW q \in Places(S), q = <<q[1], q[2]>>, q[1] \in 1..Len(S),
             q[2] \in 1..Len(S[q[1]]), q[1] \in 1..Len(given)
      PROVE  Tells(G, CharAt(S, q))
  <2> DEFINE i == q[1]
             a == q[2]
  <2>1. G[i] = S[i] /\ i \in 1..Len(G) /\ a \in 1..Len(G[i])
    BY <1>1, <1>6
  <2>2. CharAt(S, q) = G[i][a]
    BY <2>1 DEF CharAt
  <2> QED BY <2>1, <2>2 DEF Tells
<1>7. ASSUME NEW i \in 1..Len(G), NEW a \in 1..Len(G[i]), Readable(G[i][a])
      PROVE  /\ G[i][a] \in Characters
             /\ \A c \in Characters : Precedes(c, G[i][a]) => Tells(G, c)
  <2> DEFINE ch == G[i][a]
  <2>1. <<i, a>> \in Places(S) /\ CharAt(S, <<i, a>>) = ch
    BY <1>1, <1>7
  <2>2. ch \in Characters
    BY <1>3, <2>1 DEF TellLines
  <2> HIDE DEF ch
  <2>3. ASSUME NEW c \in Characters, Precedes(c, ch)
        PROVE  Tells(G, c)
    <3>1. /\ c[1] \in Nat /\ c[2] \in Nat
          /\ \E q \in Places(S) : /\ CharAt(S, q) = c /\ q = <<q[1], q[2]>>
                                  /\ q[1] \in 1..Len(S) /\ q[2] \in 1..Len(S[q[1]])
                                  /\ q[1] \in Nat /\ q[2] \in Nat
      BY <1>3, ToldAt
    <3>2. PICK q \in Places(S) : /\ CharAt(S, q) = c /\ q = <<q[1], q[2]>>
                                 /\ q[1] \in 1..Len(S) /\ q[2] \in 1..Len(S[q[1]])
                                 /\ q[1] \in Nat /\ q[2] \in Nat
      BY <3>1
    <3>3. ch[1] \in Nat /\ ch[2] \in Nat
      BY <1>3, <2>2, ToldAt
    <3>4. CASE q[1] \in 1..Len(given)
      BY <1>6, <3>2, <3>4
    <3>5. CASE q[1] \notin 1..Len(given)
      <4>1. i < q[1]
        BY <1>1, <3>2, <3>5
      <4>2. Precedes(<<i, a>>, q)
        BY <4>1 DEF Precedes
      <4>3. Precedes(ch, c)
        <5>1. Precedes(CharAt(S, <<i, a>>), CharAt(S, q))
          BY <1>3, <2>1, <4>2 DEF TellLines
        <5> QED BY <2>1, <3>2, <5>1
      <4> QED BY <2>3, <3>1, <3>3, <4>3 DEF Precedes
    <3> QED BY <3>4, <3>5
  <2> QED BY <2>2, <2>3 DEF ch
<1>8. NothingSkipped(G)
  BY <1>7, Zenon DEF NothingSkipped
<1>9. ASSUME Len(given) >= Len(S)
      PROVE  Complete(G)
  <2>1. ASSUME NEW c \in Characters
        PROVE  Tells(G, c)
    <3>1. PICK q \in Places(S) : /\ CharAt(S, q) = c /\ q = <<q[1], q[2]>>
                                 /\ q[1] \in 1..Len(S) /\ q[2] \in 1..Len(S[q[1]])
                                 /\ q[1] \in Nat
      BY <1>3, ToldAt
    <3>2. q[1] \in 1..Len(given)
      BY <1>1, <1>3, <1>9, <3>1
    <3> QED BY <1>6, <3>1, <3>2
  <2> QED BY <2>1 DEF Complete
<1> QED BY <1>2, <1>5, <1>8, <1>9 DEF G

LEMMA ImagesFollow ==
    ASSUME ReplyTypes, NEW M, NEW S, Given(M, S),
           Len(given) >= Len(S) => Complete(GivenTexts)
    PROVE  ImagesInOrder
<1> DEFINE g == Len(given)
           e == TextsOnly(S)
           k == Len(accepted)
           n == IF g <= e THEN g ELSE e
<1>1. /\ AreMessages(M, S) /\ g <= Len(M)
      /\ \A i \in 1..g : i \in 1..Len(M) /\ given[i] = M[i]
      /\ replying = "done" => g = Len(M)
  BY DEF Given
<1>2. /\ g \in Nat /\ k \in Nat /\ Len(S) \in Nat /\ (accepted = <<>> => k = 0)
      /\ (S = <<>> => Len(S) = 0) /\ (S # <<>> => Len(S) > 0)
  BY DEF ReplyTypes, Given
<1>3. e \in Nat /\ (k > 0 => Len(S) <= e + 1)
  BY <1>2 DEF TextsOnly
<1>4. Len(M) = e + k
  BY <1>1 DEF AreMessages
<1>5. \A i \in 1..g : i <= e => given[i].image = NoImage
  BY <1>1 DEF AreMessages
<1>6. \A i \in 1..g : i > e => given[i].image = accepted[i - e]
  BY <1>1 DEF AreMessages
<1> HIDE DEF g, e, k
<1>7. g <= e + k /\ (replying = "done" => g = e + k)
  BY <1>1, <1>4
<1>8. n \in 0..g /\ n <= e
  BY <1>2, <1>3
<1>9. \A i \in 1..n : given[i].image = NoImage
  <2>1. \A i \in 1..n : i \in 1..g /\ i <= e
    BY <1>2, <1>3, <1>8
  <2> QED BY <1>5, <2>1
<1>10. g <= n + k
  BY <1>2, <1>3, <1>7
<1>11. \A i \in (n + 1)..g : given[i].image = accepted[i - n]
  <2>1. \A i \in (n + 1)..g : i \in 1..g /\ i > e /\ n = e
    BY <1>2, <1>3
  <2> QED BY <1>6, <2>1
<1>12. n < g => Complete(GivenTexts)
  <2>1. n < g => k > 0 /\ g >= e + 1
    BY <1>2, <1>3, <1>7
  <2>2. n < g => g >= Len(S)
    BY <1>2, <1>3, <2>1
  <2> QED BY <2>2 DEF g
<1>13. replying = "done" => g = n + k
  BY <1>2, <1>3, <1>7
<1> HIDE DEF n
<1> QED BY <1>8, <1>9, <1>10, <1>11, <1>12, <1>13 DEF ImagesInOrder, g, k

LEMMA ReplyInvKeeps == ReplyInv => ReplyKept
<1> SUFFICES ASSUME ReplyInv PROVE ReplyKept
  OBVIOUS
<1>1. CASE replying = "splitting"
  <2>1. given = <<>>
    BY <1>1 DEF ReplyInv, SendInv
  <2>2. Len(given) = 0 /\ Len(GivenTexts) = 0
    BY <2>1 DEF GivenTexts
  <2>3. ReadInOrder(GivenTexts) /\ NothingSkipped(GivenTexts)
    BY <2>2 DEF ReadInOrder, NothingSkipped
  <2>4. Len(accepted) \in Nat
    BY DEF ReplyInv, ReplyTypes
  <2>5. ImagesInOrder
    <3>1. 0 \in 0..Len(given) /\ Len(given) <= 0 + Len(accepted) /\ ~(0 < Len(given))
      BY <2>2, <2>4
    <3>2. \A i \in 1..0 : given[i].image = NoImage
      OBVIOUS
    <3>3. \A i \in (0 + 1)..Len(given) : given[i].image = accepted[i - 0]
      BY <2>2
    <3>4. replying # "done"
      BY <1>1
    <3> QED BY <3>1, <3>2, <3>3, <3>4, Zenon DEF ImagesInOrder
  <2> QED BY <1>1, <2>2, <2>3, <2>5 DEF ReplyKept
<1>2. CASE replying # "splitting"
  <2>1. ReplyTypes
    BY DEF ReplyInv
  <2>2. PICK M, S : Given(M, S)
    BY <1>2, GivenFacts
  <2>3. /\ ReadInOrder(GivenTexts) /\ NothingSkipped(GivenTexts)
        /\ Len(given) >= Len(S) => Complete(GivenTexts)
        /\ \A i \in 1..Len(given) : Len(given[i].text) <= ReplyLimit + 4
    BY <2>1, <2>2, GivenInOrder
  <2>4. ImagesInOrder
    BY <2>1, <2>2, <2>3, ImagesFollow
  <2>5. replying = "done" => Len(given) >= Len(S)
    <3>1. Len(S) <= Len(M) /\ Len(S) \in Nat
      BY <2>2 DEF Given, AreMessages
    <3>2. replying = "done" => Len(given) = Len(M)
      BY <2>2 DEF Given
    <3> QED BY <3>1, <3>2
  <2> QED BY <2>3, <2>4, <2>5 DEF ReplyKept
<1> QED BY <1>1, <1>2

\* For answers of any number of lines and of any length, and for any limit:
\* what WeChat is given is the answer from its beginning, each character once
\* and in order, its images after the last of the text, and all of it when the
\* job ends without an error (dispatcher.py:1138-1164 and 790-830).
THEOREM ReplyAlwaysKept == ReplySpec => []ReplyKept
<1> QED BY ReplyInvariance, ReplyInvKeeps, PTL
=============================================================================
