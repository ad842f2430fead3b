--------------------------- MODULE ForegroundSend ---------------------------
(***************************************************************************)
(* foreground_process.py, wechat_mcp_driver.py and foreground_driver.py:   *)
(* one request of the reply sender, run by a child process that operates   *)
(* the WeChat window while the user may use keyboard and mouse.            *)
(*                                                                         *)
(* The guard of the child compares the last input of the desktop and the   *)
(* cursor with a snapshot.  Input which the child makes itself is accepted *)
(* afterwards by a new snapshot.  A check of the guard and the call behind *)
(* it are one step; the acceptance is a step of its own.                   *)
(*                                                                         *)
(* WeChatMCP takes a draft that it could not read for an empty one, and    *)
(* pastes the reply onto it or in its place.                               *)
(*                                                                         *)
(* A definition whose name ends in Bug is a mutant of the one after it.    *)
(***************************************************************************)
EXTENDS Naturals, Sequences

CONSTANTS Names,    \* names the search is tried with
          MaxInputs \* bound on the inputs of the user

ASSUME ForegroundAssumption == Names \in Nat \ {0} /\ MaxInputs \in Nat

Kinds == {"text", "image", "both", "quote", "quotedImage"}
Quotes == {"quote", "quotedImage"}
Payload == [k \in Kinds |-> CASE k \in {"text", "quote"} -> {"text"}
                              [] k \in {"image", "quotedImage"} -> {"image"}
                              [] k = "both" -> {"text", "image"}]

Chats == {"target", "other"}
Items == {"user", "text", "image"}
Errors == {"unknown", "interrupted", "busy", "unavailable",
           "quote_unavailable", "exception"}

\* The steps before which the driver asks the guard.
Checked == {"activate", "open_search", "search", "name", "enter", "focus",
            "copy", "paste_text", "paste_image", "select", "query", "result",
            "scroll", "write", "send"}

VARIABLES
    \* the request
    kind,
    \* WeChat: the chat in front, the composers, the posts of the driver
    chat, draft, banner, focus, posts,
    \* the user and the guard: what has changed since the snapshot, whether
    \* by the user, the acceptance that is due
    inputs, touched, acted, accepts,
    \* the run
    driver, step, left, seen, wrote, selected, triggered, retried, error,
    result,
    \* history: user input was taken for the driver's, a chat was not verified,
    \* the last reading of the draft was not what the composer held
    mistaken, blind, misread

windowVars == <<chat, draft, banner, focus, posts>>
guardVars == <<inputs, touched, acted, accepts, mistaken>>
flagVars == <<wrote, selected, triggered>>
readVars == <<seen, misread>>
runVars == <<kind, driver, left, readVars, flagVars, retried, blind>>
foregroundVars == <<windowVars, guardVars, runVars, step, error, result>>

ForegroundTypeOK ==
    /\ kind \in Kinds
    /\ chat \in Chats
    /\ draft \in [Chats -> SUBSET Items]
    /\ banner \in [Chats -> {"none", "user", "driver"}]
    /\ focus \in {"search", "input"}
    /\ posts \in Seq([chat : Chats, items : SUBSET Items,
                     banner : {"none", "user", "driver"}])
    /\ inputs \in 0..MaxInputs
    /\ touched \subseteq {"key", "cursor"}
    /\ {acted, mistaken, blind, misread, retried, wrote, selected, triggered}
           \subseteq BOOLEAN
    /\ accepts \in {"none", "plain", "cursor"}
    /\ driver \in {"mcp", "uia"} /\ (kind \in Quotes => driver = "uia")
    /\ step \in Checked \cup {"verify", "find_input", "draft", "open",
                              "opened", "input", "banner", "quote", "surface",
                              "attach", "readback", "sent", "cleanup",
                              "handle", "end"}
    /\ left \in 0..Names
    /\ seen \subseteq Items
    /\ error \in Errors \cup {"none"}
    /\ result \in (Errors \ {"exception"}) \cup {"none", "ok"}
    /\ (result # "none") <=> (step = "end")

\* The draft of the target may hold the reply of an earlier, interrupted run.
\* The configured driver is the chain, which begins with WeChatMCP, or UIA.
ForegroundInit ==
    /\ kind \in Kinds
    /\ driver \in CASE kind \in Quotes -> {"uia"}
                    [] kind = "text" -> {"mcp", "uia"}
                    [] OTHER -> {"mcp"}
    /\ chat \in Chats
    /\ \E d \in SUBSET {"user", "text"} :
           draft = [c \in Chats |-> IF c = "target" THEN d ELSE {}]
    /\ \E b \in {"none", "user"} :
           banner = [c \in Chats |-> IF c = "target" THEN b ELSE "none"]
    /\ focus = "input" /\ posts = <<>>
    /\ inputs = 0 /\ touched = {} /\ acted = FALSE /\ accepts = "none"
    /\ step = "activate" /\ left = Names /\ seen = {}
    /\ wrote = FALSE /\ selected = FALSE /\ triggered = FALSE
    /\ retried = FALSE /\ error = "none" /\ result = "none"
    /\ mistaken = FALSE /\ blind = FALSE /\ misread = FALSE

-----------------------------------------------------------------------------
(* The guard                                                               *)

\* _check_guard passes and the driver goes on at one of its steps.
At(d, place) ==
    /\ driver = d /\ step = place /\ accepts = "none"
    /\ place \in Checked => touched = {}

Goto(place) == step' = place /\ UNCHANGED <<error, result>>

Raise(e) == step' = "cleanup" /\ error' = e /\ UNCHANGED result

Interrupted ==
    /\ step \in Checked /\ accepts = "none" /\ touched # {}
    /\ Raise("interrupted")
    /\ UNCHANGED <<windowVars, guardVars, runVars>>

\* A call that changes the last input, and the acceptance that follows it.
Input(what, due) ==
    /\ touched' = touched \cup what /\ accepts' = due
    /\ UNCHANGED <<inputs, acted, mistaken>>
Key == Input({"key"}, "plain")
Click == Input({"key", "cursor"}, "cursor")
Message == Input({}, "plain")

\* accept_synthetic_input: the new snapshot also covers what the user did in
\* the meantime.  After the Enter of WeChatMCP a moved cursor is too late.
AcceptInput ==
    /\ accepts # "none" /\ accepts' = "none"
    /\ IF "cursor" \in touched /\ accepts = "plain"
       THEN Raise("interrupted") /\ UNCHANGED <<touched, acted, mistaken>>
       ELSE /\ touched' = {} /\ acted' = FALSE
            /\ mistaken' = (mistaken \/ acted)
            /\ UNCHANGED <<step, error, result>>
    /\ UNCHANGED <<windowVars, runVars, inputs>>

\* Any call of the driver may fail, until the text is sent by UIA.  An error
\* that is not one of the module's own is an "exception".
Fail ==
    /\ step \notin {"cleanup", "handle", "end"}
    /\ step = "sent" => driver = "mcp" \/ kind \in Quotes
    /\ accepts = "none" /\ step \in Checked => touched = {}
    /\ accepts' = "none"
    /\ Raise(IF triggered THEN "unknown" ELSE "exception")
    /\ UNCHANGED <<windowVars, inputs, touched, acted, mistaken, runVars>>

-----------------------------------------------------------------------------
(* What the calls do in WeChat                                             *)

Type(items) ==
    /\ draft' = IF focus = "input"
                THEN [draft EXCEPT ![chat] = @ \cup items] ELSE draft
    /\ UNCHANGED <<chat, banner, focus, posts>>

\* Enter in a composer posts what it holds.
Enter ==
    IF focus = "input" /\ draft[chat] # {}
    THEN /\ posts' = Append(posts, [chat |-> chat, items |-> draft[chat],
                                    banner |-> banner[chat]])
         /\ draft' = [draft EXCEPT ![chat] = {}]
         /\ banner' = [banner EXCEPT ![chat] = "none"]
         /\ UNCHANGED <<chat, focus>>
    ELSE UNCHANGED windowVars

\* Enter in the search box opens some result, or none.
OpenResult ==
    IF focus = "search"
    THEN /\ chat' \in Chats /\ focus' \in {"search", "input"}
         /\ UNCHANGED <<draft, banner, posts>>
    ELSE Enter

-----------------------------------------------------------------------------
(* WeChatMCP: _send_payload                                                *)

McpActivate ==
    /\ At("mcp", "activate")
    /\ Goto("open_search")
    /\ UNCHANGED <<windowVars, guardVars, runVars>>

OpenSearch ==
    /\ At("mcp", "open_search")
    /\ focus' = "search" /\ Key /\ Goto("search")
    /\ UNCHANGED <<chat, draft, banner, posts, runVars>>

ClickSearch ==
    /\ At("mcp", "search")
    /\ focus' = "search" /\ Click /\ Goto("name")
    /\ UNCHANGED <<chat, draft, banner, posts, runVars>>

\* Select all, delete and the name itself go to whatever has the focus.
TypeName ==
    /\ At("mcp", "name")
    /\ draft' = IF focus = "input" THEN [draft EXCEPT ![chat] = {}] ELSE draft
    /\ Key /\ Goto("enter")
    /\ UNCHANGED <<chat, banner, focus, posts, runVars>>

EnterName ==
    /\ At("mcp", "enter")
    /\ OpenResult /\ Key /\ Goto("verify")
    /\ UNCHANGED runVars

\* A title that cannot be read does not stop the driver.
VerifyTarget ==
    /\ At("mcp", "verify")
    /\ \E readable \in BOOLEAN :
           IF ~readable \/ chat = "target"
           THEN /\ blind' = (blind \/ ~readable)
                /\ Goto("find_input") /\ UNCHANGED left
           ELSE /\ left' = left - 1 /\ UNCHANGED blind
                /\ IF left > 1 THEN Goto("search") ELSE Raise("unavailable")
    /\ UNCHANGED <<windowVars, guardVars, kind, driver, readVars, flagVars,
                   retried>>

MustStop(content) ==
    content # {} /\ (content # {"text"} \/ "image" \in Payload[kind])

\* What the driver takes the draft for.
Reads(content) == seen' = content /\ misread' = (content # draft[chat])

\* The composer is a control: its value is read, then it is clicked.  A value
\* that cannot be read, for any exception or want of a pattern, is empty.
McpReadInput ==
    /\ At("mcp", "find_input")
    /\ \E value \in {draft[chat], {}} :
           /\ Reads(value)
           /\ IF MustStop(value)
              THEN Raise("busy") /\ UNCHANGED <<focus, guardVars>>
              ELSE focus' = "input" /\ Click /\ Goto("draft")
    /\ UNCHANGED <<chat, draft, banner, posts, kind, driver, left, flagVars,
                   retried, blind>>

\* _focus_rendered_input: it is clicked, then copied to the clipboard.
McpRenderedInput ==
    /\ At("mcp", "find_input")
    /\ Goto("focus")
    /\ UNCHANGED <<windowVars, guardVars, runVars>>

McpFocus ==
    /\ At("mcp", "focus")
    /\ focus' = "input" /\ Click /\ Goto("copy")
    /\ UNCHANGED <<chat, draft, banner, posts, runVars>>

\* The clipboard gets what is text of the draft, if it gets it in time.
McpCopy ==
    /\ At("mcp", "copy")
    /\ \E copied \in SUBSET (IF focus = "input" THEN draft[chat] ELSE {}) :
           Reads(copied)
    /\ Key
    /\ Goto("draft")
    /\ UNCHANGED <<windowVars, kind, driver, left, flagVars, retried, blind>>

McpDraft ==
    /\ At("mcp", "draft")
    /\ IF MustStop(seen) THEN Raise("busy")
       ELSE Goto(CASE seen # {} -> "send"
                   [] seen = {} /\ kind = "image" -> "paste_image"
                   [] OTHER -> "paste_text")
    /\ UNCHANGED <<windowVars, guardVars, runVars>>

\* A draft that was copied is still selected: the first paste replaces it.
Paste(items, first) ==
    \/ Type(items)
    \/ /\ first /\ focus = "input"
       /\ draft' = [draft EXCEPT ![chat] = items]
       /\ UNCHANGED <<chat, banner, focus, posts>>

PasteText ==
    /\ At("mcp", "paste_text")
    /\ Paste({"text"}, TRUE) /\ Key
    /\ Goto(IF kind = "both" THEN "paste_image" ELSE "send")
    /\ UNCHANGED runVars

PasteImage ==
    /\ At("mcp", "paste_image")
    /\ Paste({"image"}, kind = "image") /\ Key /\ Goto("send")
    /\ UNCHANGED runVars

\* The Enter that sends; it may raise, and even then have been delivered.
McpSend ==
    /\ At("mcp", "send")
    /\ triggered' = TRUE
    /\ \/ Enter /\ Key /\ Goto("sent")
       \/ Enter /\ Raise("unknown") /\ UNCHANGED guardVars
       \/ UNCHANGED windowVars /\ Raise("unknown") /\ UNCHANGED guardVars
    /\ UNCHANGED <<kind, driver, left, readVars, wrote, selected, retried, blind>>

-----------------------------------------------------------------------------
(* UIA: what send_text and send_quote share                                *)

UiaActivate ==
    /\ At("uia", "activate")
    /\ Message /\ Goto("open")
    /\ UNCHANGED <<windowVars, runVars>>

ChatIsOpen == IF kind \in Quotes THEN "banner" ELSE "input"

\* _open_exact_chat: the chat is in front already, is in the list or must be
\* searched for.
OpenChat ==
    /\ At("uia", "open")
    /\ \/ chat = "target" /\ Goto(ChatIsOpen)
       \/ Goto("select") \/ Goto("query")
    /\ UNCHANGED <<windowVars, guardVars, runVars>>

SelectSession ==
    /\ At("uia", "select")
    /\ chat' \in {chat, "target"} /\ focus' \in {focus, "input"}
    /\ Message /\ Goto("opened")
    /\ UNCHANGED <<draft, banner, posts, runVars>>

Query ==
    /\ At("uia", "query")
    /\ Goto("result")
    /\ UNCHANGED <<windowVars, guardVars, runVars>>

\* SetFocus and the window message follow the guard at once.
OpenQuery ==
    /\ At("uia", "result")
    /\ chat' \in Chats /\ focus' \in {"search", "input"}
    /\ left' = left - 1
    /\ Message /\ Goto("opened")
    /\ UNCHANGED <<draft, banner, posts, kind, driver, readVars, flagVars,
                   retried, blind>>

ChatIsTarget(readable) == readable /\ chat = "target"

ChatOpened ==
    /\ At("uia", "opened")
    /\ \E readable \in BOOLEAN :
           IF ChatIsTarget(readable) THEN Goto(ChatIsOpen)
           ELSE IF left > 0 THEN Goto("query") ELSE Raise("unavailable")
    /\ UNCHANGED <<windowVars, guardVars, runVars>>

ReadInput ==
    /\ At("uia", "input")
    /\ Reads(draft[chat])
    /\ IF seen' # {} /\ (kind \in Quotes \/ seen' # {"text"})
       THEN Raise("busy") ELSE Goto("write")
    /\ UNCHANGED <<windowVars, guardVars, kind, driver, left, flagVars, retried,
                   blind>>

\* SetFocus and SetValue.
Write ==
    /\ At("uia", "write")
    /\ IF seen # {} \/ kind = "quotedImage"
       THEN UNCHANGED <<wrote, draft, focus>>
       ELSE /\ draft' = [draft EXCEPT ![chat] = {"text"}]
            /\ focus' = "input" /\ wrote' = TRUE
    /\ Goto(IF kind = "quotedImage" THEN "attach" ELSE "readback")
    /\ UNCHANGED <<chat, banner, posts, guardVars, kind, driver, left, readVars,
                   selected, triggered, retried, blind>>

ReadBack ==
    /\ At("uia", "readback")
    /\ CASE kind = "text" /\ draft[chat] # {"text"} -> Raise("unavailable")
         [] kind = "quote" /\ "text" \notin draft[chat] -> Raise("unknown")
         [] OTHER -> Goto("send")
    /\ UNCHANGED <<windowVars, guardVars, runVars>>

\* The window message that sends.
UiaSend ==
    /\ At("uia", "send")
    /\ triggered' = TRUE
    /\ \/ Enter /\ Goto("sent")
       \/ Enter /\ Raise("unknown")
       \/ UNCHANGED windowVars /\ Raise("unknown")
    /\ UNCHANGED <<guardVars, kind, driver, left, readVars, wrote, selected,
                   retried, blind>>

-----------------------------------------------------------------------------
(* UIA: send_quote                                                         *)

\* An old quote draft is dismissed, whoever made it.
OldBanner ==
    /\ At("uia", "banner")
    /\ \/ banner[chat] = "none" /\ Goto("scroll")
          /\ UNCHANGED <<banner, guardVars>>
       \/ /\ banner[chat] # "none"
          /\ \/ Raise("unknown") /\ UNCHANGED <<banner, guardVars>>
             \/ banner' = [banner EXCEPT ![chat] = "none"]
                /\ Click /\ Goto("scroll")
    /\ UNCHANGED <<chat, draft, focus, posts, runVars>>

\* _locate_quote_control scrolls to the latest message and back.
Scroll ==
    /\ At("uia", "scroll")
    /\ \/ Goto("scroll") \/ Goto("quote")
    /\ Click
    /\ UNCHANGED <<windowVars, runVars>>

NotFound ==
    /\ step \in {"scroll", "quote", "surface"} /\ At("uia", step)
    /\ Raise("quote_unavailable")
    /\ UNCHANGED <<windowVars, guardVars, runVars>>

\* _select_quote opens the menu of the message without asking the guard.
SelectQuote ==
    /\ At("uia", "quote")
    /\ banner' = [banner EXCEPT ![chat] = "driver"]
    /\ selected' = TRUE
    /\ Click /\ Goto("surface")
    /\ UNCHANGED <<chat, draft, focus, posts, kind, driver, left, readVars, wrote,
                   triggered, retried, blind>>

\* _wait_for_quote_banner
QuoteBanner ==
    /\ At("uia", "surface") /\ banner[chat] # "none"
    /\ Goto("input")
    /\ UNCHANGED <<windowVars, guardVars, runVars>>

\* The image is pasted by a key whose input is not accepted.
Attach ==
    /\ At("uia", "attach")
    /\ draft' = [draft EXCEPT ![chat] = @ \cup {"image"}]
    /\ focus' = "input" /\ wrote' = TRUE
    /\ Input({"key"}, "none") /\ Goto("readback")
    /\ UNCHANGED <<chat, banner, posts, kind, driver, left, readVars, selected,
                   triggered, retried, blind>>

-----------------------------------------------------------------------------
(* The end of a run                                                        *)

Sent ==
    /\ At(driver, "sent")
    /\ step' = "cleanup" /\ error' = "none" /\ UNCHANGED result
    /\ UNCHANGED <<windowVars, guardVars, runVars>>

\* The text that send_text takes back is only its own; a quote takes back all.
TakesBackBug == wrote /\ ~triggered
TakesBack ==
    /\ wrote /\ ~triggered
    /\ kind = "text" => draft[chat] = {"text"}

DismissesBug == selected /\ wrote
Dismisses == selected /\ ~triggered

\* finally: SetValue may fail unseen; a banner that stays is an unknown end.
Cleanup ==
    /\ step = "cleanup"
    /\ draft' \in {draft} \cup
           (IF TakesBack THEN {[draft EXCEPT ![chat] = {}]} ELSE {})
    /\ step' = "handle" /\ UNCHANGED result
    /\ IF Dismisses
       THEN \/ banner' = [banner EXCEPT ![chat] = "none"] /\ UNCHANGED error
            \/ banner[chat] # "none" /\ error' = "unknown" /\ UNCHANGED banner
       ELSE UNCHANGED <<banner, error>>
    /\ UNCHANGED <<chat, focus, posts, guardVars, runVars>>

\* What the handlers of the driver make of its error.
Outcome ==
    CASE error = "none" -> "ok"
      [] error \in {"unknown", "busy"} -> error
      [] error = "interrupted" ->
             IF driver = "mcp" /\ triggered THEN "unknown" ELSE error
      [] error \in {"unavailable", "quote_unavailable", "exception"} ->
             IF kind \notin Quotes THEN "unavailable"
             ELSE IF wrote THEN "unknown" ELSE "quote_unavailable"

\* A control that went stale is looked up once more.
Retry ==
    /\ step = "handle" /\ driver = "mcp"
    /\ Outcome = "unavailable" /\ error = "exception" /\ ~retried
    /\ retried' = TRUE
    /\ step' = "activate" /\ error' = "none" /\ left' = Names
    /\ UNCHANGED <<windowVars, guardVars, result, kind, driver, readVars, flagVars,
                   blind>>

\* ForegroundDriverChain: UIA takes over what WeChatMCP could not begin.
TakesOver == Outcome = "unavailable"

FallBack ==
    /\ step = "handle" /\ driver = "mcp" /\ kind = "text" /\ TakesOver
    /\ driver' = "uia"
    /\ step' = "activate" /\ error' = "none" /\ left' = Names
    /\ wrote' = FALSE /\ triggered' = FALSE
    /\ UNCHANGED <<windowVars, guardVars, result, kind, readVars, selected, retried,
                   blind>>

\* _foreground_worker: the answer to the parent.
Answer ==
    /\ step = "handle"
    /\ ~(driver = "mcp" /\ kind = "text" /\ TakesOver)
    /\ step' = "end" /\ result' = Outcome
    /\ UNCHANGED <<windowVars, guardVars, runVars, error>>

-----------------------------------------------------------------------------
(* The user                                                                *)

UserActs ==
    /\ step # "end" /\ inputs < MaxInputs
    /\ inputs' = inputs + 1 /\ acted' = TRUE
    /\ UNCHANGED <<banner, posts, runVars, step, error, result, accepts,
                   mistaken>>

UserTypes ==
    /\ UserActs
    /\ touched' = touched \cup {"key"}
    /\ draft' = IF focus = "input"
                THEN [draft EXCEPT ![chat] = @ \cup {"user"}] ELSE draft
    /\ UNCHANGED <<chat, focus>>

UserClicks ==
    /\ UserActs
    /\ touched' = touched \cup {"key", "cursor"}
    /\ chat' \in Chats /\ focus' = "input"
    /\ UNCHANGED draft

ForegroundNext ==
    \/ Interrupted \/ AcceptInput \/ Fail
    \/ McpActivate \/ OpenSearch \/ ClickSearch \/ TypeName \/ EnterName
    \/ VerifyTarget \/ McpReadInput \/ McpRenderedInput \/ McpFocus \/ McpCopy
    \/ McpDraft \/ PasteText \/ PasteImage \/ McpSend
    \/ UiaActivate \/ OpenChat \/ SelectSession \/ Query \/ OpenQuery
    \/ ChatOpened \/ ReadInput \/ Write \/ ReadBack \/ UiaSend
    \/ OldBanner \/ Scroll \/ NotFound \/ SelectQuote \/ QuoteBanner \/ Attach
    \/ Sent \/ Cleanup \/ Retry \/ FallBack \/ Answer
    \/ UserTypes \/ UserClicks

ForegroundSpec == ForegroundInit /\ [][ForegroundNext]_foregroundVars

-----------------------------------------------------------------------------
(* Properties                                                              *)

\* The retry of WeChatMCP, the UIA fallback and the sender's own retries send
\* the reply again.  They are safe: a run posts at most once, and one that
\* does not end as sent or unknown has posted nothing.
UnsentMeansUnsent ==
    ~mistaken =>
        Len(posts) <= IF result \in {"none", "ok", "unknown"} THEN 1 ELSE 0

\* What is posted holds the whole payload, in the target chat, and a quote
\* carries the banner of the quoted message.  It holds nothing else, so not a
\* word of the user, if the driver has read the draft it sends with.
\* (WeChatMCP posts elsewhere when it could not read the title of the chat, and
\* a draft it could not read along with the payload.)
OnlyThePayload ==
    ~mistaken => \A i \in DOMAIN posts :
        /\ Payload[kind] \subseteq posts[i].items
        /\ ~misread => posts[i].items = Payload[kind]
        /\ ~blind => posts[i].chat = "target"
        /\ kind \in Quotes => posts[i].banner = "driver"

\* No run that sends plainly takes away what the user has typed, unless
\* WeChatMCP could not read it.
UserTextKept ==
    [][kind \notin Quotes /\ ~mistaken' /\ ~misread' =>
           \A c \in Chats : "user" \in draft[c] => "user" \in draft'[c]
      ]_foregroundVars

\* The sender answers an unavailable quote by a plain send.  Unless the user
\* has interfered, the quote has left nothing in WeChat which that would post:
\* no banner and no payload.
NothingLeftBehind ==
    result = "quote_unavailable" /\ ~acted /\ ~mistaken =>
        \A c \in Chats : banner[c] # "driver" /\ "image" \notin draft[c]

\* The reply is posted whole, where it belongs, and once, also when the sender
\* sends it again because it was told that it was not; and alone, unless a draft
\* could not be read.
PostsThePayload == UnsentMeansUnsent /\ OnlyThePayload /\ NothingLeftBehind

\* A run that reports the user's input was interrupted by the user.
InterruptedByUser == result = "interrupted" => inputs > 0
=============================================================================
