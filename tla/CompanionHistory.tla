-------------------------- MODULE CompanionHistory --------------------------
(***************************************************************************)
(* What the companion window shows of one conversation: pages of the local *)
(* history and of WeChat's own one, and the realtime entries               *)
(* (companion/controller.py, and what companion/qt_window.py asks of it).  *)
(*                                                                         *)
(* Pages are read in threads while messages arrive, the user scrolls,      *)
(* changes the settings, selects the conversation again or clears its      *)
(* history, and the first page recovers image replies that were never      *)
(* stored.                                                                 *)
(*                                                                         *)
(* Messages are the numbers 1..count in the order they were created in.    *)
(* What has the same number is one entry of the timeline.                  *)
(*                                                                         *)
(* A definition whose name ends in Bug is a mutant of the one after it.    *)
(***************************************************************************)
EXTENDS Naturals, FiniteSetsExt

CONSTANTS Page,        \* HISTORY_PAGE_SIZE, and the entries shown at first
          Limits,      \* values of history_limit
          MaxOld,      \* messages there are at the start
          MaxMessages, \* bound on the messages
          MaxVisible,  \* bound on the entries shown
          MaxChanges   \* bound on the changes of settings and the clearings

ASSUME HistoryAssumption ==
    /\ Page \in Nat \ {0} /\ Limits \subseteq Nat \ {0} /\ Limits # {}
    /\ {MaxOld, MaxMessages, MaxVisible, MaxChanges} \subseteq Nat
    /\ MaxOld <= MaxMessages

VARIABLES
    count,      \* messages so far, all of them in WeChat's database
    db,         \* messages in the bridge's database
    images,     \* image replies in the outbound table
    realtime,   \* _realtime
    local,      \* _local_history
    loaded,     \* _local_history_loaded
    localMore,  \* _local_history_more
    cursor,     \* _history_cursors, or MaxMessages + 1
    wechat,     \* _wechat_history
    wechatMore, \* _wechat_history_more
    offset,     \* _wechat_history_offsets
    loadPref,   \* load_history of the preferences
    limitPref,  \* history_limit
    generation, \* _local_history_generation
    localTask,  \* the local page that is loaded, or NoTask
    wechatTask, \* the WeChat page that is loaded, or NoTask
    pageTask,   \* _history_page_task: "none", "local", "wechat"
    visible,    \* _history_visible_count
    changes,
    cleared,    \* history: the messages that were there at a clearing
    dropped     \* history: whether WeChat's pages were switched off and the first
                \* has not come again

storeVars == <<count, db, images>>
localVars == <<local, loaded, localMore, cursor>>
wechatVars == <<wechat, wechatMore, offset, dropped>>
prefVars == <<loadPref, limitPref, changes>>
taskVars == <<localTask, wechatTask, pageTask>>
historyPageVars == <<storeVars, realtime, localVars, wechatVars, prefVars,
                     generation, taskVars, visible, cleared>>

Messages == 1..MaxMessages
NoTask == [stage |-> "none"]
NoCursor == MaxMessages + 1

HistoryTypeOK ==
    /\ count \in 0..MaxMessages
    /\ UNION {db, images, realtime, local, wechat, cleared} \subseteq 1..count
    /\ {loaded, localMore, wechatMore, loadPref, dropped} \subseteq BOOLEAN
    /\ cursor \in 1..NoCursor
    /\ limitPref \in Limits
    /\ offset \in Nat /\ \E limit \in Limits : offset <= limit
    /\ localTask = NoTask \/ localTask.stage \in {"read", "recover", "media"}
    /\ wechatTask = NoTask \/ wechatTask.stage \in {"read", "accept"}
    /\ pageTask \in {"none", "local", "wechat"}
    \* The page task waits for the pages it has asked for.
    /\ localTask # NoTask /\ localTask.older => pageTask = "local"
    /\ wechatTask # NoTask /\ wechatTask.older => pageTask = "wechat"

HistoryInit ==
    /\ count = MaxOld
    /\ db \in SUBSET (1..count)
    /\ images \in SUBSET (1..count) /\ Cardinality(images) <= 1
    /\ realtime = {} /\ local = {} /\ loaded = FALSE
    /\ localMore = TRUE /\ cursor = NoCursor
    /\ wechat = {} /\ wechatMore = FALSE /\ offset = 0 /\ dropped = FALSE
    /\ loadPref \in BOOLEAN /\ limitPref \in Limits
    /\ generation = 0
    /\ localTask = NoTask /\ wechatTask = NoTask /\ pageTask = "none"
    /\ visible = Page /\ changes = 0 /\ cleared = {}

-----------------------------------------------------------------------------

\* The k newest of a set of messages.
Newest(S, k) == {m \in S : Cardinality({x \in S : x > m}) < k}

\* session_message_page: one row more than a page.
Rows(older) == Newest(IF older THEN {m \in db : m < cursor} ELSE db, Page + 1)

\* load_local_history_async, up to its first await.
LocalTask(task, older) ==
    IF (~older /\ loaded) \/ task # NoTask THEN task
    ELSE [stage |-> "read", older |-> older, generation |-> generation,
          rows |-> {}]

\* In a thread.
LocalRead ==
    /\ localTask.stage = "read"
    /\ localTask' = [localTask EXCEPT !.rows = Rows(localTask.older),
                                      !.stage = IF localTask.older THEN "media"
                                                ELSE "recover"]
    /\ UNCHANGED <<storeVars, realtime, localVars, wechatVars, prefVars,
                   generation, wechatTask, pageTask, visible, cleared>>

\* _recover_sent_attachment_history, in a thread.
LocalRecover ==
    /\ localTask.stage = "recover"
    /\ db' = db \cup images
    /\ localTask' = [localTask EXCEPT !.stage = "media",
                                      !.rows = IF images \subseteq db THEN @
                                               ELSE Newest(db', Page + 1)]
    /\ UNCHANGED <<count, images, realtime, localVars, wechatVars, prefVars,
                   generation, wechatTask, pageTask, visible, cleared>>

\* _accept_local_page; without an old session the page is empty.
Accept(page, more) ==
    /\ localMore' = more
    /\ cursor' = IF page = {} THEN cursor ELSE Min(page)
    /\ local' = IF localTask.older THEN page \cup local ELSE page
    /\ loaded' = TRUE

LocalCurrent == localTask.generation = generation

LocalAcceptBug ==
    LET page == Newest(localTask.rows, Page) IN
    /\ local' = IF localTask.older THEN page \cup local ELSE page
    /\ cursor' = IF localTask.rows = {} THEN cursor ELSE Min(localTask.rows)
    /\ localMore' = (Cardinality(localTask.rows) > Page)
    /\ loaded' = TRUE

LocalAccept == Accept(Newest(localTask.rows, Page),
                      Cardinality(localTask.rows) > Page)

-----------------------------------------------------------------------------

Least(a, b) == IF a <= b THEN a ELSE b

\* _load_wechat_page, up to its await, with the preferences load and limit.
WechatTask(task, older, load, limit) ==
    LET from == IF older THEN offset ELSE 0
    IN IF ~load \/ task # NoTask \/ from >= limit \/ (older /\ ~wechatMore)
       THEN task
       ELSE [stage |-> "read", older |-> older, offset |-> from, rows |-> {},
             size |-> Least(Page, limit - from), limit |-> limit,
             generation |-> generation]

\* _prepend_history_page goes on; a clearing would have cancelled it.
Rendered == pageTask' = "none" /\ visible' = visible + Page

PageAsksWechat ==
    /\ wechatTask' = WechatTask(wechatTask, TRUE, loadPref, limitPref)
    /\ IF wechatTask' = wechatTask THEN Rendered
       ELSE pageTask' = "wechat" /\ UNCHANGED visible

\* Both checks of the generation, and the lookup of old media in between; a
\* page task goes on with the page of WeChat.
LocalEnds ==
    /\ localTask.stage = "media"
    /\ IF LocalCurrent THEN LocalAccept ELSE UNCHANGED localVars
    /\ localTask' = NoTask
    /\ IF localTask.older THEN PageAsksWechat
       ELSE UNCHANGED <<wechatTask, pageTask, visible>>
    /\ UNCHANGED <<storeVars, realtime, wechatVars, prefVars, generation,
                   cleared>>

\* The page at an offset from the newest message, in a thread.
WechatRead ==
    /\ wechatTask.stage = "read"
    /\ wechatTask' = [wechatTask EXCEPT !.stage = "accept",
          !.rows = Newest(1..count, wechatTask.offset + wechatTask.size)
                   \ Newest(1..count, wechatTask.offset)]
    /\ UNCHANGED <<storeVars, realtime, localVars, wechatVars, prefVars,
                   generation, localTask, pageTask, visible, cleared>>

\* A load of the page task ends it with an exception.
WechatFails ==
    /\ wechatTask.stage = "read"
    /\ wechatMore' = TRUE
    /\ wechatTask' = NoTask
    /\ pageTask' = IF wechatTask.older THEN "none" ELSE pageTask
    /\ UNCHANGED <<storeVars, realtime, localVars, wechat, offset, dropped,
                   prefVars, generation, localTask, visible, cleared>>

\* What was asked for is still wanted.
WechatWanted ==
    /\ wechatTask.generation = generation
    /\ loadPref /\ limitPref = wechatTask.limit

NextOffset == wechatTask.offset + Cardinality(wechatTask.rows)

\* The first page replaces what was loaded before.
WechatPage ==
    IF wechatTask.older THEN wechatTask.rows \cup wechat ELSE wechatTask.rows

WechatEnds ==
    /\ wechatTask.stage = "accept"
    /\ IF WechatWanted
       THEN /\ wechat' = WechatPage
            /\ offset' = NextOffset
            /\ dropped' = (dropped /\ wechatTask.older)
            /\ wechatMore' = /\ Cardinality(wechatTask.rows) = wechatTask.size
                             /\ NextOffset < limitPref
       ELSE UNCHANGED wechatVars
    /\ wechatTask' = NoTask
    /\ IF wechatTask.older THEN Rendered ELSE UNCHANGED <<pageTask, visible>>
    /\ UNCHANGED <<storeVars, realtime, localVars, prefVars, generation,
                   localTask, cleared>>

-----------------------------------------------------------------------------
(* companion/qt_window.py. *)

HasOlder == localMore \/ (loadPref /\ wechatMore)

Shown == Newest(local \cup wechat \cup realtime, visible)

\* _request_older_history and load_older_history.
RequestOlder ==
    /\ pageTask = "none" /\ visible < MaxVisible
    /\ HasOlder \/ Shown # local \cup wechat \cup realtime
    /\ IF localMore /\ localTask = NoTask
       THEN /\ localTask' = LocalTask(localTask, TRUE) /\ pageTask' = "local"
            /\ UNCHANGED <<wechatTask, visible>>
       ELSE PageAsksWechat /\ UNCHANGED localTask
    /\ UNCHANGED <<storeVars, realtime, localVars, wechatVars, prefVars,
                   generation, cleared>>

\* Cancelling the page task cancels the load it awaits.
CancelPage ==
    /\ pageTask' = "none" /\ visible' = Page

KeptBug(task) == task

Kept(task) == IF task # NoTask /\ task.older THEN NoTask ELSE task

\* _select_conversation and _load_conversation_history.
Select ==
    /\ CancelPage
    /\ localTask' = LocalTask(Kept(localTask), FALSE)
    /\ wechatTask' = WechatTask(Kept(wechatTask), FALSE, loadPref, limitPref)
    /\ UNCHANGED <<storeVars, realtime, localVars, wechatVars, prefVars,
                   generation, cleared>>

\* _return_to_latest and _flush_pending_timeline.
ReturnToLatest ==
    /\ CancelPage
    /\ localTask' = Kept(localTask) /\ wechatTask' = Kept(wechatTask)
    /\ UNCHANGED <<storeVars, realtime, localVars, wechatVars, prefVars,
                   generation, cleared>>

\* update_preferences, and the load the switches start.
SetPreferences(load, limit) ==
    /\ changes < MaxChanges /\ changes' = changes + 1
    /\ <<load, limit>> # <<loadPref, limitPref>>
    /\ loadPref' = load /\ limitPref' = limit
    /\ wechat' = IF load THEN wechat ELSE {}
    /\ dropped' = (dropped \/ ~load)
    /\ wechatTask' = WechatTask(wechatTask, FALSE, load, limit)
    /\ UNCHANGED <<storeVars, realtime, localVars, wechatMore, offset, generation,
                   localTask, pageTask, visible, cleared>>

\* clear_local_messages; WeChat's own history stays.
ClearMessages ==
    /\ changes < MaxChanges /\ changes' = changes + 1
    /\ cleared' = cleared \cup db \cup realtime \cup local
    /\ db' = {} /\ local' = {} /\ realtime' = {}
    /\ generation' = generation + 1
    /\ loaded' = TRUE /\ localMore' = FALSE /\ cursor' = NoCursor
    /\ CancelPage
    /\ localTask' = Kept(localTask) /\ wechatTask' = Kept(wechatTask)
    /\ UNCHANGED <<count, images, wechatVars, loadPref, limitPref>>

\* A message: shown and stored, shown only, or an image reply that is only in
\* the outbound table.
Arrive(stored, image) ==
    /\ count < MaxMessages /\ count' = count + 1
    /\ realtime' = realtime \cup {count'}
    /\ db' = IF stored THEN db \cup {count'} ELSE db
    /\ images' = IF image THEN images \cup {count'} ELSE images
    /\ UNCHANGED <<localVars, wechatVars, prefVars, generation, taskVars,
                   visible, cleared>>

HistoryNext ==
    \/ LocalRead \/ LocalRecover \/ LocalEnds
    \/ WechatRead \/ WechatFails \/ WechatEnds
    \/ RequestOlder \/ Select \/ ReturnToLatest
    \/ \E load \in BOOLEAN, limit \in Limits : SetPreferences(load, limit)
    \/ ClearMessages
    \/ \E stored, image \in BOOLEAN : ~(stored /\ image) /\ Arrive(stored, image)

HistorySpec == HistoryInit /\ [][HistoryNext]_historyPageVars

-----------------------------------------------------------------------------
(* Properties. *)

\* The local pages have no hole, whatever is stored, recovered or asked for
\* meanwhile: the timeline has every row from the oldest one of its pages on,
\* and every row there is when no older ones are announced.
NoHole ==
    \A m \in db : /\ local # {} /\ m >= Min(local) => m \in local \cup realtime
                  /\ loaded /\ ~localMore /\ generation = 0
                     => m \in local \cup realtime

\* Nor have the pages of WeChat, whose offsets shift when messages arrive: from
\* the oldest message of the pages on, what is missing came while the window
\* was there.  Switching the pages off keeps their offset (update_preferences):
\* an older page may then be shown without the newest one, until that one comes.
WechatNoHole ==
    wechat # {} /\ ~dropped =>
        Min(wechat)..count \subseteq wechat \cup realtime \cup cleared

\* What the user has cleared does not come back, however long a page that was
\* read before takes.
ClearedStaysCleared == cleared \cap (local \cup realtime) = {}

\* The timeline shows what there is to show from some message on.
PagesAreTrue == NoHole /\ WechatNoHole /\ ClearedStaysCleared
=============================================================================
