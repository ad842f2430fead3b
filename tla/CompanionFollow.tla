--------------------------- MODULE CompanionFollow ---------------------------
(***************************************************************************)
(* How the docked companion window keeps beside the WeChat window: the     *)
(* timer that looks for WeChat's main window and moves, hides, shows and   *)
(* binds the companion, the small launcher it collapses to, and the drag   *)
(* that moves both windows (companion/qt_window.py, companion/follower.py, *)
(* the cached window handles of senders/wechat.py and of                   *)
(* senders/uia_driver.py, the show and hide commands of lifecycle.py).     *)
(*                                                                         *)
(* Every handler runs to its end in the thread of Qt.  WeChat is moved,    *)
(* minimized, sent to the tray, left and started again between handlers,   *)
(* also while the user drags the companion.  A place is where WeChat's     *)
(* window is; the companion is at the place it is docked to.               *)
(*                                                                         *)
(* A definition whose name ends in Bug is a mutant of the one after it.    *)
(***************************************************************************)
EXTENDS Naturals

CONSTANTS LastPlace,       \* places are 1..LastPlace
          MaxWindows,      \* main windows WeChat creates in a behaviour
          MaxMisses,       \* searches that overlook a window that is shown
          MaxHands         \* what the user does to the windows

ASSUME FollowAssumption ==
    /\ LastPlace \in Nat \ {0} /\ MaxWindows \in Nat \ {0}
    /\ {MaxMisses, MaxHands} \subseteq Nat

VARIABLES
    wechat,     \* the main window of WeChat
    finder,     \* the handles the driver, the sender and the probe remember
    face,       \* the companion, its launcher and what they remember
    drag,       \* the move of both windows the user is at
    minimizing, \* _collapse_minimized_to_launcher is queued
    over,       \* the companion was closed, its timer stopped
    misses, hands

followVars == <<wechat, finder, face, drag, minimizing, over, misses, hands>>

Places == 1..LastPlace
NoPlace == 0     \* an empty geometry key
Handles == 1..MaxWindows
NoHandle == 0
NoOrigin == [handle |-> NoHandle, wechat |-> NoPlace, companion |-> NoPlace]

FollowTypeOK ==
    /\ wechat \in [state : {"absent", "shown", "minimized", "hidden"},
                   handle : Handles \cup {NoHandle}, place : Places]
    /\ finder \in [pinned : Handles \cup {NoHandle}, cached : Handles \cup {NoHandle},
                   probed : Handles \cup {NoHandle},
                   fresh : BOOLEAN, waits : BOOLEAN]
    /\ face \in [visible : BOOLEAN, iconic : BOOLEAN, place : Places,
                 owner : Handles \cup {NoHandle}, collapsed : BOOLEAN,
                 withdrawn : BOOLEAN, key : Places \cup {NoPlace},
                 button : BOOLEAN, buttonPlace : Places,
                 buttonOwner : Handles \cup {NoHandle},
                 buttonKey : Places \cup {NoPlace}]
    /\ drag.active \in BOOLEAN
    /\ drag.origin \in {NoOrigin} \cup
           [handle : Handles, wechat : Places, companion : Places]
    /\ minimizing \in BOOLEAN /\ over \in BOOLEAN
    /\ misses \in 0..MaxMisses /\ hands \in 0..MaxHands

\* run(): the window is shown where Qt puts it, then the timer is started.
FollowInit ==
    /\ \E p \in Places :
           \/ wechat = [state |-> "absent", handle |-> NoHandle, place |-> p]
           \/ wechat = [state |-> "shown", handle |-> 1, place |-> p]
    /\ finder = [pinned |-> NoHandle, cached |-> NoHandle, probed |-> NoHandle,
                 fresh |-> FALSE, waits |-> FALSE]
    /\ face = [visible |-> TRUE, iconic |-> FALSE, place |-> 1, owner |-> NoHandle,
               collapsed |-> FALSE, withdrawn |-> FALSE, key |-> NoPlace,
               button |-> FALSE, buttonPlace |-> 1, buttonOwner |-> NoHandle,
               buttonKey |-> NoPlace]
    /\ drag = [active |-> FALSE, origin |-> NoOrigin]
    /\ minimizing = FALSE /\ over = FALSE /\ misses = 0 /\ hands = 0

-----------------------------------------------------------------------------
\* The search for WeChat's main window

\* IsWindow, and the process and class that were remembered with the handle.
Exists(h) == wechat.state # "absent" /\ h = wechat.handle

Seen(h) == IF Exists(h) THEN wechat.state ELSE "absent"

\* SilentWeChatUiaDriver.main_window_handle behind the cache of a second of
\* WeChatSender.main_window_handle; `found' is what the search would return.
Provided(f, found) ==
    LET handle == IF Exists(f.pinned) THEN f.pinned ELSE found
    IN IF f.fresh THEN f
       ELSE [f EXCEPT !.pinned = handle, !.cached = handle, !.fresh = TRUE]

\* Win32WindowProbe.main_window_handle, asked when the sender knows none.
Discovered(f, found) ==
    IF f.cached # NoHandle \/ Exists(f.probed) THEN f
    ELSE [f EXCEPT !.probed = IF f.waits THEN NoHandle ELSE found,
                   !.waits = TRUE]

Handle(f) == IF f.cached # NoHandle THEN f.cached ELSE f.probed

\* A search finds the window or overlooks it: UI Automation may not answer,
\* and a second shell of WeChat makes the native search ambiguous.
Found == {NoHandle} \cup IF wechat.state = "absent" THEN {} ELSE {wechat.handle}

Searched(f, handle) ==
    /\ finder' = f
    /\ misses' = misses + IF /\ wechat.state = "shown" /\ handle = NoHandle
                             /\ \/ f.fresh # finder.fresh
                                \/ f.waits # finder.waits
                          THEN 1 ELSE 0
    /\ misses' <= MaxMisses

-----------------------------------------------------------------------------
\* _follow_wechat_window, as a function of the window's state

\* Win32WindowOwner.bind
Bound(owner, h) == IF Exists(h) THEN h ELSE owner

FollowCollapsed(w, h) ==
    IF Seen(h) # "shown" THEN [w EXCEPT !.button = FALSE]
    ELSE [w EXCEPT !.button = TRUE, !.buttonOwner = Bound(@, h),
                   !.buttonPlace = IF ~w.button \/ w.buttonKey # wechat.place
                                   THEN wechat.place ELSE @,
                   !.buttonKey = wechat.place]

Withdraw(w) == [w EXCEPT !.visible = FALSE, !.withdrawn = TRUE]

Return(w) == IF w.withdrawn
             THEN [w EXCEPT !.visible = TRUE, !.withdrawn = FALSE] ELSE w

\* Bound and moved; an unchanged geometry is not moved again.
Dock(w, h) ==
    [w EXCEPT !.owner = Bound(@, h),
              !.place = IF w.key # wechat.place THEN wechat.place ELSE @,
              !.key = wechat.place]

Followed(w, h) ==
    CASE w.collapsed -> FollowCollapsed(w, h)
      [] ~w.collapsed /\ Seen(h) = "absent" -> Return(w)
      [] ~w.collapsed /\ Seen(h) \in {"minimized", "hidden"} ->
             IF w.withdrawn THEN w ELSE Withdraw(w)
      [] ~w.collapsed /\ Seen(h) = "shown" -> Dock(Return(w), h)

\* The handler leaves early while both windows are dragged.
Follow(w) ==
    \/ /\ drag.active
       /\ face' = w /\ UNCHANGED <<finder, misses>>
    \/ /\ ~drag.active
       /\ \E a, b \in Found :
              LET f == Discovered(Provided(finder, a), b)
              IN Searched(f, Handle(f)) /\ face' = Followed(w, Handle(f))

Tick ==
    /\ ~over /\ ~drag.active
    /\ Follow(face)
    /\ UNCHANGED <<wechat, drag, minimizing, over, hands>>

\* The sender's cached handle grows old and the probe may search again.  What
\* Qt has queued with a zero timer runs before a second is over.
SecondPasses ==
    /\ finder.fresh \/ finder.waits
    /\ ~minimizing
    /\ finder' = [finder EXCEPT !.fresh = FALSE, !.waits = FALSE]
    /\ UNCHANGED <<wechat, face, drag, minimizing, over, misses, hands>>

-----------------------------------------------------------------------------
\* Collapsing to the launcher and coming back

Collapse ==
    \/ face.collapsed /\ UNCHANGED <<finder, face, misses>>
    \/ /\ ~face.collapsed
       /\ Follow([face EXCEPT !.collapsed = TRUE, !.buttonKey = NoPlace,
                              !.visible = FALSE])

Expand ==
    Follow([face EXCEPT !.button = FALSE, !.collapsed = FALSE, !.withdrawn = FALSE,
                        !.key = NoPlace, !.visible = TRUE, !.iconic = FALSE])

\* changeEvent, and the slot it queues.
MinimizeClicked ==
    /\ hands < MaxHands /\ hands' = hands + 1
    /\ face.visible /\ ~face.iconic /\ ~drag.active
    /\ face' = [face EXCEPT !.iconic = TRUE]
    /\ minimizing' = (minimizing \/ ~face.collapsed)
    /\ UNCHANGED <<wechat, finder, drag, over, misses>>

\* From the task bar, before or after the queued slot.
Unminimized ==
    /\ hands < MaxHands /\ hands' = hands + 1
    /\ face.visible /\ face.iconic
    /\ face' = [face EXCEPT !.iconic = FALSE]
    /\ UNCHANGED <<wechat, finder, drag, minimizing, over, misses>>

CollapseMinimized ==
    /\ minimizing /\ minimizing' = FALSE
    /\ \/ face.iconic /\ Collapse
       \/ ~face.iconic /\ UNCHANGED <<finder, face, misses>>
    /\ UNCHANGED <<wechat, drag, over, hands>>

\* A click on the launcher, its close event, or the manager's show command.
Opened ==
    /\ hands < MaxHands /\ hands' = hands + 1
    /\ Expand
    /\ UNCHANGED <<wechat, drag, minimizing, over>>

HideCommand ==
    /\ hands < MaxHands /\ hands' = hands + 1
    /\ Collapse
    /\ UNCHANGED <<wechat, drag, minimizing, over>>

\* closeEvent: the launcher is shut down first, the timer stopped.
Closed ==
    /\ ~over /\ over' = TRUE
    /\ hands < MaxHands /\ hands' = hands + 1
    /\ face' = [face EXCEPT !.visible = FALSE, !.button = FALSE]
    /\ UNCHANGED <<wechat, finder, drag, minimizing, misses>>

-----------------------------------------------------------------------------
\* The user drags the companion by its title bar

BeginDrag ==
    /\ hands < MaxHands /\ hands' = hands + 1
    /\ face.visible /\ ~face.iconic /\ ~drag.active
    /\ \E a \in Found :
           LET f == Provided(finder, a) IN
           /\ Searched(f, f.cached)
           /\ drag' = [active |-> TRUE,
                       origin |-> IF Seen(f.cached) = "shown"
                                  THEN [handle |-> f.cached, wechat |-> wechat.place,
                                        companion |-> face.place]
                                  ELSE NoOrigin]
    /\ UNCHANGED <<wechat, face, minimizing, over>>

\* Win32WindowMover.move
CanMove(h, place) == Exists(h) /\ place \in Places

\* Windows moves the companion, the handler moves WeChat by as much; it gives
\* up when SetWindowPos fails.
Drag ==
    /\ drag.active /\ face.visible
    /\ \E p \in Places :
        LET o == drag.origin
            target == (o.wechat + p) - o.companion
        IN /\ face' = [face EXCEPT !.place = p]
           /\ \/ /\ o = NoOrigin
                 /\ UNCHANGED <<wechat, drag>>
              \/ /\ o # NoOrigin /\ CanMove(o.handle, target)
                 /\ wechat' = [wechat EXCEPT !.place = target]
                 /\ UNCHANGED drag
              \/ /\ o # NoOrigin
                 /\ drag' = [drag EXCEPT !.origin = NoOrigin]
                 /\ UNCHANGED wechat
    /\ UNCHANGED <<finder, minimizing, over, misses, hands>>

EndDragBug ==
    /\ drag.active
    /\ drag' = [active |-> FALSE, origin |-> NoOrigin]
    /\ UNCHANGED <<wechat, finder, face, minimizing, over, misses, hands>>

EndDrag ==
    /\ drag.active
    /\ drag' = [active |-> FALSE, origin |-> NoOrigin]
    /\ face' = [face EXCEPT !.key = NoPlace]
    /\ UNCHANGED <<wechat, finder, minimizing, over, misses, hands>>

-----------------------------------------------------------------------------
\* WeChat and its user

WechatChanges ==
    /\ hands < MaxHands /\ hands' = hands + 1
    /\ \/ \E p \in Places \ {wechat.place} :
              wechat.state = "shown" /\ wechat' = [wechat EXCEPT !.place = p]
       \/ \E s \in {"shown", "minimized", "hidden"} \ {wechat.state} :
              wechat.state # "absent" /\ wechat' = [wechat EXCEPT !.state = s]
       \/ /\ wechat.state # "absent"
          /\ wechat' = [wechat EXCEPT !.state = "absent"]
       \/ \E p \in Places :
              /\ wechat.state = "absent" /\ wechat.handle < MaxWindows
              /\ wechat' = [state |-> "shown", handle |-> wechat.handle + 1,
                            place |-> p]
    /\ UNCHANGED <<finder, face, drag, minimizing, over, misses>>

FollowStep == Tick \/ SecondPasses \/ CollapseMinimized

FollowNext ==
    \/ FollowStep
    \/ MinimizeClicked \/ Unminimized \/ Opened \/ HideCommand \/ Closed
    \/ BeginDrag \/ Drag \/ EndDrag
    \/ WechatChanges

\* The timer keeps firing and time passes; the user may stop at anything, in
\* the middle of a drag too.
FollowSpec == FollowInit /\ [][FollowNext]_followVars /\ WF_followVars(FollowStep)

-----------------------------------------------------------------------------
\* Properties

\* The companion shows at most one of its two faces (qt_window.py:2190-2204).
OneFace == ~(face.visible /\ face.button)

\* Collapsed, only the launcher is there, in the corner of a WeChat window
\* that is shown and owned by it (qt_window.py:2154-2180).
LauncherInPlace ==
    /\ ~face.visible
    /\ face.button <=> wechat.state = "shown"
    /\ face.button => /\ face.buttonPlace = wechat.place
                      /\ face.buttonOwner = wechat.handle

\* Open, the companion stands beside a WeChat window that is shown, is out of
\* sight with one that is minimized or in the tray and that it knows of, and
\* waits in sight for one that is not there (qt_window.py:2120-2145).
CompanionInPlace ==
    /\ ~face.button
    /\ ~(face.visible /\ face.iconic)
    /\ wechat.state = "shown" => /\ face.visible
                                 /\ face.place = wechat.place
                                 /\ face.owner = wechat.handle
    /\ wechat.state = "absent" => face.visible
    /\ wechat.state \in {"minimized", "hidden"} =>
           face.visible = ~Exists(Handle(finder))

Settled == IF face.collapsed THEN LauncherInPlace ELSE CompanionInPlace

\* The companion never shows both faces, and when the user's hands are off the
\* windows it comes to rest in its place beside WeChat, whatever was moved,
\* hidden, dragged and started again before: no remembered geometry, flag or
\* window handle keeps it where it was (the keys and flags of
\* qt_window.py:443-449, the handles of follower.py:100 and wechat.py:254).
ComesBack == []OneFace /\ <>[](over \/ drag.active \/ Settled)
=============================================================================
