--------------------------- MODULE IdleUiaSender ---------------------------
(***************************************************************************)
(* senders/wechat.py, IdleUiaSender: the one worker that takes replies     *)
(* from the outbound_deliveries table and types them into WeChat while the *)
(* user is away, with its two drivers: the background UIA driver           *)
(* (uia_driver.py), step by step, and the foreground driver in a child     *)
(* process (foreground_process.py); the echo of a posted message, which    *)
(* the channel and the companion turn into a confirmation; and the user,   *)
(* who types, moves the mouse, cancels, retries and resends at any time.   *)
(*                                                                         *)
(* The worker runs on the event loop and suspends only where it waits for  *)
(* a driver thread or for the user to be idle: pc names these places.      *)
(*                                                                         *)
(* A definition whose name ends in Bug is a mutant of the one after it, a  *)
(* mistake that some property must notice; no specification uses it.       *)
(***************************************************************************)
EXTENDS OutboundDeliveries

CONSTANTS Images,          \* the messages that are an image
          Quotes,          \* the messages that quote another message
          VerifySends,     \* settings.verify_sends
          StartupDiscards, \* {TRUE}: run_bridge expires old rows before the
                           \* start; FALSE in it: a sender may be started
                           \* without that, and recovers them
          TypesAfterSend,  \* the user may type within the 0.2 s after Invoke
          MovesAfterSend,  \* the user may move the mouse between the send
                           \* key of the child and the parent's check
          RepeatsText,     \* the same text may be sent again: by a retry, a
                           \* resend or an equal reply
          MaxPosts,        \* bound on the posts of one delivery
          MaxStarts,       \* bound on the starts of the bridge
          NoDelivery, Empty, UserDraft

ASSUME SenderAssumption ==
    /\ Images \subseteq Messages /\ Quotes \subseteq Messages
    /\ {VerifySends, TypesAfterSend, MovesAfterSend, RepeatsText}
         \subseteq BOOLEAN
    /\ StartupDiscards \subseteq BOOLEAN
    /\ MaxPosts \in Nat /\ MaxStarts \in Nat
    /\ NoDelivery \notin Deliveries
    /\ {Empty, UserDraft} \cap Messages = {} /\ Empty # UserDraft

VARIABLES
    pc,        \* where the worker is
    cur,       \* the delivery it claimed
    stopping,  \* _stopping
    cooling,   \* the circuit breaker of the foreground driver is open
    answer,    \* what the child process answered
    touched,   \* user input since the activity snapshot of the attempt
    box,       \* the input box of the target chat: Empty, UserDraft, or the
               \* text of a message the bridge left there
    pending,   \* _pending_outbound of the channel, entries per message
    echoes,    \* posted messages the listener has not delivered yet
    rows,      \* rows of the WeChat database a verification can still claim
    posted,    \* how often the bridge posted a delivery
    boot,      \* rows older than the last start that discarded: 1..boot
    starts,    \* starts of the bridge so far
    cancelled  \* the deliveries the user has cancelled

chat == <<box, echoes, rows, posted>>
history == <<boot, starts, cancelled>>
senderVars == <<row, pc, cur, answer, touched, stopping, cooling, pending,
                chat, history>>

Waiting == {"recover", "wait"}
Attempting == {"bg", "bg_typed", "bg_invoked", "bg_verify", "fallback",
               "fg", "fg_done", "fg_verify", "quote", "quote_done",
               "quote_verify"}
Guarded == {"bg", "bg_typed", "bg_invoked", "fg", "quote"}
Places == {"off", "claim"} \cup Waiting \cup Attempting
Answers == {"none", "ok", "verified", "unknown"}

TypeOK ==
    /\ row \in [Deliveries -> Row]
    /\ pc \in Places
    /\ cur \in Deliveries \cup {NoDelivery}
    /\ (cur = NoDelivery) <=> (pc \in {"off", "claim"})
    /\ stopping \in BOOLEAN /\ cooling \in BOOLEAN /\ touched \in BOOLEAN
    /\ answer \in Answers
    /\ box \in Messages \cup {Empty, UserDraft}
    /\ pending \in [Messages -> Nat]
    /\ echoes \in [Messages -> Nat]
    /\ rows \in [Messages -> Nat]
    /\ posted \in [Deliveries -> 0..MaxPosts]
    /\ boot \in 0..MaxDeliveries
    /\ starts \in 0..MaxStarts
    /\ cancelled \subseteq Deliveries

SenderInit ==
    /\ TableInit
    /\ pc = "off" /\ cur = NoDelivery
    /\ stopping = FALSE /\ cooling = FALSE /\ touched = FALSE
    /\ answer = "none"
    /\ box = Empty
    /\ pending = [m \in Messages |-> 0]
    /\ echoes = [m \in Messages |-> 0]
    /\ rows = [m \in Messages |-> 0]
    /\ posted = [d \in Deliveries |-> 0]
    /\ boot = 0 /\ starts = 0 /\ cancelled = {}

-----------------------------------------------------------------------------
(* Pieces of the worker's steps. *)

Msg == row[cur].msg
Tries == row[cur].attempts

Running == pc # "off"

\* On to the next place of the attempt.
GoTo(p) == pc' = p /\ UNCHANGED <<cur, answer, touched>>

\* The claimed delivery is done with for now: back to the top of _run.
NextClaim == /\ pc' = "claim" /\ cur' = NoDelivery
             /\ answer' = "none" /\ touched' = FALSE

RecordPending == pending' = [pending EXCEPT ![Msg] = @ + 1]
ForgetPending == pending' = [pending EXCEPT ![Msg] = 0]

\* The guards of both drivers: no user input since the snapshot.
Guard == ~touched

\* The send key reached WeChat: the message appears in the chat, its echo
\* will follow, and the input box is empty.
Posts == /\ posted[cur] < MaxPosts
         /\ posted' = [posted EXCEPT ![cur] = @ + 1]
         /\ echoes' = [echoes EXCEPT ![Msg] = @ + 1]
         /\ rows' = [rows EXCEPT ![Msg] = @ + 1]
         /\ box' = Empty

\* _handle_failure.
HandleFailure ==
    IF Tries >= MaxAttempts
    THEN Update(cur, "failed", "other")
    ELSE UpdateAttempt(cur, "retry_wait", "other", Tries, TRUE)

\* Back to the queue without using up an attempt.
PutBack(deferred) ==
    UpdateAttempt(cur, "waiting_for_idle", "other", Tries - 1, deferred)

\* A send with an unknown result is tried again.
ResultUnknownBug == IF row[cur].status = "sent" THEN UNCHANGED row
                    ELSE UpdateAttempt(cur, "retry_wait", "other", Tries, TRUE)

\* DeliveryResultUnknown and ForegroundActionUnknown: terminal, unless an
\* echo has confirmed the delivery meanwhile.
ResultUnknown == IF row[cur].status = "sent" THEN UNCHANGED row
                 ELSE Update(cur, "failed", "delivery_unknown")

\* _verify_silent_delivery: a fresh database row with the text that no other
\* delivery has claimed.
Verified == rows[Msg] > 0 /\ rows' = [rows EXCEPT ![Msg] = @ - 1]

Confirm == Update(cur, "sent", "none")

-----------------------------------------------------------------------------
(* _run and the first part of _deliver_when_idle. *)

ClaimNext ==
    /\ pc = "claim" /\ ~stopping
    /\ \E d \in Deliveries :
         /\ Claim(d)
         /\ cur' = d
         /\ pc' = IF VerifySends /\ row[d].code \in Recovered
                  THEN "recover" ELSE "wait"
    /\ UNCHANGED <<answer, touched, cooling, pending, chat>>

ClaimExpires ==
    /\ pc = "claim" /\ ~stopping
    /\ Stale # {}
    /\ ClaimNone
    /\ UNCHANGED <<pc, cur, answer, touched, cooling, pending, chat>>

\* A delivery whose attempt a shutdown interrupted is looked up first.
RecoverFinds ==
    /\ pc = "recover"
    /\ Verified
    /\ Confirm
    /\ NextClaim
    /\ UNCHANGED <<cooling, pending, box, echoes, posted>>

RecoverMisses ==
    /\ pc = "recover"
    /\ IF row[cur].code = "recovered_foreground_inflight"
       THEN Update(cur, "failed", "delivery_unknown") /\ NextClaim
            /\ UNCHANGED pending
       ELSE GoTo("wait") /\ ForgetPending /\ UNCHANGED row
    /\ UNCHANGED <<cooling, chat>>

\* The wait loop: only a cancellation and the age are looked at.
WaitEnds ==
    /\ pc = "wait"
    /\ \/ row[cur].status = "cancelled" /\ UNCHANGED row
       \/ /\ row[cur].status # "cancelled" /\ row[cur].old
          /\ Update(cur, "expired", "other")
    /\ NextClaim
    /\ UNCHANGED <<cooling, pending, chat>>

MayAttemptBug == pc = "wait" /\ ~stopping /\ ~row[cur].old

\* The user is idle, and the delivery may still be attempted.
MayAttempt == /\ pc = "wait" /\ ~stopping
              /\ row[cur].status # "cancelled" /\ ~row[cur].old

NeedsForeground == Msg \in Images \cup Quotes

WaitDefers ==
    /\ MayAttempt
    /\ \/ /\ NeedsForeground /\ cooling
          /\ UpdateAttempt(cur, "waiting_for_idle", "other", Tries, TRUE)
       \/ /\ ~(NeedsForeground /\ cooling) /\ Tries >= MaxAttempts
          /\ Update(cur, "failed", "other")
       \/ \* No activity snapshot, or the user is back.
          /\ ~(NeedsForeground /\ cooling) /\ Tries < MaxAttempts
          /\ \E later \in BOOLEAN :
               UpdateAttempt(cur, "waiting_for_idle", "other", Tries, later)
    /\ NextClaim
    /\ UNCHANGED <<cooling, pending, chat>>

MayStart == /\ MayAttempt
            /\ ~(NeedsForeground /\ cooling)
            /\ Tries < MaxAttempts

\* The attempt begins.  Rows of the chat older than it may or may not be
\* too old for its verification, which allows for two seconds.
StartAttempt ==
    /\ MayStart
    /\ UpdateAttempt(cur, "sending", "none", Tries + 1, FALSE)
    /\ RecordPending
    /\ pc' = IF Msg \in Quotes THEN "quote"
             ELSE IF Msg \in Images THEN "fallback" ELSE "bg"
    /\ touched' = FALSE
    /\ rows' \in {rows, [rows EXCEPT ![Msg] = 0]}
    /\ UNCHANGED <<cur, answer, cooling, box, echoes, posted>>

\* resolve_target fails: the attempt counts, its pending record stays.
ResolveFails ==
    /\ MayStart
    /\ IF Tries + 1 >= MaxAttempts
       THEN UpdateAttempt(cur, "failed", "other", Tries + 1, FALSE)
       ELSE UpdateAttempt(cur, "retry_wait", "other", Tries + 1, TRUE)
    /\ RecordPending
    /\ NextClaim
    /\ UNCHANGED <<cooling, chat>>

\* Any other exception of an attempt is caught by _run.
InternalError ==
    /\ pc \in Attempting
    /\ Update(cur, "failed", "other")
    /\ ForgetPending
    /\ NextClaim
    /\ UNCHANGED <<cooling, chat>>

-----------------------------------------------------------------------------
(* The background driver: uia_driver.send_text in a thread, and the         *)
(* handlers of what it raises.                                              *)

\* No UIA tree, control or pattern, another conversation or application.
BgUnavailable ==
    /\ pc \in {"bg", "bg_typed"}
    /\ GoTo("fallback")
    /\ UNCHANGED <<row, cooling, pending, chat>>

BgTypes ==
    /\ pc = "bg"
    /\ box = Empty /\ Guard
    /\ box' = Msg
    /\ GoTo("bg_typed")
    /\ UNCHANGED <<row, cooling, pending, echoes, rows, posted>>

\* The provider executes the click, or does nothing.
BgInvokes ==
    /\ pc = "bg_typed" /\ Guard
    /\ Posts \/ UNCHANGED chat
    /\ GoTo("bg_invoked")
    /\ UNCHANGED <<row, cooling, pending>>

AfterBackgroundSendBug == Confirm /\ NextClaim

AfterBackgroundSend ==
    IF VerifySends THEN GoTo("bg_verify") /\ UNCHANGED row
    ELSE Confirm /\ NextClaim

\* The box is empty: the message is taken to be sent.
BgConsumed ==
    /\ pc = "bg_invoked" /\ box = Empty
    /\ AfterBackgroundSend
    /\ UNCHANGED <<cooling, pending, chat>>

\* The text is still there: a window message with the Enter key.
BgEnters ==
    /\ pc = "bg_invoked" /\ box = Msg /\ Guard
    /\ Posts \/ UNCHANGED chat
    /\ AfterBackgroundSend
    /\ UNCHANGED <<cooling, pending>>

\* WeChatInputBusy: a draft in the box before typing, or a changed one after
\* the click.
BgBusy ==
    /\ \/ pc = "bg" /\ box # Empty
       \/ pc = "bg_invoked" /\ box \notin {Empty, Msg}
    /\ IF Msg \in Quotes THEN HandleFailure ELSE PutBack(TRUE)
    /\ ForgetPending
    /\ NextClaim
    /\ UNCHANGED <<cooling, chat>>

\* UserActivityInterrupted at one of the three guards.  When only the window
\* or the cursor moved it is the driver's own doing and counts as a failure.
BgInterrupted ==
    /\ \/ pc = "bg" /\ box = Empty
       \/ pc = "bg_typed"
       \/ pc = "bg_invoked" /\ box = Msg
    /\ ~Guard
    /\ HandleFailure \/ (Msg \notin Quotes /\ PutBack(FALSE))
    /\ ForgetPending
    /\ NextClaim
    /\ UNCHANGED <<cooling, chat>>

BgVerified ==
    /\ pc = "bg_verify"
    /\ Verified
    /\ Confirm
    /\ NextClaim
    /\ UNCHANGED <<cooling, pending, box, echoes, posted>>

\* Not in the database: the text still in the box means that nothing was
\* sent; anything else, or an unreadable box, that nobody knows.
BgUnverified ==
    /\ pc = "bg_verify"
    /\ \/ box = Msg /\ GoTo("fallback") /\ UNCHANGED row
       \/ ResultUnknown /\ NextClaim
    /\ UNCHANGED <<cooling, pending, chat>>

-----------------------------------------------------------------------------
(* _deliver_with_foreground_fallback. *)

FallbackRefused ==
    /\ pc = "fallback"
    /\ \/ /\ cooling
          /\ PutBack(TRUE)
          /\ UNCHANGED box
       \/ \* Not authorized, or sends are not verified.  Its own draft is
          \* cleared if it can be.
          /\ ~cooling
          /\ Update(cur, "failed", "other")
          /\ box' \in IF box = Msg /\ Msg \notin Images THEN {box, Empty}
                      ELSE {box}
    /\ ForgetPending
    /\ NextClaim
    /\ UNCHANGED <<cooling, echoes, rows, posted>>

FallbackStarts ==
    /\ pc = "fallback"
    /\ ~cooling /\ VerifySends
    /\ Update(cur, "sending", "foreground_inflight")
    /\ GoTo("fg")
    /\ UNCHANGED <<cooling, pending, chat>>

\* A child process that gives up before the send key may leave the text it
\* wrote, or remove it again.
Leftover == box' \in IF box = Empty THEN {Empty, Msg} ELSE {box}

\* A guard failed, in the child before the send key, or in the parent, whose
\* _synchronize_parent_guard runs before the answer is looked at: the handler
\* takes both for an interruption "before the final send key".
FgInterrupted ==
    /\ \/ pc \in {"fg", "quote"} /\ touched
       \/ pc \in {"fg_done", "quote_done"} /\ MovesAfterSend
    /\ PutBack(TRUE)
    /\ ForgetPending
    /\ IF pc \in {"fg", "quote"} THEN Leftover ELSE UNCHANGED box
    /\ NextClaim
    /\ UNCHANGED <<cooling, echoes, rows, posted>>

\* No window, another draft, no input box, the image is gone, stopped.
FgFails ==
    /\ pc = "fg"
    /\ Update(cur, "failed", "other")
    /\ ForgetPending
    /\ Leftover
    /\ NextClaim
    /\ UNCHANGED <<cooling, echoes, rows, posted>>

\* The send key, and the answer of the child.
FgTriggers ==
    /\ pc = "fg"
    /\ box = Empty \/ (box = Msg /\ Msg \notin Images)
    /\ Posts \/ (box' = Msg /\ UNCHANGED <<echoes, rows, posted>>)
    /\ pc' = "fg_done"
    /\ answer' \in {"ok", "unknown"}
    /\ UNCHANGED <<row, cur, touched, cooling, pending>>

\* The child hangs, dies or is killed by stop(): the circuit opens.
ChildLost ==
    /\ pc \in {"fg", "fg_done", "quote", "quote_done"}
    /\ cooling' = TRUE
    /\ ResultUnknown
    /\ IF pc \in {"fg", "quote"} THEN Leftover ELSE UNCHANGED box
    /\ NextClaim
    /\ UNCHANGED <<pending, echoes, rows, posted>>

FgAnswered ==
    /\ pc = "fg_done"
    /\ IF answer = "unknown" THEN ResultUnknown /\ NextClaim
       ELSE GoTo("fg_verify") /\ UNCHANGED row
    /\ UNCHANGED <<cooling, pending, chat>>

FgVerifies ==
    /\ pc \in {"fg_verify", "quote_verify"}
    /\ \/ Verified /\ Confirm
       \/ ResultUnknown /\ UNCHANGED rows
    /\ NextClaim
    /\ UNCHANGED <<cooling, pending, box, echoes, posted>>

-----------------------------------------------------------------------------
(* _deliver_quoted. *)

\* The reference or the quote control is not found: an ordinary send, unless
\* the user has touched anything since the snapshot.
QuoteUnavailable ==
    /\ pc = "quote"
    /\ \/ /\ ~touched
          /\ GoTo(IF Msg \in Images THEN "fallback" ELSE "bg")
          /\ UNCHANGED row
       \/ touched /\ HandleFailure /\ NextClaim
    /\ UNCHANGED <<cooling, pending, chat>>

QuoteBusy ==
    /\ pc = "quote" /\ box # Empty
    /\ HandleFailure
    /\ ForgetPending
    /\ NextClaim
    /\ UNCHANGED <<cooling, chat>>

\* An old quote draft cannot be cleared, or the payload was written before
\* the operation failed.
QuoteGivesUp ==
    /\ pc = "quote"
    /\ ResultUnknown
    /\ Leftover
    /\ NextClaim
    /\ UNCHANGED <<cooling, pending, echoes, rows, posted>>

\* ForegroundSendUnavailable is not caught by _deliver_quoted.
QuoteStopped ==
    /\ pc = "quote" /\ stopping
    /\ HandleFailure
    /\ NextClaim
    /\ UNCHANGED <<cooling, pending, chat>>

QuoteTriggers ==
    /\ pc = "quote" /\ box = Empty
    /\ Posts \/ (box' = Msg /\ UNCHANGED <<echoes, rows, posted>>)
    /\ pc' = "quote_done"
    /\ answer' \in {"ok", "unknown"} \cup
                   (IF posted' # posted THEN {"verified"} ELSE {})
    /\ UNCHANGED <<row, cur, touched, cooling, pending>>

QuoteAnswered ==
    /\ pc = "quote_done"
    /\ \/ answer = "unknown" /\ ResultUnknown /\ NextClaim
       \/ /\ answer = "verified" \/ (answer = "ok" /\ ~VerifySends)
          /\ Confirm /\ NextClaim
       \/ /\ answer = "ok" /\ VerifySends
          /\ GoTo("quote_verify") /\ UNCHANGED row
    /\ UNCHANGED <<cooling, pending, chat>>

\* The steps of the worker task and of the threads it waits for.
WorkerStep ==
    /\ \/ ClaimNext \/ ClaimExpires \/ RecoverFinds \/ RecoverMisses
       \/ WaitEnds \/ WaitDefers \/ StartAttempt \/ ResolveFails
       \/ InternalError
       \/ BgUnavailable \/ BgTypes \/ BgInvokes \/ BgConsumed \/ BgEnters
       \/ BgBusy \/ BgInterrupted \/ BgVerified \/ BgUnverified
       \/ FallbackRefused \/ FallbackStarts \/ FgInterrupted \/ FgFails
       \/ FgTriggers \/ ChildLost \/ FgAnswered \/ FgVerifies
       \/ QuoteUnavailable \/ QuoteBusy \/ QuoteGivesUp \/ QuoteStopped
       \/ QuoteTriggers \/ QuoteAnswered
    /\ UNCHANGED <<stopping, history>>

-----------------------------------------------------------------------------
(* The rest of the bridge, the user and time. *)

Enqueue(d, m) ==
    /\ Running
    /\ RepeatsText \/ \A e \in Deliveries : row[e].msg # m
    /\ Insert(d, m)
    /\ UNCHANGED <<pc, cur, answer, touched, stopping, cooling, pending, chat,
                   history>>

RetryOrResend(d, original) ==
    /\ Running /\ RepeatsText
    /\ InsertCopy(d, original, {"failed", "expired", "sent"})
    /\ UNCHANGED <<pc, cur, answer, touched, stopping, cooling, pending, chat,
                   history>>

Cancel(d) ==
    /\ Running
    /\ CancelRow(d)
    /\ cancelled' = cancelled \cup {d}
    /\ UNCHANGED <<pc, cur, answer, touched, stopping, cooling, pending, chat,
                   boot, starts>>

\* The rows with a card in the companion's timeline, and the newest of them
\* with a given message.
Carded == {d \in Deliveries : Exists(d) /\ d > boot}

IsNewest(d, m) ==
    /\ d \in Carded /\ row[d].msg = m
    /\ \A e \in Carded : row[e].msg = m => e <= d

\* _mark_matching_delivery_sent, whatever the status of that row is.
MarkNewest(m) ==
    IF \E d \in Deliveries : IsNewest(d, m) /\ row[d].status # "sent"
    THEN \E d \in Deliveries : IsNewest(d, m) /\ Update(d, "sent", "none")
    ELSE UNCHANGED row

\* The messages an echo of m is taken for: an image is only known to be one.
SameSignature(m) == IF m \in Images THEN Images ELSE {m}

ActiveStatuses == PendingStatuses \cup {"sending", "sent"}

\* The listener delivers a posted message: _consume_pending_outbound, or else
\* _suppress_unmarked_delivery_echo.
Echo(m) ==
    LET marked == {p \in SameSignature(m) : pending[p] > 0}
        active == {p \in SameSignature(m) :
                     \E d \in Carded : /\ row[d].msg = p
                                       /\ row[d].status \in ActiveStatuses}
    IN
    /\ Running /\ echoes[m] > 0
    /\ echoes' = [echoes EXCEPT ![m] = @ - 1]
    /\ \/ \E p \in marked : /\ pending' = [pending EXCEPT ![p] = @ - 1]
                             /\ MarkNewest(p)
       \/ /\ marked = {} /\ UNCHANGED pending
          /\ IF active = {} THEN UNCHANGED row
             ELSE \E p \in active : MarkNewest(p)
    /\ UNCHANGED <<pc, cur, answer, touched, stopping, cooling, box, rows,
                   posted, history>>

\* An entry of _pending_outbound is dropped after 60 s.
PendingDropped(m) ==
    /\ pending[m] > 0
    /\ pending' = [pending EXCEPT ![m] = @ - 1]
    /\ UNCHANGED <<row, pc, cur, answer, touched, stopping, cooling, chat,
                   history>>

\* The user edits the input box, or only moves the mouse: guards look at it
\* only in some places.
UserTypes ==
    /\ pc = "bg_invoked" => TypesAfterSend
    /\ box' \in {Empty, UserDraft} \ {box}
    /\ touched' = (pc \in Guarded)
    /\ UNCHANGED <<row, pc, cur, answer, stopping, cooling, pending, echoes,
                   rows, posted, history>>

UserMoves ==
    /\ pc \in Guarded /\ ~touched
    /\ touched' = TRUE
    /\ UNCHANGED <<row, pc, cur, answer, stopping, cooling, pending, chat,
                   history>>

\* Time passes, for the rows whose deadlines may still be looked at.
Expires(d) ==
    /\ Pending(d) \/ d = cur
    /\ Ages(d)
    /\ UNCHANGED <<pc, cur, answer, touched, stopping, cooling, pending, chat,
                   history>>

FallsDue(d) ==
    /\ BecomesDue(d)
    /\ UNCHANGED <<pc, cur, answer, touched, stopping, cooling, pending, chat,
                   history>>

CoolingEnds ==
    /\ cooling /\ cooling' = FALSE
    /\ UNCHANGED <<row, pc, cur, answer, touched, stopping, pending, chat,
                   history>>

-----------------------------------------------------------------------------
(* The life of the bridge process. *)

\* run_bridge: old rows are discarded, or, in a sender started without that,
\* recovered with a pending record each.
Start ==
    /\ pc = "off" /\ starts < MaxStarts
    /\ starts' = starts + 1
    /\ \/ /\ TRUE \in StartupDiscards
          /\ boot' = Cardinality({d \in Deliveries : Exists(d)})
          /\ DiscardPending /\ UNCHANGED pending
       \/ /\ FALSE \in StartupDiscards
          /\ UNCHANGED boot
          /\ Recover
          /\ pending' = [m \in Messages |->
                 Cardinality({d \in Deliveries :
                                /\ row'[d].msg = m
                                /\ row'[d].status = "queued"
                                /\ row'[d].code \in Recovered})]
    /\ pc' = "claim"
    /\ UNCHANGED <<cur, answer, touched, stopping, cooling, chat, cancelled>>

\* stop(): the worker finishes what it is doing.
Stop ==
    /\ Running /\ ~stopping
    /\ stopping' = TRUE
    /\ UNCHANGED <<row, pc, cur, answer, touched, cooling, pending, chat,
                   history>>

ProcessEnds ==
    /\ pc' = "off" /\ cur' = NoDelivery /\ answer' = "none"
    /\ touched' = FALSE /\ stopping' = FALSE /\ cooling' = FALSE
    /\ pending' = [m \in Messages |-> 0]
    /\ echoes' = [m \in Messages |-> 0]
    /\ UNCHANGED <<row, box, rows, posted, history>>

WorkerEnds == pc \in {"claim", "wait"} /\ stopping /\ ProcessEnds

Crash == Running /\ ProcessEnds

SenderNext ==
    \/ WorkerStep
    \/ \E d \in Deliveries : \/ Cancel(d) \/ Expires(d) \/ FallsDue(d)
                             \/ \E m \in Messages : Enqueue(d, m)
                             \/ \E o \in Deliveries : RetryOrResend(d, o)
    \/ \E m \in Messages : Echo(m) \/ PendingDropped(m)
    \/ UserTypes \/ UserMoves \/ CoolingEnds
    \/ Start \/ Stop \/ WorkerEnds \/ Crash

SenderSpec == SenderInit /\ [][SenderNext]_senderVars

\* The event loop and the driver threads make progress, and time passes.
SenderFairness ==
    /\ WF_senderVars(WorkerStep) /\ WF_senderVars(WorkerEnds)
    /\ \A d \in Deliveries : /\ WF_senderVars(Expires(d))
                           /\ WF_senderVars(FallsDue(d))

FairSenderSpec == SenderSpec /\ SenderFairness

-----------------------------------------------------------------------------
(* Properties. *)

\* A reply is posted at most once, whatever interrupts its attempts: an
\* attempt goes back to the queue only if it certainly posted nothing.
AtMostOnce == \A d \in Deliveries : posted[d] <= 1

\* A reply that is SENT really reached the chat.  Only its own echo and its
\* own row in the database may have confirmed it.
SentWasPosted ==
    \A d \in Deliveries : row[d].status = "sent" => posted[d] > 0

\* A reply the user has cancelled is not posted any more.
CancelledNeverPosted ==
    [][\A d \in cancelled : posted'[d] = posted[d]]_senderVars

\* A send whose result is unknown is never repeated automatically: only an
\* echo, which confirms it, still changes the row.
UnknownIsFinal ==
    [][\A d \in Deliveries :
         row[d].status = "failed" /\ row[d].code = "delivery_unknown"
         => /\ row'[d].status \in {"failed", "sent"}
            /\ posted'[d] = posted[d]]_senderVars

\* Restarting the bridge is the boundary: no reply of an earlier run is
\* posted by a later one, whatever state the crash or the stop left it in.
NoStaleReply ==
    [][\A d \in 1..boot : posted'[d] = posted[d]]_senderVars

\* No reply is posted twice, and what an earlier attempt, or an earlier run,
\* may have posted is never posted again.
NeverRepeated == []AtMostOnce /\ NoStaleReply /\ UnknownIsFinal

\* How far a delivery is, seen from outside.
Stage == [d \in Deliveries |->
            IF ~Exists(d) THEN "new"
            ELSE IF d = cur /\ pc \in Attempting THEN "inflight"
            ELSE IF d = cur /\ row[d].status = "sent" THEN "waiting"
            ELSE IF Pending(d) THEN "waiting"
            ELSE "over"]

Outbox == INSTANCE ReplyOutbox WITH stage <- Stage, posts <- posted

\* The sender is an outbox: one reply at a time, oldest first, each posted
\* at most once and none that was given up.
ImplementsOutbox == Outbox!OutboxSpec

\* Every reply is settled in the end, by being sent, failed, cancelled or
\* too old, as long as the bridge is not stopped.
EveryReplySettles ==
    \A d \in Deliveries :
        Exists(d) ~> (row[d].status \in FinalStatuses \/ pc = "off")

\* stop() does not wait for ever for the worker.
StopReturns == stopping ~> (pc = "off")

\* So nobody waits for ever for the sender.
SenderSettles == EveryReplySettles /\ StopReturns
=============================================================================
