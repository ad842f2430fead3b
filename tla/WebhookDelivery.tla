-------------------------- MODULE WebhookDelivery --------------------------
(***************************************************************************)
(* webhooks.py: the messages the WeChat channel receives, pushed to the    *)
(* configured endpoints.  Every endpoint has a queue of its own and a      *)
(* thread that uploads media first and then posts, with retries.  The      *)
(* dispatcher may be stopped and started again: the thread of the earlier  *)
(* generation may still be in the middle of a request then.                *)
(*                                                                         *)
(* A definition whose name ends in Bug is a mutant of the one after it.    *)
(***************************************************************************)
EXTENDS Naturals, Sequences, FiniteSets

CONSTANTS Endpoints,   \* the enabled endpoints, in the order of settings
          Events,
          Images,      \* the events with media: the image messages
          AiReplies,   \* the events that are replies of the bridge itself
          WithUpload,  \* the endpoints with an upload url
          WithAi,      \* the endpoints with include_ai_replies
          QueueLimit,  \* QUEUE_LIMIT
          SeenLimit,   \* the bound on _seen
          MaxAttempts, \* settings.max_attempts
          MaxReports,  \* bound on the messages the listener reports
          MaxStarts,   \* bound on the starts of the dispatcher
          NoEvent, Wake

ASSUME WebhookAssumption ==
    /\ Endpoints \subseteq Nat /\ IsFiniteSet(Endpoints) /\ Endpoints # {}
    /\ Images \subseteq Events /\ AiReplies \subseteq Events
    /\ WithUpload \subseteq Endpoints /\ WithAi \subseteq Endpoints
    /\ {QueueLimit, SeenLimit, MaxAttempts, MaxStarts} \subseteq Nat \ {0}
    /\ MaxReports \in Nat
    /\ {NoEvent, Wake} \cap Events = {} /\ NoEvent # Wake

\* A worker is an endpoint in one generation of the dispatcher.
Workers == Endpoints \X (1..MaxStarts)

VARIABLES
    starts,    \* generations so far
    running,   \* _workers is not empty
    stopPc,    \* where stop() is; it holds _lock unless it is "none"
    stopAt,    \* the endpoint whose worker it stops
    old,       \* the messages with a time before _started_at
    seen,      \* _seen, the oldest first
    hydrating, \* images whose attachment is decrypted before they are submitted
    queue, stopped, pc, item, attempt,  \* the workers
    reports,   \* messages reported so far
    taken,     \* history: the events remembered in this generation, in order
    uploads,   \* history: the upload requests of a worker for its item
    accepted,  \* history: its endpoint has answered that item with a 2xx
    late       \* history: the requests a worker began after it was stopped

workerVars == <<pc, item, attempt, uploads, accepted, late>>
dispatcherVars == <<starts, running, stopPc, stopAt, old, seen,
                    hydrating, reports, taken>>
webhookVars == <<dispatcherVars, queue, stopped, workerVars>>

Current == {w \in Workers : running /\ w[2] = starts}

TypeOK ==
    /\ starts \in 0..MaxStarts /\ running \in BOOLEAN
    /\ stopPc \in {"none", "set", "drain", "wake"}
    /\ stopAt \in Endpoints
    /\ old \subseteq Events
    /\ seen \in Seq(Events) /\ Len(seen) <= SeenLimit
    /\ hydrating \subseteq Events \X BOOLEAN
    /\ queue \in [Workers -> Seq(Events \cup {Wake})]
    /\ \A w \in Workers : Len(queue[w]) <= QueueLimit
    /\ stopped \in [Workers -> BOOLEAN]
    /\ pc \in [Workers -> {"none", "top", "get", "upload", "sendable",
                           "uploading", "attempt", "post", "posting", "backoff", "ended"}]
    /\ item \in [Workers -> Events \cup {NoEvent}]
    /\ attempt \in [Workers -> 1..MaxAttempts]
    /\ reports \in 0..MaxReports
    /\ accepted \in [Workers -> BOOLEAN]
    /\ uploads \in [Workers -> Nat] /\ late \in [Workers -> Nat]

FirstEndpoint == CHOOSE e \in Endpoints : \A f \in Endpoints : e <= f

WebhookInit ==
    /\ starts = 0 /\ running = FALSE
    /\ stopPc = "none" /\ stopAt = FirstEndpoint
    /\ old = {} /\ seen = <<>> /\ hydrating = {}
    /\ reports = 0 /\ taken = <<>>
    /\ queue = [w \in Workers |-> <<>>]
    /\ stopped = [w \in Workers |-> FALSE]
    /\ pc = [w \in Workers |-> "none"]
    /\ item = [w \in Workers |-> NoEvent]
    /\ attempt = [w \in Workers |-> 1]
    /\ uploads = [w \in Workers |-> 0]
    /\ accepted = [w \in Workers |-> FALSE]
    /\ late = [w \in Workers |-> 0]

-----------------------------------------------------------------------------
(* WebhookDispatcher. *)

LockFree == stopPc = "none"

\* What is in the WeChat database by then is old, whether the listener has
\* reported it or will do so only now; not so what came in the same second,
\* for _started_at has no microseconds.
Start ==
    /\ LockFree /\ ~running /\ starts < MaxStarts
    /\ starts' = starts + 1 /\ running' = TRUE
    /\ \E more \in SUBSET (Events \ old) : old' = old \cup more
    /\ seen' = <<>> /\ taken' = <<>>
    /\ pc' = [w \in Workers |-> IF w[2] = starts + 1 THEN "top" ELSE pc[w]]
    /\ UNCHANGED <<stopPc, stopAt, hydrating, reports, queue, stopped, item,
                   attempt, uploads, accepted, late>>

\* WebhookSettings.matches; the type and sender filters are left to Events.
Matches(e, ai) == ai => e \in WithAi

Remember(v) ==
    /\ seen' = LET s == Append(seen, v)
               IN IF Len(s) > SeenLimit THEN Tail(s) ELSE s
    /\ taken' = Append(taken, v)

\* enqueue: a full queue drops the event.
Offered(v, ai) ==
    [w \in Workers |->
        IF w \in Current /\ Matches(w[1], ai) /\ Len(queue[w]) < QueueLimit
        THEN Append(queue[w], v) ELSE queue[w]]

SubmitBug(v, ai) ==  \* Only what has a target is remembered.
    IF ~running \/ v \in old \/ v \in {seen[i] : i \in DOMAIN seen}
    THEN UNCHANGED <<seen, taken, queue>>
    ELSE /\ IF \E e \in Endpoints : Matches(e, ai) THEN Remember(v)
            ELSE taken' = Append(taken, v) /\ UNCHANGED seen
         /\ queue' = Offered(v, ai)

Submit(v, ai) ==
    IF ~running \/ v \in old \/ v \in {seen[i] : i \in DOMAIN seen}
    THEN UNCHANGED <<seen, taken, queue>>
    ELSE Remember(v) /\ queue' = Offered(v, ai)

\* _on_raw_message.  Only an echo that finds its pending record is known to
\* be a reply of the bridge: a repeated report does not find it again.
Report(v, ai) ==
    /\ reports < MaxReports
    /\ ai => v \in AiReplies
    /\ reports' = reports + 1
    /\ IF v \in Images /\ \E e \in WithUpload : Matches(e, ai)
       THEN /\ hydrating' = hydrating \cup {<<v, ai>>}
            /\ UNCHANGED <<seen, taken, queue>>
       ELSE LockFree /\ Submit(v, ai) /\ UNCHANGED hydrating
    /\ UNCHANGED <<starts, running, stopPc, stopAt, old, stopped, workerVars>>

\* _dispatch_message_in_order submits an image once it is decrypted.
Hydrated(v, ai) ==
    /\ <<v, ai>> \in hydrating
    /\ hydrating' = hydrating \ {<<v, ai>>}
    /\ LockFree /\ Submit(v, ai)
    /\ UNCHANGED <<starts, running, stopPc, stopAt, old, reports,
                   stopped, workerVars>>

\* stop(), in its order of steps for every worker.
StopBegins ==
    /\ LockFree /\ running
    /\ stopPc' = "set" /\ stopAt' = FirstEndpoint
    /\ UNCHANGED <<starts, running, old, seen, hydrating, reports,
                   taken, queue, stopped, workerVars>>

Stopped == <<stopAt, starts>>

StopSets ==
    /\ stopPc = "set"
    /\ stopped' = [stopped EXCEPT ![Stopped] = TRUE]
    /\ stopPc' = "drain"
    /\ UNCHANGED <<starts, running, stopAt, old, seen, hydrating,
                   reports, taken, queue, workerVars>>

StopDrainsBug ==
    /\ stopPc = "drain"
    /\ stopPc' = "wake"
    /\ UNCHANGED <<starts, running, stopAt, old, seen, hydrating,
                   reports, taken, stopped, workerVars, queue>>

StopDrains ==
    /\ stopPc = "drain"
    /\ queue' = [queue EXCEPT ![Stopped] = <<>>]
    /\ stopPc' = "wake"
    /\ UNCHANGED <<starts, running, stopAt, old, seen, hydrating,
                   reports, taken, stopped, workerVars>>

Later == {e \in Endpoints : e > stopAt}

\* The thread is woken, and it is the next worker's turn.
WakeUp == queue' = [queue EXCEPT ![Stopped] = Append(@, Wake)]

StopWakes ==
    /\ stopPc = "wake"
    /\ WakeUp
    /\ IF Later = {}
       THEN /\ stopPc' = "none" /\ running' = FALSE /\ seen' = <<>>
            /\ UNCHANGED stopAt
       ELSE /\ stopAt' = CHOOSE e \in Later : \A f \in Later : e <= f
            /\ stopPc' = "set" /\ UNCHANGED <<running, seen>>
    /\ UNCHANGED <<starts, old, hydrating, reports, taken, stopped,
                   workerVars>>

StopStep == StopSets \/ StopDrains \/ StopWakes

-----------------------------------------------------------------------------
(* _EndpointWorker._run, in a thread. *)

Go(w, p) == pc' = [pc EXCEPT ![w] = p]

\* The while condition, which is looked at before the blocking get.
Loop(w) ==
    /\ pc[w] = "top"
    /\ Go(w, IF stopped[w] THEN "ended" ELSE "get")
    /\ UNCHANGED <<queue, item, attempt, uploads, accepted, late>>

NeedsUpload(w, v) == v \in Images /\ w[1] \in WithUpload

Get(w) ==
    /\ pc[w] = "get" /\ queue[w] # <<>>
    /\ queue' = [queue EXCEPT ![w] = Tail(@)]
    /\ LET v == Head(queue[w])
       IN IF v = Wake \/ stopped[w]
          THEN Go(w, "ended") /\ UNCHANGED <<item, attempt, uploads, accepted>>
          ELSE /\ Go(w, IF NeedsUpload(w, v) THEN "upload" ELSE "attempt")
               /\ item' = [item EXCEPT ![w] = v]
               /\ attempt' = [attempt EXCEPT ![w] = 1]
               /\ uploads' = [uploads EXCEPT ![w] = 0]
               /\ accepted' = [accepted EXCEPT ![w] = FALSE]
    /\ UNCHANGED late

GiveUp(w) == Go(w, "top") /\ item' = [item EXCEPT ![w] = NoEvent]

\* A request counts as late if stop() was there before it.
Begins(w) == late' = [late EXCEPT ![w] = @ + (IF stopped[w] THEN 1 ELSE 0)]

\* upload_media: no unique file, too large, not converted, or cancelled.
UploadRefused(w) ==
    /\ pc[w] = "upload"
    /\ GiveUp(w)
    /\ UNCHANGED <<queue, attempt, uploads, accepted, late>>

UploadAllowed(w) ==
    /\ pc[w] = "upload" /\ ~stopped[w]
    /\ Go(w, "sendable")
    /\ UNCHANGED <<queue, item, attempt, uploads, accepted, late>>

Upload(w) ==
    /\ pc[w] = "sendable"
    /\ Go(w, "uploading")
    /\ uploads' = [uploads EXCEPT ![w] = @ + 1]
    /\ Begins(w)
    /\ UNCHANGED <<queue, item, attempt, accepted>>

Uploaded(w) ==
    /\ pc[w] = "uploading"
    /\ \/ Go(w, "attempt") /\ UNCHANGED item
       \/ GiveUp(w)
    /\ UNCHANGED <<queue, attempt, uploads, accepted, late>>

\* The body became too large with the id of the upload.
TooLarge(w) ==
    /\ pc[w] = "attempt" /\ attempt[w] = 1
    /\ GiveUp(w)
    /\ UNCHANGED <<queue, attempt, uploads, accepted, late>>

MayPost(w) == Go(w, IF stopped[w] THEN "ended" ELSE "post")

Attempt(w) ==
    /\ pc[w] = "attempt"
    /\ MayPost(w)
    /\ UNCHANGED <<queue, item, attempt, uploads, accepted, late>>

Post(w) ==
    /\ pc[w] = "post"
    /\ Go(w, "posting") /\ Begins(w)
    /\ UNCHANGED <<queue, item, attempt, uploads, accepted>>

\* Success, or a status that is not retried.
Posted(w) ==
    /\ pc[w] = "posting"
    /\ GiveUp(w)
    /\ \E success \in BOOLEAN : accepted' = [accepted EXCEPT ![w] = success]
    /\ UNCHANGED <<queue, attempt, uploads, late>>

RetryForeverBug(w) == Go(w, "backoff") /\ UNCHANGED item

RetryLater(w) == IF attempt[w] = MaxAttempts THEN GiveUp(w)
                 ELSE Go(w, "backoff") /\ UNCHANGED item

\* 408, 425, 429, 5xx, a timeout or no connection.
PostFails(w) ==
    /\ pc[w] = "posting"
    /\ RetryLater(w)
    /\ UNCHANGED <<queue, attempt, uploads, accepted, late>>

\* stopped.wait(...): the wait ends at once when stop() is called.
Backoff(w) ==
    /\ pc[w] = "backoff"
    /\ IF stopped[w] THEN Go(w, "ended") /\ UNCHANGED attempt
       ELSE /\ Go(w, "attempt")
            /\ attempt' = [attempt EXCEPT
                   ![w] = IF @ = MaxAttempts THEN @ ELSE @ + 1]
    /\ UNCHANGED <<queue, item, uploads, accepted, late>>

WorkerStep(w) ==
    /\ \/ Loop(w) \/ Get(w) \/ UploadRefused(w) \/ UploadAllowed(w)
       \/ Upload(w) \/ Uploaded(w) \/ TooLarge(w) \/ Attempt(w)
       \/ Post(w) \/ Posted(w) \/ PostFails(w) \/ Backoff(w)
    /\ UNCHANGED <<dispatcherVars, stopped>>

WebhookNext ==
    \/ Start \/ StopBegins \/ StopStep
    \/ \E v \in Events, ai \in BOOLEAN : Report(v, ai) \/ Hydrated(v, ai)
    \/ \E w \in Workers : WorkerStep(w)

\* Threads run, every request has a timeout, and stop() does not block.
WebhookSpec ==
    /\ WebhookInit /\ [][WebhookNext]_webhookVars
    /\ WF_webhookVars(StopStep)
    /\ \A w \in Workers : WF_webhookVars(WorkerStep(w))

-----------------------------------------------------------------------------
(* Properties. *)

\* _seen: a message that is reported again is not looked at again, whether
\* it was pushed, dropped or filtered the first time, until SeenLimit others
\* have come.  (A reply of the bridge, reported again, would pass for a
\* message of somebody else.)
RepeatIgnored ==
    \A i, j \in DOMAIN taken :
        i < j /\ taken[i] = taken[j] => j - i > SeenLimit

\* submit: messages from before the start stay out, however late the listener
\* reports them and however long their image took to decrypt.
OnlyNew ==
    \A w \in Current : (old \cap {queue[w][i] : i \in DOMAIN queue[w]} = {})
                       /\ item[w] \notin old

\* "Upload once, before webhook retries": no event makes a second remote file
\* at an endpoint.
UploadedOnce == \A w \in Workers : uploads[w] <= 1

\* Where a worker has an event in hand.
Busy == {"upload", "sendable", "uploading", "attempt", "post", "posting",
         "backoff"}

\* What an endpoint has answered with success is not posted to it again.  One
\* that received a message and answered too late, or not at all, does get it
\* again: the retries stop at a success, not at an arrival.
AcceptedIsDone == \A w \in Workers : pc[w] \in Busy => ~accepted[w]

\* Every message is submitted to an endpoint once, however often it is reported
\* within SeenLimit others, none that was written before the start, and its
\* media are uploaded once and its retries end with the first success.  Nothing
\* is said of arrival: a full queue drops a message, and a retry after a time-out
\* may bring it twice.
ForwardedOnce == RepeatIgnored /\ OnlyNew /\ UploadedOnce /\ AcceptedIsDone

\* stop() returns without waiting for the threads.  After it each of them
\* begins at most the one request it had already decided on.
StopIsFinal == \A w \in Workers : late[w] <= 1

\* Every stopped thread ends, wherever stop() met it: a stopped one that has not
\* ended is only ever on its way (neither is undone).
ThreadsEnd == \A w \in Workers : []<>(stopped[w] => pc[w] = "ended")

\* Every event that a worker takes is done with some time: no worker is busy
\* with one for ever.
EventsSettle ==
    \A w \in Workers : []<>(pc[w] \in {"none", "top", "get", "ended"})

\* Work ends: that of an event with its last attempt, that of a stopped thread
\* after the request it is at.
WorkEnds == ThreadsEnd /\ EventsSettle /\ []StopIsFinal
=============================================================================
