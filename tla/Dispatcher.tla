----------------------------- MODULE Dispatcher -----------------------------
(***************************************************************************)
(* runtime/dispatcher.py composed with the reply queue it uses, and with   *)
(* the channel's in-order dispatch in front of it (channels/wechat.py,     *)
(* _dispatch_message_in_order): messages of a chat are handled one at a    *)
(* time under a lock, collected in a batch until a timer or a command      *)
(* seals it, and turned into jobs, which the workers of SessionTaskQueue   *)
(* run; the user lists and removes queued jobs meanwhile.                  *)
(*                                                                         *)
(* A session of the queue is a chat, an item is a job.  The steps of       *)
(* _execute_job refine TaskEnds of the queue, and the task that submitted  *)
(* a job goes on when its future is settled.                               *)
(*                                                                         *)
(* A definition whose name ends in Bug is a mutant of the one after it, a  *)
(* mistake that some property must notice; no specification uses it.       *)
(***************************************************************************)
EXTENDS SessionTaskQueue, Sequences

CONSTANTS Msgs,         \* messages, numbered in the order of the WeChat database
          ChatOf,       \* the chat of a message
          Kinds,        \* the kinds of message a run is about
          BatchWindow,  \* message_batch_window_seconds is positive
          AdapterFails, \* agents.get and adapter.cancel may raise
          SendFails,    \* channel.send_message may raise
          Repeated,     \* messages the listener may report once more
          MaxReplies,   \* bound: the parts a reply is split into
          NoMsg

\* Of a text, an image, a message only observed for its context, /ask, which
\* makes a job of its own, and the other commands, of which /cancel.
AllKinds == {"text", "image", "context", "ask", "cancel"}

ASSUME DispatcherAssumption ==
    /\ Items \subseteq Nat /\ Msgs \subseteq Nat /\ NoMsg \notin Msgs
    /\ ChatOf \in [Msgs -> Sessions]
    /\ Kinds \subseteq AllKinds
    /\ {BatchWindow, AdapterFails, SendFails} \subseteq BOOLEAN
    /\ Repeated \subseteq Msgs
    /\ MaxReplies \in Nat \ {0}

VARIABLES
    up,        \* the process runs
    stopping,  \* Dispatcher._closed
    arrived,   \* how often the listener reported a message
    kind,      \* what it turned out to be
    inbox,     \* messages of a chat that wait for its dispatch lock
    turn,      \* the message that holds the lock and where it is
    seen,      \* inbound_dedup
    stored,    \* messages in the history
    batch,     \* _pending_batches
    refused,   \* messages answered by an error text instead of a job
    contents,  \* the messages a job answers
    caller,    \* the task that awaits submit(): the timer, the turn, or done
    status,    \* jobs.status
    listed,    \* _queued_jobs
    stage,     \* where _execute_job is
    replies,   \* parts handed to the channel
    removed,   \* jobs the user removed from the queue
    unwanted   \* jobs that were running when a /cancel was accepted

jobVars == <<contents, caller, status, listed, stage, replies>>
chatVars == <<arrived, kind, inbox, turn, seen, stored, batch, refused>>
dispatcherVars == <<vars, up, stopping, chatVars, jobVars, removed, unwanted>>

Final == {"completed", "failed", "cancelled", "interrupted"}
JobStatuses == {"none", "queued", "running"} \cup Final
Stages == {"none", "agent", "sending", "timeout", "undo", "again"}
Callers == {"none", "timer", "turn", "done"}

\* The lock is free, or its holder decodes an image, waits for the job of the
\* batch it sealed, is through with that, or waits for its own job.
Turn == [at : {"free", "hydrate", "flush", "flushed", "submit"},
         msg : Msgs \cup {NoMsg}, job : Items \cup {NoItem}]

Free == [at |-> "free", msg |-> NoMsg, job |-> NoItem]

ChatTypeOK ==
    /\ up \in BOOLEAN /\ stopping \in BOOLEAN
    /\ arrived \in [Msgs -> 0..2]
    /\ kind \in [Msgs -> Kinds \cup {"none"}]
    /\ inbox \in [Sessions -> Seq(Msgs)]
    /\ turn \in [Sessions -> Turn]
    /\ seen \subseteq Msgs /\ stored \subseteq Msgs /\ refused \subseteq Msgs
    /\ batch \in [Sessions -> Seq(Msgs)]

JobTypeOK ==
    /\ contents \in [Items -> Seq(Msgs)]
    /\ caller \in [Items -> Callers]
    /\ status \in [Items -> JobStatuses]
    /\ listed \subseteq Items
    /\ stage \in [Items -> Stages]
    /\ replies \in [Items -> 0..MaxReplies]
    /\ removed \subseteq Items /\ unwanted \subseteq Items

DispatcherTypeOK == TypeOK /\ ChatTypeOK /\ JobTypeOK

DispatcherInit ==
    /\ Init
    /\ up = TRUE /\ stopping = FALSE
    /\ arrived = [m \in Msgs |-> 0]
    /\ kind = [m \in Msgs |-> "none"]
    /\ inbox = [s \in Sessions |-> <<>>]
    /\ turn = [s \in Sessions |-> Free]
    /\ seen = {} /\ stored = {} /\ refused = {}
    /\ batch = [s \in Sessions |-> <<>>]
    /\ contents = [i \in Items |-> <<>>]
    /\ caller = [i \in Items |-> "none"]
    /\ status = [i \in Items |-> "none"]
    /\ listed = {}
    /\ stage = [i \in Items |-> "none"]
    /\ replies = [i \in Items |-> 0]
    /\ removed = {} /\ unwanted = {}

-----------------------------------------------------------------------------
(* Pieces of the steps. *)

SetOf(ms) == {ms[k] : k \in DOMAIN ms}

Unused(s) == {i \in Items : SessionOf[i] = s /\ status[i] = "none"}

\* The task that was cancelled while it cancels its Agent is cancelled again.
Recancelled(S) ==
    stage' = [i \in Items |-> IF i \in S /\ stage[i] = "undo" THEN "again"
                              ELSE stage[i]]

\* _handle_immediate from create_job to submit.  A closed queue raises, and
\* the row of the job stays as it was created.
CreateJob(i, s, ms, who) ==
    /\ i \in Unused(s) /\ \A j \in Unused(s) : i <= j
    /\ contents' = [contents EXCEPT ![i] = ms]
    /\ status' = [status EXCEPT ![i] = "queued"]
    /\ IF closed
       THEN /\ caller' = [caller EXCEPT ![i] = "done"]
            /\ UNCHANGED <<vars, listed>>
       ELSE /\ caller' = [caller EXCEPT ![i] = who]
            /\ listed' = listed \cup {i}
            /\ Submit(i)
    /\ UNCHANGED <<stage, replies>>

\* SessionTaskQueue.cancel on behalf of /cancel.
CancelJob(s) ==
    LET i == active[s] IN
    /\ IF i # NoItem /\ task[i] \in Live
       THEN /\ IF task[i] = "running" THEN CancelActive(s) ELSE UNCHANGED vars
            /\ Recancelled({i})
       ELSE UNCHANGED <<vars, stage>>
    /\ UNCHANGED <<contents, caller, status, listed, replies>>

\* The batch asks for an answer.
TriggeredBug(ms) == kind[ms[Len(ms)]] # "context"  \* Only the last counts.

Triggered(ms) == \E k \in DOMAIN ms : kind[ms[k]] # "context"

\* _seal_message_batch, for a batch that is dropped without a job ...
Drops(ms) == /\ stopping \/ ~Triggered(ms)
             /\ UNCHANGED refused

\* ... or answered by an error text: no text in it, and no image usable.
Refuses(ms) == /\ ~stopping /\ Triggered(ms)
               /\ refused' = refused \cup SetOf(ms)

Answers(ms) == ~stopping /\ Triggered(ms) /\ UNCHANGED refused

\* The rest of _route_message and _handle_immediate for a command.
Immediate(s, m) ==
    \/ /\ kind[m] = "ask"
       /\ stored' = stored \cup {m}
       /\ \E i \in Items :
            /\ CreateJob(i, s, <<m>>, "turn")
            /\ turn' = [turn EXCEPT ![s] =
                 IF closed THEN Free
                 ELSE [at |-> "submit", msg |-> m, job |-> i]]
    \/ /\ kind[m] = "cancel"
       /\ CancelJob(s)
       /\ turn' = [turn EXCEPT ![s] = Free]
       /\ UNCHANGED stored

-----------------------------------------------------------------------------
(* The listener and the dispatch lock. *)

\* _on_raw_message, in the order of the database.  The listener is stopped
\* before the dispatcher is closed.
Receive(m) ==
    /\ up /\ ~stopping
    /\ arrived[m] = 0 \/ (arrived[m] = 1 /\ m \in Repeated)
    /\ \A k \in Msgs : k < m /\ ChatOf[k] = ChatOf[m] => arrived[k] > 0
    /\ arrived' = [arrived EXCEPT ![m] = @ + 1]
    /\ IF kind[m] = "none" THEN \E k \in Kinds : kind' = [kind EXCEPT ![m] = k]
       ELSE UNCHANGED kind
    /\ inbox' = [inbox EXCEPT ![ChatOf[m]] = Append(@, m)]
    /\ UNCHANGED <<vars, up, stopping, turn, seen, stored, batch, refused,
                   jobVars, removed, unwanted>>

\* Only commands are looked up.
KnownBug(m) == m \in seen /\ kind[m] # "text"

\* mark_inbound_processed finds the message.
Known(m) == m \in seen

\* A text, an image or a context message joins the batch of its chat; with no
\* window it is sealed at once.
Collects(s, m) ==
    LET ms == Append(batch[s], m) IN
    /\ kind[m] \in {"text", "image", "context"}
    /\ stored' = stored \cup {m}
    /\ \/ /\ BatchWindow
          /\ batch' = [batch EXCEPT ![s] = ms]
          /\ turn' = [turn EXCEPT ![s] = Free]
          /\ UNCHANGED <<vars, jobVars, refused>>
       \/ /\ ~BatchWindow
          /\ UNCHANGED batch
          /\ \/ /\ Drops(ms) \/ Refuses(ms)
                /\ turn' = [turn EXCEPT ![s] = Free]
                /\ UNCHANGED <<vars, jobVars>>
             \/ /\ Answers(ms)
                /\ \E i \in Items :
                     /\ CreateJob(i, s, ms, "turn")
                     /\ turn' = [turn EXCEPT ![s] =
                          [at |-> "submit", msg |-> m, job |-> i]]

MustFlushBug(s) == FALSE  \* The batch is left to its timer.

MustFlush(s) == batch[s] # <<>>

\* A command seals the batch first, and waits for its job to be done.
Commands(s, m) ==
    /\ kind[m] \in {"ask", "cancel"}
    /\ \/ /\ ~MustFlush(s)
          /\ Immediate(s, m)
          /\ UNCHANGED <<batch, refused>>
       \/ /\ MustFlush(s)
          /\ batch' = [batch EXCEPT ![s] = <<>>]
          /\ \/ /\ Drops(batch[s]) \/ Refuses(batch[s])
                /\ Immediate(s, m)
             \/ /\ Answers(batch[s])
                /\ \E i \in Items :
                     /\ CreateJob(i, s, batch[s], "turn")
                     /\ turn' = [turn EXCEPT ![s] =
                          [at |-> "flush", msg |-> m, job |-> i]]
                /\ UNCHANGED stored

Asked(s) == {i \in Items : /\ active[s] = i /\ task[i] = "running"
                           /\ status[i] = "running"}

\* _route_message.
Route(s, m) ==
    \/ /\ stopping \/ Known(m)
       /\ turn' = [turn EXCEPT ![s] = Free]
       /\ UNCHANGED <<vars, seen, stored, batch, refused, jobVars, unwanted>>
    \/ /\ ~stopping /\ ~Known(m)
       /\ seen' = seen \cup {m}
       /\ unwanted' = IF kind[m] = "cancel" THEN unwanted \cup Asked(s)
                      ELSE unwanted
       /\ Collects(s, m) \/ Commands(s, m)

\* The next message gets the lock.  An image is decoded in a thread first.
TakesTurn(s) ==
    /\ up /\ turn[s].at = "free" /\ inbox[s] # <<>>
    /\ inbox' = [inbox EXCEPT ![s] = Tail(@)]
    /\ LET m == Head(inbox[s]) IN
       \/ /\ kind[m] = "image"
          /\ turn' = [turn EXCEPT ![s] =
                        [at |-> "hydrate", msg |-> m, job |-> NoItem]]
          /\ UNCHANGED <<vars, seen, stored, batch, refused, jobVars, unwanted>>
       \/ kind[m] # "image" /\ Route(s, m)
    /\ UNCHANGED <<up, stopping, arrived, kind, removed>>

Hydrated(s) ==
    /\ up /\ turn[s].at = "hydrate"
    /\ Route(s, turn[s].msg)
    /\ UNCHANGED <<up, stopping, arrived, kind, inbox, removed>>

\* _seal_message_batch_after: the window is over, and no image of the chat
\* is still to be dispatched.
PendingMedia(s) ==
    \/ turn[s].msg # NoMsg /\ kind[turn[s].msg] = "image"
    \/ \E m \in SetOf(inbox[s]) : kind[m] = "image"

TimerSeals(s) ==
    /\ up /\ batch[s] # <<>>
    /\ ~PendingMedia(s)
    /\ batch' = [batch EXCEPT ![s] = <<>>]
    /\ \/ /\ Drops(batch[s]) \/ Refuses(batch[s])
          /\ UNCHANGED <<vars, jobVars>>
       \/ /\ Answers(batch[s])
          /\ \E i \in Items : CreateJob(i, s, batch[s], "timer")
    /\ UNCHANGED <<up, stopping, arrived, kind, inbox, turn, seen, stored,
                   removed, unwanted>>

\* The command goes on after its flush.
Flushed(s) ==
    /\ up /\ turn[s].at = "flushed"
    /\ Immediate(s, turn[s].msg)
    /\ UNCHANGED <<up, stopping, arrived, kind, inbox, seen, batch, refused,
                   removed, unwanted>>

\* What the submitting task does when it resumes: a cancelled future makes
\* the job CANCELLED, and an exception ends the handler.
Resumed(i, newStatus) ==
    /\ up /\ caller[i] \in {"timer", "turn"} /\ future[i] # "pending"
    /\ caller' = [caller EXCEPT ![i] = "done"]
    /\ listed' = listed \ {i}
    /\ status' = [status EXCEPT ![i] = newStatus]
    /\ turn' = [s \in Sessions |->
                  IF turn[s].job # i THEN turn[s]
                  ELSE IF turn[s].at = "flush" /\ future[i] # "exception"
                  THEN [at |-> "flushed", msg |-> turn[s].msg, job |-> NoItem]
                  ELSE Free]
    /\ UNCHANGED <<vars, up, stopping, arrived, kind, inbox, seen, stored,
                   batch, refused, contents, stage, replies, removed, unwanted>>

CallerResumesBug(i) == Resumed(i, status[i])  \* The row is left as it is.

CallerResumes(i) == Resumed(i, IF future[i] = "cancelled" THEN "cancelled"
                               ELSE status[i])

-----------------------------------------------------------------------------
(* _execute_job, in the task a worker created for the job. *)

Ends(i, e) == /\ task' = [task EXCEPT ![i] = e]
              /\ UNCHANGED <<closed, joined, place, ticket, last, future,
                             worker, active, permits>>

Executes(i) == /\ up /\ task[i] \in Live
               /\ UNCHANGED <<up, stopping, chatVars, contents, caller,
                              removed, unwanted>>

JobBegins(i) ==
    /\ Executes(i)
    /\ task[i] = "running" /\ stage[i] = "none"
    /\ listed' = listed \ {i}
    /\ \/ /\ status' = [status EXCEPT ![i] = "running"]
          /\ stage' = [stage EXCEPT ![i] = "agent"]
          /\ UNCHANGED vars
       \/ /\ AdapterFails
          /\ Ends(i, "raised")
          /\ UNCHANGED <<status, stage>>
    /\ UNCHANGED replies

\* Cancelled before its first step, the coroutine does nothing.
JobNeverBegins(i) ==
    /\ Executes(i)
    /\ task[i] = "cancelling" /\ stage[i] = "none"
    /\ Ends(i, "aborted")
    /\ UNCHANGED <<status, listed, stage, replies>>

\* The Agent has answered; asyncio.wait_for may prefer its result, or its
\* failure, to a cancellation.  The job is COMPLETED, and its reply sent part by part: a
\* part that cannot be sent is tried again later.
AgentAnswers(i) ==
    /\ Executes(i)
    /\ stage[i] = "agent"
    /\ status' = [status EXCEPT ![i] = "completed"]
    /\ \/ /\ replies' = [replies EXCEPT ![i] = MaxReplies]
          /\ stage' = [stage EXCEPT ![i] = "none"]
          /\ Ends(i, "returned")
       \/ /\ SendFails
          /\ \E k \in 0..(MaxReplies - 1) : replies' = [replies EXCEPT ![i] = k]
          /\ stage' = [stage EXCEPT ![i] = "sending"]
          /\ UNCHANGED vars
    /\ UNCHANGED listed

AgentFails(i) ==
    /\ Executes(i)
    /\ stage[i] = "agent"
    /\ status' = [status EXCEPT ![i] = "failed"]
    /\ stage' = [stage EXCEPT ![i] = "none"]
    /\ Ends(i, "returned")
    /\ UNCHANGED <<listed, replies>>

\* The next try of _send, or its last one.  A cancellation that
\* asyncio.wait_for dropped does not stop it.
SendsOn(i) ==
    /\ Executes(i)
    /\ stage[i] = "sending"
    /\ \/ /\ replies' = [replies EXCEPT ![i] = MaxReplies]
          /\ stage' = [stage EXCEPT ![i] = "none"]
          /\ Ends(i, "returned")
          /\ UNCHANGED status
       \/ /\ \E k \in (replies[i] + 1)..(MaxReplies - 1) :
               replies' = [replies EXCEPT ![i] = k]
          /\ UNCHANGED <<vars, status, stage>>
       \/ /\ status' = [status EXCEPT ![i] = "failed"]
          /\ stage' = [stage EXCEPT ![i] = "none"]
          /\ Ends(i, "returned")
          /\ UNCHANGED replies
    /\ UNCHANGED listed

\* CancelledError or TimeoutError: the Agent is cancelled first.
CancelSeen(i) ==
    /\ Executes(i)
    /\ task[i] = "cancelling" /\ stage[i] \in {"agent", "sending"}
    /\ stage' = [stage EXCEPT ![i] = "undo"]
    /\ UNCHANGED <<vars, status, listed, replies>>

AgentTimesOut(i) ==
    /\ Executes(i)
    /\ task[i] = "running" /\ stage[i] = "agent"
    /\ stage' = [stage EXCEPT ![i] = "timeout"]
    /\ UNCHANGED <<vars, status, listed, replies>>

\* adapter.cancel has returned or raised, or was itself cancelled.
Undone(i) ==
    /\ Executes(i)
    /\ stage[i] \in {"undo", "again"}
    /\ \/ /\ stage[i] = "undo"
          /\ status' = [status EXCEPT ![i] = "cancelled"]
          /\ Ends(i, "aborted")
       \/ stage[i] = "again" /\ UNCHANGED status /\ Ends(i, "aborted")
       \/ AdapterFails /\ UNCHANGED status /\ Ends(i, "raised")
    /\ stage' = [stage EXCEPT ![i] = "none"]
    /\ UNCHANGED <<listed, replies>>

TimedOutBug(i) ==  \* The job is reported as cancelled to the queue.
    /\ Executes(i)
    /\ stage[i] = "timeout"
    /\ status' = [status EXCEPT ![i] = "failed"]
    /\ Ends(i, "aborted")
    /\ stage' = [stage EXCEPT ![i] = "none"]
    /\ UNCHANGED <<listed, replies>>

TimedOut(i) ==
    /\ Executes(i)
    /\ stage[i] = "timeout"
    /\ \/ /\ task[i] = "running"
          /\ status' = [status EXCEPT ![i] = "failed"]
          /\ Ends(i, "returned")
       \/ task[i] = "cancelling" /\ UNCHANGED status /\ Ends(i, "aborted")
       \/ AdapterFails /\ UNCHANGED status /\ Ends(i, "raised")
    /\ stage' = [stage EXCEPT ![i] = "none"]
    /\ UNCHANGED <<listed, replies>>

JobStep(i) == \/ JobBegins(i) \/ JobNeverBegins(i) \/ AgentAnswers(i)
              \/ AgentFails(i) \/ SendsOn(i) \/ CancelSeen(i)
              \/ AgentTimesOut(i) \/ Undone(i) \/ TimedOut(i)

-----------------------------------------------------------------------------
(* The queue's workers, the user and the end of the process. *)

QueueStep ==
    /\ up
    /\ \E s \in Sessions : WorkerStep(s)
    /\ UNCHANGED <<up, stopping, chatVars, jobVars, removed, unwanted>>

RemoveJobBug(i) ==  \* Whatever the queue says.
    /\ up /\ i \in listed
    /\ listed' = listed \ {i}
    /\ status' = [status EXCEPT ![i] = "cancelled"]
    /\ removed' = removed \cup {i}
    /\ IF place[i] = "queue" THEN RemoveQueued(i) ELSE UNCHANGED vars
    /\ UNCHANGED <<up, stopping, chatVars, contents, caller, stage, replies,
                   unwanted>>

\* remove_queued_job.
RemoveJob(i) ==
    /\ up /\ i \in listed
    /\ RemoveQueued(i)
    /\ listed' = listed \ {i}
    /\ status' = [status EXCEPT ![i] = "cancelled"]
    /\ removed' = removed \cup {i}
    /\ UNCHANGED <<up, stopping, chatVars, contents, caller, stage, replies,
                   unwanted>>

\* clear_queued_jobs: the same for every listed job of the chat.
ClearJobs(s) ==
    LET gone == Queued(s) \cap listed IN
    /\ up /\ gone # {}
    /\ place' = [i \in Items |-> IF i \in gone THEN "gone" ELSE place[i]]
    /\ CancelFutures(gone)
    /\ UNCHANGED <<closed, joined, ticket, last, task, worker, active, permits>>
    /\ listed' = listed \ gone
    /\ status' = [i \in Items |-> IF i \in gone THEN "cancelled" ELSE status[i]]
    /\ removed' = removed \cup gone
    /\ UNCHANGED <<up, stopping, chatVars, contents, caller, stage, replies,
                   unwanted>>

\* close(): the batches and their timers, then the queue.
DispatcherCloses ==
    /\ up /\ ~stopping
    /\ stopping' = TRUE
    /\ batch' = [s \in Sessions |-> <<>>]
    /\ UNCHANGED <<vars, up, arrived, kind, inbox, turn, seen, stored, refused,
                   jobVars, removed, unwanted>>

QueueCloses ==
    /\ up /\ stopping
    /\ Close
    /\ Recancelled({active[s] : s \in Sessions} \ {NoItem})
    /\ UNCHANGED <<up, stopping, chatVars, contents, caller, status, listed,
                   replies, removed, unwanted>>

QueueClosed ==
    /\ up
    /\ CloseReturns
    /\ UNCHANGED <<up, stopping, chatVars, jobVars, removed, unwanted>>

\* The process ends, in whatever state, and the next one starts with
\* interrupt_running_jobs.  What is in memory is lost.
Restart ==
    /\ up /\ up' = FALSE
    /\ status' = [i \in Items |-> IF status[i] \in {"queued", "running"}
                                  THEN "interrupted" ELSE status[i]]
    /\ UNCHANGED <<vars, stopping, chatVars, contents, caller, listed, stage,
                   replies, removed, unwanted>>

ChatStep(s) == TakesTurn(s) \/ Hydrated(s) \/ TimerSeals(s) \/ Flushed(s)

DispatcherNext ==
    \/ \E m \in Msgs : Receive(m)
    \/ \E s \in Sessions : ChatStep(s) \/ ClearJobs(s)
    \/ \E i \in Items : CallerResumes(i) \/ JobStep(i) \/ RemoveJob(i)
    \/ QueueStep
    \/ DispatcherCloses \/ QueueCloses \/ QueueClosed
    \/ Restart

DispatcherSpec == DispatcherInit /\ [][DispatcherNext]_dispatcherVars

\* The event loop resumes whatever can run, and Agents answer or time out.
DispatcherFairness ==
    /\ \A s \in Sessions :
         /\ WF_dispatcherVars(TakesTurn(s)) /\ WF_dispatcherVars(Hydrated(s))
         /\ WF_dispatcherVars(TimerSeals(s)) /\ WF_dispatcherVars(Flushed(s))
    /\ \A i \in Items : /\ WF_dispatcherVars(CallerResumes(i))
                        /\ WF_dispatcherVars(JobStep(i))
    /\ WF_dispatcherVars(QueueStep)

FairDispatcherSpec == DispatcherSpec /\ DispatcherFairness

-----------------------------------------------------------------------------
(* Properties. *)

\* A message is answered by one job at most, however often the listener
\* reports it and whichever path it takes.
OneJobPerMessage ==
    \A i, j \in Items : i # j => SetOf(contents[i]) \cap SetOf(contents[j]) = {}

\* Jobs of a chat run in the order of its messages, although batches are
\* sealed by timers, images are decoded late and commands overtake.
OrderKept ==
    /\ \A i \in Items : \A k, l \in DOMAIN contents[i] :
         k < l => contents[i][k] < contents[i][l]
    /\ \A i, j \in Items :
         /\ SessionOf[i] = SessionOf[j]
         /\ 0 < ticket[i] /\ ticket[i] < ticket[j]
         => \A m \in SetOf(contents[i]), n \in SetOf(contents[j]) : m < n

\* queued_jobs never shows a job that has begun, and every waiting job.
ListedIsWaiting ==
    \A i \in Items : /\ i \in listed => stage[i] = "none" /\ replies[i] = 0
                     /\ place[i] = "queue" /\ caller[i] # "done"
                        /\ future[i] = "pending" => i \in listed

\* The database shows a job as queued or running only while somebody will
\* still change that: a task that runs it, or the caller of submit().  Left
\* out are a job whose adapter raised, and one that a closed queue refused.
NoGhostJob ==
    \A i \in Items : caller[i] = "done" /\ task[i] \notin Live \cup {"raised"}
      => status[i] \in Final \/ (closed /\ status[i] = "queued")

\* A job the user was told is removed never runs and never replies.
RemovedNeverRuns ==
    \A i \in removed : /\ task[i] = "none" /\ replies[i] = 0
                       /\ status[i] = "cancelled"

\* The worker of its chat has taken the job out of the queue, and the first
\* step of _execute_job, which takes it off the list, is still to come or
\* will never come.
Taken(i) == \/ place[i] = "semaphore"
            \/ place[i] = "active" /\ task[i] \in {"running", "cancelling", "aborted"}

\* What is listed: a job that remove_queued_job would find in the queue, the
\* one job of its chat that a worker has taken, which it would not find, or a
\* job that close() has just cancelled and whose caller has yet to resume.
\* The one that is taken comes before all that wait.
ListedIsRemovable ==
    /\ \A i \in listed :
         /\ caller[i] \in {"timer", "turn"}
         /\ \/ future[i] = "pending" /\ (place[i] = "queue" \/ Taken(i))
            \/ future[i] = "cancelled" /\ place[i] = "gone"
    /\ \A i, j \in listed :
         SessionOf[i] = SessionOf[j] /\ Taken(i) /\ i # j
         => ~Taken(j) /\ (place[j] = "queue" => ticket[i] <= ticket[j])

\* The queue panel of the companion is right up to one job of a chat: all that
\* wait are listed, what is listed can be removed but for the job a worker
\* has just taken, for which remove_queued_job returns False, and what the
\* user was told is removed never runs.
PanelIsTrue == ListedIsWaiting /\ ListedIsRemovable /\ RemovedNeverRuns

\* After close() no job hands a reply to the channel any more.
NoLateReply == [][joined => replies' = replies]_dispatcherVars

\* The dispatcher uses the queue the way the queue was designed for.
QueueContract == Spec

\* Every message that asks for an answer gets a job that ends, or an error
\* text, unless the bridge is stopped.
EveryMessageSettles ==
    \A m \in Msgs :
      m \in seen /\ kind[m] \in {"text", "image", "ask"}
      ~> \/ m \in refused \/ stopping \/ ~up
         \/ \E i \in Items : m \in SetOf(contents[i]) /\ status[i] \in Final

\* HELP_TEXT: /cancel cancels the current task.  A job that was running when
\* the command was accepted is not left to complete as if nobody had asked.
CancelStopsCurrent ==
    [][\A i \in unwanted : status[i] = "running" /\ status'[i] = "completed"
                           => task[i] = "cancelling"]_dispatcherVars

-----------------------------------------------------------------------------
(* The inductive invariant of the proofs. *)

\* Only a job that was cancelled gives its Agent up.
StageOK == \A i \in Items : stage[i] \in {"undo", "again"}
                            => task[i] = "cancelling"

\* A removed job has left the queue before a worker took it, and its caller
\* was told so.
RemovedOK == \A i \in removed : /\ place[i] = "gone" /\ task[i] = "none"
                                /\ future[i] = "cancelled"
                                /\ status[i] = "cancelled"
                                /\ stage[i] = "none" /\ replies[i] = 0

\* Whoever holds the lock of a chat holds it for a message.
TurnOK == \A s \in Sessions : turn[s].at # "free" => turn[s].msg \in Msgs

\* A job that has not begun has not sent anything.
QuietOK == \A i \in Items : task[i] = "none" => stage[i] = "none" /\ replies[i] = 0

\* What waits in the queue is listed, and its caller waits too.
QueuedOK == \A i \in Items : place[i] = "queue" => /\ i \in listed
                                                  /\ future[i] = "pending"

DispatcherIInv == /\ IInv /\ ChatTypeOK /\ JobTypeOK
                  /\ StageOK /\ RemovedOK /\ TurnOK /\ QuietOK
                  /\ QueuedOK /\ ListedIsWaiting
=============================================================================
