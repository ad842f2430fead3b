-------------------------- MODULE SessionTaskQueue --------------------------
(***************************************************************************)
(* runtime/queue.py: one FIFO queue and one worker task per session, a     *)
(* global semaphore, removal of items that still wait, cancellation of the *)
(* active item, and shutdown.                                              *)
(*                                                                         *)
(* Everything runs on one asyncio event loop, so a stretch of code without *)
(* a suspension point is one action.  A session's asyncio.Queue is the set *)
(* of its items whose place is "queue", ordered by ticket: the loops of    *)
(* remove_queued and clear_queued that drain the queue and put back what   *)
(* they keep preserve that order.  The _STOP object is not a separate      *)
(* element: close() puts it only into drained queues, and nothing can be   *)
(* submitted after, so it is at the head exactly when closed holds and the *)
(* queue is empty.                                                         *)
(*                                                                         *)
(* A definition whose name ends in Bug is a mutant of the one after it, a  *)
(* mistake that some property must notice; no specification uses it.       *)
(***************************************************************************)
EXTENDS Integers, FiniteSets

CONSTANTS Items,           \* the work items that may be submitted (job ids)
          Sessions,        \* session ids
          SessionOf,       \* the session an item is submitted to
          MaxConcurrency,  \* permits of the semaphore
          NoItem           \* a session without an entry in _active

ASSUME QueueAssumption ==
    /\ IsFiniteSet(Items)
    /\ SessionOf \in [Items -> Sessions]
    /\ MaxConcurrency \in Nat \ {0}
    /\ NoItem \notin Items

VARIABLES
    closed,   \* _closed
    joined,   \* close() has returned: its gather of the workers is over
    place,    \* where an item is: nowhere yet, in its session's queue, held
              \* by a worker that waits for the semaphore, running or
              \* finished as the active task, or gone
    ticket,   \* order of submission, 0 before
    last,     \* the last ticket handed out
    future,   \* the future submit() awaits
    task,     \* the task a worker created for the item
    worker,   \* the worker task of a session
    active,   \* _active: the session's registered task
    permits   \* free permits of _semaphore

vars == <<closed, joined, place, ticket, last, future, task, worker, active,
          permits>>

Places == {"none", "queue", "semaphore", "active", "gone"}
Futures == {"none", "pending", "result", "exception", "cancelled"}
Live == {"running", "cancelling"}
Ended == {"returned", "raised", "aborted"}
Tasks == {"none"} \cup Live \cup Ended
Workers == {"none", "idle", "semaphore", "awaiting", "stopped"}

TypeOK == /\ closed \in BOOLEAN
          /\ joined \in BOOLEAN
          /\ place \in [Items -> Places]
          /\ ticket \in [Items -> Nat]
          /\ last \in Nat
          /\ future \in [Items -> Futures]
          /\ task \in [Items -> Tasks]
          /\ worker \in [Sessions -> Workers]
          /\ active \in [Sessions -> Items \cup {NoItem}]
          /\ permits \in 0..MaxConcurrency

-----------------------------------------------------------------------------

Queued(s) == {i \in Items : SessionOf[i] = s /\ place[i] = "queue"}

\* What stays is put back in front of what came later.
IsHeadBug(i) == /\ place[i] = "queue"
                /\ \A j \in Queued(SessionOf[i]) : ticket[i] >= ticket[j]

IsHead(i) == /\ place[i] = "queue"
             /\ \A j \in Queued(SessionOf[i]) : ticket[i] <= ticket[j]

SemaphoreWaiters == {s \in Sessions : worker[s] = "semaphore"}

\* future.cancel() on the futures of S that are not done yet.
CancelFutures(S) ==
    future' = [i \in Items |-> IF i \in S /\ future[i] = "pending"
                               THEN "cancelled" ELSE future[i]]

\* task.cancel() on the tasks of S that are not done: a request the
\* coroutine sees at its next suspension point.
CancelTasks(S) ==
    task' = [i \in Items |-> IF i \in S /\ task[i] = "running"
                             THEN "cancelling" ELSE task[i]]

Init == /\ closed = FALSE
        /\ joined = FALSE
        /\ place = [i \in Items |-> "none"]
        /\ ticket = [i \in Items |-> 0]
        /\ last = 0
        /\ future = [i \in Items |-> "none"]
        /\ task = [i \in Items |-> "none"]
        /\ worker = [s \in Sessions |-> "none"]
        /\ active = [s \in Sessions |-> NoItem]
        /\ permits = MaxConcurrency

-----------------------------------------------------------------------------

\* submit(): raises when closed, otherwise creates the session's worker on
\* its first use and enqueues; the caller then awaits the future.
Submit(i) ==
    LET s == SessionOf[i] IN
    /\ ~closed
    /\ place[i] = "none"
    /\ place' = [place EXCEPT ![i] = "queue"]
    /\ last' = last + 1
    /\ ticket' = [ticket EXCEPT ![i] = last + 1]
    /\ future' = [future EXCEPT ![i] = "pending"]
    /\ worker' = [worker EXCEPT ![s] = IF @ = "none" THEN "idle" ELSE @]
    /\ UNCHANGED <<closed, joined, task, active, permits>>

\* The task awaiting submit() is cancelled: its await cancels the future,
\* wherever the item is.
CallerCancelled(i) ==
    /\ future[i] = "pending"
    /\ CancelFutures({i})
    /\ UNCHANGED <<closed, joined, place, ticket, last, task, worker, active,
                   permits>>

RemoveQueuedBug(i) ==  \* The future of the removed item is forgotten.
    /\ place[i] = "queue"
    /\ place' = [place EXCEPT ![i] = "gone"]
    /\ UNCHANGED <<closed, joined, ticket, last, future, task, worker, active,
                   permits>>

RemoveQueued(i) ==
    /\ place[i] = "queue"
    /\ place' = [place EXCEPT ![i] = "gone"]
    /\ CancelFutures({i})
    /\ UNCHANGED <<closed, joined, ticket, last, task, worker, active, permits>>

ClearQueued(s) ==
    /\ Queued(s) # {}
    /\ place' = [i \in Items |-> IF i \in Queued(s) THEN "gone" ELSE place[i]]
    /\ CancelFutures(Queued(s))
    /\ UNCHANGED <<closed, joined, ticket, last, task, worker, active, permits>>

\* cancel(): only the registered task, and only while it is not done.
CancelActive(s) ==
    /\ active[s] # NoItem
    /\ task[active[s]] = "running"
    /\ CancelTasks({active[s]})
    /\ UNCHANGED <<closed, joined, place, ticket, last, future, worker, active,
                   permits>>

CloseBug ==  \* The futures of the drained items are forgotten.
    /\ ~closed
    /\ closed' = TRUE
    /\ CancelTasks({active[s] : s \in Sessions} \ {NoItem})
    /\ place' = [i \in Items |-> IF place[i] = "queue" THEN "gone"
                                 ELSE place[i]]
    /\ UNCHANGED <<joined, ticket, last, future, worker, active, permits>>

\* close() up to its gather: none of its queue.put calls can block.
Close ==
    LET waiting == {i \in Items : place[i] = "queue"} IN
    /\ ~closed
    /\ closed' = TRUE
    /\ CancelTasks({active[s] : s \in Sessions} \ {NoItem})
    /\ place' = [i \in Items |-> IF i \in waiting THEN "gone" ELSE place[i]]
    /\ CancelFutures(waiting)
    /\ UNCHANGED <<joined, ticket, last, worker, active, permits>>

CloseReturnsBug ==  \* The workers are not awaited.
    /\ closed
    /\ ~joined
    /\ joined' = TRUE
    /\ UNCHANGED <<closed, place, ticket, last, future, task, worker, active,
                   permits>>

\* The gather returns: every worker that was created has stopped.
CloseReturns ==
    /\ closed
    /\ ~joined
    /\ \A s \in Sessions : worker[s] \in {"none", "stopped"}
    /\ joined' = TRUE
    /\ UNCHANGED <<closed, place, ticket, last, future, task, worker, active,
                   permits>>

-----------------------------------------------------------------------------
(* The worker of a session. *)

\* With the permit taken: create the task, register it, await it.
Launch(s, i) ==
    /\ permits' = permits - 1
    /\ place' = [place EXCEPT ![i] = "active"]
    /\ task' = [task EXCEPT ![i] = "running"]
    /\ active' = [active EXCEPT ![s] = i]
    /\ worker' = [worker EXCEPT ![s] = "awaiting"]
    /\ UNCHANGED <<closed, joined, ticket, last, future>>

\* queue.get() returned an item whose future was cancelled: skip it.
WorkerSkips(s, i) ==
    /\ worker[s] = "idle"
    /\ SessionOf[i] = s /\ IsHead(i)
    /\ future[i] = "cancelled"
    /\ place' = [place EXCEPT ![i] = "gone"]
    /\ UNCHANGED <<closed, joined, ticket, last, future, task, worker, active,
                   permits>>

\* A permit is free and nobody waits for one: acquire() does not suspend, so
\* get, acquire, the closed check and create_task are one step.
WorkerStarts(s, i) ==
    /\ worker[s] = "idle"
    /\ SessionOf[i] = s /\ IsHead(i)
    /\ future[i] # "cancelled"
    /\ permits > 0 /\ SemaphoreWaiters = {}
    /\ ~closed
    /\ Launch(s, i)

\* Otherwise the worker suspends in acquire(), holding an item that is in
\* neither the queue nor _active.
WorkerBlocks(s, i) ==
    /\ worker[s] = "idle"
    /\ SessionOf[i] = s /\ IsHead(i)
    /\ future[i] # "cancelled"
    /\ permits = 0 \/ SemaphoreWaiters # {}
    /\ place' = [place EXCEPT ![i] = "semaphore"]
    /\ worker' = [worker EXCEPT ![s] = "semaphore"]
    /\ UNCHANGED <<closed, joined, ticket, last, future, task, active, permits>>

\* The semaphore lets the worker in.  Which waiter is first is asyncio's
\* choice.  The future is not looked at again.
WorkerAdmitted(s, i) ==
    /\ worker[s] = "semaphore"
    /\ SessionOf[i] = s /\ place[i] = "semaphore"
    /\ permits > 0
    /\ ~closed
    /\ Launch(s, i)

Discarded(s, i, free) ==
    /\ worker[s] = "semaphore"
    /\ SessionOf[i] = s /\ place[i] = "semaphore"
    /\ permits > 0
    /\ closed
    /\ CancelFutures({i})
    /\ place' = [place EXCEPT ![i] = "gone"]
    /\ worker' = [worker EXCEPT ![s] = "idle"]
    /\ permits' = free
    /\ UNCHANGED <<closed, joined, ticket, last, task, active>>

\* The permit is released twice, or never.
WorkerDiscardsTwiceBug(s, i) == Discarded(s, i, permits + 1)
\* Let in after close(): the item is discarded and the permit given back.
WorkerDiscards(s, i) == Discarded(s, i, permits)

Collected(s, ends, outcome) ==
    LET i == active[s] IN
    /\ worker[s] = "awaiting"
    /\ task[i] \in ends
    /\ future' = [future EXCEPT ![i] = IF @ = "pending" THEN outcome ELSE @]
    /\ permits' = permits + 1
    /\ place' = [place EXCEPT ![i] = "gone"]
    /\ active' = [active EXCEPT ![s] = NoItem]
    /\ worker' = [worker EXCEPT ![s] = "idle"]
    /\ UNCHANGED <<closed, joined, ticket, last, task>>

Outcome(e) == IF e = "returned" THEN "result"
              ELSE IF e = "raised" THEN "exception" ELSE "cancelled"

\* A cancelled task is not awaited to its end.
\* A failure is handed over as a result.
\* The awaited task is done: release the permit, settle the future unless
\* it is settled already, drop the _active entry.
WorkerCollects(s) == Collected(s, Ended, Outcome(task[active[s]]))

\* queue.get() returned _STOP.
WorkerStops(s) ==
    /\ worker[s] = "idle"
    /\ closed /\ Queued(s) = {}
    /\ worker' = [worker EXCEPT ![s] = "stopped"]
    /\ UNCHANGED <<closed, joined, place, ticket, last, future, task, active,
                   permits>>

WorkerStep(s) == \/ \E i \in Items : \/ WorkerSkips(s, i)
                                     \/ WorkerStarts(s, i)
                                     \/ WorkerBlocks(s, i)
                                     \/ WorkerAdmitted(s, i)
                                     \/ WorkerDiscards(s, i)
                 \/ WorkerCollects(s)
                 \/ WorkerStops(s)

\* The coroutine given to submit() ends.  Only a cancelled one can end with
\* CancelledError, and it may also finish or fail before the request is seen.
TaskEnds(i) ==
    /\ \/ task[i] = "running" /\ task' \in {[task EXCEPT ![i] = "returned"],
                                            [task EXCEPT ![i] = "raised"]}
       \/ task[i] = "cancelling" /\ \E e \in Ended :
                                        task' = [task EXCEPT ![i] = e]
    /\ UNCHANGED <<closed, joined, place, ticket, last, future, worker, active,
                   permits>>

Next == \/ \E i \in Items : \/ Submit(i)
                            \/ CallerCancelled(i)
                            \/ RemoveQueued(i)
                            \/ TaskEnds(i)
        \/ \E s \in Sessions : \/ ClearQueued(s)
                               \/ CancelActive(s)
                               \/ WorkerStep(s)
        \/ Close
        \/ CloseReturns

Spec == Init /\ [][Next]_vars

\* The event loop resumes every task that can run, and every job ends: the
\* dispatcher bounds each Agent run with a timeout.
Fairness == /\ \A s \in Sessions : WF_vars(WorkerStep(s))
            /\ \A i \in Items : WF_vars(TaskEnds(i))
            /\ WF_vars(CloseReturns)

FairSpec == Spec /\ Fairness

-----------------------------------------------------------------------------
(* Properties. *)

\* One conversation never has two Agent jobs running at once, although its
\* worker, the semaphore and cancel() all touch the running job (_active).
SerialPerSession ==
    \A i, j \in Items : /\ task[i] \in Live /\ task[j] \in Live
                        /\ SessionOf[i] = SessionOf[j]
                        => i = j

\* The semaphore bounds the running jobs of all conversations together; a
\* permit lost or returned twice on any path of _worker would break it.
ConcurrencyBound ==
    Cardinality({i \in Items : task[i] \in Live}) <= MaxConcurrency

\* A caller suspended in submit() is never forgotten: its item is still held
\* by the queue, by a worker waiting for the semaphore or by an active task.
NoLostCaller ==
    \A i \in Items : future[i] = "pending"
                     => place[i] \in {"queue", "semaphore", "active"}

\* What submit() hands its caller is what happened to the job: a result or an
\* exception only of a task that ended so, and nothing of a job still alive.
FutureTruth ==
    \A i \in Items : /\ future[i] = "result" => task[i] = "returned"
                     /\ future[i] = "exception" => task[i] = "raised"

\* submit() keeps faith with its callers: each of them is answered by somebody,
\* and with what happened to its job.
CallersAnswered == NoLostCaller /\ FutureTruth

\* When close() has returned nothing runs, nobody waits, and every permit is
\* back: no old reply can be produced by a bridge that was shut down.
CloseQuiescent ==
    joined => /\ \A i \in Items : /\ task[i] \notin Live
                                  /\ future[i] # "pending"
              /\ permits = MaxConcurrency

\* A job starts only when every earlier job of its conversation has left the
\* queue (finished, removed or discarded), and never once close() was called.
StartsInOrder ==
    [][\A i \in Items :
         task[i] = "none" /\ task'[i] = "running"
         => /\ ~closed
            /\ \A j \in Items : /\ SessionOf[j] = SessionOf[i]
                                /\ ticket[j] \in 1..(ticket[i] - 1)
                                => place[j] = "gone"]_vars

\* How far an item is, seen from outside the queue.
Phase == [i \in Items |->
            IF place[i] = "none" THEN "new"
            ELSE IF place[i] \in {"queue", "semaphore"} THEN "pending"
            ELSE IF task[i] \in Live THEN "running"
            ELSE "over"]

Executor == INSTANCE SerialExecutor WITH phase <- Phase, shut <- closed

\* The queue with its workers and its semaphore is a serial executor: the
\* refinement forgets the queue, the semaphore, the permits and the futures.
ImplementsExecutor == Executor!AbsSpec

\* Every submit() returns to its caller, whichever of removal, cancellation,
\* failure or shutdown happens to the job.
EverySubmitReturns ==
    \A i \in Items : (future[i] = "pending") ~> (future[i] # "pending")

\* close() returns, even when workers were waiting for the semaphore.
CloseReturnsEventually == closed ~> joined

\* So no call to the queue that waits for others waits for ever.
CallsReturn == EverySubmitReturns /\ CloseReturnsEventually

-----------------------------------------------------------------------------
(* The inductive invariant of the proofs. *)

\* The items that hold a permit.
Holders == {i \in Items : place[i] = "active"}

PermitsBalance == permits + Cardinality(Holders) = MaxConcurrency

\* What the place of an item says about its task, its future, its worker.
PlaceOK(i) ==
    LET s == SessionOf[i] IN
    /\ task[i] \in Live => place[i] = "active"
    /\ place[i] \in {"none", "queue", "semaphore"} => task[i] = "none"
    /\ place[i] = "none" => ticket[i] = 0
    /\ place[i] # "none" => worker[s] # "none"
    /\ place[i] = "queue" => ~closed
    /\ place[i] = "semaphore" => worker[s] = "semaphore"
    /\ place[i] = "active" => worker[s] = "awaiting" /\ active[s] = i

WorkerOK(s) ==
    /\ worker[s] = "awaiting" => /\ active[s] \in Items
                                 /\ place[active[s]] = "active"
                                 /\ SessionOf[active[s]] = s
    /\ joined => closed /\ worker[s] \in {"none", "stopped"}

\* The item a worker holds is older than everything in its queue.
HeldIsOldest ==
    \A i, j \in Items :
        /\ SessionOf[i] = SessionOf[j]
        /\ place[i] \in {"semaphore", "active"}
        => /\ place[j] = "queue" => ticket[i] <= ticket[j]
           /\ place[j] \in {"semaphore", "active"} => i = j

TicketsOK == \A i \in Items : ticket[i] <= last

IInv == /\ TypeOK
        /\ PermitsBalance
        /\ \A i \in Items : PlaceOK(i)
        /\ \A s \in Sessions : WorkerOK(s)
        /\ HeldIsOldest
        /\ TicketsOK
        /\ NoLostCaller
        /\ FutureTruth
=============================================================================
