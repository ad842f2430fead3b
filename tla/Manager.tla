------------------------------- MODULE Manager -------------------------------
(***************************************************************************)
(* The manager application beside the bridge: the process controller with  *)
(* its status query, and the buttons, timers and worker threads of its     *)
(* window (manager/process_controller.py, manager/qt_window.py), composed  *)
(* with the processes of Workbench.                                        *)
(*                                                                         *)
(* An operation and a status query run in threads of their own.  A query   *)
(* asks the lifecycle server, and when it gets no answer looks at the      *)
(* process it has started, or takes the instance lock for a moment.        *)
(*                                                                         *)
(* A definition whose name ends in Bug is a mutant of the one after it.    *)
(***************************************************************************)
EXTENDS Workbench

CONSTANTS Outside,   \* processes that somebody else launches
          MaxClicks  \* bound on the operations

ASSUME ManagerAssumption == Outside \subseteq Processes /\ MaxClicks \in Nat

VARIABLES
    proc,    \* _process
    stopReq, \* _stop_requested
    shown,   \* state of _last_status
    op,      \* thread of the operation
    query,   \* thread of the status query
    dropped, \* the query's result is not wanted any more
    clicks

managerVars == <<proc, stopReq, shown, op, query, dropped, clicks>>
allVars == <<workbenchVars, managerVars>>

States == {"stopped", "starting", "running", "stopping", "exited", "unknown"}
Closed == {"stopped", "exited", "unknown"}

\* kind is what the thread does, stage how far its query is.
Thread(kind, stage, result) == [kind |-> kind, stage |-> stage, result |-> result]
Idle == Thread("none", "idle", "unknown")

ManagerTypeOK ==
    /\ WorkbenchTypeOK
    /\ proc \in Processes \cup {Nobody}
    /\ {stopReq, dropped} \subseteq BOOLEAN
    /\ shown \in States
    /\ \A t \in {op, query} :
          /\ t.kind \in {"none", "start", "stop", "status"}
          /\ t.stage \in {"idle", "shutdown", "ask", "look", "release", "act", "done"}
          /\ t.result \in States
    /\ lock = Probe <=> "release" \in {op.stage, query.stage}

ManagerInit ==
    /\ WorkbenchInit
    /\ proc = Nobody /\ stopReq = FALSE /\ shown = "stopped"
    /\ op = Idle /\ query = Idle /\ dropped = FALSE /\ clicks = 0

-----------------------------------------------------------------------------
(* WorkbenchProcessController.status. *)

\* The process whose lifecycle server answers.
ServerAnswers(p) ==
    endpoint = p /\ doing[p] \notin {"absent", "lock", "denied", "waiting", "owned",
                                  "scan", "serve", "unlink", "gone"}

\* Thread t becomes u.
Becomes(t, u) ==
    \/ op = t /\ op' = u /\ UNCHANGED query
    \/ query = t /\ query' = u /\ UNCHANGED op

\* A status has been found: an operation goes on with it.
Found(t, state) ==
    Becomes(t, Thread(t.kind, IF t.kind = "status" THEN "done" ELSE "act", state))

AskServer(t) ==
    /\ t.stage = "ask"
    /\ \/ \E p \in Processes :
             /\ ServerAnswers(p)
             /\ stopReq' = (stopReq \/ stopEvent[p])
             /\ Found(t, IF stopEvent[p] \/ stopReq THEN "stopping" ELSE "running")
       \/ /\ \A p \in Processes : ~ServerAnswers(p)
          /\ Becomes(t, [t EXCEPT !.stage = "look"])
          /\ UNCHANGED stopReq
    /\ UNCHANGED <<workbenchVars, proc, shown, dropped, clicks>>

Unanswered == IF stopReq THEN "stopping" ELSE "starting"

\* The own process is polled.
LookAtProcess(t) ==
    /\ t.stage = "look" /\ proc # Nobody
    /\ stopReq' = (stopReq /\ doing[proc] # "gone")
    /\ Found(t, IF doing[proc] = "gone" THEN "exited" ELSE Unanswered)
    /\ UNCHANGED <<workbenchVars, proc, shown, dropped, clicks>>

\* workbench_lock_is_held, and its release of the lock it got.
LookAtLock(t) ==
    /\ t.stage = "look" /\ proc = Nobody
    /\ IF lock = Nobody
       THEN lock' = Probe /\ Becomes(t, [t EXCEPT !.stage = "release"])
       ELSE Found(t, Unanswered) /\ UNCHANGED lock
    /\ UNCHANGED <<doing, ownerFile, endpoint, channelVars, window, repo, stopVars>>
    /\ UNCHANGED <<proc, stopReq, shown, dropped, clicks>>

ReleaseLock(t) ==
    /\ t.stage = "release" /\ lock' = Nobody
    /\ stopReq' = FALSE
    /\ Found(t, "stopped")
    /\ UNCHANGED <<doing, ownerFile, endpoint, channelVars, window, repo, stopVars>>
    /\ UNCHANGED <<proc, shown, dropped, clicks>>

-----------------------------------------------------------------------------
(* start and stop. *)

OpEnds(state) == op' = Thread(op.kind, "done", state)

MayPopenBug == op.result # "running"

MayPopen == op.result \notin {"running", "starting", "stopping"}

\* A running workbench is shown, a starting or stopping one is left alone.
StartWorkbench ==
    /\ op.kind = "start" /\ op.stage = "act"
    /\ IF MayPopen
       THEN \E p \in Processes :
               /\ Launch(p) /\ proc' = p /\ OpEnds("starting")
       ELSE /\ OpEnds(op.result)
            /\ UNCHANGED <<workbenchVars, proc>>
    /\ UNCHANGED <<stopReq, shown, query, dropped, clicks>>

SendShutdown ==
    /\ op.kind = "stop" /\ op.stage = "shutdown"
    /\ \/ \E p \in Processes :
             /\ ServerAnswers(p)
             /\ IF HasTask(p) THEN Request(p)
                ELSE stopEvent' = [stopEvent EXCEPT ![p] = TRUE]
                     /\ UNCHANGED <<doing, lockVars, channelVars, window, repo,
                                    asked, cancel, cut, killed>>
             /\ stopReq' = TRUE
             /\ op' = [op EXCEPT !.stage = "ask"]
       \/ /\ \A p \in Processes : ~ServerAnswers(p)
          /\ OpEnds("unknown") /\ UNCHANGED <<workbenchVars, stopReq>>
    /\ UNCHANGED <<proc, shown, query, dropped, clicks>>

\* Until the workbench is gone or the time is over; nothing is forced.
StopWorkbench ==
    /\ op.kind = "stop" /\ op.stage = "act"
    /\ \/ op.result \in {"stopped", "exited"} /\ OpEnds(op.result)
       \/ /\ op.result \notin {"stopped", "exited"}
          /\ OpEnds("stopping") \/ op' = [op EXCEPT !.stage = "ask"]
    /\ UNCHANGED <<workbenchVars, proc, stopReq, shown, query, dropped, clicks>>

-----------------------------------------------------------------------------
(* AgentBridgeManagerWindow. *)

WantedBug == query.stage = "done"

\* A query issued before an operation must not overwrite its state.
Wanted == query.stage = "done" /\ ~dropped

Submit(kind, stage, state) ==
    /\ op.stage = "idle" /\ clicks < MaxClicks /\ clicks' = clicks + 1
    /\ dropped' = (query.stage # "idle")
    /\ shown' = state
    /\ op' = Thread(kind, stage, "unknown")
    /\ UNCHANGED <<workbenchVars, proc, stopReq, query>>

\* After the checks of the environment.
StartClicked ==
    /\ shown \in Closed
    /\ \E p \in Processes : doing[p] = "absent"
    /\ Submit("start", "ask", "starting")

\* Also from the tray, whose action is always enabled.
StopClicked == Submit("stop", "shutdown", "stopping")

ScheduleQuery ==
    /\ op.stage = "idle" /\ query.stage = "idle"
    /\ query' = Thread("status", "ask", "unknown")
    /\ dropped' = FALSE
    /\ UNCHANGED <<workbenchVars, proc, stopReq, shown, op, clicks>>

\* _poll_background_work.
OpPolled ==
    /\ op.stage = "done" /\ op' = Idle
    /\ shown' = op.result
    /\ UNCHANGED <<workbenchVars, proc, stopReq, query, dropped, clicks>>

QueryPolled ==
    /\ query.stage = "done" /\ query' = Idle
    /\ shown' = IF Wanted THEN query.result ELSE shown
    /\ UNCHANGED <<workbenchVars, proc, stopReq, op, dropped, clicks>>

ThreadSteps(t) == AskServer(t) \/ LookAtProcess(t) \/ LookAtLock(t) \/ ReleaseLock(t)

OpRuns == ThreadSteps(op) \/ StartWorkbench \/ SendShutdown \/ StopWorkbench
QueryRuns == ThreadSteps(query)
WindowPolls == OpPolled \/ QueryPolled \/ ScheduleQuery

Bridges ==
    /\ \E p \in Processes :
          \/ Runs(p) \/ GivesUp(p) \/ Initialize(p) \/ InitFails(p)
          \/ UserCloses(p)
          \/ p \in Outside /\ Launch(p)
    /\ UNCHANGED managerVars

ManagerNext ==
    \/ Bridges
    \/ OpRuns \/ QueryRuns \/ WindowPolls \/ StartClicked \/ StopClicked

ManagerSpec == ManagerInit /\ [][ManagerNext]_allVars

-----------------------------------------------------------------------------
(* Properties. *)

\* While an operation runs the window shows what it is about: the result of a
\* query that was issued before is not shown over it.
PendingIsShown ==
    op.stage # "idle" => shown = IF op.kind = "start" THEN "starting"
                                 ELSE "stopping"

\* The manager has one workbench at a time: it launches a second one only
\* after the first has ended, also when a stop got no answer from a workbench
\* that was still starting and the window shows "unknown".
OneProcess ==
    [][proc' # proc => proc = Nobody \/ doing[proc] = "gone"]_allVars
=============================================================================
