------------------------------ MODULE Workbench ------------------------------
(***************************************************************************)
(* The life of the bridge's processes: the instance lock with its owner    *)
(* file and the reclaiming of an older process, the lifecycle endpoint,    *)
(* the start of the companion window and of the WeChat channel behind it,  *)
(* and the way everything is stopped again (cli.py, lifecycle.py, start    *)
(* and stop of channels/wechat.py, closing of companion/qt_window.py).     *)
(*                                                                         *)
(* A process may be asked to stop by Ctrl+C, by a lifecycle command or by  *)
(* the user who closes the window, at any of its awaits; every stage of    *)
(* the start may fail; a second process may be launched at any time, and   *)
(* the manager probes the lock by taking it for a moment.                  *)
(*                                                                         *)
(* A definition whose name ends in Bug is a mutant of the one after it.    *)
(***************************************************************************)
EXTENDS Naturals, FiniteSets

CONSTANTS Processes  \* bridges that are launched, each at most once

Nobody == "nobody"
Probe == "probe"

ASSUME WorkbenchAssumption == {Nobody, Probe} \cap Processes = {}

VARIABLES
    doing,     \* where the main task of a process is
    lock,      \* who has the instance lock
    ownerFile, \* the process named in the lock file
    endpoint,  \* the process named in the endpoint file
    init,      \* the initialization of the channel
    parts,     \* what of the channel runs
    listener,  \* whether _listener is set, its watermark not yet stored
    window,    \* "none", "open", "failed", "closed"
    repo,      \* "none", "open", "closed"
    asked,     \* shutdown_requested
    cancel,    \* a cancellation the task has not seen yet
    stopEvent, \* the event of the lifecycle server
    cut,       \* history: a cancellation hit the final clean-up
    killed     \* history

workbenchVars == <<doing, lock, ownerFile, endpoint, init, parts, listener, window,
                   repo, asked, cancel, stopEvent, cut, killed>>

Stages == {"absent", "lock", "denied", "waiting", "owned", "scan", "serve",
           "open", "paint", "main", "wait", "ending", "stop", "stopSender",
           "stopListener", "stopDispatcher", "unlock", "close", "unlink", "gone"}
Inits == {"none", "db", "sender", "listener", "list", "done", "failed"}

Alive(p) == doing[p] \notin {"absent", "gone"}

WorkbenchTypeOK ==
    /\ doing \in [Processes -> Stages]
    /\ lock \in Processes \cup {Nobody, Probe}
    /\ lock \in Processes => Alive(lock)
    /\ {ownerFile, endpoint} \subseteq Processes \cup {Nobody}
    /\ init \in [Processes -> Inits]
    /\ parts \in [Processes -> SUBSET {"sender", "webhooks", "listener"}]
    /\ window \in [Processes -> {"none", "open", "failed", "closed"}]
    /\ repo \in [Processes -> {"none", "open", "closed"}]
    /\ {listener, asked, cancel, stopEvent, cut, killed}
          \subseteq [Processes -> BOOLEAN]

WorkbenchInit ==
    LET all(v) == [p \in Processes |-> v] IN
    /\ doing = all("absent") /\ init = all("none") /\ parts = all({})
    /\ window = all("none") /\ repo = all("none")
    /\ lock = Nobody /\ ownerFile = Nobody /\ endpoint = Nobody
    /\ listener = all(FALSE) /\ asked = all(FALSE) /\ cancel = all(FALSE)
    /\ stopEvent = all(FALSE) /\ cut = all(FALSE)
    /\ killed = all(FALSE)

Goes(p, stage) == doing' = [doing EXCEPT ![p] = stage]

lockVars == <<lock, ownerFile, endpoint>>
channelVars == <<init, parts, listener>>
stopVars == <<asked, cancel, stopEvent, cut, killed>>

-----------------------------------------------------------------------------
(* _BridgeInstanceLock and _reclaim_legacy_bridge_processes. *)

Launch(p) ==
    /\ doing[p] = "absent" /\ Goes(p, "lock")
    /\ UNCHANGED <<lockVars, channelVars, window, repo, stopVars>>

\* A killed process releases the lock; its files stay.
Kill(victims, p, stage) ==
    /\ doing' = [q \in Processes |-> IF q = p THEN stage
                                  ELSE IF q \in victims THEN "gone" ELSE doing[q]]
    /\ parts' = [q \in Processes |-> IF q \in victims THEN {} ELSE parts[q]]
    /\ init' = [q \in Processes |-> IF q \in victims THEN "none" ELSE init[q]]
    /\ killed' = [q \in Processes |-> killed[q] \/ q \in victims]
    /\ lock' = IF lock \in victims THEN Nobody ELSE lock

MayOwnBug(p) == lock # Probe

MayOwn(p) == lock = Nobody

\* _try_acquire, at once and while waiting for the old process.
TryLock(p) ==
    /\ doing[p] \in {"lock", "waiting"}
    /\ IF MayOwn(p)
       THEN lock' = p /\ Goes(p, "owned")
       ELSE doing[p] = "lock" /\ Goes(p, "denied") /\ UNCHANGED lock
    /\ UNCHANGED <<ownerFile, endpoint, channelVars, window, repo, stopVars>>

\* The owner can be confirmed only if its process is there.
Reclaims(p) ==
    /\ doing[p] = "denied"
    /\ IF ownerFile \in Processes \ {p} /\ Alive(ownerFile)
       THEN Kill({ownerFile}, p, "waiting")
       ELSE Goes(p, "gone") /\ UNCHANGED <<lock, parts, init, killed>>
    /\ UNCHANGED <<ownerFile, endpoint, listener, window, repo, asked,
                   cancel, stopEvent, cut>>

\* After five seconds.
GivesUp(p) ==
    /\ doing[p] = "waiting" /\ Goes(p, "gone")
    /\ UNCHANGED <<lockVars, channelVars, window, repo, stopVars>>

WriteOwner(p) ==
    /\ doing[p] = "owned" /\ Goes(p, "scan")
    /\ ownerFile' = p
    /\ UNCHANGED <<lock, endpoint, channelVars, window, repo, stopVars>>

\* Every other bridge of this directory and configuration.
Scan(p) ==
    /\ doing[p] = "scan"
    /\ Kill({q \in Processes \ {p} : Alive(q)}, p, "serve")
    /\ UNCHANGED <<ownerFile, endpoint, listener, window, repo, asked,
                   cancel, stopEvent, cut>>

\* workbench_lock_is_held.
ProbeLock ==
    /\ lock' = IF lock = Nobody THEN Probe ELSE Nobody
    /\ lock \in {Nobody, Probe}
    /\ UNCHANGED <<doing, ownerFile, endpoint, channelVars, window, repo, stopVars>>

-----------------------------------------------------------------------------
(* run_bridge and _run_workbench_startup. *)

\* WorkbenchLifecycleServer.start.
Serve(p) ==
    /\ doing[p] = "serve" /\ Goes(p, "open")
    /\ stopEvent' = [stopEvent EXCEPT ![p] = FALSE]
    /\ endpoint' = p
    /\ UNCHANGED <<lock, ownerFile, channelVars, window, repo, asked, cancel,
                   cut, killed>>

\* Up to the first await: the repository, and the window unless it fails.
Open(p) ==
    /\ doing[p] = "open"
    /\ repo' = [repo EXCEPT ![p] = "open"]
    /\ \/ window' = [window EXCEPT ![p] = "open"] /\ Goes(p, "paint")
       \/ Goes(p, "stop") /\ UNCHANGED window
    /\ UNCHANGED <<lockVars, channelVars, stopVars>>

Initializing(p) == init[p] \in {"db", "sender", "listener", "list"}

Painted(p) ==
    /\ doing[p] = "paint" /\ ~cancel[p]
    /\ IF window[p] = "closed"
       THEN Goes(p, "ending") /\ UNCHANGED init
       ELSE Goes(p, "main") /\ init' = [init EXCEPT ![p] = "db"]
    /\ UNCHANGED <<lockVars, parts, listener, window, repo, stopVars>>

\* channel.start and what follows it, in tasks and threads of their own.
InitStep(p, from, to, more, set) ==
    /\ init[p] = from
    /\ init' = [init EXCEPT ![p] = to]
    /\ parts' = [parts EXCEPT ![p] = @ \cup more]
    /\ listener' = [listener EXCEPT ![p] = @ \/ set]
    /\ UNCHANGED <<doing, lockVars, window, repo, stopVars>>

Initialize(p) ==
    \/ InitStep(p, "db", "sender", {}, TRUE)
    \/ InitStep(p, "sender", "listener", {"sender"}, FALSE)
    \/ InitStep(p, "listener", IF window[p] = "closed" THEN "done" ELSE "list",
                {"webhooks", "listener"}, FALSE)
    \/ InitStep(p, "list", "done", {}, FALSE)

\* The database cannot be opened, the sender or the listener not started (then
\* the webhooks are stopped again), or the list not be read.
InitFails(p) ==
    /\ Initializing(p)
    /\ init' = [init EXCEPT ![p] = "failed"]
    /\ UNCHANGED <<doing, lockVars, parts, listener, window, repo, stopVars>>

\* The shielded task is over; a window that is open shows a failure.
Initialized(p) ==
    /\ doing[p] = "main" /\ ~cancel[p] /\ init[p] \in {"done", "failed"}
    /\ Goes(p, IF init[p] = "failed" /\ window[p] = "closed" THEN "ending"
               ELSE "wait")
    /\ window' = IF init[p] = "failed" /\ window[p] = "open"
                 THEN [window EXCEPT ![p] = "failed"] ELSE window
    /\ UNCHANGED <<lockVars, channelVars, repo, stopVars>>

WindowIsOverBug(p) ==
    /\ doing[p] = "wait" /\ ~cancel[p] /\ window[p] = "closed" /\ init[p] = "done"
    /\ Goes(p, "ending")
    /\ UNCHANGED <<lockVars, channelVars, window, repo, stopVars>>

WindowIsOver(p) ==
    /\ doing[p] = "wait" /\ ~cancel[p] /\ window[p] = "closed"
    /\ Goes(p, "ending")
    /\ UNCHANGED <<lockVars, channelVars, window, repo, stopVars>>

UserCloses(p) ==
    /\ window[p] \in {"open", "failed"} /\ Alive(p)
    /\ window' = [window EXCEPT ![p] = "closed"]
    /\ UNCHANGED <<doing, lockVars, channelVars, repo, stopVars>>

-----------------------------------------------------------------------------
(* Requests to stop. *)

\* request_shutdown: only the first request counts, and only a task that is
\* there can be cancelled.
HasTask(p) == doing[p] \in {"open", "paint", "main", "wait", "ending", "stop",
                         "stopSender", "stopListener", "stopDispatcher"}

Request(p) ==
    /\ asked' = [asked EXCEPT ![p] = TRUE]
    /\ cancel' = [cancel EXCEPT ![p] = @ \/ (~asked[p] /\ HasTask(p))]
    /\ stopEvent' = [stopEvent EXCEPT ![p] = TRUE]
    /\ UNCHANGED <<doing, lockVars, channelVars, window, repo, cut, killed>>

\* Ctrl+C, also before run_bridge has become a task: then it is only noted.
Interrupt(p) ==
    /\ \/ HasTask(p)
       \/ doing[p] \in {"lock", "denied", "waiting", "owned", "scan", "serve"}
    /\ ~asked[p]
    /\ Request(p)

\* The server of a process answers from its start until it is shut down.
ShutdownCommand(p) ==
    /\ endpoint = p /\ HasTask(p) /\ doing[p] # "open"
    /\ Request(p)

\* The cancellation ends the await the task is in, or comes before the task has
\* run at all. In the clean-up it skips the rest of it.
Cancelled(p) ==
    /\ cancel[p] /\ cancel' = [cancel EXCEPT ![p] = FALSE]
    /\ \/ /\ doing[p] \in {"paint", "main", "wait"}
          /\ Goes(p, "ending") /\ UNCHANGED cut
       \/ /\ doing[p] = "open" /\ Goes(p, "unlock") /\ UNCHANGED cut
       \/ /\ doing[p] \in {"stopSender", "stopListener", "stopDispatcher"}
          /\ Goes(p, "unlock") /\ cut' = [cut EXCEPT ![p] = TRUE]
    /\ UNCHANGED <<lockVars, channelVars, window, repo, asked, stopEvent, killed>>

-----------------------------------------------------------------------------
(* The way out. *)

\* Threads cannot be cancelled, so the initialization is waited for.
Drained(p) == ~Initializing(p)

Ending(p) ==
    /\ doing[p] = "ending"
    /\ IF window[p] # "closed"
       THEN window' = [window EXCEPT ![p] = "closed"] /\ UNCHANGED doing
       ELSE Drained(p) /\ Goes(p, "stop") /\ UNCHANGED window
    /\ UNCHANGED <<lockVars, channelVars, repo, stopVars>>

\* begin_shutdown, and channel.stop up to its first await.
ChannelStops(p) ==
    /\ doing[p] = "stop" /\ Goes(p, "stopSender")
    /\ stopEvent' = [stopEvent EXCEPT ![p] = TRUE]
    /\ parts' = [parts EXCEPT ![p] = @ \ {"webhooks"}]
    /\ UNCHANGED <<lockVars, init, listener, window, repo, asked, cancel,
                   cut, killed>>

StopSenderBug(p) ==
    /\ doing[p] = "stopSender" /\ ~cancel[p] /\ Goes(p, "stopDispatcher")
    /\ parts' = [parts EXCEPT ![p] = @ \ {"sender"}]
    /\ UNCHANGED <<lockVars, init, listener, window, repo, stopVars>>

StopSender(p) ==
    /\ doing[p] = "stopSender" /\ ~cancel[p]
    /\ parts' = [parts EXCEPT ![p] = @ \ {"sender"}]
    /\ Goes(p, IF listener[p] THEN "stopListener" ELSE "stopDispatcher")
    /\ UNCHANGED <<lockVars, init, listener, window, repo, stopVars>>

StopListener(p) ==
    /\ doing[p] = "stopListener" /\ ~cancel[p] /\ Goes(p, "stopDispatcher")
    /\ parts' = [parts EXCEPT ![p] = @ \ {"listener"}]
    /\ listener' = [listener EXCEPT ![p] = FALSE]
    /\ UNCHANGED <<lockVars, init, window, repo, stopVars>>

\* dispatcher.close and repository.close.
StopDispatcher(p) ==
    /\ doing[p] = "stopDispatcher" /\ ~cancel[p] /\ Goes(p, "unlock")
    /\ repo' = [repo EXCEPT ![p] = "closed"]
    /\ UNCHANGED <<lockVars, channelVars, window, stopVars>>

\* Leaving the event loop, what still runs goes with it, then the lock.
Unlock(p) ==
    /\ doing[p] = "unlock" /\ Goes(p, "close")
    /\ lock' = Nobody
    /\ parts' = [parts EXCEPT ![p] = {}]
    /\ UNCHANGED <<ownerFile, endpoint, init, listener, window, repo,
                   stopVars>>

\* WorkbenchLifecycleServer.close: the file is read and removed in two steps.
CloseServer(p) ==
    /\ doing[p] = "close"
    /\ Goes(p, IF endpoint = p THEN "unlink" ELSE "gone")
    /\ stopEvent' = [stopEvent EXCEPT ![p] = TRUE]
    /\ UNCHANGED <<lockVars, channelVars, window, repo, asked, cancel, cut,
                   killed>>

Unlink(p) ==
    /\ doing[p] = "unlink" /\ Goes(p, "gone")
    /\ endpoint' = Nobody
    /\ UNCHANGED <<lock, ownerFile, channelVars, window, repo, stopVars>>

\* What a process does by itself.
Runs(p) ==
    \/ TryLock(p) \/ Reclaims(p) \/ WriteOwner(p) \/ Scan(p) \/ Serve(p)
    \/ Open(p) \/ Painted(p) \/ Initialized(p) \/ WindowIsOver(p)
    \/ Cancelled(p) \/ Ending(p) \/ ChannelStops(p) \/ StopSender(p)
    \/ StopListener(p) \/ StopDispatcher(p) \/ Unlock(p) \/ CloseServer(p)
    \/ Unlink(p)

WorkbenchNext ==
    \/ \E p \in Processes :
          \/ Launch(p) \/ Runs(p) \/ GivesUp(p) \/ Initialize(p) \/ InitFails(p)
          \/ UserCloses(p) \/ Interrupt(p) \/ ShutdownCommand(p)
    \/ ProbeLock

WorkbenchSpec ==
    /\ WorkbenchInit /\ [][WorkbenchNext]_workbenchVars
    /\ \A p \in Processes : /\ WF_workbenchVars(Runs(p))
                            /\ WF_workbenchVars(Initialize(p))

-----------------------------------------------------------------------------
(* Properties. *)

\* One bridge works on the database and on WeChat at a time, whatever process
\* is launched, killed or stopped meanwhile, and it is the one with the lock.
OneWorks ==
    \A p \in Processes :
       Alive(p) /\ (repo[p] = "open" \/ parts[p] # {} \/ Initializing(p))
       => doing[p] \in {"close", "unlink"} \/ lock = p

\* The repository is not closed under the initialization, nor under a part of
\* the channel: its threads are waited for however the start was ended.
ClosedWhenUnused ==
    \A p \in Processes : repo[p] = "closed" => ~Initializing(p) /\ parts[p] = {}

\* A process that was not killed leaves with its channel stopped and, when it
\* had a listener, with the watermark stored; a cancellation during the
\* clean-up excepted.
LeavesNothing ==
    \A p \in Processes :
       doing[p] \in {"close", "unlink", "gone"} /\ ~killed[p] /\ ~cut[p]
       => /\ parts[p] = {} /\ ~listener[p]
          /\ repo[p] # "open"

\* A bridge is taken down in order, at whatever stage it was asked to end.
LeavesInOrder == ClosedWhenUnused /\ LeavesNothing

\* "Close the companion window or press Ctrl+C to stop" (cli.py), and the
\* answer to the shutdown command: a bridge whose window was closed, or whose
\* task was cancelled at whatever it awaits, ends.  A request that came before
\* there was a task cancels nothing and is not meant here.
StopsWhenAsked ==
    \A p \in Processes :
       (window[p] = "closed" \/ cancel[p]) ~> doing[p] = "gone"

\* README.md of the repository: "Ctrl+C stops the bridge process".  It would
\* be so whenever it is pressed, also while the process takes the lock,
\* reclaims it from an older bridge or starts its lifecycle server.
InterruptStops ==
    \A p \in Processes : asked[p] ~> doing[p] = "gone"
=============================================================================
