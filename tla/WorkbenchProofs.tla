--------------------------- MODULE WorkbenchProofs ---------------------------
(***************************************************************************)
(* Proofs about the processes of the bridge, for any number of them: one   *)
(* works at a time, the one with the lock, and each is taken down in       *)
(* order, at whatever stage it is asked to end; and about the manager that *)
(* launches and stops them, whose window shows the operation that runs.    *)
(***************************************************************************)
EXTENDS Manager, TLAPS

-----------------------------------------------------------------------------
(* The invariant, for one process. *)

\* Before anything of the bridge has been built up.
Preparing == {"absent", "lock", "denied", "waiting", "owned", "scan", "serve",
              "open"}

\* From the lock to its release.
Holding == {"owned", "scan", "serve", "open", "paint", "main", "wait", "ending",
            "stop", "stopSender", "stopListener", "stopDispatcher", "unlock"}

\* After the release.
Leaving == {"close", "unlink", "gone"}

Clean(p) == parts[p] = {} /\ ~listener[p] /\ repo[p] # "open"

\* The instance lock is held exactly as long as a process may work.
LockOK(p) == lock = p <=> doing[p] \in Holding

\* Nothing is there before it is built up, nor initialized but by the main
\* task, which waits for it; what is running of the channel is on its books.
BuiltOK(p) ==
    /\ doing[p] \in Preparing =>
          repo[p] = "none" /\ parts[p] = {} /\ ~listener[p] /\ init[p] = "none"
    /\ doing[p] = "paint" =>
          repo[p] = "open" /\ parts[p] = {} /\ ~listener[p] /\ init[p] = "none"
    /\ Initializing(p) => doing[p] \in {"main", "ending"}
    /\ init[p] \in {"sender", "listener"} => listener[p]
    /\ "listener" \in parts[p] => listener[p]

\* What each step of the way out leaves to the next one.
TakenDownOK(p) ==
    /\ doing[p] = "stopSender" => "webhooks" \notin parts[p]
    /\ doing[p] = "stopListener" => parts[p] \subseteq {"listener"}
    /\ doing[p] = "stopDispatcher" => parts[p] = {} /\ ~listener[p]
    /\ doing[p] = "unlock" /\ ~cut[p] => Clean(p)
    /\ doing[p] \in Leaving => parts[p] = {}
    /\ doing[p] \in Leaving /\ ~killed[p] /\ ~cut[p] => Clean(p)
    /\ repo[p] = "closed" =>
          doing[p] \in {"unlock"} \cup Leaving /\ parts[p] = {}

ProcessOK(p) == LockOK(p) /\ BuiltOK(p) /\ TakenDownOK(p)

\* What the proofs need of the types.
Typed == /\ doing \in [Processes -> Stages]
         /\ lock \in Processes \cup {Nobody, Probe}
         /\ init \in [Processes -> Inits]
         /\ parts \in [Processes -> SUBSET {"sender", "webhooks", "listener"}]
         /\ repo \in [Processes -> {"none", "open", "closed"}]
         /\ window \in [Processes -> {"none", "open", "failed", "closed"}]
         /\ {ownerFile, endpoint} \subseteq Processes \cup {Nobody}
         /\ listener \in [Processes -> BOOLEAN] /\ asked \in [Processes -> BOOLEAN]
         /\ cancel \in [Processes -> BOOLEAN] /\ stopEvent \in [Processes -> BOOLEAN]
         /\ cut \in [Processes -> BOOLEAN] /\ killed \in [Processes -> BOOLEAN]

WorkbenchIInv == Typed /\ \A p \in Processes : ProcessOK(p)
-----------------------------------------------------------------------------
(* The steps. *)

\* What a step of one process leaves alone of the others.
Others(p) ==
    \A q \in Processes : q # p =>
       /\ doing'[q] = doing[q] /\ init'[q] = init[q] /\ parts'[q] = parts[q]
       /\ listener'[q] = listener[q] /\ repo'[q] = repo[q]
       /\ cut'[q] = cut[q] /\ killed'[q] = killed[q]
       /\ lock' = q <=> lock = q

Kept(p) == Typed' /\ Others(p) /\ ProcessOK(p)'

LEMMA OthersKept ==
    ASSUME WorkbenchIInv, NEW p \in Processes, Kept(p)
    PROVE  WorkbenchIInv'
  BY DEF Kept, WorkbenchIInv, Others, ProcessOK, LockOK, BuiltOK, TakenDownOK,
         Initializing, Clean

\* The start up to the initialization of the channel.
LEMMA StartSteps ==
    ASSUME WorkbenchIInv, NEW p \in Processes,
           Launch(p) \/ TryLock(p) \/ GivesUp(p) \/ WriteOwner(p) \/
           Serve(p) \/ Open(p) \/ Painted(p)
    PROVE  Kept(p)
  <1> USE WorkbenchAssumption
      DEF Kept, WorkbenchIInv, Typed, Others, ProcessOK, LockOK, BuiltOK,
          TakenDownOK, Initializing, Clean, Preparing, Holding, Leaving,
          Stages, Inits, Alive, HasTask, Goes, lockVars, channelVars, stopVars
  <1>1. CASE Launch(p)
    BY <1>1 DEF Launch
  <1>2. CASE TryLock(p)
    BY <1>2 DEF TryLock, MayOwn
  <1>3. CASE GivesUp(p)
    BY <1>3 DEF GivesUp
  <1>4. CASE WriteOwner(p)
    BY <1>4 DEF WriteOwner
  <1>5. CASE Serve(p)
    BY <1>5 DEF Serve
  <1>6. CASE Open(p)
    BY <1>6 DEF Open
  <1>7. CASE Painted(p)
    BY <1>7 DEF Painted
  <1>8. QED
    BY <1>1, <1>2, <1>3, <1>4, <1>5, <1>6, <1>7

\* The window, its end, and the requests to stop.
LEMMA MainSteps ==
    ASSUME WorkbenchIInv, NEW p \in Processes,
           Initialized(p) \/ WindowIsOver(p) \/ UserCloses(p) \/
           Interrupt(p) \/ ShutdownCommand(p) \/ InitFails(p)
    PROVE  Kept(p)
  <1> USE WorkbenchAssumption
      DEF Kept, WorkbenchIInv, Typed, Others, ProcessOK, LockOK, BuiltOK,
          TakenDownOK, Initializing, Clean, Preparing, Holding, Leaving,
          Stages, Inits, Alive, HasTask, Goes, lockVars, channelVars, stopVars
  <1>1. CASE Initialized(p)
    BY <1>1 DEF Initialized
  <1>2. CASE WindowIsOver(p)
    BY <1>2 DEF WindowIsOver
  <1>3. CASE UserCloses(p)
    BY <1>3 DEF UserCloses
  <1>4. CASE Interrupt(p)
    BY <1>4 DEF Interrupt, Request
  <1>5. CASE ShutdownCommand(p)
    BY <1>5 DEF ShutdownCommand, Request
  <1>6. CASE InitFails(p)
    BY <1>6 DEF InitFails
  <1>7. QED
    BY <1>1, <1>2, <1>3, <1>4, <1>5, <1>6

\* The way out.
LEMMA WayOutSteps ==
    ASSUME WorkbenchIInv, NEW p \in Processes,
           Ending(p) \/ ChannelStops(p) \/ StopSender(p) \/
           StopListener(p) \/ StopDispatcher(p) \/ Unlock(p) \/
           CloseServer(p) \/ Unlink(p)
    PROVE  Kept(p)
  <1> USE WorkbenchAssumption
      DEF Kept, WorkbenchIInv, Typed, Others, ProcessOK, LockOK, BuiltOK,
          TakenDownOK, Initializing, Clean, Preparing, Holding, Leaving,
          Stages, Inits, Alive, HasTask, Goes, lockVars, channelVars, stopVars
  <1>1. CASE Ending(p)
    BY <1>1 DEF Ending, Drained
  <1>2. CASE ChannelStops(p)
    BY <1>2 DEF ChannelStops
  <1>3. CASE StopSender(p)
    BY <1>3 DEF StopSender
  <1>4. CASE StopListener(p)
    BY <1>4 DEF StopListener
  <1>5. CASE StopDispatcher(p)
    BY <1>5 DEF StopDispatcher
  <1>6. CASE Unlock(p)
    BY <1>6 DEF Unlock
  <1>7. CASE CloseServer(p)
    BY <1>7 DEF CloseServer
  <1>8. CASE Unlink(p)
    BY <1>8 DEF Unlink
  <1>9. QED
    BY <1>1, <1>2, <1>3, <1>4, <1>5, <1>6, <1>7, <1>8

\* The cancellation that was asked for reaches the main task.
LEMMA CancelledStep ==
    ASSUME WorkbenchIInv, NEW p \in Processes, Cancelled(p)
    PROVE  Kept(p)
  <1> USE WorkbenchAssumption
      DEF WorkbenchIInv, Typed, Others, ProcessOK, LockOK, BuiltOK,
          TakenDownOK, Initializing, Clean, Preparing, Holding, Leaving,
          Stages, Inits, Alive, HasTask, Goes, lockVars, channelVars, stopVars
  <1>1. /\ cancel' = [cancel EXCEPT ![p] = FALSE]
        /\ UNCHANGED <<lock, ownerFile, endpoint, init, parts, listener, window,
                       repo, asked, stopEvent, killed>>
    BY DEF Cancelled
  <1>2. ASSUME doing[p] \in {"paint", "main", "wait"}, Goes(p, "ending"),
               UNCHANGED cut
        PROVE  Kept(p)
    BY <1>1, <1>2 DEF Kept
  <1>3. ASSUME doing[p] = "open", Goes(p, "unlock"), UNCHANGED cut
        PROVE  Kept(p)
    BY <1>1, <1>3 DEF Kept
  <1>4. ASSUME doing[p] \in {"stopSender", "stopListener", "stopDispatcher"},
               Goes(p, "unlock"), cut' = [cut EXCEPT ![p] = TRUE]
        PROVE  Kept(p)
    <2>1. Typed'
      BY <1>1, <1>4
    <2>2. Others(p)
      BY <1>1, <1>4
    <2>3. ProcessOK(p)'
      BY <1>1, <1>4
    <2>4. QED
      BY <2>1, <2>2, <2>3 DEF Kept
  <1>5. QED
    BY <1>2, <1>3, <1>4 DEF Cancelled

\* The initialization of the channel, in threads of its own: the main task
\* waits for it.
LEMMA InitializeStep ==
    ASSUME WorkbenchIInv, NEW p \in Processes, Initialize(p)
    PROVE  Kept(p)
  <1> USE WorkbenchAssumption
      DEF WorkbenchIInv, Typed, Others, ProcessOK, LockOK, BuiltOK,
          TakenDownOK, Initializing, Clean, Preparing, Holding, Leaving,
          Stages, Inits, Alive, HasTask, Goes, lockVars, channelVars, stopVars
  <1>1. Initializing(p) /\ doing[p] \in {"main", "ending"}
    BY DEF Initialize, InitStep
  <1>2. ASSUME NEW to \in Inits, NEW set \in BOOLEAN,
               NEW more \in SUBSET {"sender", "webhooks", "listener"},
               to \in {"sender", "listener"} => set \/ listener[p],
               "listener" \in more => set \/ listener[p],
               InitStep(p, init[p], to, more, set)
        PROVE  Kept(p)
    <2>1. /\ UNCHANGED <<doing, lock, ownerFile, endpoint, window, repo, asked,
                         cancel, stopEvent, cut, killed>>
          /\ init' = [init EXCEPT ![p] = to]
          /\ parts' = [parts EXCEPT ![p] = parts[p] \cup more]
          /\ listener' = [listener EXCEPT ![p] = listener[p] \/ set]
      BY <1>2 DEF InitStep
    <2>2. Typed'
      BY <2>1
    <2>3. Others(p)
      BY <2>1
    <2>4. ProcessOK(p)'
      BY <1>1, <1>2, <2>1
    <2>5. QED
      BY <2>2, <2>3, <2>4 DEF Kept
  <1>3. QED
    BY <1>1, <1>2 DEF Initialize, InitStep

\* A process that is killed leaves the lock, and nothing of it runs on.
LEMMA KillStep ==
    ASSUME WorkbenchIInv, NEW p \in Processes, Reclaims(p) \/ Scan(p)
    PROVE  WorkbenchIInv'
  <1> USE WorkbenchAssumption
      DEF WorkbenchIInv, Typed, Others, ProcessOK, LockOK, BuiltOK,
          TakenDownOK, Initializing, Clean, Preparing, Holding, Leaving,
          Stages, Inits, Alive, HasTask, Goes, lockVars, channelVars, stopVars
  <1>1. ASSUME NEW victims \in SUBSET (Processes \ {p}), NEW stage \in Stages,
               Kill(victims, p, stage),
               UNCHANGED <<ownerFile, endpoint, listener, window, repo, asked,
                           cancel, stopEvent, cut>>,
               \/ doing[p] = "denied" /\ stage = "waiting"
               \/ doing[p] = "scan" /\ stage = "serve"
        PROVE  WorkbenchIInv'
    <2>1. Typed'
      BY <1>1 DEF Kill
    <2>2. ProcessOK(p)'
      BY <1>1 DEF Kill
    <2>3. ASSUME NEW q \in victims PROVE ProcessOK(q)'
      BY <1>1, <2>3, ZenonT(30) DEF Kill
    <2>4. ASSUME NEW q \in Processes \ victims, q # p PROVE ProcessOK(q)'
      BY <1>1, <2>4 DEF Kill
    <2>5. QED
      BY <2>1, <2>2, <2>3, <2>4
  <1>2. CASE Reclaims(p)
    <2>1. CASE ownerFile \in Processes \ {p} /\ Alive(ownerFile)
      BY <1>1, <1>2, <2>1 DEF Reclaims
    <2>2. CASE ~(ownerFile \in Processes \ {p} /\ Alive(ownerFile))
      <3>1. /\ doing[p] = "denied" /\ Goes(p, "gone")
            /\ UNCHANGED <<lock, parts, init, killed>>
            /\ UNCHANGED <<ownerFile, endpoint, listener, window, repo, asked,
                           cancel, stopEvent, cut>>
        BY <1>2, <2>2 DEF Reclaims
      <3>2. Typed'
        BY <3>1
      <3>3. Others(p)
        BY <3>1
      <3>4. ProcessOK(p)'
        BY <3>1
      <3>5. Kept(p)
        BY <3>2, <3>3, <3>4, Zenon DEF Kept
      <3>6. QED
        BY <3>5, OthersKept
    <2>3. QED
      BY <2>1, <2>2
  <1>3. CASE Scan(p)
    BY <1>1, <1>3 DEF Scan
  <1>4. QED
    BY <1>2, <1>3

LEMMA WorkbenchInitOK == WorkbenchInit => WorkbenchIInv
  BY WorkbenchAssumption
  DEF WorkbenchInit, WorkbenchIInv, Typed, ProcessOK, LockOK, BuiltOK,
      TakenDownOK, Initializing, Clean, Preparing, Holding, Leaving, Stages,
      Inits

LEMMA WorkbenchStepOK ==
    WorkbenchIInv /\ [WorkbenchNext]_workbenchVars => WorkbenchIInv'
  <1> SUFFICES ASSUME WorkbenchIInv, [WorkbenchNext]_workbenchVars
               PROVE  WorkbenchIInv'
    OBVIOUS
  <1>1. ASSUME NEW p \in Processes,
               \/ Launch(p) \/ GivesUp(p) \/ Initialize(p) \/ InitFails(p)
               \/ UserCloses(p) \/ Interrupt(p) \/ ShutdownCommand(p)
               \/ Runs(p)
        PROVE  WorkbenchIInv'
    <2>1. CASE Reclaims(p) \/ Scan(p)
      BY <2>1, KillStep
    <2>2. CASE ~(Reclaims(p) \/ Scan(p))
      <3>1. Kept(p)
        BY <1>1, <2>2, StartSteps, MainSteps, WayOutSteps, CancelledStep,
           InitializeStep
        DEF Runs
      <3>2. QED
        BY <3>1, OthersKept
    <2>3. QED
      BY <2>1, <2>2
  <1>2. CASE ProbeLock
    BY <1>2, WorkbenchAssumption
    DEF ProbeLock, WorkbenchIInv, Typed, ProcessOK, LockOK, BuiltOK,
        TakenDownOK, Initializing, Clean, channelVars, stopVars
  <1>3. CASE UNCHANGED workbenchVars
    BY <1>3
    DEF workbenchVars, WorkbenchIInv, Typed, ProcessOK, LockOK, BuiltOK,
        TakenDownOK, Initializing, Clean
  <1>4. QED
    BY <1>1, <1>2, <1>3 DEF WorkbenchNext
-----------------------------------------------------------------------------
(* What follows from it. *)

\* The processes of the bridge keep to these stages, whoever is launched,
\* asked to stop or killed.
THEOREM WorkbenchInvariance == WorkbenchSpec => []WorkbenchIInv
  BY WorkbenchInitOK, WorkbenchStepOK, PTL DEF WorkbenchSpec

LEMMA WorkbenchMeans == WorkbenchIInv => OneWorks /\ LeavesInOrder
  <1> SUFFICES ASSUME WorkbenchIInv PROVE OneWorks /\ LeavesInOrder
    OBVIOUS
  <1>1. OneWorks
    BY DEF WorkbenchIInv, Typed, ProcessOK, LockOK, BuiltOK, Preparing, Holding,
           Alive, Stages, OneWorks
  <1>2. LeavesInOrder
    BY DEF WorkbenchIInv, ProcessOK, BuiltOK, TakenDownOK, Clean, Leaving,
           LeavesInOrder, ClosedWhenUnused, LeavesNothing
  <1>3. QED
    BY <1>1, <1>2

LEMMA WorkbenchTyped == WorkbenchIInv => WorkbenchTypeOK
  BY DEF WorkbenchIInv, Typed, ProcessOK, LockOK, Holding, Alive,
         WorkbenchTypeOK

\* The variables keep their types, and who has the lock is alive.
THEOREM WorkbenchTypes == WorkbenchSpec => []WorkbenchTypeOK
  BY WorkbenchTyped, WorkbenchInvariance, PTL

\* One bridge works on the database and on WeChat at a time, the one with the
\* lock.
THEOREM OneBridgeWorks == WorkbenchSpec => []OneWorks
  BY WorkbenchMeans, WorkbenchInvariance, PTL

\* A bridge is taken down in order: the repository is closed under nothing
\* that uses it, and a process that was neither killed nor cut short leaves
\* nothing running and its watermark stored.
THEOREM TakenDownInOrder == WorkbenchSpec => []LeavesInOrder
  BY WorkbenchMeans, WorkbenchInvariance, PTL
-----------------------------------------------------------------------------
(* The manager beside them. *)

ThreadStages == {"idle", "shutdown", "ask", "look", "release", "act", "done"}

Threads == [kind : {"none", "start", "stop", "status"}, stage : ThreadStages,
            result : States]

ManagerTyped == /\ proc \in Processes \cup {Nobody}
                /\ {stopReq, dropped} \subseteq BOOLEAN /\ shown \in States
                /\ op \in Threads /\ query \in Threads

\* An operation and a query are told apart by what they do, and a query that
\* was under way when the operation began is not wanted.
ThreadsOK ==
    /\ op.kind \in {"none", "start", "stop"}
    /\ query.kind \in {"none", "status"}
    /\ op.kind = "none" <=> op.stage = "idle"
    /\ query.kind = "none" <=> query.stage = "idle"
    /\ op.stage # "idle" => query.stage = "idle" \/ dropped

\* The lock is probed by one thread at a time, and released by that one.
ProbeOK ==
    /\ lock = Probe <=> "release" \in {op.stage, query.stage}
    /\ ~(op.stage = "release" /\ query.stage = "release")

\* What an operation has found is still so when it acts on it: nobody but the
\* operation itself launches a process for the manager.
FoundOK ==
    /\ op.stage = "release" => proc = Nobody
    /\ op.stage = "act" =>
          \/ op.result \in {"running", "starting", "stopping"}
          \/ op.result = "stopped" /\ proc = Nobody
          \/ op.result = "exited" /\ proc \in Processes /\ doing[proc] = "gone"

ManagerIInv == /\ WorkbenchIInv /\ ManagerTyped /\ ThreadsOK /\ ProbeOK
               /\ FoundOK /\ PendingIsShown

LEMMA ManagerInitOK == ManagerInit => ManagerIInv
  <1> SUFFICES ASSUME ManagerInit PROVE ManagerIInv
    OBVIOUS
  <1>1. /\ op = Idle /\ query = Idle /\ Idle \in Threads
        /\ Idle.kind = "none" /\ Idle.stage = "idle"
    BY DEF ManagerInit, Idle, Thread, Threads, ThreadStages, States
  <1>2. WorkbenchIInv /\ lock = Nobody
    BY WorkbenchInitOK DEF ManagerInit, WorkbenchInit
  <1>3. QED
    BY <1>1, <1>2
    DEF ManagerInit, ManagerIInv, ManagerTyped, ThreadsOK, ProbeOK, FoundOK,
        PendingIsShown, States, Nobody, Probe

\* A process that is gone does not come back.
LEMMA GoneStays ==
    ASSUME WorkbenchIInv, NEW q \in Processes, doing[q] = "gone",
           \/ \E p \in Processes :
                 \/ Launch(p) \/ Runs(p) \/ GivesUp(p) \/ Initialize(p)
                 \/ InitFails(p) \/ UserCloses(p)
    PROVE  doing'[q] = "gone"
  <1>1. PICK p \in Processes : \/ Launch(p) \/ Runs(p) \/ GivesUp(p)
                               \/ Initialize(p) \/ InitFails(p) \/ UserCloses(p)
    OBVIOUS
  <1>2. doing \in [Processes -> Stages]
    BY DEF WorkbenchIInv, Typed
  <1>3. CASE Reclaims(p) \/ Scan(p)
    BY <1>2, <1>3 DEF Reclaims, Scan, Kill, Goes, Alive
  <1>4. CASE \E stage \in Stages : Goes(p, stage) /\ doing[p] # "gone"
    BY <1>2, <1>4 DEF Goes
  <1>5. CASE UNCHANGED doing
    BY <1>5
  <1>6. QED
    BY <1>1, <1>3, <1>4, <1>5
    DEF Launch, GivesUp, Initialize, InitStep, InitFails, UserCloses, Runs,
        TryLock, WriteOwner, Serve, Open, Painted, Initialized, WindowIsOver,
        Cancelled, Ending, ChannelStops, StopSender, StopListener,
        StopDispatcher, Unlock, CloseServer, Unlink, Stages

\* A thread goes on with its query.
LEMMA ThreadMoves ==
    ASSUME ManagerIInv, NEW t \in {op, query}, NEW u \in Threads, Becomes(t, u),
           t.stage # "idle", u.stage # "idle", u.kind = t.kind,
           stopReq' \in BOOLEAN, UNCHANGED <<proc, shown, dropped>>
    PROVE  /\ ManagerTyped' /\ ThreadsOK' /\ PendingIsShown'
           /\ \/ t = op /\ op' = u /\ query' = query
              \/ t = query /\ query' = u /\ op' = op
  <1>1. ManagerTyped /\ ThreadsOK /\ PendingIsShown
    BY DEF ManagerIInv
  <1>2. CASE t = op /\ op' = u /\ query' = query
    BY <1>1, <1>2 DEF ManagerTyped, ThreadsOK, PendingIsShown
  <1>3. CASE t = query /\ query' = u /\ op' = op
    BY <1>1, <1>3 DEF ManagerTyped, ThreadsOK, PendingIsShown
  <1>4. QED
    BY <1>2, <1>3 DEF Becomes

\* A thread has found a state.
LEMMA ThreadFinds ==
    ASSUME ManagerIInv, NEW t \in {op, query}, NEW state \in States,
           t.stage \in {"ask", "look"}, Found(t, state),
           \/ state \in {"running", "starting", "stopping"}
           \/ state = "exited" /\ proc \in Processes /\ doing[proc] = "gone",
           stopReq' \in BOOLEAN,
           UNCHANGED <<workbenchVars, proc, shown, dropped>>
    PROVE  ManagerIInv'
  <1> DEFINE u == Thread(t.kind, IF t.kind = "status" THEN "done" ELSE "act",
                         state)
  <1>1. /\ ManagerTyped /\ ThreadsOK /\ t \in Threads
        /\ UNCHANGED <<lock, doing>> /\ WorkbenchIInv'
    BY WorkbenchStepOK DEF ManagerIInv, ManagerTyped, workbenchVars
  <1>2. u \in Threads
    BY <1>1 DEF Threads, ThreadStages, Thread
  <1>3. /\ u.kind = t.kind /\ u.result = state
        /\ u.stage = IF t.kind = "status" THEN "done" ELSE "act"
    BY DEF Thread
  <1>4. Becomes(t, u)
    BY DEF Found
  <1> HIDE DEF u
  <1>5. /\ ManagerTyped' /\ ThreadsOK' /\ PendingIsShown'
        /\ \/ t = op /\ op' = u /\ query' = query
           \/ t = query /\ query' = u /\ op' = op
    BY <1>2, <1>3, <1>4, ThreadMoves
  <1>6. ProbeOK'
    BY <1>1, <1>3, <1>5 DEF ManagerIInv, ProbeOK
  <1>7. FoundOK'
    BY <1>1, <1>3, <1>5 DEF ManagerIInv, FoundOK
  <1>8. QED
    BY <1>1, <1>5, <1>6, <1>7 DEF ManagerIInv

LEMMA AskStep ==
    ASSUME ManagerIInv, NEW t \in {op, query}, AskServer(t)
    PROVE  ManagerIInv'
  <1>1. ManagerTyped /\ t \in Threads /\ stopReq \in BOOLEAN
    BY DEF ManagerIInv, ManagerTyped
  <1>2. ASSUME NEW p \in Processes,
               stopReq' = (stopReq \/ stopEvent[p]),
               Found(t, IF stopEvent[p] \/ stopReq THEN "stopping" ELSE "running")
        PROVE  ManagerIInv'
    <2>1. stopReq' \in BOOLEAN
      BY <1>1, <1>2
    <2>2. QED
      BY <1>2, <2>1, ThreadFinds DEF AskServer, States
  <1>3. ASSUME Becomes(t, [t EXCEPT !.stage = "look"]), UNCHANGED stopReq
        PROVE  ManagerIInv'
    <2> DEFINE u == [t EXCEPT !.stage = "look"]
    <2>1. u \in Threads /\ u.kind = t.kind /\ u.stage = "look"
      BY <1>1 DEF Threads, ThreadStages
    <2>2. /\ UNCHANGED <<lock, doing, proc, shown, dropped>> /\ t.stage = "ask"
          /\ WorkbenchIInv'
      BY WorkbenchStepOK DEF AskServer, workbenchVars, ManagerIInv
    <2>3. Becomes(t, u)
      BY <1>3
    <2> HIDE DEF u
    <2>4. /\ ManagerTyped' /\ ThreadsOK' /\ PendingIsShown'
          /\ \/ t = op /\ op' = u /\ query' = query
             \/ t = query /\ query' = u /\ op' = op
      BY <1>1, <1>3, <2>1, <2>2, <2>3, ThreadMoves
    <2>5. ProbeOK' /\ FoundOK'
      BY <2>1, <2>2, <2>4 DEF ManagerIInv, ProbeOK, FoundOK
    <2>6. QED
      BY <2>2, <2>4, <2>5 DEF ManagerIInv
  <1>4. QED
    BY <1>2, <1>3 DEF AskServer

LEMMA LookAtProcessStep ==
    ASSUME ManagerIInv, NEW t \in {op, query}, LookAtProcess(t)
    PROVE  ManagerIInv'
  <1>1. proc \in Processes /\ stopReq' \in BOOLEAN
    BY DEF LookAtProcess, ManagerIInv, ManagerTyped
  <1>2. CASE doing[proc] = "gone"
    BY <1>1, <1>2, ThreadFinds DEF LookAtProcess, States
  <1>3. CASE doing[proc] # "gone"
    BY <1>1, <1>3, ThreadFinds DEF LookAtProcess, Unanswered, States
  <1>4. QED
    BY <1>2, <1>3

\* The probe takes the free lock, as the environment of the bridges may.
LEMMA LookAtLockStep ==
    ASSUME ManagerIInv, NEW t \in {op, query}, LookAtLock(t)
    PROVE  ManagerIInv'
  <1>1. /\ ManagerTyped /\ t \in Threads /\ stopReq' \in BOOLEAN
        /\ t.stage = "look" /\ proc = Nobody
        /\ UNCHANGED <<doing, proc, shown, dropped>>
    BY DEF LookAtLock, ManagerIInv, ManagerTyped
  <1>2. CASE lock = Nobody
    <2> DEFINE u == [t EXCEPT !.stage = "release"]
    <2>1. u \in Threads /\ u.kind = t.kind /\ u.stage = "release"
      BY <1>1 DEF Threads, ThreadStages
    <2>2. Becomes(t, u) /\ lock' = Probe
      BY <1>2 DEF LookAtLock
    <2>3. WorkbenchIInv'
      <3>1. ProbeLock
        BY <1>2 DEF LookAtLock, ProbeLock
      <3>2. QED
        BY <3>1, WorkbenchStepOK DEF ManagerIInv, WorkbenchNext
    <2> HIDE DEF u
    <2>4. /\ ManagerTyped' /\ ThreadsOK' /\ PendingIsShown'
          /\ \/ t = op /\ op' = u /\ query' = query
             \/ t = query /\ query' = u /\ op' = op
      BY <1>1, <2>1, <2>2, ThreadMoves
    <2>5. ProbeOK' /\ FoundOK'
      BY <1>1, <1>2, <2>1, <2>2, <2>4
      DEF ManagerIInv, ProbeOK, FoundOK, Nobody, Probe
    <2>6. QED
      BY <2>3, <2>4, <2>5 DEF ManagerIInv
  <1>3. CASE lock # Nobody
    <2>1. Found(t, Unanswered) /\ UNCHANGED workbenchVars
      BY <1>3
      DEF LookAtLock, workbenchVars, channelVars, stopVars
    <2>2. QED
      BY <1>1, <2>1, ThreadFinds DEF Unanswered, States
  <1>4. QED
    BY <1>2, <1>3

LEMMA ReleaseLockStep ==
    ASSUME ManagerIInv, NEW t \in {op, query}, ReleaseLock(t)
    PROVE  ManagerIInv'
  <1> DEFINE u == Thread(t.kind, IF t.kind = "status" THEN "done" ELSE "act",
                         "stopped")
  <1>1. /\ ManagerTyped /\ ThreadsOK /\ t \in Threads /\ stopReq' \in BOOLEAN
        /\ t.stage = "release" /\ lock = Probe /\ lock' = Nobody
        /\ UNCHANGED <<doing, proc, shown, dropped>>
    BY DEF ReleaseLock, ManagerIInv, ManagerTyped, ProbeOK
  <1>2. WorkbenchIInv'
    <2>1. ProbeLock
      BY <1>1 DEF ReleaseLock, ProbeLock, Nobody, Probe
    <2>2. QED
      BY <2>1, WorkbenchStepOK DEF ManagerIInv, WorkbenchNext
  <1>3. u \in Threads
    BY <1>1 DEF Threads, ThreadStages, Thread, States
  <1>4. /\ u.kind = t.kind /\ u.result = "stopped"
        /\ u.stage = IF t.kind = "status" THEN "done" ELSE "act"
    BY DEF Thread
  <1>5. Becomes(t, u)
    BY DEF ReleaseLock, Found
  <1> HIDE DEF u
  <1>6. /\ ManagerTyped' /\ ThreadsOK' /\ PendingIsShown'
        /\ \/ t = op /\ op' = u /\ query' = query
           \/ t = query /\ query' = u /\ op' = op
    BY <1>1, <1>3, <1>4, <1>5, ThreadMoves
  <1>7. ProbeOK' /\ FoundOK'
    BY <1>1, <1>4, <1>6 DEF ManagerIInv, ProbeOK, FoundOK, Nobody, Probe
  <1>8. QED
    BY <1>2, <1>6, <1>7 DEF ManagerIInv

\* The operation gets to another place, or ends.
LEMMA OpMoves ==
    ASSUME ManagerIInv, NEW u \in Threads, op' = u, op.stage # "idle",
           op.stage # "release", u.kind = op.kind, u.stage \in {"ask", "done"},
           proc' \in Processes \cup {Nobody}, stopReq' \in BOOLEAN,
           WorkbenchIInv', UNCHANGED <<lock, query, shown, dropped>>
    PROVE  ManagerIInv'
  BY DEF ManagerIInv, ManagerTyped, ThreadsOK, ProbeOK, FoundOK, PendingIsShown

LEMMA OpEndsFacts ==
    ASSUME ManagerTyped, NEW state \in States, OpEnds(state)
    PROVE  op' \in Threads /\ op'.kind = op.kind /\ op'.stage = "done"
  <1>1. op' = [kind |-> op.kind, stage |-> "done", result |-> state]
    BY DEF OpEnds, Thread
  <1>2. op.kind \in {"none", "start", "stop", "status"} /\ "done" \in ThreadStages
    BY DEF ManagerTyped, Threads, ThreadStages
  <1>3. QED
    BY <1>1, <1>2 DEF Threads

LEMMA OpAsks ==
    ASSUME ManagerTyped, op' = [op EXCEPT !.stage = "ask"]
    PROVE  op' \in Threads /\ op'.kind = op.kind /\ op'.stage = "ask"
  BY DEF ManagerTyped, Threads, ThreadStages

LEMMA StartStep == ManagerIInv /\ StartWorkbench => ManagerIInv'
  <1> SUFFICES ASSUME ManagerIInv, StartWorkbench PROVE ManagerIInv'
    OBVIOUS
  <1>1. /\ ManagerTyped /\ op.result \in States /\ op.stage = "act"
        /\ "starting" \in States /\ stopReq' \in BOOLEAN
        /\ UNCHANGED <<query, shown, dropped>>
    BY DEF ManagerIInv, ManagerTyped, Threads, States, StartWorkbench
  <1>2. ASSUME NEW p \in Processes, Launch(p), proc' = p, OpEnds("starting")
        PROVE  ManagerIInv'
    <2>1. WorkbenchIInv' /\ UNCHANGED lock
      BY <1>2, WorkbenchStepOK
      DEF ManagerIInv, WorkbenchNext, Launch, lockVars
    <2>2. QED
      BY <1>1, <1>2, <2>1, OpEndsFacts, OpMoves
  <1>3. ASSUME OpEnds(op.result), UNCHANGED <<workbenchVars, proc>>
        PROVE  ManagerIInv'
    <2>1. /\ WorkbenchIInv' /\ UNCHANGED lock
          /\ proc' \in Processes \cup {Nobody}
      BY <1>1, <1>3, WorkbenchStepOK
      DEF ManagerIInv, workbenchVars, ManagerTyped
    <2>2. QED
      BY <1>1, <1>3, <2>1, OpEndsFacts, OpMoves
  <1>4. QED
    BY <1>2, <1>3 DEF StartWorkbench

\* A request to stop changes nothing at once.
LEMMA RequestKeeps ==
    ASSUME WorkbenchIInv,
           \/ \E p \in Processes : Request(p)
           \/ \E p \in Processes : stopEvent' = [stopEvent EXCEPT ![p] = TRUE]
                                   /\ UNCHANGED <<asked, cancel>>,
           UNCHANGED <<doing, lockVars, channelVars, window, repo, cut, killed>>
    PROVE  WorkbenchIInv' /\ UNCHANGED <<lock, doing>>
  <1>1. /\ asked' \in [Processes -> BOOLEAN] /\ cancel' \in [Processes -> BOOLEAN]
        /\ stopEvent' \in [Processes -> BOOLEAN]
    BY DEF WorkbenchIInv, Typed, Request
  <1>2. QED
    BY <1>1
    DEF WorkbenchIInv, Typed, ProcessOK, LockOK, BuiltOK, TakenDownOK,
        Initializing, Clean, lockVars, channelVars

LEMMA SendShutdownStep == ManagerIInv /\ SendShutdown => ManagerIInv'
  <1> SUFFICES ASSUME ManagerIInv, SendShutdown PROVE ManagerIInv'
    OBVIOUS
  <1>1. /\ ManagerTyped /\ op.stage = "shutdown" /\ WorkbenchIInv
        /\ UNCHANGED <<proc, query, shown, dropped>>
        /\ proc' \in Processes \cup {Nobody}
    BY DEF ManagerIInv, ManagerTyped, SendShutdown
  <1>2. ASSUME NEW p \in Processes, stopReq' = TRUE,
               op' = [op EXCEPT !.stage = "ask"],
               IF HasTask(p) THEN Request(p)
               ELSE stopEvent' = [stopEvent EXCEPT ![p] = TRUE]
                    /\ UNCHANGED <<doing, lockVars, channelVars, window, repo,
                                   asked, cancel, cut, killed>>
        PROVE  ManagerIInv'
    <2>1. WorkbenchIInv' /\ UNCHANGED <<lock, doing>>
      <3>1. CASE HasTask(p)
        <4>1. UNCHANGED <<doing, lockVars, channelVars, window, repo, cut,
                          killed>>
          BY <1>2, <3>1 DEF Request
        <4>2. QED
          BY <1>1, <1>2, <3>1, <4>1, RequestKeeps
      <3>2. CASE ~HasTask(p)
        BY <1>1, <1>2, <3>2, RequestKeeps
      <3>3. QED
        BY <3>1, <3>2
    <2>2. QED
      BY <1>1, <1>2, <2>1, OpAsks, OpMoves
  <1>3. ASSUME OpEnds("unknown"), UNCHANGED <<workbenchVars, stopReq>>
        PROVE  ManagerIInv'
    <2>1. WorkbenchIInv' /\ UNCHANGED lock /\ stopReq' \in BOOLEAN
      BY <1>1, <1>3, WorkbenchStepOK DEF workbenchVars, ManagerTyped
    <2>2. QED
      BY <1>1, <1>3, <2>1, OpEndsFacts, OpMoves DEF States
  <1>4. QED
    BY <1>2, <1>3 DEF SendShutdown

LEMMA StopStep == ManagerIInv /\ StopWorkbench => ManagerIInv'
  <1> SUFFICES ASSUME ManagerIInv, StopWorkbench PROVE ManagerIInv'
    OBVIOUS
  <1>1. /\ ManagerTyped /\ op.stage = "act" /\ op.result \in States
        /\ WorkbenchIInv' /\ UNCHANGED <<lock, query, shown, dropped>>
        /\ proc' \in Processes \cup {Nobody} /\ stopReq' \in BOOLEAN
    BY WorkbenchStepOK
    DEF ManagerIInv, ManagerTyped, Threads, StopWorkbench, workbenchVars
  <1>2. \/ OpEnds(op.result) \/ OpEnds("stopping")
        \/ op' = [op EXCEPT !.stage = "ask"]
    BY DEF StopWorkbench
  <1>3. QED
    BY <1>1, <1>2, OpEndsFacts, OpAsks, OpMoves DEF States

\* The window: its buttons, its timers, and what they show.
LEMMA WindowSteps ==
    ManagerIInv /\ (StartClicked \/ StopClicked \/ WindowPolls) => ManagerIInv'
  <1> SUFFICES ASSUME ManagerIInv, StartClicked \/ StopClicked \/ WindowPolls
               PROVE  ManagerIInv'
    OBVIOUS
  <1>1. /\ ManagerTyped /\ ThreadsOK /\ ProbeOK /\ FoundOK /\ PendingIsShown
    BY DEF ManagerIInv
  <1>2. /\ UNCHANGED <<lock, doing, proc, stopReq>> /\ WorkbenchIInv'
    BY WorkbenchStepOK
    DEF ManagerIInv, StartClicked, StopClicked, Submit, WindowPolls, OpPolled,
        QueryPolled, ScheduleQuery, workbenchVars
  <1>3. \A kind \in {"none", "start", "stop", "status"}, stage \in ThreadStages :
           LET u == Thread(kind, stage, "unknown") IN
           u \in Threads /\ u.kind = kind /\ u.stage = stage
    BY DEF Thread, Threads, States
  <1>4. Idle \in Threads /\ Idle.kind = "none" /\ Idle.stage = "idle"
    BY <1>3 DEF Idle, ThreadStages
  <1>5. ASSUME NEW kind \in {"start", "stop"}, NEW stage \in {"ask", "shutdown"},
               NEW state \in States,
               state = IF kind = "start" THEN "starting" ELSE "stopping",
               Submit(kind, stage, state)
        PROVE  ManagerIInv'
    <2>1. op' \in Threads /\ op'.kind = kind /\ op'.stage = stage
      BY <1>3, <1>5 DEF Submit, ThreadStages
    <2>2. ManagerTyped'
      BY <1>1, <1>2, <1>5, <2>1 DEF Submit, ManagerTyped
    <2>3. ThreadsOK'
      BY <1>1, <1>5, <2>1 DEF Submit, ThreadsOK
    <2>4. ProbeOK' /\ FoundOK' /\ PendingIsShown'
      BY <1>1, <1>2, <1>5, <2>1
      DEF Submit, ProbeOK, FoundOK, PendingIsShown
    <2>5. QED
      BY <1>2, <2>2, <2>3, <2>4 DEF ManagerIInv
  <1>6. CASE StartClicked
    BY <1>5, <1>6 DEF StartClicked, States
  <1>7. CASE StopClicked
    BY <1>5, <1>7 DEF StopClicked, States
  <1>8. CASE ScheduleQuery
    <2>1. query' \in Threads /\ query'.kind = "status" /\ query'.stage = "ask"
      BY <1>3, <1>8 DEF ScheduleQuery, ThreadStages
    <2>2. QED
      BY <1>1, <1>2, <1>8, <2>1
      DEF ScheduleQuery, ManagerIInv, ManagerTyped, ThreadsOK, ProbeOK, FoundOK,
          PendingIsShown
  <1>9. CASE OpPolled
    <2>1. shown' \in States
      BY <1>1, <1>9 DEF OpPolled, ManagerTyped, Threads
    <2>2. QED
      BY <1>1, <1>2, <1>4, <1>9, <2>1
      DEF OpPolled, ManagerIInv, ManagerTyped, ThreadsOK, ProbeOK, FoundOK,
          PendingIsShown
  <1>10. CASE QueryPolled
    <2>1. shown' \in States
      BY <1>1, <1>10 DEF QueryPolled, ManagerTyped, Threads
    <2>2. QED
      BY <1>1, <1>2, <1>4, <1>10, <2>1
      DEF QueryPolled, Wanted, ManagerIInv, ManagerTyped, ThreadsOK, ProbeOK,
          FoundOK, PendingIsShown
  <1>11. QED
    BY <1>6, <1>7, <1>8, <1>9, <1>10 DEF WindowPolls

\* The bridges go on beside the manager.
LEMMA BridgesStep == ManagerIInv /\ Bridges => ManagerIInv'
  <1> SUFFICES ASSUME ManagerIInv, Bridges PROVE ManagerIInv'
    OBVIOUS
  <1>1. PICK p \in Processes : \/ Launch(p) \/ Runs(p) \/ GivesUp(p)
                               \/ Initialize(p) \/ InitFails(p) \/ UserCloses(p)
    BY DEF Bridges
  <1>2. WorkbenchIInv /\ WorkbenchIInv'
    BY <1>1, WorkbenchStepOK DEF ManagerIInv, WorkbenchNext
  <1>3. UNCHANGED <<proc, stopReq, shown, op, query, dropped>>
    BY DEF Bridges, managerVars
  <1>4. lock = Probe <=> lock' = Probe
    BY <1>1, <1>2, WorkbenchAssumption
    DEF Launch, Runs, GivesUp, Initialize, InitStep, InitFails, UserCloses,
        TryLock, MayOwn, Reclaims, Kill, WriteOwner, Scan, Serve, Open, Painted,
        Initialized, WindowIsOver, Cancelled, Ending, ChannelStops, StopSender,
        StopListener, StopDispatcher, Unlock, CloseServer, Unlink, lockVars,
        WorkbenchIInv, ProcessOK, LockOK, Holding, Nobody, Probe
  <1>5. proc \in Processes /\ doing[proc] = "gone" => doing'[proc] = "gone"
    BY <1>1, <1>2, GoneStays
  <1>6. QED
    BY <1>2, <1>3, <1>4, <1>5
    DEF ManagerIInv, ManagerTyped, ThreadsOK, ProbeOK, FoundOK, PendingIsShown

LEMMA ManagerStepOK == ManagerIInv /\ [ManagerNext]_allVars => ManagerIInv'
  <1> SUFFICES ASSUME ManagerIInv, [ManagerNext]_allVars PROVE ManagerIInv'
    OBVIOUS
  <1>1. ASSUME NEW t \in {op, query}, ThreadSteps(t) PROVE ManagerIInv'
    BY <1>1, AskStep, LookAtProcessStep, LookAtLockStep, ReleaseLockStep
    DEF ThreadSteps
  <1>2. CASE UNCHANGED allVars
    <2>1. WorkbenchIInv'
      BY <1>2, WorkbenchStepOK DEF ManagerIInv, allVars
    <2>2. QED
      BY <1>2, <2>1
      DEF allVars, workbenchVars, managerVars, ManagerIInv, ManagerTyped,
          ThreadsOK, ProbeOK, FoundOK, PendingIsShown
  <1>3. QED
    BY <1>1, <1>2, StartStep, SendShutdownStep, StopStep, WindowSteps,
       BridgesStep
    DEF ManagerNext, OpRuns, QueryRuns

LEMMA ManagerInvariance == ManagerSpec => []ManagerIInv
  BY ManagerInitOK, ManagerStepOK, PTL DEF ManagerSpec

\* The variables of the manager and of the bridges keep their types, and the
\* lock is probed exactly while one of its threads is about to release it.
THEOREM ManagerTypes == ManagerSpec => []ManagerTypeOK
  <1>1. ASSUME ManagerIInv PROVE ManagerTypeOK
    <2>1. WorkbenchTypeOK
      BY <1>1, WorkbenchTyped DEF ManagerIInv
    <2>2. /\ proc \in Processes \cup {Nobody} /\ {stopReq, dropped} \subseteq BOOLEAN
          /\ shown \in States /\ op \in Threads /\ query \in Threads
      BY <1>1 DEF ManagerIInv, ManagerTyped
    <2>3. \A t \in {op, query} :
             /\ t.kind \in {"none", "start", "stop", "status"}
             /\ t.stage \in ThreadStages
             /\ t.result \in States
      BY <2>2 DEF Threads
    <2>4. lock = Probe <=> "release" \in {op.stage, query.stage}
      BY <1>1 DEF ManagerIInv, ProbeOK
    <2>5. QED
      BY <2>1, <2>2, <2>3, <2>4 DEF ManagerTypeOK, ThreadStages
  <1>2. QED
    BY <1>1, ManagerInvariance, PTL

\* While an operation runs the window shows what it is about.
THEOREM OperationIsShown == ManagerSpec => []PendingIsShown
  BY ManagerInvariance, PTL DEF ManagerIInv

\* With the manager on top, which probes the lock, launches and stops, still
\* one bridge works at a time and each is taken down in order.
THEOREM ManagedBridges == ManagerSpec => [](OneWorks /\ LeavesInOrder)
  <1>1. WorkbenchIInv => OneWorks /\ LeavesInOrder
    BY WorkbenchMeans
  <1>2. QED
    BY <1>1, ManagerInvariance, PTL DEF ManagerIInv

\* The manager launches a second workbench only after the first has ended.
THEOREM OneOwnProcess == ManagerSpec => OneProcess
  <1>1. ASSUME ManagerIInv, [ManagerNext]_allVars, proc' # proc
        PROVE  proc = Nobody \/ doing[proc] = "gone"
    <2>1. StartWorkbench
      BY <1>1
      DEF ManagerNext, OpRuns, QueryRuns, ThreadSteps, AskServer, LookAtProcess,
          LookAtLock, ReleaseLock, SendShutdown, StopWorkbench, WindowPolls, OpPolled,
          QueryPolled, ScheduleQuery, StartClicked, StopClicked, Submit,
          Bridges, managerVars, allVars
    <2>2. op.stage = "act" /\ MayPopen
      BY <1>1, <2>1 DEF StartWorkbench
    <2>3. QED
      BY <1>1, <2>2 DEF ManagerIInv, FoundOK, MayPopen
  <1>2. ManagerIInv /\ [ManagerNext]_allVars
        => [proc' # proc => proc = Nobody \/ doing[proc] = "gone"]_allVars
    BY <1>1
  <1>3. QED
    BY <1>2, ManagerInvariance, PTL DEF ManagerSpec, OneProcess
=============================================================================
