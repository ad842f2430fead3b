-------------------------- MODULE DispatcherProofs --------------------------
(***************************************************************************)
(* Proofs about the session queue, for every set of items and sessions and *)
(* every number of permits, and then about the dispatcher, for every set   *)
(* of chats, messages and jobs.                                            *)
(*                                                                         *)
(* The main one is that every step of the dispatcher is a step of the      *)
(* queue, or none: the theorems about the queue hold of the composition.   *)
(***************************************************************************)
EXTENDS Dispatcher, FiniteSetTheorems, TLAPS

-----------------------------------------------------------------------------
(* The session queue.                                                      *)

\* The holders are finite, so their number is a natural number.
LEMMA HoldersFinite ==
    IsFiniteSet(Holders) /\ Cardinality(Holders) \in Nat
<1>1. Holders \subseteq Items
  BY DEF Holders
<1>2. IsFiniteSet(Holders)
  BY <1>1, FS_Subset, QueueAssumption
<1>. QED  BY <1>2, FS_CardinalityType

LEMMA InitIInv == Init => IInv
<1>. SUFFICES ASSUME Init PROVE IInv
  OBVIOUS
<1>. USE QueueAssumption DEF Init
<1>1. TypeOK
  <2>1. permits \in 0..MaxConcurrency /\ ticket \in [Items -> Nat]
    OBVIOUS
  <2>2. /\ place \in [Items -> Places] /\ future \in [Items -> Futures]
        /\ task \in [Items -> Tasks] /\ worker \in [Sessions -> Workers]
        /\ active \in [Sessions -> Items \cup {NoItem}]
    BY DEF Places, Futures, Tasks, Live, Ended, Workers
  <2>. QED  BY <2>1, <2>2 DEF TypeOK
<1>2. PermitsBalance
  <2>1. Holders = {}
    BY DEF Holders
  <2>. QED  BY <2>1, FS_EmptySet DEF PermitsBalance
<1>3. /\ \A i \in Items : PlaceOK(i)
      /\ \A s \in Sessions : WorkerOK(s)
      /\ HeldIsOldest
      /\ TicketsOK
  BY DEF PlaceOK, WorkerOK, HeldIsOldest, TicketsOK, Live
<1>4. NoLostCaller /\ FutureTruth
  BY DEF NoLostCaller, FutureTruth
<1>. QED  BY <1>1, <1>2, <1>3, <1>4 DEF IInv

\* A session that holds a permit means that not all of them are free.
LEMMA HolderTakesPermit ==
    ASSUME IInv, NEW i \in Items, place[i] = "active"
    PROVE  permits + 1 \in 0..MaxConcurrency
<1>1. Holders # {} /\ IsFiniteSet(Holders) /\ Cardinality(Holders) \in Nat
  BY HoldersFinite DEF Holders
<1>2. Cardinality(Holders) # 0
  BY <1>1, FS_EmptySet
<1>. QED
  BY <1>1, <1>2, QueueAssumption DEF IInv, TypeOK, PermitsBalance

\* The parts of the invariant other than the permit balance.
Rest == /\ TypeOK
        /\ \A i \in Items : PlaceOK(i)
        /\ \A s \in Sessions : WorkerOK(s)
        /\ HeldIsOldest
        /\ TicketsOK
        /\ NoLostCaller
        /\ FutureTruth

LEMMA RestStep == IInv /\ [Next]_vars => Rest'
<1>. SUFFICES ASSUME IInv, [Next]_vars PROVE Rest'
  OBVIOUS
<1>. USE QueueAssumption DEF IInv, Rest, TypeOK, PlaceOK, WorkerOK,
         HeldIsOldest, TicketsOK, NoLostCaller, FutureTruth,
         Places, Futures, Tasks, Live, Ended, Workers
<1>1. ASSUME NEW i \in Items, Submit(i) PROVE Rest'
  BY <1>1 DEF Submit
<1>2. ASSUME NEW i \in Items, CallerCancelled(i) PROVE Rest'
  BY <1>2 DEF CallerCancelled, CancelFutures
<1>3. ASSUME NEW i \in Items, RemoveQueued(i) PROVE Rest'
  BY <1>3 DEF RemoveQueued, CancelFutures
<1>4. ASSUME NEW s \in Sessions, ClearQueued(s) PROVE Rest'
  BY <1>4 DEF ClearQueued, CancelFutures, Queued
<1>5. ASSUME NEW s \in Sessions, CancelActive(s) PROVE Rest'
  BY <1>5 DEF CancelActive, CancelTasks
<1>6. CASE Close
  BY <1>6 DEF Close, CancelTasks, CancelFutures
<1>7. CASE CloseReturns
  BY <1>7 DEF CloseReturns
<1>8. ASSUME NEW s \in Sessions, NEW i \in Items, WorkerSkips(s, i) PROVE Rest'
  BY <1>8 DEF WorkerSkips
<1>9. ASSUME NEW s \in Sessions, NEW i \in Items, WorkerStarts(s, i) PROVE Rest'
  BY <1>9 DEF WorkerStarts, Launch, IsHead, Queued
<1>10. ASSUME NEW s \in Sessions, NEW i \in Items, WorkerBlocks(s, i) PROVE Rest'
  BY <1>10 DEF WorkerBlocks, IsHead, Queued
<1>11. ASSUME NEW s \in Sessions, NEW i \in Items, WorkerAdmitted(s, i) PROVE Rest'
  BY <1>11 DEF WorkerAdmitted, Launch
<1>12. ASSUME NEW s \in Sessions, NEW i \in Items, WorkerDiscards(s, i) PROVE Rest'
  BY <1>12 DEF WorkerDiscards, Discarded, CancelFutures
<1>13. ASSUME NEW s \in Sessions, WorkerCollects(s) PROVE Rest'
  <2>. DEFINE i == active[s]
  <2>1. i \in Items /\ place[i] = "active" /\ SessionOf[i] = s /\ task[i] \in Ended
    BY <1>13 DEF WorkerCollects, Collected, Outcome
  <2>2. \A j \in Items \ {i} : SessionOf[j] = s => place[j] \notin {"semaphore", "active"}
    BY <2>1
  <2>3. /\ future' = [future EXCEPT ![i] = future'[i]]
        /\ future[i] # "pending" => future'[i] = future[i]
        /\ future'[i] \in Futures \ {"pending"}
        /\ future'[i] = "result" => task[i] = "returned"
        /\ future'[i] = "exception" => task[i] = "raised"
    BY <1>13, <2>1 DEF WorkerCollects, Collected, Outcome
  <2>4. /\ permits' = permits + 1
        /\ place' = [place EXCEPT ![i] = "gone"]
        /\ active' = [active EXCEPT ![s] = NoItem]
        /\ worker' = [worker EXCEPT ![s] = "idle"]
        /\ worker[s] = "awaiting"
        /\ UNCHANGED <<closed, joined, ticket, last, task>>
    BY <1>13 DEF WorkerCollects, Collected, Outcome
  <2>. HIDE DEF i
  <2>5. TypeOK'
    BY <2>1, <2>3, <2>4, HolderTakesPermit
  <2>. QED  BY <2>1, <2>2, <2>3, <2>4, <2>5
<1>14. ASSUME NEW s \in Sessions, WorkerStops(s) PROVE Rest'
  BY <1>14 DEF WorkerStops, Queued
<1>15. ASSUME NEW i \in Items, TaskEnds(i) PROVE Rest'
  BY <1>15 DEF TaskEnds
<1>16. CASE UNCHANGED vars
  BY <1>16 DEF vars
<1>. QED
  BY <1>1, <1>2, <1>3, <1>4, <1>5, <1>6, <1>7, <1>8, <1>9, <1>10, <1>11,
     <1>12, <1>13, <1>14, <1>15, <1>16 DEF Next, WorkerStep

\* The permit balance: a permit is taken exactly when an item becomes active
\* and returned exactly when it leaves.
LEMMA BalanceStep == IInv /\ [Next]_vars => PermitsBalance'
<1>. SUFFICES ASSUME IInv, [Next]_vars PROVE PermitsBalance'
  OBVIOUS
<1>. USE QueueAssumption DEF IInv, TypeOK, PermitsBalance
<1>1. ASSUME NEW s \in Sessions, NEW i \in Items, Launch(s, i), permits > 0,
             place[i] # "active"
      PROVE  PermitsBalance'
  <2>1. Holders' = Holders \cup {i} /\ i \notin Holders
    BY <1>1 DEF Launch, Holders, Places
  <2>2. Cardinality(Holders') = Cardinality(Holders) + 1
    BY <2>1, HoldersFinite, FS_AddElement
  <2>. QED  BY <1>1, <2>2, HoldersFinite DEF Launch
<1>2. ASSUME NEW s \in Sessions, WorkerCollects(s) PROVE PermitsBalance'
  <2>. DEFINE i == active[s]
  <2>1. i \in Items /\ place[i] = "active"
    BY <1>2 DEF WorkerCollects, Collected, Outcome, WorkerOK
  <2>2. place' = [place EXCEPT ![i] = "gone"] /\ permits' = permits + 1
    BY <1>2 DEF WorkerCollects, Collected, Outcome
  <2>. HIDE DEF i
  <2>3. Holders' = Holders \ {i} /\ i \in Holders
    BY <2>1, <2>2 DEF Holders, Places
  <2>4. Cardinality(Holders') = Cardinality(Holders) - 1
    BY <2>3, HoldersFinite, FS_RemoveElement
  <2>. QED  BY <2>2, <2>4, HoldersFinite
<1>3. ASSUME UNCHANGED permits, Holders' = Holders PROVE PermitsBalance'
  BY <1>3
<1>4. ASSUME NEW s \in Sessions, NEW i \in Items,
             WorkerStarts(s, i) \/ WorkerAdmitted(s, i)
      PROVE  PermitsBalance'
  BY <1>4, <1>1 DEF WorkerStarts, WorkerAdmitted, IsHead
<1>5. ASSUME NEW i \in Items,
             Submit(i) \/ CallerCancelled(i) \/ RemoveQueued(i) \/ TaskEnds(i)
      PROVE  PermitsBalance'
  BY <1>5, <1>3 DEF Submit, CallerCancelled, RemoveQueued, TaskEnds, Holders,
                    Places
<1>6. ASSUME NEW s \in Sessions,
             ClearQueued(s) \/ CancelActive(s) \/ WorkerStops(s)
      PROVE  PermitsBalance'
  BY <1>6, <1>3 DEF ClearQueued, CancelActive, WorkerStops, Holders, Queued,
                    Places
<1>7. ASSUME NEW s \in Sessions, NEW i \in Items,
             WorkerSkips(s, i) \/ WorkerBlocks(s, i) \/ WorkerDiscards(s, i)
      PROVE  PermitsBalance'
  BY <1>7, <1>3 DEF WorkerSkips, WorkerBlocks, WorkerDiscards, Discarded, Holders, IsHead,
                    Places
<1>8. CASE Close \/ CloseReturns \/ UNCHANGED vars
  BY <1>8, <1>3 DEF Close, CloseReturns, vars, Holders, Places
<1>. QED
  BY <1>2, <1>4, <1>5, <1>6, <1>7, <1>8 DEF Next, WorkerStep

LEMMA IInvStep == IInv /\ [Next]_vars => IInv'
  BY RestStep, BalanceStep DEF IInv, Rest

\* The strengthened invariant holds in every behaviour of the queue.
THEOREM Invariance == Spec => []IInv
  BY InitIInv, IInvStep, PTL DEF Spec

\* Type correctness.
THEOREM TypeCorrect == Spec => []TypeOK
<1>1. IInv => TypeOK
  BY DEF IInv
<1>. QED  BY <1>1, Invariance, PTL

\* One conversation never runs two jobs at once.
THEOREM Serial == Spec => []SerialPerSession
<1>1. IInv => SerialPerSession
  BY DEF IInv, SerialPerSession, HeldIsOldest, PlaceOK
<1>. QED  BY <1>1, Invariance, PTL

\* No more than MaxConcurrency jobs run at once, in all conversations.
THEOREM Bounded == Spec => []ConcurrencyBound
<1>1. IInv => ConcurrencyBound
  <2>. SUFFICES ASSUME IInv PROVE ConcurrencyBound
    OBVIOUS
  <2>. DEFINE L == {i \in Items : task[i] \in Live}
  <2>1. L \subseteq Holders
    BY DEF IInv, PlaceOK, Holders
  <2>2. Cardinality(L) <= Cardinality(Holders) /\ Cardinality(L) \in Nat
    BY <2>1, HoldersFinite, FS_Subset, FS_CardinalityType
  <2>. QED
    BY <2>2, HoldersFinite, QueueAssumption
    DEF IInv, TypeOK, PermitsBalance, ConcurrencyBound
<1>. QED  BY <1>1, Invariance, PTL

\* A caller waits only for a job the queue still has, and is told what
\* happened to it (remove_queued, clear_queued, cancel, close, _worker).
THEOREM CallersHearTheTruth == Spec => []CallersAnswered
<1>1. IInv => CallersAnswered
  BY DEF IInv, CallersAnswered
<1>. QED  BY <1>1, Invariance, PTL

\* When close() has returned, nothing runs, nobody waits, no permit is lost.
THEOREM QuiescentWhenClosed == Spec => []CloseQuiescent
<1>1. IInv => CloseQuiescent
  <2>. SUFFICES ASSUME IInv, joined PROVE CloseQuiescent
    BY DEF CloseQuiescent
  <2>1. \A i \in Items : place[i] \notin {"queue", "semaphore", "active"}
    BY QueueAssumption DEF IInv, PlaceOK, WorkerOK, TypeOK
  <2>2. Holders = {}
    BY <2>1 DEF Holders
  <2>3. permits = MaxConcurrency
    BY <2>2, FS_EmptySet, QueueAssumption DEF IInv, TypeOK, PermitsBalance
  <2>. QED
    BY <2>1, <2>3 DEF IInv, PlaceOK, NoLostCaller, CloseQuiescent
<1>. QED  BY <1>1, Invariance, PTL

\* Jobs of a conversation start in the order they were submitted, and none
\* starts after close().
THEOREM InOrder == Spec => StartsInOrder
<1>. DEFINE Fresh(i) == task[i] = "none" /\ task'[i] = "running"
            Clear(i) == /\ ~closed
                        /\ \A j \in Items :
                             /\ SessionOf[j] = SessionOf[i]
                             /\ ticket[j] \in 1..(ticket[i] - 1)
                             => place[j] = "gone"
<1>1. ASSUME IInv, [Next]_vars, NEW i \in Items, Fresh(i) PROVE Clear(i)
  <2>. USE QueueAssumption DEF IInv, TypeOK, Tasks, Live, Ended
  <2>1. \E s \in Sessions : \E k \in Items : WorkerStarts(s, k) \/ WorkerAdmitted(s, k)
    BY <1>1 DEF Next, WorkerStep, Submit, CallerCancelled, RemoveQueued,
       TaskEnds, ClearQueued, CancelActive, CancelTasks, WorkerSkips,
       WorkerBlocks, WorkerDiscards, Discarded, WorkerCollects, Collected,
       Outcome, WorkerStops, Close, CloseReturns, vars
  <2>2. PICK s \in Sessions, k \in Items : WorkerStarts(s, k) \/ WorkerAdmitted(s, k)
    BY <2>1
  <2>3. k = i /\ ~closed /\ SessionOf[i] = s
    BY <1>1, <2>2 DEF WorkerStarts, WorkerAdmitted, Launch
  <2>4. ASSUME NEW j \in Items, SessionOf[j] = s, ticket[j] \in 1..(ticket[i] - 1)
        PROVE  place[j] = "gone"
    <3>1. place[j] # "none"
      BY <1>1, <2>4 DEF TicketsOK, PlaceOK
    <3>2. CASE WorkerStarts(s, k)
      BY <1>1, <3>1, <3>2, <2>3, <2>4 DEF WorkerStarts, IsHead, Queued, PlaceOK, Places
    <3>3. CASE WorkerAdmitted(s, k)
      BY <1>1, <3>1, <3>3, <2>3, <2>4 DEF WorkerAdmitted, HeldIsOldest, Places
    <3>. QED  BY <2>2, <3>2, <3>3
  <2>. QED  BY <2>3, <2>4
<1>2. IInv /\ [Next]_vars => [\A i \in Items : Fresh(i) => Clear(i)]_vars
  BY <1>1
<1>. QED
  BY <1>2, Invariance, PTL DEF Spec, StartsInOrder

-----------------------------------------------------------------------------
(* The queue implements the serial executor. *)

LEMMA RefinesInit == Init => Executor!AbsInit
  BY DEF Init, Executor!AbsInit, Phase

\* The instance of FiniteSets inside SerialExecutor counts like this module's.
LEMMA SameCardinality ==
    ASSUME NEW S PROVE Executor!Cardinality(S) = Cardinality(S)
  BY Zenon DEF Executor!Cardinality, Cardinality

\* Starting a task is Begin: the item is first in its session, its session
\* is not running, and a free permit leaves room for one more.
LEMMA RefinesLaunch ==
    ASSUME IInv, NEW s \in Sessions, NEW i \in Items,
           WorkerStarts(s, i) \/ WorkerAdmitted(s, i)
    PROVE  Executor!Begin(i)
<1>. USE QueueAssumption DEF IInv, TypeOK
<1>1. /\ Launch(s, i) /\ ~closed /\ permits > 0 /\ SessionOf[i] = s
      /\ place[i] \in {"queue", "semaphore"} /\ task[i] = "none"
      /\ worker[s] \in {"idle", "semaphore"}
  BY DEF WorkerStarts, WorkerAdmitted, IsHead, PlaceOK
<1>2. Phase[i] = "pending" /\ UNCHANGED <<ticket, closed>>
  BY <1>1 DEF Phase, Launch
<1>3. Executor!Ahead(i) = {}
  <2>1. CASE WorkerStarts(s, i)
    BY <2>1 DEF WorkerStarts, IsHead, Queued, PlaceOK, Executor!Ahead, Phase
  <2>2. CASE WorkerAdmitted(s, i)
    BY <2>2 DEF WorkerAdmitted, HeldIsOldest, Executor!Ahead, Phase
  <2>. QED  BY <2>1, <2>2
<1>4. \A j \in Executor!Running : SessionOf[j] # SessionOf[i]
  BY <1>1 DEF Executor!Running, Phase, PlaceOK, Live
<1>5. Cardinality(Executor!Running) < MaxConcurrency
  <2>1. Executor!Running \subseteq Holders
    BY DEF Executor!Running, Phase, Holders, PlaceOK, Places
  <2>2. Cardinality(Executor!Running) <= Cardinality(Holders)
        /\ Cardinality(Executor!Running) \in Nat
    BY <2>1, HoldersFinite, FS_Subset, FS_CardinalityType
  <2>. QED  BY <1>1, <2>2, HoldersFinite DEF PermitsBalance
<1>6. Phase' = [Phase EXCEPT ![i] = "running"]
  BY <1>1 DEF Phase, Launch, Live
<1>7. ~closed /\ ticket' = ticket /\ closed' = closed /\ Phase[i] = "pending"
  BY <1>1, <1>2
<1>. QED  BY <1>3, <1>4, <1>5, <1>6, <1>7, SameCardinality, Zenon
          DEF Executor!Begin

\* Dropping waiting items is GiveUp or, together with closing, Shut.
LEMMA RefinesDrop ==
    ASSUME IInv, NEW S \in SUBSET Items,
           \A i \in S : place[i] \in {"queue", "semaphore"},
           place' = [i \in Items |-> IF i \in S THEN "gone" ELSE place[i]],
           ticket' = ticket,
           \A i \in Items : task'[i] \in Live <=> task[i] \in Live
    PROVE  /\ Phase' = [i \in Items |-> IF i \in S THEN "over" ELSE Phase[i]]
           /\ \A i \in S : Phase[i] = "pending"
  BY DEF IInv, TypeOK, Phase, Places, Live, PlaceOK

LEMMA RefinesStep == IInv /\ [Next]_vars => [Executor!AbsNext]_(Executor!absVars)
<1>. SUFFICES ASSUME IInv, [Next]_vars
              PROVE  Executor!AbsNext \/ UNCHANGED <<Phase, ticket, closed>>
  BY DEF Executor!absVars
<1>. USE QueueAssumption DEF Executor!AbsNext
<1>. DEFINE Same == UNCHANGED <<Phase, ticket, closed>>
            Goal == Executor!AbsNext \/ Same
<1>1. ASSUME NEW i \in Items, Submit(i) PROVE Goal
  <2>1. Phase' = [Phase EXCEPT ![i] = "pending"] /\ Phase[i] = "new"
    BY <1>1 DEF Submit, Phase, IInv, TypeOK, Places
  <2>2. /\ ~closed /\ closed' = closed /\ ticket'[i] \in Nat
        /\ \A j \in Items : ticket[j] < ticket'[i]
        /\ ticket' = [ticket EXCEPT ![i] = ticket'[i]]
    BY <1>1 DEF Submit, IInv, TypeOK, TicketsOK
  <2>. QED  BY <2>1, <2>2 DEF Executor!Accept
<1>2. ASSUME NEW s \in Sessions, NEW i \in Items,
             WorkerStarts(s, i) \/ WorkerAdmitted(s, i)
      PROVE  Goal
  BY <1>2, RefinesLaunch
<1>3. ASSUME NEW i \in Items, RemoveQueued(i) PROVE Goal
  <2>1. /\ Phase' = [j \in Items |-> IF j \in {i} THEN "over" ELSE Phase[j]]
        /\ \A j \in {i} : Phase[j] = "pending"
    BY <1>3 DEF RemoveQueued, Phase, IInv, TypeOK, PlaceOK, Places, Live
  <2>. QED  BY <1>3, <2>1 DEF RemoveQueued, Executor!GiveUp
<1>4. ASSUME NEW s \in Sessions, ClearQueued(s) PROVE Goal
  <2>1. Queued(s) \in SUBSET Items /\ UNCHANGED <<ticket, closed>>
    BY <1>4 DEF Queued, ClearQueued
  <2>2. /\ Phase' = [j \in Items |-> IF j \in Queued(s) THEN "over" ELSE Phase[j]]
        /\ \A j \in Queued(s) : Phase[j] = "pending"
    BY <1>4, <2>1, RefinesDrop DEF ClearQueued, Queued
  <2>. QED  BY <2>1, <2>2 DEF Executor!GiveUp
<1>5. CASE Close
  <2>. DEFINE W == {i \in Items : place[i] = "queue"}
  <2>1. /\ ~closed /\ closed' = TRUE /\ ticket' = ticket
        /\ \A i \in Items : task'[i] \in Live <=> task[i] \in Live
        /\ place' = [i \in Items |-> IF i \in W THEN "gone" ELSE place[i]]
    BY <1>5 DEF Close, CancelTasks, Live
  <2>2. /\ Phase' = [j \in Items |-> IF j \in W THEN "over" ELSE Phase[j]]
        /\ \A j \in W : Phase[j] = "pending"
    BY <2>1, RefinesDrop
  <2>3. W \in SUBSET Items
    OBVIOUS
  <2>. HIDE DEF W
  <2>. QED  BY <2>1, <2>2, <2>3 DEF Executor!Shut
<1>6. ASSUME NEW s \in Sessions, NEW i \in Items, WorkerDiscards(s, i) PROVE Goal
  <2>1. /\ Phase' = [j \in Items |-> IF j \in {i} THEN "over" ELSE Phase[j]]
        /\ \A j \in {i} : Phase[j] = "pending"
    BY <1>6 DEF WorkerDiscards, Discarded, Phase, IInv, TypeOK, PlaceOK, Places, Live
  <2>. QED  BY <1>6, <2>1 DEF WorkerDiscards, Discarded, Executor!GiveUp
<1>7. ASSUME NEW s \in Sessions, NEW i \in Items, WorkerSkips(s, i) PROVE Goal
  <2>1. /\ Phase' = [j \in Items |-> IF j \in {i} THEN "over" ELSE Phase[j]]
        /\ \A j \in {i} : Phase[j] = "pending"
    BY <1>7 DEF WorkerSkips, IsHead, Phase, IInv, TypeOK, PlaceOK, Places, Live
  <2>. QED  BY <1>7, <2>1 DEF WorkerSkips, Executor!GiveUp
<1>8. ASSUME NEW i \in Items, TaskEnds(i) PROVE Goal
  <2>1. PICK e \in Ended : task' = [task EXCEPT ![i] = e]
    BY <1>8 DEF TaskEnds, Ended
  <2>2. task[i] \in Live /\ place[i] = "active" /\ UNCHANGED <<place, ticket, closed>>
    BY <1>8 DEF TaskEnds, IInv, PlaceOK, Live
  <2>3. Phase[i] = "running"
    BY <2>2 DEF Phase
  <2>4. Phase' = [Phase EXCEPT ![i] = "over"]
    BY <2>1, <2>2 DEF Phase, IInv, TypeOK, Ended, Live
  <2>. QED  BY <2>2, <2>3, <2>4 DEF Executor!End
<1>9. ASSUME NEW s \in Sessions, WorkerCollects(s) PROVE Goal
  BY <1>9 DEF WorkerCollects, Collected, Outcome, Phase, IInv, TypeOK, PlaceOK, WorkerOK, Places,
              Live, Ended
<1>10. ASSUME NEW s \in Sessions, NEW i \in Items, WorkerBlocks(s, i) PROVE Goal
  BY <1>10 DEF WorkerBlocks, IsHead, Phase, IInv, TypeOK, Places
<1>11. ASSUME NEW s \in Sessions, WorkerStops(s) \/ CancelActive(s) PROVE Goal
  BY <1>11 DEF WorkerStops, CancelActive, CancelTasks, Phase, IInv, TypeOK, Live
<1>12. ASSUME NEW i \in Items, CallerCancelled(i) PROVE Goal
  BY <1>12 DEF CallerCancelled, Phase
<1>13. CASE CloseReturns \/ UNCHANGED vars
  BY <1>13 DEF CloseReturns, vars, Phase
<1>. QED
  BY <1>1, <1>2, <1>3, <1>4, <1>5, <1>6, <1>7, <1>8, <1>9, <1>10, <1>11,
     <1>12, <1>13 DEF Next, WorkerStep

\* Every behaviour of the queue is one of the serial executor.
THEOREM Refinement == Spec => ImplementsExecutor
  BY RefinesInit, RefinesStep, Invariance, PTL
  DEF Spec, ImplementsExecutor, Executor!AbsSpec

-----------------------------------------------------------------------------
(* The dispatcher.                                                         *)

\* What the dispatcher's invariant says of the jobs.
JobInv == /\ JobTypeOK /\ StageOK /\ RemovedOK /\ QuietOK
          /\ QueuedOK /\ ListedIsWaiting

LEMMA DispatcherInitIInv == DispatcherInit => DispatcherIInv
<1>. SUFFICES ASSUME DispatcherInit PROVE DispatcherIInv
  OBVIOUS
<1>. USE DispatcherAssumption DEF DispatcherInit
<1>1. IInv
  BY InitIInv
<1>2. <<>> \in Seq(Msgs)
  OBVIOUS
<1>3. Free \in Turn
  BY DEF Free, Turn
<1>4. ChatTypeOK
  <2>1. inbox \in [Sessions -> Seq(Msgs)] /\ batch \in [Sessions -> Seq(Msgs)]
    BY <1>2
  <2>2. turn \in [Sessions -> Turn]
    BY <1>3
  <2>3. arrived \in [Msgs -> 0..2] /\ kind \in [Msgs -> Kinds \cup {"none"}]
    OBVIOUS
  <2>4. seen \subseteq Msgs /\ stored \subseteq Msgs /\ refused \subseteq Msgs
    OBVIOUS
  <2>. QED  BY <2>1, <2>2, <2>3, <2>4 DEF ChatTypeOK
<1>5. JobTypeOK
  BY <1>2 DEF JobTypeOK, Callers, JobStatuses, Stages
<1>6. StageOK /\ RemovedOK /\ TurnOK /\ QuietOK /\ QueuedOK /\ ListedIsWaiting
  BY DEF StageOK, RemovedOK, TurnOK, QuietOK, QueuedOK, ListedIsWaiting, Free, Init
<1>. QED  BY <1>1, <1>4, <1>5, <1>6 DEF DispatcherIInv

\* A job is created and submitted, or its row left behind by a closed queue.
LEMMA CreateJobOK ==
    ASSUME IInv, JobInv, NEW s, NEW i \in Items, NEW ms \in Seq(Msgs),
           NEW who \in Callers, CreateJob(i, s, ms, who),
           removed' = removed, unwanted' \subseteq Items
    PROVE  [Next]_vars /\ JobInv'
<1>. USE DEF JobInv, IInv, TypeOK, JobTypeOK, StageOK, RemovedOK, QuietOK,
         QueuedOK, ListedIsWaiting
<1>1. /\ status[i] = "none" /\ i \notin removed
      /\ contents' = [contents EXCEPT ![i] = ms]
      /\ status' = [status EXCEPT ![i] = "queued"]
      /\ stage' = stage /\ replies' = replies
  BY DEF CreateJob, Unused
<1>2. CASE closed
  <2>1. UNCHANGED vars /\ listed' = listed /\ caller' = [caller EXCEPT ![i] = "done"]
    BY <1>2 DEF CreateJob
  <2>2. place[i] # "queue"
    BY <1>2 DEF PlaceOK
  <2>. QED  BY <1>1, <2>1, <2>2 DEF Callers, JobStatuses, vars
<1>3. CASE ~closed
  <2>1. Submit(i) /\ listed' = listed \cup {i} /\ caller' = [caller EXCEPT ![i] = who]
    BY <1>3 DEF CreateJob
  <2>2. [Next]_vars
    BY <2>1 DEF Next
  <2>3. /\ place[i] = "none" /\ task[i] = "none" /\ task' = task
        /\ place' = [place EXCEPT ![i] = "queue"]
        /\ future' = [future EXCEPT ![i] = "pending"]
    BY <2>1 DEF Submit, PlaceOK
  <2>4. stage[i] = "none" /\ replies[i] = 0
    BY <2>3
  <2>. QED  BY <1>1, <2>1, <2>2, <2>3, <2>4 DEF Callers, JobStatuses
<1>. QED  BY <1>2, <1>3

\* /cancel marks the active task of the chat, if it is alive.
LEMMA CancelJobOK ==
    ASSUME IInv, JobInv, NEW s \in Sessions, CancelJob(s),
           removed' = removed, unwanted' \subseteq Items
    PROVE  [Next]_vars /\ JobInv'
<1>. USE DEF JobInv, IInv, TypeOK, JobTypeOK, StageOK, RemovedOK, QuietOK,
         QueuedOK, ListedIsWaiting
<1>. DEFINE i == active[s]
<1>1. UNCHANGED <<contents, caller, status, listed, replies>>
  BY DEF CancelJob
<1>2. CASE ~(i # NoItem /\ task[i] \in Live)
  BY <1>1, <1>2 DEF CancelJob, vars
<1>3. CASE i # NoItem /\ task[i] \in Live
  <2>1. Recancelled({i}) /\ i \in Items
    BY <1>3 DEF CancelJob
  <2>2. \A j \in Items : /\ stage'[j] \in {stage[j], "again"}
                         /\ stage'[j] = "again" => stage[j] \in {"undo", "again"}
    BY <2>1 DEF Recancelled
  <2>3. stage' \in [Items -> Stages]
    BY <2>1 DEF Recancelled, Stages
  <2>4. CASE task[i] = "running"
    <3>1. CancelActive(s)
      BY <1>3, <2>4 DEF CancelJob
    <3>2. /\ [Next]_vars /\ place' = place /\ future' = future
          /\ task' = [task EXCEPT ![i] = "cancelling"]
      BY <2>1, <2>4, <3>1 DEF CancelActive, CancelTasks, Next
    <3>. QED  BY <1>1, <2>2, <2>3, <2>4, <3>2
  <2>5. CASE task[i] # "running"
    <3>1. UNCHANGED vars
      BY <1>3, <2>5 DEF CancelJob
    <3>. QED  BY <1>1, <2>2, <2>3, <3>1 DEF vars
  <2>. QED  BY <2>4, <2>5
<1>. QED  BY <1>2, <1>3

\* The rest of what a message that was routed leaves behind.
ChatOK == /\ seen' \subseteq Msgs /\ stored' \subseteq Msgs /\ refused' \subseteq Msgs
          /\ batch' \in [Sessions -> Seq(Msgs)]
          /\ turn' \in [Sessions -> Turn]
          /\ TurnOK'

LEMMA ImmediateOK ==
    ASSUME IInv, JobInv, ChatTypeOK, TurnOK,
           NEW s \in Sessions, NEW m \in Msgs, Immediate(s, m),
           removed' = removed, unwanted' \subseteq Items
    PROVE  /\ [Next]_vars /\ JobInv'
           /\ stored' \subseteq Msgs /\ turn' \in [Sessions -> Turn] /\ TurnOK'
<1>. USE DEF ChatTypeOK, TurnOK
<1>1. Free \in Turn
  BY DEF Free, Turn
<1>2. CASE kind[m] = "ask"
  <2>1. PICK i \in Items :
          /\ CreateJob(i, s, <<m>>, "turn")
          /\ turn' = [turn EXCEPT ![s] =
               IF closed THEN Free ELSE [at |-> "submit", msg |-> m, job |-> i]]
    BY <1>2 DEF Immediate
  <2>2. stored' \subseteq Msgs
    BY <1>2 DEF Immediate
  <2>3. <<m>> \in Seq(Msgs) /\ "turn" \in Callers
    BY DEF Callers
  <2>4. [Next]_vars /\ JobInv'
    BY <2>1, <2>3, CreateJobOK
  <2>5. [at |-> "submit", msg |-> m, job |-> i] \in Turn
    BY DEF Turn
  <2>6. turn' \in [Sessions -> Turn] /\ TurnOK'
    BY <1>1, <2>1, <2>5 DEF Free
  <2>. QED  BY <2>2, <2>4, <2>6
<1>3. CASE kind[m] # "ask"
  <2>1. /\ CancelJob(s) /\ stored' = stored
        /\ turn' = [turn EXCEPT ![s] = Free]
    BY <1>3 DEF Immediate
  <2>2. [Next]_vars /\ JobInv'
    BY <2>1, CancelJobOK
  <2>3. turn' \in [Sessions -> Turn] /\ TurnOK'
    BY <1>1, <2>1 DEF Free
  <2>. QED  BY <2>1, <2>2, <2>3
<1>. QED  BY <1>2, <1>3

\* Nothing about the jobs or the queue changes.
LEMMA JobsUnchanged ==
    ASSUME JobInv, UNCHANGED <<vars, jobVars>>, removed' = removed,
           unwanted' \subseteq Items
    PROVE  [Next]_vars /\ JobInv'
BY DEF vars, jobVars, JobInv, JobTypeOK, StageOK, RemovedOK, QuietOK,
       QueuedOK, ListedIsWaiting

LEMMA CollectsOK ==
    ASSUME IInv, JobInv, ChatTypeOK, TurnOK,
           NEW s \in Sessions, NEW m \in Msgs, Collects(s, m),
           removed' = removed, unwanted' \subseteq Items, seen' \subseteq Msgs
    PROVE  [Next]_vars /\ JobInv' /\ ChatOK
<1>. USE DEF ChatTypeOK, TurnOK, ChatOK
<1>. DEFINE ms == Append(batch[s], m)
<1>1. Free \in Turn
  BY DEF Free, Turn
<1>2. ms \in Seq(Msgs) /\ stored' \subseteq Msgs
  BY DEF Collects
<1>3. SetOf(ms) \subseteq Msgs
  BY <1>2 DEF SetOf
<1>. HIDE DEF ms
<1>4. CASE BatchWindow
  <2>1. /\ batch' = [batch EXCEPT ![s] = ms] /\ turn' = [turn EXCEPT ![s] = Free]
        /\ UNCHANGED <<vars, jobVars, refused>>
    BY <1>4 DEF Collects, ms
  <2>2. [Next]_vars /\ JobInv'
    BY <2>1, JobsUnchanged
  <2>. QED  BY <1>1, <1>2, <2>1, <2>2 DEF Free
<1>5. CASE ~BatchWindow /\ turn' = [turn EXCEPT ![s] = Free] /\ UNCHANGED <<vars, jobVars>>
                       /\ (Drops(ms) \/ Refuses(ms)) /\ UNCHANGED batch
  <2>1. [Next]_vars /\ JobInv'
    BY <1>5, JobsUnchanged
  <2>2. refused' \subseteq Msgs
    BY <1>3, <1>5 DEF Drops, Refuses
  <2>. QED  BY <1>1, <1>2, <1>5, <2>1, <2>2 DEF Free
<1>6. ASSUME ~BatchWindow, Answers(ms), UNCHANGED batch, NEW i \in Items,
             CreateJob(i, s, ms, "turn"),
             turn' = [turn EXCEPT ![s] = [at |-> "submit", msg |-> m, job |-> i]]
      PROVE  [Next]_vars /\ JobInv' /\ ChatOK
  <2>1. "turn" \in Callers /\ [at |-> "submit", msg |-> m, job |-> i] \in Turn
    BY DEF Callers, Turn
  <2>2. [Next]_vars /\ JobInv'
    BY <1>2, <1>6, <2>1, CreateJobOK
  <2>3. refused' = refused
    BY <1>6 DEF Answers
  <2>. QED  BY <1>2, <1>6, <2>1, <2>2, <2>3
<1>. QED  BY <1>4, <1>5, <1>6 DEF Collects, ms

LEMMA CommandsOK ==
    ASSUME IInv, JobInv, ChatTypeOK, TurnOK,
           NEW s \in Sessions, NEW m \in Msgs, Commands(s, m),
           removed' = removed, unwanted' \subseteq Items, seen' \subseteq Msgs
    PROVE  [Next]_vars /\ JobInv' /\ ChatOK
<1>. USE DEF ChatTypeOK, ChatOK
<1>1. batch[s] \in Seq(Msgs) /\ SetOf(batch[s]) \subseteq Msgs
  BY DEF SetOf
<1>2. <<>> \in Seq(Msgs)
  OBVIOUS
<1>3. batch' \in [Sessions -> Seq(Msgs)]
  BY <1>2 DEF Commands
<1>4. CASE Immediate(s, m)
  <2>1. refused' \subseteq Msgs
    BY <1>1 DEF Commands, Drops, Refuses, Answers
  <2>. QED  BY <1>3, <1>4, <2>1, ImmediateOK
<1>5. ASSUME Answers(batch[s]), NEW i \in Items,
             CreateJob(i, s, batch[s], "turn"), UNCHANGED stored,
             turn' = [turn EXCEPT ![s] = [at |-> "flush", msg |-> m, job |-> i]]
      PROVE  [Next]_vars /\ JobInv' /\ ChatOK
  <2>1. "turn" \in Callers /\ [at |-> "flush", msg |-> m, job |-> i] \in Turn
    BY DEF Callers, Turn
  <2>2. [Next]_vars /\ JobInv'
    BY <1>1, <1>5, <2>1, CreateJobOK
  <2>3. refused' = refused
    BY <1>5 DEF Answers
  <2>. QED  BY <1>3, <1>5, <2>1, <2>2, <2>3 DEF TurnOK
<1>. QED  BY <1>4, <1>5 DEF Commands

LEMMA RouteOK ==
    ASSUME DispatcherIInv, NEW s \in Sessions, NEW m \in Msgs, Route(s, m),
           removed' = removed
    PROVE  [Next]_vars /\ JobInv' /\ ChatOK
<1>. USE DEF DispatcherIInv
<1>1. JobInv
  BY DEF JobInv
<1>2. CASE /\ turn' = [turn EXCEPT ![s] = Free]
           /\ UNCHANGED <<vars, seen, stored, batch, refused, jobVars, unwanted>>
  <2>1. [Next]_vars /\ JobInv'
    BY <1>1, <1>2, JobsUnchanged DEF JobTypeOK
  <2>. QED  BY <1>2, <2>1 DEF ChatOK, ChatTypeOK, TurnOK, Free, Turn
<1>3. CASE /\ seen' = seen \cup {m}
           /\ unwanted' = IF kind[m] = "cancel" THEN unwanted \cup Asked(s) ELSE unwanted
           /\ Collects(s, m) \/ Commands(s, m)
  <2>1. seen' \subseteq Msgs /\ unwanted' \subseteq Items
    BY <1>3 DEF ChatTypeOK, JobTypeOK, Asked
  <2>. QED  BY <1>1, <1>3, <2>1, CollectsOK, CommandsOK
<1>. QED  BY <1>2, <1>3 DEF Route

\* The task of a job ends the way the queue allows.
LEMMA EndsOK ==
    ASSUME IInv, NEW i \in Items, NEW e \in Ended, task[i] \in Live,
           e = "aborted" => task[i] = "cancelling", Ends(i, e)
    PROVE  /\ [Next]_vars /\ place' = place /\ future' = future
           /\ task' = [task EXCEPT ![i] = e]
<1>1. TaskEnds(i)
  BY DEF Ends, TaskEnds, Live, Ended
<1>. QED  BY <1>1 DEF Ends, Next

\* Steps of the task of a job that is alive.
LEMMA JobStepOK ==
    ASSUME IInv, JobInv, NEW i \in Items, JobStep(i)
    PROVE  [Next]_vars /\ JobInv'
<1>. USE DEF JobInv, IInv, TypeOK, JobTypeOK, StageOK, RemovedOK, QuietOK,
         QueuedOK, ListedIsWaiting
<1>1. /\ task[i] \in Live /\ UNCHANGED <<contents, caller, removed, unwanted>>
      /\ i \notin removed /\ place[i] = "active"
  BY DEF JobStep, JobBegins, JobNeverBegins, AgentAnswers, AgentFails, SendsOn,
         CancelSeen, AgentTimesOut, Undone, TimedOut, Executes, Live, PlaceOK
\* It changes the row of its own job only, and sends nothing while listed.
<1>. DEFINE OwnOnly ==
       /\ status' \in [Items -> JobStatuses] /\ stage' \in [Items -> Stages]
       /\ replies' \in [Items -> 0..MaxReplies]
       /\ \A j \in Items \ {i} : /\ status'[j] = status[j] /\ stage'[j] = stage[j]
                                 /\ replies'[j] = replies[j]
       /\ listed' \subseteq Items
       /\ \A j \in Items \ {i} : j \in listed' <=> j \in listed
       /\ i \in listed' => stage'[i] = "none" /\ replies'[i] = 0
<1>2. ASSUME OwnOnly, NEW e \in Ended, Ends(i, e), stage'[i] = "none",
             e = "aborted" => task[i] = "cancelling"
      PROVE  [Next]_vars /\ JobInv'
  <2>1. /\ [Next]_vars /\ place' = place /\ future' = future
        /\ task' = [task EXCEPT ![i] = e]
    BY <1>1, <1>2, EndsOK
  <2>. QED  BY <1>1, <1>2, <2>1 DEF Ended
<1>3. ASSUME OwnOnly, UNCHANGED vars,
             stage'[i] \in {"undo", "again"} => task[i] = "cancelling"
      PROVE  [Next]_vars /\ JobInv'
  BY <1>1, <1>3 DEF vars, Live
<1>. USE DEF JobStatuses, Final, Stages, Ended, Live
<1>4. CASE JobBegins(i)
  <2>1. OwnOnly
    BY <1>4, ZenonT(30) DEF JobBegins
  <2>. HIDE DEF OwnOnly
  <2>2. \/ UNCHANGED vars /\ stage'[i] = "agent"
        \/ Ends(i, "raised") /\ stage'[i] = "none"
    BY <1>4 DEF JobBegins
  <2>. QED  BY <1>2, <1>3, <2>1, <2>2
<1>5. CASE JobNeverBegins(i)
  <2>1. OwnOnly /\ stage'[i] = "none"
    BY <1>5 DEF JobNeverBegins
  <2>. QED  BY <1>2, <1>5, <2>1 DEF JobNeverBegins
<1>6. CASE AgentAnswers(i)
  <2>1. /\ MaxReplies \in 0..MaxReplies
        /\ \A k \in 0..(MaxReplies - 1) : k \in 0..MaxReplies
        /\ \A k \in 0..MaxReplies : (k + 1)..(MaxReplies - 1) \subseteq 0..MaxReplies
    BY DispatcherAssumption
  <2>2. /\ replies' \in [Items -> 0..MaxReplies]
        /\ \A j \in Items \ {i} : replies'[j] = replies[j]
    BY <1>6, <2>1 DEF AgentAnswers
  <2>3. /\ status' \in [Items -> JobStatuses] /\ stage' \in [Items -> Stages]
        /\ \A j \in Items \ {i} : status'[j] = status[j] /\ stage'[j] = stage[j]
        /\ listed' = listed /\ i \notin listed
    BY <1>6 DEF AgentAnswers
  <2>4. OwnOnly
    BY <2>2, <2>3
  <2>. HIDE DEF OwnOnly
  <2>5. \/ UNCHANGED vars /\ stage'[i] = "sending"
        \/ Ends(i, "returned") /\ stage'[i] = "none"
    BY <1>6 DEF AgentAnswers
  <2>. QED  BY <1>2, <1>3, <2>4, <2>5
<1>7. CASE AgentFails(i)
  <2>1. OwnOnly /\ stage'[i] = "none"
    BY <1>7 DEF AgentFails
  <2>. QED  BY <1>2, <1>7, <2>1 DEF AgentFails
<1>8. CASE SendsOn(i)
  <2>1. /\ MaxReplies \in 0..MaxReplies
        /\ \A k \in 0..(MaxReplies - 1) : k \in 0..MaxReplies
        /\ \A k \in 0..MaxReplies : (k + 1)..(MaxReplies - 1) \subseteq 0..MaxReplies
    BY DispatcherAssumption
  <2>2. /\ replies' \in [Items -> 0..MaxReplies]
        /\ \A j \in Items \ {i} : replies'[j] = replies[j]
    BY <1>8, <2>1 DEF SendsOn
  <2>3. /\ status' \in [Items -> JobStatuses] /\ stage' \in [Items -> Stages]
        /\ \A j \in Items \ {i} : status'[j] = status[j] /\ stage'[j] = stage[j]
        /\ listed' = listed /\ i \notin listed
    BY <1>8, ZenonT(30) DEF SendsOn
  <2>4. OwnOnly
    BY <2>2, <2>3
  <2>. HIDE DEF OwnOnly
  <2>5. \/ UNCHANGED vars /\ stage'[i] = "sending"
        \/ Ends(i, "returned") /\ stage'[i] = "none"
    BY <1>8 DEF SendsOn
  <2>. QED  BY <1>2, <1>3, <2>4, <2>5
<1>9. CASE CancelSeen(i)
  <2>1. OwnOnly
    BY <1>9 DEF CancelSeen
  <2>. QED  BY <1>3, <1>9, <2>1 DEF CancelSeen
<1>10. CASE AgentTimesOut(i)
  <2>1. OwnOnly /\ stage'[i] = "timeout"
    BY <1>10 DEF AgentTimesOut
  <2>. QED  BY <1>3, <1>10, <2>1 DEF AgentTimesOut
<1>11. CASE Undone(i)
  <2>1. OwnOnly /\ stage'[i] = "none" /\ task[i] = "cancelling"
    BY <1>11 DEF Undone
  <2>. HIDE DEF OwnOnly
  <2>2. Ends(i, "aborted") \/ Ends(i, "raised")
    BY <1>11 DEF Undone
  <2>. QED  BY <1>2, <2>1, <2>2
<1>12. CASE TimedOut(i)
  <2>1. OwnOnly /\ stage'[i] = "none"
    BY <1>12 DEF TimedOut
  <2>. HIDE DEF OwnOnly
  <2>2. \/ Ends(i, "returned") \/ Ends(i, "raised")
        \/ Ends(i, "aborted") /\ task[i] = "cancelling"
    BY <1>12 DEF TimedOut
  <2>. QED  BY <1>2, <2>1, <2>2
<1>. QED
  BY <1>4, <1>5, <1>6, <1>7, <1>8, <1>9, <1>10, <1>11, <1>12 DEF JobStep

\* The submitting task resumes.
LEMMA ResumesOK ==
    ASSUME DispatcherIInv, NEW i \in Items, CallerResumes(i)
    PROVE  [Next]_vars /\ JobInv' /\ ChatTypeOK' /\ TurnOK'
<1>. USE DEF DispatcherIInv
<1>1. /\ UNCHANGED <<vars, up, stopping, arrived, kind, inbox, seen, stored,
                     batch, refused, contents, stage, replies, removed, unwanted>>
      /\ future[i] # "pending"
      /\ caller' = [caller EXCEPT ![i] = "done"]
      /\ listed' = listed \ {i}
      /\ status' = [status EXCEPT ![i] = IF future[i] = "cancelled" THEN "cancelled"
                                         ELSE status[i]]
  BY DEF CallerResumes, Resumed
<1>2. JobInv'
  <2>1. /\ status' \in [Items -> JobStatuses] /\ caller' \in [Items -> Callers]
        /\ \A j \in Items : status[j] = "cancelled" => status'[j] = "cancelled"
    BY <1>1 DEF JobTypeOK, JobStatuses, Final, Callers
  <2>2. UNCHANGED <<place, future, task>>
    BY <1>1 DEF vars
  <2>. QED
    BY <1>1, <2>1, <2>2 DEF JobInv, JobTypeOK, StageOK, RemovedOK, QuietOK,
                            QueuedOK, ListedIsWaiting
<1>3. turn' \in [Sessions -> Turn] /\ TurnOK'
  <2>1. turn' = [s \in Sessions |->
                  IF turn[s].job # i THEN turn[s]
                  ELSE IF turn[s].at = "flush" /\ future[i] # "exception"
                  THEN [at |-> "flushed", msg |-> turn[s].msg, job |-> NoItem]
                  ELSE Free]
    BY DEF CallerResumes, Resumed
  <2>2. ASSUME NEW s \in Sessions
        PROVE  turn'[s] \in Turn /\ (turn'[s].at # "free" => turn'[s].msg \in Msgs)
    <3>1. turn[s] \in Turn /\ (turn[s].at # "free" => turn[s].msg \in Msgs)
      BY DEF ChatTypeOK, TurnOK
    <3>. QED  BY <2>1, <3>1 DEF Turn, Free
  <2>. QED  BY <2>1, <2>2 DEF TurnOK
<1>. QED  BY <1>1, <1>2, <1>3 DEF ChatTypeOK

\* The queue's own steps.
LEMMA QueueStepOK ==
    ASSUME IInv, JobInv, NEW s \in Sessions, WorkerStep(s),
           UNCHANGED <<jobVars, removed, unwanted>>
    PROVE  [Next]_vars /\ JobInv'
<1>. USE DEF JobInv, IInv, TypeOK, JobTypeOK, StageOK, RemovedOK, QuietOK,
         QueuedOK, ListedIsWaiting
<1>1. [Next]_vars
  BY DEF Next
\* A worker only takes items out of the queue, and settles futures of others.
<1>. DEFINE Keeps ==
       /\ \A i \in Items : task[i] # "none" => task'[i] = task[i]
       /\ \A i \in Items : task'[i] = "none" => task[i] = "none"
       /\ \A i \in Items : place'[i] = "queue" => /\ place[i] = "queue"
                                                  /\ future'[i] = future[i]
       /\ \A i \in removed : UNCHANGED <<place[i], task[i], future[i]>>
<1>2. Keeps
  <2>. USE DEF PlaceOK, WorkerOK
  <2>1. ASSUME NEW i \in Items, WorkerSkips(s, i) PROVE Keeps
    BY <2>1 DEF WorkerSkips
  <2>2. ASSUME NEW i \in Items, WorkerStarts(s, i) \/ WorkerAdmitted(s, i)
        PROVE Keeps
    BY <2>2 DEF WorkerStarts, WorkerAdmitted, Launch, IsHead
  <2>3. ASSUME NEW i \in Items, WorkerBlocks(s, i) PROVE Keeps
    BY <2>3 DEF WorkerBlocks, IsHead
  <2>4. ASSUME NEW i \in Items, WorkerDiscards(s, i) PROVE Keeps
    BY <2>4 DEF WorkerDiscards, Discarded, CancelFutures
  <2>5. CASE WorkerCollects(s)
    <3>1. active[s] \in Items /\ place[active[s]] = "active"
      BY <2>5 DEF WorkerCollects, Collected
    <3>. QED  BY <2>5, <3>1 DEF WorkerCollects, Collected
  <2>6. CASE WorkerStops(s)
    BY <2>6 DEF WorkerStops
  <2>. QED  BY <2>1, <2>2, <2>3, <2>4, <2>5, <2>6 DEF WorkerStep
<1>3. UNCHANGED <<contents, caller, status, listed, stage, replies>>
  BY DEF jobVars
<1>. QED  BY <1>1, <1>2, <1>3, IInvStep

\* The chat's side of the invariant, when only jobs and the queue change.
LEMMA ChatUnchanged ==
    ASSUME DispatcherIInv, up' \in BOOLEAN, UNCHANGED <<stopping, chatVars>>
    PROVE  ChatTypeOK' /\ TurnOK'
BY DEF DispatcherIInv, ChatTypeOK, TurnOK, chatVars

\* Every step of the dispatcher is a step of the queue or leaves the queue
\* alone, and keeps the invariant.
LEMMA DispatcherStepOK ==
    ASSUME DispatcherIInv, DispatcherNext
    PROVE  [Next]_vars /\ JobInv' /\ ChatTypeOK' /\ TurnOK'
<1>1. JobInv /\ IInv /\ ChatTypeOK /\ TurnOK
  BY DEF DispatcherIInv, JobInv
<1>2. ASSUME NEW m \in Msgs, Receive(m)
      PROVE  [Next]_vars /\ JobInv' /\ ChatTypeOK' /\ TurnOK'
  <2>1. [Next]_vars /\ JobInv'
    BY <1>1, <1>2, JobsUnchanged DEF Receive, JobInv, JobTypeOK
  <2>2. inbox' \in [Sessions -> Seq(Msgs)]
    <3>1. ChatOf[m] \in Sessions
      BY DispatcherAssumption
    <3>2. Append(inbox[ChatOf[m]], m) \in Seq(Msgs)
      BY <1>1, <3>1 DEF ChatTypeOK
    <3>. QED  BY <1>1, <1>2, <3>2 DEF Receive, ChatTypeOK
  <2>3. arrived' \in [Msgs -> 0..2]
    BY <1>1, <1>2, DispatcherAssumption DEF Receive, ChatTypeOK
  <2>4. kind' \in [Msgs -> Kinds \cup {"none"}]
    BY <1>1, <1>2 DEF Receive, ChatTypeOK
  <2>. QED
    BY <1>1, <1>2, <2>1, <2>2, <2>3, <2>4 DEF Receive, ChatTypeOK, TurnOK
<1>3. ASSUME NEW s \in Sessions, TakesTurn(s)
      PROVE  [Next]_vars /\ JobInv' /\ ChatTypeOK' /\ TurnOK'
  <2>. DEFINE m == Head(inbox[s])
  <2>1. m \in Msgs /\ Tail(inbox[s]) \in Seq(Msgs)
    BY <1>1, <1>3 DEF TakesTurn, ChatTypeOK
  <2>2. /\ inbox' \in [Sessions -> Seq(Msgs)]
        /\ UNCHANGED <<up, stopping, arrived, kind, removed>>
    BY <1>1, <1>3, <2>1 DEF TakesTurn, ChatTypeOK
  <2>3. CASE /\ turn' = [turn EXCEPT ![s] = [at |-> "hydrate", msg |-> m, job |-> NoItem]]
             /\ UNCHANGED <<vars, seen, stored, batch, refused, jobVars, unwanted>>
    <3>1. [Next]_vars /\ JobInv'
      BY <1>1, <2>2, <2>3, JobsUnchanged DEF JobInv, JobTypeOK
    <3>2. [at |-> "hydrate", msg |-> m, job |-> NoItem] \in Turn
      BY <2>1 DEF Turn
    <3>. QED  BY <1>1, <2>1, <2>2, <2>3, <3>1, <3>2 DEF ChatTypeOK, TurnOK
  <2>4. CASE Route(s, m)
    BY <1>1, <2>1, <2>2, <2>4, RouteOK DEF ChatOK, ChatTypeOK
  <2>. QED  BY <1>3, <2>3, <2>4 DEF TakesTurn
<1>4. ASSUME NEW s \in Sessions, Hydrated(s)
      PROVE  [Next]_vars /\ JobInv' /\ ChatTypeOK' /\ TurnOK'
  <2>1. turn[s].msg \in Msgs /\ Route(s, turn[s].msg)
        /\ UNCHANGED <<up, stopping, arrived, kind, inbox, removed>>
    BY <1>1, <1>4 DEF Hydrated, TurnOK
  <2>. QED  BY <1>1, <2>1, RouteOK DEF ChatOK, ChatTypeOK
<1>5. ASSUME NEW s \in Sessions, TimerSeals(s)
      PROVE  [Next]_vars /\ JobInv' /\ ChatTypeOK' /\ TurnOK'
  <2>1. batch[s] \in Seq(Msgs) /\ SetOf(batch[s]) \subseteq Msgs /\ <<>> \in Seq(Msgs)
    BY <1>1 DEF SetOf, ChatTypeOK
  <2>2. ChatTypeOK' /\ TurnOK'
    BY <1>1, <1>5, <2>1
    DEF TimerSeals, ChatTypeOK, TurnOK, Drops, Refuses, Answers
  <2>3. CASE UNCHANGED <<vars, jobVars>>
    BY <1>1, <1>5, <2>2, <2>3, JobsUnchanged DEF TimerSeals, JobInv, JobTypeOK
  <2>4. ASSUME NEW i \in Items, CreateJob(i, s, batch[s], "timer")
        PROVE  [Next]_vars /\ JobInv'
    BY <1>1, <1>5, <2>1, <2>4, CreateJobOK
    DEF TimerSeals, JobInv, JobTypeOK, Callers
  <2>. QED  BY <1>5, <2>2, <2>3, <2>4 DEF TimerSeals
<1>6. ASSUME NEW s \in Sessions, Flushed(s)
      PROVE  [Next]_vars /\ JobInv' /\ ChatTypeOK' /\ TurnOK'
  <2>1. /\ turn[s].msg \in Msgs /\ Immediate(s, turn[s].msg)
        /\ UNCHANGED <<up, stopping, arrived, kind, inbox, seen, batch, refused,
                       removed, unwanted>>
    BY <1>1, <1>6 DEF Flushed, TurnOK
  <2>2. unwanted' \subseteq Items
    BY <1>1, <2>1 DEF JobInv, JobTypeOK
  <2>. QED  BY <1>1, <2>1, <2>2, ImmediateOK DEF ChatTypeOK
<1>7. ASSUME NEW s \in Sessions, ClearJobs(s)
      PROVE  [Next]_vars /\ JobInv' /\ ChatTypeOK' /\ TurnOK'
  <2>1. Queued(s) \cap listed = Queued(s)
    BY <1>1 DEF Queued, JobInv, QueuedOK
  <2>2. ClearQueued(s)
    BY <1>7, <2>1 DEF ClearJobs, ClearQueued
  <2>3. JobInv'
    BY <1>1, <1>7
    DEF ClearJobs, CancelFutures, Queued, JobInv, IInv, TypeOK, JobTypeOK, StageOK,
        RemovedOK, QuietOK, QueuedOK, ListedIsWaiting, PlaceOK, JobStatuses, Final
  <2>. QED
    BY <1>1, <1>7, <2>2, <2>3, ChatUnchanged DEF ClearJobs, Next, ChatTypeOK
<1>8. ASSUME NEW i \in Items, CallerResumes(i)
      PROVE  [Next]_vars /\ JobInv' /\ ChatTypeOK' /\ TurnOK'
  BY <1>8, ResumesOK
<1>9. ASSUME NEW i \in Items, JobStep(i)
      PROVE  [Next]_vars /\ JobInv' /\ ChatTypeOK' /\ TurnOK'
  <2>1. UNCHANGED <<up, stopping, chatVars>>
    BY <1>9 DEF JobStep, JobBegins, JobNeverBegins, AgentAnswers, AgentFails,
                SendsOn, CancelSeen, AgentTimesOut, Undone, TimedOut, Executes
  <2>. QED  BY <1>1, <1>9, <2>1, JobStepOK, ChatUnchanged DEF ChatTypeOK
<1>10. ASSUME NEW i \in Items, RemoveJob(i)
       PROVE  [Next]_vars /\ JobInv' /\ ChatTypeOK' /\ TurnOK'
  <2>1. JobInv'
    BY <1>1, <1>10
    DEF RemoveJob, RemoveQueued, CancelFutures, JobInv, IInv, TypeOK, JobTypeOK,
        StageOK, RemovedOK, QuietOK, QueuedOK, ListedIsWaiting, PlaceOK,
        JobStatuses, Final
  <2>. QED  BY <1>1, <1>10, <2>1, ChatUnchanged DEF RemoveJob, Next, ChatTypeOK
<1>11. CASE QueueStep
  BY <1>1, <1>11, QueueStepOK, ChatUnchanged DEF QueueStep, chatVars, ChatTypeOK
<1>12. CASE DispatcherCloses
  <2>1. [Next]_vars /\ JobInv'
    BY <1>1, <1>12, JobsUnchanged DEF DispatcherCloses, JobInv, JobTypeOK
  <2>2. <<>> \in Seq(Msgs)
    OBVIOUS
  <2>. QED  BY <1>1, <1>12, <2>1, <2>2 DEF DispatcherCloses, ChatTypeOK, TurnOK
<1>13. CASE QueueCloses
  <2>1. [Next]_vars
    BY <1>13 DEF QueueCloses, Next
  <2>2. /\ stage' \in [Items -> Stages]
        /\ \A j \in Items : /\ stage'[j] \in {stage[j], "again"}
                            /\ stage'[j] = "again" => stage[j] \in {"undo", "again"}
    BY <1>1, <1>13 DEF QueueCloses, Recancelled, JobInv, JobTypeOK, Stages
  <2>3. JobInv'
    BY <1>1, <1>13, <2>2
    DEF QueueCloses, Close, CancelTasks, CancelFutures, JobInv, IInv, TypeOK,
        JobTypeOK, StageOK, RemovedOK, QuietOK, QueuedOK, ListedIsWaiting, PlaceOK
  <2>. QED  BY <1>1, <1>13, <2>1, <2>3, ChatUnchanged DEF QueueCloses, ChatTypeOK
<1>14. CASE QueueClosed
  <2>1. [Next]_vars
    BY <1>14 DEF QueueClosed, Next
  <2>2. JobInv'
    BY <1>1, <1>14
    DEF QueueClosed, CloseReturns, jobVars, JobInv, JobTypeOK, StageOK, RemovedOK,
        QuietOK, QueuedOK, ListedIsWaiting
  <2>. QED  BY <1>1, <1>14, <2>1, <2>2, ChatUnchanged DEF QueueClosed, ChatTypeOK
<1>15. CASE Restart
  <2>1. JobInv'
    BY <1>1, <1>15
    DEF Restart, vars, JobInv, JobTypeOK, StageOK, RemovedOK, QuietOK, QueuedOK,
        ListedIsWaiting, JobStatuses, Final
  <2>. QED  BY <1>1, <1>15, <2>1, ChatUnchanged DEF Restart, vars
<1>. QED
  BY <1>2, <1>3, <1>4, <1>5, <1>6, <1>7, <1>8, <1>9, <1>10, <1>11, <1>12, <1>13,
     <1>14, <1>15 DEF DispatcherNext, ChatStep

LEMMA DispatcherIInvStep ==
    DispatcherIInv /\ [DispatcherNext]_dispatcherVars
    => DispatcherIInv' /\ [Next]_vars
<1>. SUFFICES ASSUME DispatcherIInv, [DispatcherNext]_dispatcherVars
              PROVE  DispatcherIInv' /\ [Next]_vars
  OBVIOUS
<1>1. CASE DispatcherNext
  <2>1. [Next]_vars /\ JobInv' /\ ChatTypeOK' /\ TurnOK'
    BY <1>1, DispatcherStepOK
  <2>2. IInv'
    BY <2>1, IInvStep DEF DispatcherIInv
  <2>. QED  BY <2>1, <2>2 DEF DispatcherIInv, JobInv
<1>2. CASE UNCHANGED dispatcherVars
  <2>1. UNCHANGED vars /\ UNCHANGED <<vars, jobVars>> /\ UNCHANGED <<stopping, chatVars>>
        /\ up' = up /\ removed' = removed /\ unwanted' = unwanted
    BY <1>2 DEF dispatcherVars
  <2>2. IInv'
    BY <2>1, IInvStep DEF DispatcherIInv
  <2>3. JobInv'
    BY <2>1, JobsUnchanged DEF DispatcherIInv, JobInv, JobTypeOK
  <2>4. ChatTypeOK' /\ TurnOK'
    BY <2>1, ChatUnchanged DEF DispatcherIInv, ChatTypeOK
  <2>. QED  BY <2>1, <2>2, <2>3, <2>4 DEF DispatcherIInv, JobInv
<1>. QED  BY <1>1, <1>2

-----------------------------------------------------------------------------

\* The inductive invariant of the dispatcher and its queue holds.
THEOREM DispatcherInvariance == DispatcherSpec => []DispatcherIInv
<1>. QED
  BY DispatcherInitIInv, DispatcherIInvStep, PTL DEF DispatcherSpec

\* Every variable of the dispatcher keeps its type, with any number of chats,
\* messages, jobs and reply parts.
THEOREM DispatcherTypes == DispatcherSpec => []DispatcherTypeOK
<1>1. DispatcherIInv => DispatcherTypeOK
  BY DEF DispatcherIInv, DispatcherTypeOK, IInv
<1>. QED  BY <1>1, DispatcherInvariance, PTL

\* The dispatcher drives the queue only in ways its specification allows:
\* every theorem about the queue is one about the composition.
THEOREM KeepsContract == DispatcherSpec => QueueContract
<1>1. DispatcherInit => Init
  BY DEF DispatcherInit
<1>. QED
  BY <1>1, DispatcherInvariance, DispatcherIInvStep, PTL
  DEF DispatcherSpec, QueueContract, Spec

\* So the jobs of a chat run one at a time, never more of all chats than
\* max_concurrency, and the whole is a serial executor.
THEOREM DispatcherIsSerial ==
    DispatcherSpec => []SerialPerSession /\ []ConcurrencyBound /\ ImplementsExecutor
<1>. QED
  BY KeepsContract, Serial, Bounded, Refinement, PTL DEF QueueContract

\* Nothing is handed to the channel once the queue's close() has returned.
THEOREM SilentAfterClose == DispatcherSpec => NoLateReply
<1>1. CloseQuiescent /\ [DispatcherNext]_dispatcherVars
      => [joined => replies' = replies]_dispatcherVars
  <2>. SUFFICES ASSUME CloseQuiescent, [DispatcherNext]_dispatcherVars, joined
                PROVE  replies' = replies
    OBVIOUS
  <2>1. \A i \in Items : ~JobStep(i)
    BY DEF CloseQuiescent, JobStep, JobBegins, JobNeverBegins, AgentAnswers,
           AgentFails, SendsOn, CancelSeen, AgentTimesOut, Undone, TimedOut, Executes
  <2>. USE DEF jobVars, CreateJob, CancelJob
  <2>2. ASSUME NEW s \in Sessions, NEW m, Route(s, m) PROVE replies' = replies
    BY <2>2 DEF Route, Collects, Commands, Immediate
  <2>3. ASSUME NEW s \in Sessions, ChatStep(s) \/ ClearJobs(s) PROVE replies' = replies
    BY <2>2, <2>3 DEF ChatStep, TakesTurn, Hydrated, TimerSeals, Flushed, Immediate,
                      ClearJobs
  <2>4. ASSUME NEW i \in Items, CallerResumes(i) \/ RemoveJob(i) PROVE replies' = replies
    BY <2>4 DEF CallerResumes, Resumed, RemoveJob
  <2>5. ASSUME \/ \E m \in Msgs : Receive(m)
               \/ QueueStep \/ DispatcherCloses \/ QueueCloses \/ QueueClosed \/ Restart
        PROVE  replies' = replies
    BY <2>5 DEF Receive, QueueStep, DispatcherCloses, QueueCloses, QueueClosed, Restart
  <2>. QED  BY <2>1, <2>3, <2>4, <2>5 DEF DispatcherNext, dispatcherVars
<1>. QED
  BY <1>1, KeepsContract, QuiescentWhenClosed, PTL
  DEF DispatcherSpec, NoLateReply, QueueContract
-----------------------------------------------------------------------------
(* The rows of the jobs, and the order of the messages. *)

\* What the row of a job, its caller, its future and its task say of each
\* other: a job nobody works on has a row nobody has to change.
RowOK(i) ==
    /\ status[i] = "none" <=> caller[i] = "none"
    /\ status[i] = "none" => contents[i] = <<>> /\ place[i] = "none"
    /\ place[i] = "none" <=> future[i] = "none"
    /\ caller[i] \in {"timer", "turn"} => future[i] # "none"
    /\ future[i] = "cancelled" => place[i] = "gone"
    /\ task[i] = "returned" \/ stage[i] = "sending" => status[i] \in Final
    /\ caller[i] = "done" =>
          /\ future[i] # "pending"
          /\ future[i] = "none" => closed /\ status[i] \in {"queued", "interrupted"}
          /\ future[i] = "cancelled" => status[i] \in Final

\* The jobs of a chat are used one after the other, and submitted so.
UsedOK ==
    \A i, j \in Items : SessionOf[i] = SessionOf[j] /\ i < j =>
       /\ status[i] = "none" => status[j] = "none"
       /\ ticket[i] # 0 /\ ticket[j] # 0 => ticket[i] < ticket[j]

\* m is one of the messages a job of chat s answers.
Answered(s, m) == \E i \in Items : SessionOf[i] = s /\ m \in SetOf(contents[i])

Ascending(ms) == \A k, l \in DOMAIN ms : k < l => ms[k] < ms[l]

\* What jobs answer was seen, each message once, and in order; the batch of
\* the chat comes after it, and after that the command that sealed the batch.
ContentsOK ==
    /\ \A i \in Items : /\ Ascending(contents[i])
                        /\ \A m \in SetOf(contents[i]) :
                              m \in seen /\ ChatOf[m] = SessionOf[i]
    /\ \A i, j \in Items : SessionOf[i] = SessionOf[j] /\ i < j =>
          \A m \in SetOf(contents[i]), n \in SetOf(contents[j]) : m < n

BatchOK(s) ==
    /\ ~BatchWindow => batch[s] = <<>>
    /\ Ascending(batch[s])
    /\ \A n \in SetOf(batch[s]) :
          /\ n \in seen /\ ChatOf[n] = s
          /\ \A m \in Msgs : Answered(s, m) => m < n

CommandOK(s) ==
    /\ turn[s].at # "free" => ChatOf[turn[s].msg] = s
    /\ turn[s].at = "hydrate" => turn[s].job = NoItem
    /\ turn[s].at \in {"flush", "flushed"} =>
          /\ turn[s].msg \in seen /\ batch[s] = <<>>
          /\ \A m \in Msgs : Answered(s, m) => m < turn[s].msg

\* The message of a chat that is being decoded.
Decoding(s, m) == turn[s].at = "hydrate" /\ turn[s].msg = m

\* No message overtakes an older one of its chat on the way to the lock: what
\* is older was seen, is being decoded, or is in front.
SeenOK == \A m \in seen, k \in Msgs :
             ChatOf[k] = ChatOf[m] /\ k < m => k \in seen

LineOK(s) ==
    /\ \A l \in DOMAIN inbox[s] : ChatOf[inbox[s][l]] = s
    /\ ~stopping =>
          /\ \A k \in Msgs : turn[s].at = "hydrate" /\ ChatOf[k] = s
                             /\ k < turn[s].msg => k \in seen
          /\ \A k \in Msgs : ChatOf[k] = s /\ arrived[k] > 0 =>
                \/ k \in seen \/ Decoding(s, k)
                \/ \E j \in DOMAIN inbox[s] : inbox[s][j] = k
          /\ \A l \in DOMAIN inbox[s], k \in Msgs :
                ChatOf[k] = s /\ k < inbox[s][l] =>
                \/ k \in seen \/ Decoding(s, k)
                \/ \E j \in DOMAIN inbox[s] : j < l /\ inbox[s][j] = k

Rows == /\ \A i \in Items : RowOK(i)
        /\ UsedOK

Messages == /\ ContentsOK /\ SeenOK
            /\ \A s \in Sessions : BatchOK(s) /\ CommandOK(s) /\ LineOK(s)

OrderIInv == Rows /\ Messages

\* What a step of the queue that submits nothing does to an item.
QueueKeeps(i) ==
    /\ ticket'[i] = ticket[i]
    /\ place'[i] = "none" <=> place[i] = "none"
    /\ place[i] = "gone" => place'[i] = "gone"
    /\ future[i] # "pending" => future'[i] = future[i]
    /\ future[i] = "pending" => future'[i] # "none"
    /\ future'[i] = "cancelled" => future[i] = "cancelled" \/ place'[i] = "gone"
    /\ task'[i] = "returned" => task[i] = "returned"

\* The least unused job of the chat is taken, and becomes its newest.
LEMMA CreateRows ==
    ASSUME DispatcherIInv, Rows, NEW s \in Sessions, NEW i \in Items, NEW ms,
           NEW who \in {"timer", "turn"}, CreateJob(i, s, ms, who)
    PROVE  /\ Rows'
           /\ SessionOf[i] = s /\ contents[i] = <<>>
           /\ \A j \in Items : SessionOf[j] = s /\ i < j => contents[j] = <<>>
<1>. USE DispatcherAssumption
     DEF DispatcherIInv, IInv, TypeOK, JobTypeOK, Rows, RowOK, UsedOK
<1>1. /\ SessionOf[i] = s /\ status[i] = "none" /\ contents[i] = <<>>
      /\ \A j \in Items : SessionOf[j] = s /\ status[j] = "none" => i <= j
      /\ \A j \in Items : SessionOf[j] = s /\ i < j => status[j] = "none"
      /\ status' = [status EXCEPT ![i] = "queued"]
      /\ contents' = [contents EXCEPT ![i] = ms]
      /\ stage' = stage
  BY DEF CreateJob, Unused
<1>2. \A j \in Items : status[j] = "none" => ticket[j] = 0 /\ task[j] = "none"
  BY DEF PlaceOK
<1>3. /\ place[i] = "none" /\ future[i] = "none" /\ task[i] = "none"
      /\ stage[i] = "none"
  BY <1>1, <1>2 DEF QuietOK
<1>4. CASE closed
  <2>1. UNCHANGED vars /\ caller' = [caller EXCEPT ![i] = "done"]
    BY <1>4 DEF CreateJob
  <2>. QED  BY <1>1, <1>2, <1>3, <1>4, <2>1 DEF vars
<1>5. CASE ~closed
  <2>1. Submit(i) /\ caller' = [caller EXCEPT ![i] = who]
    BY <1>5 DEF CreateJob
  <2>2. /\ place' = [place EXCEPT ![i] = "queue"]
        /\ ticket' = [ticket EXCEPT ![i] = last + 1]
        /\ future' = [future EXCEPT ![i] = "pending"]
        /\ closed' = closed /\ task' = task
    BY <2>1 DEF Submit
  <2>3. \A j \in Items : RowOK(j)'
    BY <1>1, <1>2, <1>3, <2>1, <2>2
  <2>4. UsedOK'
    BY <1>1, <1>2, <1>3, <2>2 DEF TicketsOK
  <2>. QED  BY <1>1, <2>3, <2>4
<1>. QED  BY <1>4, <1>5

\* Steps of the queue and of its tasks that leave the rows alone.
LEMMA KeptRows ==
    ASSUME DispatcherIInv, Rows, \A i \in Items : QueueKeeps(i),
           UNCHANGED <<contents, caller, status>>, closed => closed',
           \A i \in Items : stage'[i] = "sending" => stage[i] = "sending"
    PROVE  Rows'
BY DEF Rows, RowOK, UsedOK, QueueKeeps, PlaceOK, DispatcherIInv, IInv

LEMMA SameRows ==
    ASSUME DispatcherIInv, Rows, UNCHANGED <<vars, jobVars>>
    PROVE  Rows'
BY KeptRows DEF QueueKeeps, vars, jobVars

LEMMA CancelRows ==
    ASSUME DispatcherIInv, Rows, NEW s \in Sessions, CancelJob(s)
    PROVE  Rows' /\ contents' = contents
<1>. USE DEF DispatcherIInv, IInv, TypeOK, JobTypeOK
<1>1. UNCHANGED <<contents, caller, status>> /\ UNCHANGED <<ticket, place, future, closed>>
  BY DEF CancelJob, CancelActive, vars
<1>2. \A i \in Items : /\ task'[i] = "returned" => task[i] = "returned"
                       /\ stage'[i] = "sending" => stage[i] = "sending"
  BY DEF CancelJob, CancelActive, CancelTasks, Recancelled, vars
<1>3. \A i \in Items : QueueKeeps(i)
  BY <1>1, <1>2 DEF QueueKeeps
<1>. QED  BY <1>1, <1>2, <1>3, KeptRows

LEMMA WorkerRows ==
    ASSUME DispatcherIInv, Rows, QueueStep
    PROVE  Rows'
<1>. USE DEF DispatcherIInv, IInv, TypeOK, QueueKeeps
<1>1. PICK s \in Sessions : WorkerStep(s)
  BY DEF QueueStep
<1>2. UNCHANGED jobVars
  BY DEF QueueStep
<1>. DEFINE Keeps == (\A i \in Items : QueueKeeps(i)) /\ closed' = closed
<1>3. ASSUME NEW i \in Items, WorkerSkips(s, i) PROVE Keeps
  BY <1>3 DEF WorkerSkips, IsHead
<1>4. ASSUME NEW i \in Items, WorkerStarts(s, i) PROVE Keeps
  BY <1>4 DEF WorkerStarts, Launch, IsHead
<1>5. ASSUME NEW i \in Items, WorkerAdmitted(s, i) PROVE Keeps
  BY <1>5 DEF WorkerAdmitted, Launch
<1>6. ASSUME NEW i \in Items, WorkerBlocks(s, i) PROVE Keeps
  BY <1>6 DEF WorkerBlocks, IsHead
<1>7. ASSUME NEW i \in Items, WorkerDiscards(s, i) PROVE Keeps
  BY <1>7 DEF WorkerDiscards, Discarded, CancelFutures
<1>8. ASSUME WorkerCollects(s) PROVE Keeps
  <2>1. active[s] \in Items /\ place[active[s]] = "active"
    BY <1>8 DEF WorkerCollects, Collected, WorkerOK
  <2>. QED  BY <1>8, <2>1 DEF WorkerCollects, Collected, Outcome, Ended
<1>9. ASSUME WorkerStops(s) PROVE Keeps
  BY <1>9 DEF WorkerStops
<1>10. Keeps
  BY <1>1, <1>3, <1>4, <1>5, <1>6, <1>7, <1>8, <1>9 DEF WorkerStep
<1>. QED  BY <1>2, <1>10, KeptRows DEF jobVars

\* The steps of a job: its row is final when it sends and when it returns.
LEMMA JobRows ==
    ASSUME DispatcherIInv, Rows, NEW i \in Items, JobStep(i)
    PROVE  Rows'
<1>. USE DEF DispatcherIInv, IInv, TypeOK, JobTypeOK
<1>1. /\ task[i] \in Live /\ place[i] = "active"
      /\ UNCHANGED <<contents, caller>>
  BY DEF JobStep, JobBegins, JobNeverBegins, AgentAnswers, AgentFails, SendsOn,
         CancelSeen, AgentTimesOut, Undone, TimedOut, Executes, PlaceOK
<1>. DEFINE Own ==
       /\ \A j \in Items : j # i => status'[j] = status[j] /\ stage'[j] = stage[j]
       /\ status'[i] = status[i] \/ status'[i] \in Final \cup {"running"}
       /\ status[i] \in Final /\ stage[i] # "none" => status'[i] \in Final
       /\ task'[i] = "returned" \/ stage'[i] = "sending" => status'[i] \in Final
<1>2. ASSUME Own, UNCHANGED vars \/ \E e \in Ended : Ends(i, e) PROVE Rows'
  <2>1. /\ UNCHANGED <<place, future, ticket, closed>>
        /\ \A j \in Items : j # i => task'[j] = task[j]
    BY <1>2 DEF Ends, vars
  <2>2. status[i] # "none"
    BY <1>1 DEF Rows, RowOK
  <2>3. \A j \in Items : RowOK(j)'
    BY <1>1, <1>2, <2>1, <2>2, ZenonT(30) DEF Rows, RowOK, Final
  <2>4. UsedOK'
    BY <1>2, <2>1, <2>2 DEF Rows, UsedOK, Final
  <2>. QED  BY <2>3, <2>4 DEF Rows
<1>. USE DEF Rows, RowOK, Final, Live, Ended, Ends, vars
<1>3. CASE JobBegins(i)
  <2>1. Own
    BY <1>1, <1>3 DEF JobBegins
  <2>2. UNCHANGED vars \/ \E e \in Ended : Ends(i, e)
    BY <1>3 DEF JobBegins
  <2>. QED  BY <1>2, <2>1, <2>2
<1>4. CASE JobNeverBegins(i)
  <2>1. Own
    BY <1>1, <1>4 DEF JobNeverBegins
  <2>2. UNCHANGED vars \/ \E e \in Ended : Ends(i, e)
    BY <1>4 DEF JobNeverBegins
  <2>. QED  BY <1>2, <2>1, <2>2
<1>5. CASE AgentAnswers(i)
  <2>1. Own
    BY <1>1, <1>5 DEF AgentAnswers
  <2>2. UNCHANGED vars \/ \E e \in Ended : Ends(i, e)
    BY <1>5 DEF AgentAnswers
  <2>. QED  BY <1>2, <2>1, <2>2
<1>6. CASE AgentFails(i)
  <2>1. Own
    BY <1>1, <1>6 DEF AgentFails
  <2>2. UNCHANGED vars \/ \E e \in Ended : Ends(i, e)
    BY <1>6 DEF AgentFails
  <2>. QED  BY <1>2, <2>1, <2>2
<1>7. CASE SendsOn(i)
  <2>1. Own
    BY <1>1, <1>7 DEF SendsOn
  <2>2. UNCHANGED vars \/ \E e \in Ended : Ends(i, e)
    BY <1>7 DEF SendsOn
  <2>. QED  BY <1>2, <2>1, <2>2
<1>8. CASE CancelSeen(i)
  <2>1. Own
    BY <1>1, <1>8 DEF CancelSeen
  <2>2. UNCHANGED vars \/ \E e \in Ended : Ends(i, e)
    BY <1>8 DEF CancelSeen
  <2>. QED  BY <1>2, <2>1, <2>2
<1>9. CASE AgentTimesOut(i)
  <2>1. Own
    BY <1>1, <1>9 DEF AgentTimesOut
  <2>2. UNCHANGED vars \/ \E e \in Ended : Ends(i, e)
    BY <1>9 DEF AgentTimesOut
  <2>. QED  BY <1>2, <2>1, <2>2
<1>10. CASE Undone(i)
  <2>1. Own
    BY <1>1, <1>10 DEF Undone
  <2>2. UNCHANGED vars \/ \E e \in Ended : Ends(i, e)
    BY <1>10 DEF Undone
  <2>. QED  BY <1>2, <2>1, <2>2
<1>11. CASE TimedOut(i)
  <2>1. Own
    BY <1>1, <1>11 DEF TimedOut
  <2>2. UNCHANGED vars \/ \E e \in Ended : Ends(i, e)
    BY <1>11 DEF TimedOut
  <2>. QED  BY <1>2, <2>1, <2>2
<1>. QED
  BY <1>3, <1>4, <1>5, <1>6, <1>7, <1>8, <1>9, <1>10, <1>11 DEF JobStep

LEMMA ResumesRows ==
    ASSUME DispatcherIInv, Rows, NEW i \in Items, CallerResumes(i)
    PROVE  Rows'
<1>1. /\ UNCHANGED <<closed, place, ticket, future, task, contents, stage>>
      /\ caller[i] \in {"timer", "turn"} /\ future[i] # "pending"
      /\ caller' = [caller EXCEPT ![i] = "done"]
      /\ status' = [status EXCEPT ![i] = IF future[i] = "cancelled" THEN "cancelled"
                                         ELSE status[i]]
  BY DEF CallerResumes, Resumed, vars
<1>. QED
  BY <1>1 DEF DispatcherIInv, JobTypeOK, Rows, RowOK, UsedOK, Final

\* Jobs that leave the queue unstarted: their futures and rows are cancelled.
LEMMA RemovedRows ==
    ASSUME DispatcherIInv, Rows,
           NEW i \in Items, RemoveJob(i)
    PROVE  Rows'
BY DEF RemoveJob, RemoveQueued, CancelFutures, DispatcherIInv, IInv, TypeOK,
       JobTypeOK, PlaceOK, QueuedOK, Rows, RowOK, UsedOK, Final

LEMMA ClearedRows ==
    ASSUME DispatcherIInv, Rows, NEW s \in Sessions, ClearJobs(s)
    PROVE  Rows'
BY DEF ClearJobs, Queued, CancelFutures, DispatcherIInv, IInv, TypeOK,
       JobTypeOK, PlaceOK, QueuedOK, Rows, RowOK, UsedOK, Final

LEMMA ClosesRows ==
    ASSUME DispatcherIInv, Rows, QueueCloses
    PROVE  Rows'
<1>. USE DEF DispatcherIInv, IInv, TypeOK, JobTypeOK
<1>1. UNCHANGED <<contents, caller, status>> /\ closed'
  BY DEF QueueCloses, Close
<1>2. \A i \in Items : stage'[i] = "sending" => stage[i] = "sending"
  BY DEF QueueCloses, Recancelled
<1>3. \A i \in Items : QueueKeeps(i)
  BY DEF QueueCloses, Close, CancelTasks, CancelFutures, QueueKeeps, QueuedOK
<1>. QED  BY <1>1, <1>2, <1>3, KeptRows

LEMMA ClosedRows ==
    ASSUME DispatcherIInv, Rows, QueueClosed
    PROVE  Rows'
BY KeptRows DEF QueueClosed, CloseReturns, QueueKeeps, jobVars

LEMMA RestartRows ==
    ASSUME DispatcherIInv, Rows, Restart
    PROVE  Rows'
BY DEF Restart, vars, DispatcherIInv, JobTypeOK, Rows, RowOK, UsedOK, Final

LEMMA RowsInit == DispatcherInit => Rows
BY DispatcherAssumption DEF DispatcherInit, Init, Rows, RowOK, UsedOK

\* A new job answers messages that come after those of all jobs of its chat.
LEMMA Creates ==
    ASSUME DispatcherIInv, Rows, ContentsOK, NEW s \in Sessions, NEW i \in Items,
           NEW ms \in Seq(Msgs), NEW who \in {"timer", "turn"},
           CreateJob(i, s, ms, who), seen \subseteq seen', Ascending(ms),
           \A n \in SetOf(ms) : /\ n \in seen' /\ ChatOf[n] = s
                                /\ \A m \in Msgs : Answered(s, m) => m < n
    PROVE  /\ Rows' /\ ContentsOK'
           /\ \A t \in Sessions, m \in Msgs :
                Answered(t, m)' => Answered(t, m) \/ (t = s /\ m \in SetOf(ms))
<1>1. /\ Rows' /\ SessionOf[i] = s /\ contents[i] = <<>>
      /\ \A j \in Items : SessionOf[j] = s /\ i < j => contents[j] = <<>>
  BY CreateRows
<1>2. /\ contents'[i] = ms
      /\ \A j \in Items : j # i => contents'[j] = contents[j]
      /\ \A j \in Items : contents[j] \in Seq(Msgs)
  BY DEF CreateJob, DispatcherIInv, JobTypeOK
<1>3. \A j \in Items : SetOf(contents[j]) \subseteq Msgs
  BY <1>2 DEF SetOf
<1>4. \A j \in Items, m \in Msgs :
         SessionOf[j] = s /\ m \in SetOf(contents[j]) => Answered(s, m)
  BY DEF Answered
<1>5. ASSUME NEW j \in Items
      PROVE  /\ Ascending(contents'[j])
             /\ \A m \in SetOf(contents'[j]) : m \in seen' /\ ChatOf[m] = SessionOf[j]
  BY <1>1, <1>2 DEF ContentsOK
<1>6. ASSUME NEW j \in Items, NEW k \in Items, SessionOf[j] = SessionOf[k], j < k,
             NEW m \in SetOf(contents'[j]), NEW n \in SetOf(contents'[k])
      PROVE  m < n
  <2>1. CASE k = i
    <3>1. j # i
      BY <1>6, <2>1, DispatcherAssumption
    <3>. QED  BY <1>1, <1>2, <1>3, <1>4, <1>6, <2>1, <3>1
  <2>2. CASE j = i
    <3>1. k # i /\ contents'[k] = <<>>
      BY <1>1, <1>2, <1>6, <2>2, DispatcherAssumption
    <3>. QED  BY <1>6, <3>1 DEF SetOf
  <2>3. CASE j # i /\ k # i
    BY <1>2, <1>6, <2>3 DEF ContentsOK
  <2>. QED  BY <2>1, <2>2, <2>3
<1>7. ContentsOK'
  BY <1>5, <1>6 DEF ContentsOK, Ascending, SetOf
<1>8. ASSUME NEW t \in Sessions, NEW m \in Msgs, Answered(t, m)'
      PROVE  Answered(t, m) \/ (t = s /\ m \in SetOf(ms))
  <2>1. PICK j \in Items : SessionOf[j] = t /\ m \in SetOf(contents'[j])
    BY <1>8 DEF Answered, SetOf
  <2>. QED  BY <1>1, <1>2, <2>1 DEF Answered
<1>. QED  BY <1>1, <1>7, <1>8

\* No job is created.
LEMMA NoneCreated ==
    ASSUME ContentsOK, seen \subseteq seen', contents' = contents
    PROVE  /\ ContentsOK'
           /\ \A t \in Sessions, m \in Msgs : Answered(t, m)' <=> Answered(t, m)
BY DEF ContentsOK, Answered, SetOf, Ascending

\* What a step leaves of a chat it does not touch.
LEMMA OtherChat ==
    ASSUME NEW t \in Sessions, BatchOK(t), CommandOK(t), LineOK(t),
           \A m \in Msgs : Answered(t, m)' => Answered(t, m),
           batch'[t] = batch[t], turn'[t] = turn[t], inbox'[t] = inbox[t],
           \A k \in Msgs : ChatOf[k] = t => arrived'[k] = arrived[k],
           seen \subseteq seen', stopping => stopping'
    PROVE  BatchOK(t)' /\ CommandOK(t)' /\ LineOK(t)'
<1>1. BatchOK(t)'
  BY DEF BatchOK, SetOf, Ascending
<1>2. CommandOK(t)'
  BY DEF CommandOK
<1>3. LineOK(t)'
  BY DEF LineOK, Decoding
<1>. QED  BY <1>1, <1>2, <1>3

\* The order of a sequence that gets one more element.
LEMMA AscendingAppend ==
    ASSUME NEW ms \in Seq(Msgs), NEW m \in Msgs, Ascending(ms),
           \A n \in SetOf(ms) : n < m
    PROVE  /\ Append(ms, m) \in Seq(Msgs) /\ Ascending(Append(ms, m))
           /\ SetOf(Append(ms, m)) = SetOf(ms) \cup {m}
<1>. DEFINE new == Append(ms, m)
<1>1. /\ new \in Seq(Msgs) /\ Len(ms) \in Nat
      /\ DOMAIN ms = 1..Len(ms) /\ DOMAIN new = 1..(Len(ms) + 1)
      /\ \A k \in DOMAIN ms : new[k] = ms[k]
      /\ new[Len(ms) + 1] = m
  OBVIOUS
<1>. HIDE DEF new
<1>2. SetOf(new) = SetOf(ms) \cup {m}
  <2>1. SetOf(new) \subseteq SetOf(ms) \cup {m}
    BY <1>1 DEF SetOf
  <2>2. SetOf(ms) \subseteq SetOf(new) /\ m \in SetOf(new)
    BY <1>1 DEF SetOf
  <2>. QED  BY <2>1, <2>2
<1>3. ASSUME NEW k \in DOMAIN new, NEW l \in DOMAIN new, k < l
      PROVE  new[k] < new[l]
  <2>1. k \in DOMAIN ms /\ ms[k] \in SetOf(ms)
    BY <1>1, <1>3 DEF SetOf
  <2>. QED  BY <1>1, <1>3, <2>1 DEF Ascending
<1>4. Ascending(new)
  BY <1>3 DEF Ascending
<1>. QED  BY <1>1, <1>2, <1>4 DEF new

\* The next message leaves the line: it is seen, or is being decoded.
LEMMA LineMoves ==
    ASSUME DispatcherIInv, NEW s \in Sessions, LineOK(s), turn[s].at = "free",
           inbox[s] # <<>>, inbox'[s] = Tail(inbox[s]), arrived' = arrived,
           stopping' = stopping, seen \subseteq seen',
           ~stopping => Head(inbox[s]) \in seen' \/ turn'[s].at = "hydrate",
           turn'[s].at = "hydrate" => turn'[s].msg = Head(inbox[s])
    PROVE  LineOK(s)'
<1>. DEFINE q == inbox[s]
            r == Tail(q)
            Now(m) == m \in seen' \/ (turn'[s].at = "hydrate" /\ turn'[s].msg = m)
<1>1. q \in Seq(Msgs) /\ q # <<>>
  BY DEF DispatcherIInv, ChatTypeOK
<1>2. /\ Len(q) \in Nat \ {0} /\ Len(r) = Len(q) - 1
      /\ DOMAIN r = 1..Len(r) /\ DOMAIN q = 1..Len(q)
      /\ \A l \in 1..Len(r) : r[l] = q[l + 1]
      /\ Head(q) = q[1]
  BY <1>1
<1>3. \A l \in DOMAIN r : ChatOf[r[l]] = s
  BY <1>2 DEF LineOK
<1>4. \A k : ~Decoding(s, k)
  BY DEF Decoding
<1>5. ASSUME ~stopping, NEW k \in Msgs, ChatOf[k] = s, turn'[s].at = "hydrate",
             k < turn'[s].msg
      PROVE  k \in seen
  <2>1. 1 \in DOMAIN q /\ k < q[1] /\ ~\E j \in DOMAIN q : j < 1
    BY <1>2, <1>5
  <2>. QED  BY <1>4, <1>5, <2>1 DEF LineOK
\* Whatever is in the line and is not its head is in the rest of it.
<1>6. ASSUME ~stopping, NEW j \in DOMAIN q
      PROVE  Now(q[j]) \/ (j - 1 \in DOMAIN r /\ r[j - 1] = q[j])
  <2>1. CASE j = 1
    BY <1>2, <1>6, <2>1
  <2>2. CASE j # 1
    BY <1>2, <1>6, <2>2
  <2>. QED  BY <2>1, <2>2
<1>7. ASSUME ~stopping, NEW k \in Msgs, ChatOf[k] = s, arrived[k] > 0
      PROVE  Now(k) \/ \E j \in DOMAIN r : r[j] = k
  <2>1. k \in seen \/ \E j \in DOMAIN q : q[j] = k
    BY <1>4, <1>7 DEF LineOK
  <2>. QED  BY <1>6, <1>7, <2>1
<1>8. ASSUME ~stopping, NEW l \in DOMAIN r, NEW k \in Msgs, ChatOf[k] = s, k < r[l]
      PROVE  Now(k) \/ \E j \in DOMAIN r : j < l /\ r[j] = k
  <2>1. l + 1 \in DOMAIN q /\ k < q[l + 1]
    BY <1>2, <1>8
  <2>2. k \in seen \/ \E j \in DOMAIN q : j < l + 1 /\ q[j] = k
    BY <1>4, <1>8, <2>1 DEF LineOK
  <2>3. CASE k \in seen
    BY <2>3
  <2>4. ASSUME NEW j \in DOMAIN q, j < l + 1, q[j] = k PROVE  Now(k) \/ \E h \in DOMAIN r : h < l /\ r[h] = k
    <3>1. Now(k) \/ (j - 1 \in DOMAIN r /\ r[j - 1] = k)
      BY <1>6, <1>8, <2>4
    <3>2. j - 1 < l
      BY <1>2, <1>8, <2>4
    <3>. HIDE DEF Now
    <3>. QED  BY <3>1, <3>2
  <2>. HIDE DEF Now
  <2>. QED  BY <2>2, <2>3, <2>4
<1>9. inbox'[s] = r
  OBVIOUS
<1>. QED  BY <1>3, <1>5, <1>7, <1>8, <1>9 DEF LineOK, Decoding

\* A step of one chat leaves the lock, the batch and the jobs of the others.
OthersSame(s) ==
    \A t \in Sessions \ {s} : /\ turn'[t] = turn[t] /\ batch'[t] = batch[t]
                              /\ \A m \in Msgs : Answered(t, m)' => Answered(t, m)

LEMMA ImmediateOrder ==
    ASSUME DispatcherIInv, Rows, ContentsOK, NEW s \in Sessions, NEW m \in Msgs,
           Immediate(s, m), seen \subseteq seen', m \in seen', ChatOf[m] = s,
           \A k \in Msgs : Answered(s, k) => k < m
    PROVE  /\ Rows' /\ ContentsOK'
           /\ \A t \in Sessions \ {s} :
                 /\ turn'[t] = turn[t]
                 /\ \A k \in Msgs : Answered(t, k)' => Answered(t, k)
           /\ turn'[s].at \in {"free", "submit"}
           /\ turn'[s].at = "submit" => turn'[s].msg = m
<1>1. turn \in [Sessions -> Turn] /\ Free.at = "free"
  BY DEF DispatcherIInv, ChatTypeOK, Free
<1>2. CASE kind[m] = "ask"
  <2>. DEFINE ms == <<m>>
  <2>1. PICK i \in Items :
          /\ CreateJob(i, s, ms, "turn")
          /\ turn' = [turn EXCEPT ![s] =
               IF closed THEN Free ELSE [at |-> "submit", msg |-> m, job |-> i]]
    BY <1>2 DEF Immediate
  <2>2. ms \in Seq(Msgs) /\ DOMAIN ms = {1} /\ ms[1] = m
    OBVIOUS
  <2>. HIDE DEF ms
  <2>3. Ascending(ms) /\ SetOf(ms) = {m}
    BY <2>2 DEF Ascending, SetOf
  <2>4. /\ Rows' /\ ContentsOK'
        /\ \A t \in Sessions, k \in Msgs :
              Answered(t, k)' => Answered(t, k) \/ (t = s /\ k \in SetOf(ms))
    BY <2>1, <2>2, <2>3, Creates
  <2>. QED  BY <1>1, <2>1, <2>4
<1>3. CASE kind[m] # "ask"
  <2>1. CancelJob(s) /\ turn' = [turn EXCEPT ![s] = Free]
    BY <1>3 DEF Immediate
  <2>2. Rows' /\ contents' = contents
    BY <2>1, CancelRows
  <2>3. ContentsOK' /\ \A t \in Sessions, k \in Msgs : Answered(t, k)' <=> Answered(t, k)
    BY <2>2, NoneCreated
  <2>. QED  BY <1>1, <2>1, <2>2, <2>3
<1>. QED  BY <1>2, <1>3

\* m is the newest message of its chat that was seen.
Newest(s, m) == /\ ChatOf[m] = s /\ seen' = seen \cup {m}
                /\ \A n \in seen : ChatOf[n] = s => n < m

LEMMA CollectsOrder ==
    ASSUME DispatcherIInv, Rows, ContentsOK, NEW s \in Sessions, NEW m \in Msgs,
           BatchOK(s), Newest(s, m), Collects(s, m)
    PROVE  Rows' /\ ContentsOK' /\ OthersSame(s) /\ BatchOK(s)' /\ CommandOK(s)'
           /\ turn'[s].at # "hydrate"
<1>. DEFINE ms == Append(batch[s], m)
<1>1. /\ turn \in [Sessions -> Turn] /\ Free.at = "free"
      /\ batch \in [Sessions -> Seq(Msgs)] /\ batch[s] \in Seq(Msgs)
      /\ seen \subseteq seen' /\ m \in seen' /\ ChatOf[m] = s
  BY DEF DispatcherIInv, ChatTypeOK, Free, Newest
<1>2. SetOf(batch[s]) \subseteq Msgs /\ \A n \in SetOf(batch[s]) : n < m /\ n \in seen /\ ChatOf[n] = s
  BY <1>1 DEF BatchOK, Newest, SetOf
<1>3. /\ ms \in Seq(Msgs) /\ Ascending(ms)
      /\ SetOf(ms) = SetOf(batch[s]) \cup {m}
  BY <1>1, <1>2, AscendingAppend DEF BatchOK
<1>4. \A k \in Msgs : Answered(s, k) => k < m
  BY DEF Answered, ContentsOK, Newest
<1>5. \A n \in SetOf(ms) : /\ n \in seen' /\ ChatOf[n] = s
                           /\ \A k \in Msgs : Answered(s, k) => k < n
  BY <1>1, <1>2, <1>3, <1>4 DEF BatchOK
<1>. HIDE DEF ms
<1>6. CASE BatchWindow
  <2>1. /\ batch' = [batch EXCEPT ![s] = ms] /\ turn' = [turn EXCEPT ![s] = Free]
        /\ UNCHANGED <<vars, jobVars>>
    BY <1>6 DEF Collects, ms
  <2>2. Rows' /\ contents' = contents
    BY <2>1, SameRows DEF jobVars
  <2>3. ContentsOK' /\ \A t \in Sessions, k \in Msgs : Answered(t, k)' <=> Answered(t, k)
    BY <1>1, <2>2, NoneCreated
  <2>4. BatchOK(s)'
    BY <1>1, <1>3, <1>5, <1>6, <2>1, <2>3 DEF BatchOK, Ascending, SetOf
  <2>5. OthersSame(s) /\ CommandOK(s)' /\ turn'[s].at = "free"
    BY <1>1, <2>1, <2>3 DEF OthersSame, CommandOK
  <2>. QED  BY <2>2, <2>3, <2>4, <2>5
<1>7. CASE /\ ~BatchWindow /\ UNCHANGED batch
           /\ turn' = [turn EXCEPT ![s] = Free] /\ UNCHANGED <<vars, jobVars>>
  <2>1. Rows' /\ contents' = contents
    BY <1>7, SameRows DEF jobVars
  <2>2. ContentsOK' /\ \A t \in Sessions, k \in Msgs : Answered(t, k)' <=> Answered(t, k)
    BY <1>1, <2>1, NoneCreated
  <2>3. BatchOK(s)'
    BY <1>1, <1>7, <2>2 DEF BatchOK, Ascending, SetOf
  <2>4. OthersSame(s) /\ CommandOK(s)' /\ turn'[s].at = "free"
    BY <1>1, <1>7, <2>2 DEF OthersSame, CommandOK
  <2>. QED  BY <2>1, <2>2, <2>3, <2>4
<1>8. ASSUME ~BatchWindow, UNCHANGED batch, NEW i \in Items,
             CreateJob(i, s, ms, "turn"),
             turn' = [turn EXCEPT ![s] = [at |-> "submit", msg |-> m, job |-> i]]
      PROVE  Rows' /\ ContentsOK' /\ OthersSame(s) /\ BatchOK(s)' /\ CommandOK(s)'
             /\ turn'[s].at # "hydrate"
  <2>1. /\ Rows' /\ ContentsOK'
        /\ \A t \in Sessions, k \in Msgs :
              Answered(t, k)' => Answered(t, k) \/ (t = s /\ k \in SetOf(ms))
    BY <1>1, <1>3, <1>5, <1>8, Creates
  <2>2. BatchOK(s)'
    BY <1>8 DEF BatchOK, Ascending, SetOf
  <2>3. OthersSame(s) /\ CommandOK(s)' /\ turn'[s].at = "submit"
    BY <1>1, <1>8, <2>1 DEF OthersSame, CommandOK
  <2>. QED  BY <2>1, <2>2, <2>3
<1>. QED  BY <1>6, <1>7, <1>8 DEF Collects, ms

LEMMA CommandsOrder ==
    ASSUME DispatcherIInv, Rows, ContentsOK, NEW s \in Sessions, NEW m \in Msgs,
           BatchOK(s), Newest(s, m), Commands(s, m)
    PROVE  Rows' /\ ContentsOK' /\ OthersSame(s) /\ BatchOK(s)' /\ CommandOK(s)'
           /\ turn'[s].at # "hydrate"
<1>1. /\ turn \in [Sessions -> Turn]
      /\ batch \in [Sessions -> Seq(Msgs)] /\ batch[s] \in Seq(Msgs)
      /\ seen \subseteq seen' /\ m \in seen' /\ ChatOf[m] = s
  BY DEF DispatcherIInv, ChatTypeOK, Newest
<1>2. \A k \in Msgs : Answered(s, k) => k < m
  BY DEF Answered, ContentsOK, Newest
<1>3. /\ \A t \in Sessions \ {s} : batch'[t] = batch[t]
      /\ batch'[s] = <<>>
  BY <1>1 DEF Commands, MustFlush
<1>4. BatchOK(s)'
  BY <1>3 DEF BatchOK, Ascending, SetOf
<1>5. CASE Immediate(s, m)
  <2>1. /\ Rows' /\ ContentsOK'
        /\ \A t \in Sessions \ {s} :
              /\ turn'[t] = turn[t]
              /\ \A k \in Msgs : Answered(t, k)' => Answered(t, k)
        /\ turn'[s].at \in {"free", "submit"}
        /\ turn'[s].at = "submit" => turn'[s].msg = m
    BY <1>1, <1>2, <1>5, ImmediateOrder
  <2>2. OthersSame(s) /\ CommandOK(s)'
    BY <1>1, <1>3, <2>1 DEF OthersSame, CommandOK
  <2>. QED  BY <1>4, <2>1, <2>2
<1>6. ASSUME NEW i \in Items, CreateJob(i, s, batch[s], "turn"),
             turn' = [turn EXCEPT ![s] = [at |-> "flush", msg |-> m, job |-> i]]
      PROVE  Rows' /\ ContentsOK' /\ OthersSame(s) /\ BatchOK(s)' /\ CommandOK(s)'
             /\ turn'[s].at # "hydrate"
  <2>1. /\ Rows' /\ ContentsOK'
        /\ \A t \in Sessions, k \in Msgs :
              Answered(t, k)' => Answered(t, k) \/ (t = s /\ k \in SetOf(batch[s]))
    BY <1>1, <1>6, Creates DEF BatchOK
  <2>2. \A k \in SetOf(batch[s]) : k < m
    BY DEF BatchOK, Newest
  <2>3. \A k \in Msgs : Answered(s, k)' => k < m
    BY <1>2, <2>1, <2>2
  <2>4. CommandOK(s)'
    BY <1>1, <1>3, <1>6, <2>3 DEF CommandOK
  <2>5. OthersSame(s) /\ turn'[s].at = "flush"
    BY <1>1, <1>3, <1>6, <2>1 DEF OthersSame
  <2>. QED  BY <1>4, <2>1, <2>4, <2>5
<1>. QED  BY <1>5, <1>6 DEF Commands

\* A message whose older ones were all seen is routed, or dropped.
LEMMA RouteOrder ==
    ASSUME DispatcherIInv, Rows, ContentsOK, SeenOK, NEW s \in Sessions,
           NEW m \in Msgs, BatchOK(s), CommandOK(s), ChatOf[m] = s,
           ~stopping => \A k \in Msgs : ChatOf[k] = s /\ k < m => k \in seen,
           Route(s, m)
    PROVE  /\ Rows' /\ ContentsOK' /\ SeenOK' /\ OthersSame(s)
           /\ BatchOK(s)' /\ CommandOK(s)'
           /\ turn'[s].at # "hydrate" /\ seen \subseteq seen'
           /\ ~stopping => m \in seen'
<1>1. CASE /\ stopping \/ Known(m)
           /\ turn' = [turn EXCEPT ![s] = Free]
           /\ UNCHANGED <<vars, seen, stored, batch, refused, jobVars, unwanted>>
  <2>1. Rows' /\ contents' = contents /\ seen' = seen /\ batch' = batch
    BY <1>1, SameRows DEF jobVars
  <2>2. ContentsOK' /\ \A t \in Sessions, k \in Msgs : Answered(t, k)' <=> Answered(t, k)
    BY <2>1, NoneCreated
  <2>3. turn'[s].at = "free" /\ \A t \in Sessions \ {s} : turn'[t] = turn[t]
    BY <1>1 DEF DispatcherIInv, ChatTypeOK, Free
  <2>4. OthersSame(s) /\ CommandOK(s)'
    BY <2>1, <2>2, <2>3 DEF OthersSame, CommandOK
  <2>5. BatchOK(s)'
    BY <2>1, <2>2 DEF BatchOK, Ascending, SetOf
  <2>. QED  BY <1>1, <2>1, <2>2, <2>3, <2>4, <2>5 DEF SeenOK, Known
<1>2. CASE /\ ~stopping /\ ~Known(m)
           /\ seen' = seen \cup {m}
           /\ Collects(s, m) \/ Commands(s, m)
  <2>1. seen \subseteq Msgs /\ Msgs \subseteq Nat /\ m \notin seen
    BY <1>2, DispatcherAssumption DEF DispatcherIInv, ChatTypeOK, Known
\* A newer message that was seen would have overtaken this one.
  <2>2. \A n \in seen : ChatOf[n] = s => n < m
    BY <2>1 DEF SeenOK
  <2>3. Newest(s, m)
    BY <1>2, <2>2 DEF Newest
  <2>4. SeenOK'
    BY <1>2, <2>1, <2>2 DEF SeenOK
  <2>. QED  BY <1>2, <2>3, <2>4, CollectsOrder, CommandsOrder
<1>. QED  BY <1>1, <1>2 DEF Route

\* The chats a step does not touch keep what is known of their messages.
LEMMA OthersKept ==
    ASSUME Messages, NEW s \in Sessions, OthersSame(s), NEW t \in Sessions \ {s},
           inbox'[t] = inbox[t], \A k \in Msgs : ChatOf[k] = t => arrived'[k] = arrived[k],
           seen \subseteq seen', stopping => stopping'
    PROVE  BatchOK(t)' /\ CommandOK(t)' /\ LineOK(t)'
BY OtherChat DEF Messages, OthersSame

\* Steps of the queue, the jobs and the user: no message moves.
LEMMA NoMessageMoves ==
    ASSUME Messages, contents' = contents, UNCHANGED <<stopping, chatVars>>
    PROVE  Messages'
<1>1. /\ ContentsOK'
      /\ \A t \in Sessions, m \in Msgs : Answered(t, m)' <=> Answered(t, m)
  BY NoneCreated DEF Messages, chatVars
<1>2. SeenOK'
  BY DEF Messages, SeenOK, chatVars
<1>3. ASSUME NEW t \in Sessions PROVE BatchOK(t)' /\ CommandOK(t)' /\ LineOK(t)'
  BY <1>1, OtherChat DEF Messages, chatVars
<1>. QED  BY <1>1, <1>2, <1>3 DEF Messages

LEMMA ReceiveOrder ==
    ASSUME DispatcherIInv, OrderIInv, NEW m \in Msgs, Receive(m)
    PROVE  OrderIInv'
<1>. DEFINE s == ChatOf[m]
            q == inbox[s]
            r == Append(q, m)
<1>1. /\ s \in Sessions /\ q \in Seq(Msgs) /\ arrived \in [Msgs -> 0..2]
      /\ inbox \in [Sessions -> Seq(Msgs)]
  BY DispatcherAssumption DEF DispatcherIInv, ChatTypeOK
<1>2. /\ UNCHANGED <<vars, jobVars, turn, seen, batch, stopping>> /\ ~stopping
      /\ arrived' = [arrived EXCEPT ![m] = @ + 1]
      /\ inbox' = [inbox EXCEPT ![s] = r]
      /\ \A k \in Msgs : k < m /\ ChatOf[k] = s => arrived[k] > 0
  BY DEF Receive
<1>3. Rows' /\ contents' = contents
  BY <1>2, SameRows DEF OrderIInv, jobVars
<1>4. ContentsOK' /\ \A t \in Sessions, k \in Msgs : Answered(t, k)' <=> Answered(t, k)
  BY <1>2, <1>3, NoneCreated DEF OrderIInv, Messages
<1>5. SeenOK'
  BY <1>2 DEF OrderIInv, Messages, SeenOK
<1>6. ASSUME NEW t \in Sessions \ {s} PROVE BatchOK(t)' /\ CommandOK(t)' /\ LineOK(t)'
  <2>1. /\ inbox'[t] = inbox[t]
        /\ \A k \in Msgs : ChatOf[k] = t => arrived'[k] = arrived[k]
    BY <1>1, <1>2
  <2>. QED  BY <1>2, <1>4, <2>1, OtherChat DEF OrderIInv, Messages
<1>7. BatchOK(s)' /\ CommandOK(s)'
  <2>1. BatchOK(s) /\ CommandOK(s)
    BY <1>1 DEF OrderIInv, Messages
  <2>. HIDE DEF s
  <2>. QED  BY <1>1, <1>2, <1>4, <2>1 DEF BatchOK, CommandOK, Ascending, SetOf
<1>8. LineOK(s)'
  <2>1. LineOK(s)
    BY <1>1 DEF OrderIInv, Messages
  <2>2. /\ Len(q) \in Nat /\ DOMAIN q = 1..Len(q) /\ DOMAIN r = 1..(Len(q) + 1)
        /\ \A l \in DOMAIN q : r[l] = q[l]
        /\ r[Len(q) + 1] = m
        /\ inbox'[s] = r
    BY <1>1, <1>2
  <2>3. \A k \in Msgs : arrived'[k] > 0 => arrived[k] > 0 \/ k = m
    BY <1>1, <1>2
  <2>. HIDE DEF q, r
  <2>4. \A l \in DOMAIN r : ChatOf[r[l]] = s
    BY <2>1, <2>2 DEF LineOK, q
  <2>5. ASSUME NEW k \in Msgs, ChatOf[k] = s, arrived'[k] > 0
        PROVE  k \in seen \/ Decoding(s, k) \/ \E j \in DOMAIN r : r[j] = k
    <3>1. CASE k = m
      BY <2>2, <3>1
    <3>2. CASE arrived[k] > 0
      BY <1>2, <2>1, <2>2, <2>5, <3>2 DEF LineOK, q
    <3>. QED  BY <2>3, <2>5, <3>1, <3>2
  <2>6. ASSUME NEW l \in DOMAIN r, NEW k \in Msgs, ChatOf[k] = s, k < r[l]
        PROVE  k \in seen \/ Decoding(s, k) \/ \E j \in DOMAIN r : j < l /\ r[j] = k
    <3>1. CASE l \in DOMAIN q
      BY <1>2, <2>1, <2>2, <2>6, <3>1 DEF LineOK, q
    <3>2. CASE l = Len(q) + 1
      <4>1. arrived[k] > 0
        BY <1>2, <2>2, <2>6, <3>2
      <4>. QED  BY <1>2, <2>1, <2>2, <2>6, <3>2, <4>1 DEF LineOK, q
    <3>. QED  BY <2>2, <2>6, <3>1, <3>2
  <2>. HIDE DEF s
  <2>. QED  BY <1>2, <2>1, <2>2, <2>4, <2>5, <2>6 DEF LineOK, Decoding
<1>. QED
  BY <1>3, <1>4, <1>5, <1>6, <1>7, <1>8 DEF OrderIInv, Messages

LEMMA TakesTurnOrder ==
    ASSUME DispatcherIInv, OrderIInv, NEW s \in Sessions, TakesTurn(s)
    PROVE  OrderIInv'
<1>. DEFINE m == Head(inbox[s])
<1>1. /\ Rows /\ ContentsOK /\ SeenOK /\ BatchOK(s) /\ CommandOK(s) /\ LineOK(s)
      /\ turn \in [Sessions -> Turn] /\ inbox \in [Sessions -> Seq(Msgs)]
  BY DEF OrderIInv, Messages, DispatcherIInv, ChatTypeOK
<1>2. /\ turn[s].at = "free" /\ inbox[s] # <<>>
      /\ inbox' = [inbox EXCEPT ![s] = Tail(@)]
      /\ stopping' = stopping /\ arrived' = arrived
  BY DEF TakesTurn
<1>3. /\ m \in Msgs /\ 1 \in DOMAIN inbox[s] /\ inbox[s][1] = m
      /\ \A j \in DOMAIN inbox[s] : ~(j < 1)
  BY <1>1, <1>2
\* The head of the line has no older message in front of it.
<1>4. /\ ChatOf[m] = s
      /\ ~stopping => \A k \in Msgs : ChatOf[k] = s /\ k < m => k \in seen
  BY <1>1, <1>2, <1>3 DEF LineOK, Decoding
<1>. HIDE DEF m
<1>5. CASE /\ turn' = [turn EXCEPT ![s] = [at |-> "hydrate", msg |-> m, job |-> NoItem]]
           /\ UNCHANGED <<vars, seen, batch, jobVars>>
  <2>1. Rows' /\ contents' = contents
    BY <1>1, <1>5, SameRows DEF jobVars
  <2>2. ContentsOK' /\ \A t \in Sessions, k \in Msgs : Answered(t, k)' <=> Answered(t, k)
    BY <1>1, <1>5, <2>1, NoneCreated
  <2>3. turn'[s] = [at |-> "hydrate", msg |-> m, job |-> NoItem]
    BY <1>1, <1>5
  <2>4. turn'[s].at = "hydrate" /\ turn'[s].msg = m /\ turn'[s].job = NoItem
    BY <2>3
  <2>5. CommandOK(s)'
    BY <1>4, <2>4 DEF CommandOK
  <2>6. BatchOK(s)'
    BY <1>1, <1>5, <2>2 DEF BatchOK, Ascending, SetOf
  <2>7. OthersSame(s)
    BY <1>1, <1>5, <2>2 DEF OthersSame
  <2>8. LineOK(s)'
    BY <1>1, <1>2, <1>5, <2>4, LineMoves DEF m
  <2>9. SeenOK'
    BY <1>1, <1>5 DEF SeenOK
  <2>10. ASSUME NEW t \in Sessions \ {s} PROVE BatchOK(t)' /\ CommandOK(t)' /\ LineOK(t)'
    BY <1>1, <1>2, <1>5, <2>7, OthersKept DEF OrderIInv
  <2>. QED  BY <2>1, <2>2, <2>5, <2>6, <2>8, <2>9, <2>10 DEF OrderIInv, Messages
<1>6. CASE Route(s, m)
  <2>1. /\ Rows' /\ ContentsOK' /\ SeenOK' /\ OthersSame(s)
        /\ BatchOK(s)' /\ CommandOK(s)'
        /\ turn'[s].at # "hydrate" /\ seen \subseteq seen'
        /\ ~stopping => m \in seen'
    BY <1>1, <1>3, <1>4, <1>6, RouteOrder
  <2>2. LineOK(s)'
    BY <1>1, <1>2, <2>1, LineMoves DEF m
  <2>3. ASSUME NEW t \in Sessions \ {s} PROVE BatchOK(t)' /\ CommandOK(t)' /\ LineOK(t)'
    BY <1>1, <1>2, <2>1, OthersKept DEF OrderIInv
  <2>. QED  BY <2>1, <2>2, <2>3 DEF OrderIInv, Messages
<1>. QED  BY <1>5, <1>6 DEF TakesTurn, m

LEMMA HydratedOrder ==
    ASSUME DispatcherIInv, OrderIInv, NEW s \in Sessions, Hydrated(s)
    PROVE  OrderIInv'
<1>. DEFINE m == turn[s].msg
<1>1. /\ Rows /\ ContentsOK /\ SeenOK /\ BatchOK(s) /\ CommandOK(s) /\ LineOK(s)
      /\ m \in Msgs
  BY DEF OrderIInv, Messages, DispatcherIInv, TurnOK, Hydrated
<1>2. /\ turn[s].at = "hydrate" /\ Route(s, m)
      /\ UNCHANGED <<stopping, arrived, inbox>>
  BY DEF Hydrated
<1>3. /\ ChatOf[m] = s
      /\ ~stopping => \A k \in Msgs : ChatOf[k] = s /\ k < m => k \in seen
  BY <1>1, <1>2 DEF CommandOK, LineOK
<1>4. /\ Rows' /\ ContentsOK' /\ SeenOK' /\ OthersSame(s)
      /\ BatchOK(s)' /\ CommandOK(s)'
      /\ turn'[s].at # "hydrate" /\ seen \subseteq seen'
      /\ ~stopping => m \in seen'
  BY <1>1, <1>2, <1>3, RouteOrder
<1>5. LineOK(s)'
  BY <1>1, <1>2, <1>4 DEF LineOK, Decoding
<1>6. ASSUME NEW t \in Sessions \ {s} PROVE BatchOK(t)' /\ CommandOK(t)' /\ LineOK(t)'
  BY <1>2, <1>4, OthersKept DEF OrderIInv
<1>. QED  BY <1>4, <1>5, <1>6 DEF OrderIInv, Messages

LEMMA TimerOrder ==
    ASSUME DispatcherIInv, OrderIInv, NEW s \in Sessions, TimerSeals(s)
    PROVE  OrderIInv'
<1>1. /\ Rows /\ ContentsOK /\ SeenOK /\ BatchOK(s) /\ CommandOK(s) /\ LineOK(s)
      /\ batch \in [Sessions -> Seq(Msgs)]
  BY DEF OrderIInv, Messages, DispatcherIInv, ChatTypeOK
<1>2. /\ batch[s] # <<>> /\ batch' = [batch EXCEPT ![s] = <<>>]
      /\ UNCHANGED <<stopping, arrived, inbox, turn, seen>>
  BY DEF TimerSeals
<1>3. batch'[s] = <<>> /\ BatchOK(s)'
  BY <1>1, <1>2 DEF BatchOK, Ascending, SetOf
\* No command waits for a batch that its timer could still seal.
<1>4. CommandOK(s)'
  BY <1>1, <1>2 DEF CommandOK
<1>5. LineOK(s)' /\ SeenOK'
  BY <1>1, <1>2 DEF LineOK, Decoding, SeenOK
<1>6. ASSUME \A t \in Sessions \ {s}, k \in Msgs : Answered(t, k)' => Answered(t, k)
      PROVE  \A t \in Sessions \ {s} : BatchOK(t)' /\ CommandOK(t)' /\ LineOK(t)'
  <2>1. OthersSame(s)
    BY <1>1, <1>2, <1>6 DEF OthersSame
  <2>. QED  BY <1>2, <2>1, OthersKept DEF OrderIInv
<1>7. CASE UNCHANGED <<vars, jobVars>>
  <2>1. Rows' /\ contents' = contents
    BY <1>1, <1>7, SameRows DEF jobVars
  <2>2. ContentsOK' /\ \A t \in Sessions, k \in Msgs : Answered(t, k)' <=> Answered(t, k)
    BY <1>1, <1>2, <2>1, NoneCreated
  <2>. QED  BY <1>3, <1>4, <1>5, <1>6, <2>1, <2>2 DEF OrderIInv, Messages
<1>8. ASSUME NEW i \in Items, CreateJob(i, s, batch[s], "timer") PROVE OrderIInv'
  <2>1. /\ Rows' /\ ContentsOK'
        /\ \A t \in Sessions, k \in Msgs :
              Answered(t, k)' => Answered(t, k) \/ (t = s /\ k \in SetOf(batch[s]))
    BY <1>1, <1>2, <1>8, Creates DEF BatchOK
  <2>. QED  BY <1>3, <1>4, <1>5, <1>6, <2>1 DEF OrderIInv, Messages
<1>. QED  BY <1>7, <1>8 DEF TimerSeals

LEMMA FlushedOrder ==
    ASSUME DispatcherIInv, OrderIInv, NEW s \in Sessions, Flushed(s)
    PROVE  OrderIInv'
<1>. DEFINE m == turn[s].msg
<1>1. /\ Rows /\ ContentsOK /\ SeenOK /\ BatchOK(s) /\ CommandOK(s) /\ LineOK(s)
      /\ m \in Msgs
  BY DEF OrderIInv, Messages, DispatcherIInv, TurnOK, Flushed
<1>2. /\ turn[s].at = "flushed" /\ Immediate(s, m)
      /\ UNCHANGED <<stopping, arrived, inbox, seen, batch>>
  BY DEF Flushed
<1>3. /\ ChatOf[m] = s /\ m \in seen' /\ batch'[s] = <<>>
      /\ \A k \in Msgs : Answered(s, k) => k < m
  BY <1>1, <1>2 DEF CommandOK
<1>4. /\ Rows' /\ ContentsOK'
      /\ \A t \in Sessions \ {s} :
            /\ turn'[t] = turn[t]
            /\ \A k \in Msgs : Answered(t, k)' => Answered(t, k)
      /\ turn'[s].at \in {"free", "submit"}
      /\ turn'[s].at = "submit" => turn'[s].msg = m
  BY <1>1, <1>2, <1>3, ImmediateOrder
<1>5. BatchOK(s)' /\ CommandOK(s)'
  BY <1>1, <1>3, <1>4 DEF BatchOK, CommandOK, Ascending, SetOf
<1>6. LineOK(s)' /\ SeenOK'
  BY <1>1, <1>2, <1>4 DEF LineOK, Decoding, SeenOK
<1>7. OthersSame(s)
  BY <1>2, <1>4 DEF OthersSame
<1>8. ASSUME NEW t \in Sessions \ {s} PROVE BatchOK(t)' /\ CommandOK(t)' /\ LineOK(t)'
  BY <1>2, <1>7, OthersKept DEF OrderIInv
<1>. QED  BY <1>4, <1>5, <1>6, <1>8 DEF OrderIInv, Messages

LEMMA ResumesOrder ==
    ASSUME DispatcherIInv, OrderIInv, NEW i \in Items, CallerResumes(i)
    PROVE  OrderIInv'
<1>1. /\ UNCHANGED <<stopping, arrived, inbox, seen, batch, contents>>
      /\ turn' = [s \in Sessions |->
                    IF turn[s].job # i THEN turn[s]
                    ELSE IF turn[s].at = "flush" /\ future[i] # "exception"
                    THEN [at |-> "flushed", msg |-> turn[s].msg, job |-> NoItem]
                    ELSE Free]
  BY DEF CallerResumes, Resumed
<1>2. Rows' /\ Messages
  BY ResumesRows DEF OrderIInv
<1>3. ContentsOK' /\ SeenOK' /\ \A t \in Sessions, k \in Msgs : Answered(t, k)' <=> Answered(t, k)
  BY <1>1, <1>2, NoneCreated DEF Messages, SeenOK
<1>4. ASSUME NEW s \in Sessions
      PROVE  BatchOK(s)' /\ CommandOK(s)' /\ LineOK(s)'
  <2>1. BatchOK(s) /\ CommandOK(s) /\ LineOK(s)
    BY <1>2 DEF Messages
  <2>2. CASE turn[s].job # i
    <3>1. turn'[s] = turn[s]
      BY <1>1, <2>2
    <3>. QED  BY <1>1, <1>3, <2>1, <3>1, OtherChat
  <2>3. CASE turn[s].job = i
    <3>1. turn[s].at # "hydrate"
      BY <2>1, <2>3, QueueAssumption DEF CommandOK
    <3>2. \/ turn'[s].at = "free"
          \/ turn'[s].at = "flushed" /\ turn'[s].msg = turn[s].msg /\ turn[s].at = "flush"
      BY <1>1, <2>3 DEF Free
    <3>3. BatchOK(s)'
      BY <1>1, <1>3, <2>1 DEF BatchOK, Ascending, SetOf
    <3>4. CommandOK(s)'
      BY <1>1, <1>3, <2>1, <3>2 DEF CommandOK
    <3>5. LineOK(s)'
      BY <1>1, <2>1, <3>1, <3>2 DEF LineOK, Decoding
    <3>. QED  BY <3>3, <3>4, <3>5
  <2>. QED  BY <2>2, <2>3
<1>. QED  BY <1>2, <1>3, <1>4 DEF OrderIInv, Messages

LEMMA ClosesOrder ==
    ASSUME DispatcherIInv, OrderIInv, DispatcherCloses
    PROVE  OrderIInv'
<1>1. /\ UNCHANGED <<vars, jobVars, arrived, inbox, turn, seen>> /\ stopping'
      /\ batch' = [s \in Sessions |-> <<>>]
  BY DEF DispatcherCloses
<1>2. Rows' /\ contents' = contents /\ Messages
  BY <1>1, SameRows DEF OrderIInv, jobVars
<1>3. ContentsOK' /\ SeenOK' /\ \A t \in Sessions, k \in Msgs : Answered(t, k)' <=> Answered(t, k)
  BY <1>1, <1>2, NoneCreated DEF Messages, SeenOK
<1>4. ASSUME NEW s \in Sessions
      PROVE  BatchOK(s)' /\ CommandOK(s)' /\ LineOK(s)'
  BY <1>1, <1>2, <1>3 DEF Messages, BatchOK, CommandOK, LineOK, Ascending, SetOf
<1>. QED  BY <1>2, <1>3, <1>4 DEF OrderIInv, Messages

LEMMA OrderInit == DispatcherInit => OrderIInv
<1>. SUFFICES ASSUME DispatcherInit PROVE OrderIInv
  OBVIOUS
<1>1. Rows
  BY RowsInit
<1>2. ContentsOK /\ SeenOK
  BY DEF DispatcherInit, ContentsOK, SeenOK, Ascending, SetOf
<1>3. ASSUME NEW s \in Sessions PROVE BatchOK(s) /\ CommandOK(s) /\ LineOK(s)
  <2>1. turn[s].at = "free" /\ batch[s] = <<>> /\ inbox[s] = <<>> /\ seen = {}
        /\ \A k \in Msgs : arrived[k] = 0
    BY DEF DispatcherInit, Free
  <2>. QED  BY <2>1 DEF BatchOK, CommandOK, LineOK, Ascending, SetOf
<1>. QED  BY <1>1, <1>2, <1>3 DEF OrderIInv, Messages

LEMMA OrderStep ==
    DispatcherIInv /\ OrderIInv /\ [DispatcherNext]_dispatcherVars => OrderIInv'
<1>. SUFFICES ASSUME DispatcherIInv, OrderIInv, [DispatcherNext]_dispatcherVars
              PROVE  OrderIInv'
  OBVIOUS
<1>. USE DEF OrderIInv
<1>1. ASSUME NEW i \in Items, JobStep(i) PROVE OrderIInv'
  <2>1. contents' = contents /\ UNCHANGED <<stopping, chatVars>>
    BY <1>1 DEF JobStep, JobBegins, JobNeverBegins, AgentAnswers, AgentFails, SendsOn,
                CancelSeen, AgentTimesOut, Undone, TimedOut, Executes
  <2>. QED  BY <1>1, <2>1, JobRows, NoMessageMoves
<1>2. ASSUME NEW i \in Items, RemoveJob(i) PROVE OrderIInv'
  BY <1>2, RemovedRows, NoMessageMoves DEF RemoveJob
<1>3. ASSUME NEW s \in Sessions, ClearJobs(s) PROVE OrderIInv'
  BY <1>3, ClearedRows, NoMessageMoves DEF ClearJobs
<1>4. CASE QueueStep
  BY <1>4, WorkerRows, NoMessageMoves DEF QueueStep, jobVars
<1>5. CASE QueueCloses
  BY <1>5, ClosesRows, NoMessageMoves DEF QueueCloses
<1>6. CASE QueueClosed
  BY <1>6, ClosedRows, NoMessageMoves DEF QueueClosed, jobVars
<1>7. CASE Restart
  BY <1>7, RestartRows, NoMessageMoves DEF Restart
<1>8. CASE UNCHANGED dispatcherVars
  BY <1>8, SameRows, NoMessageMoves DEF dispatcherVars, jobVars
<1>9. ASSUME NEW s \in Sessions, ChatStep(s) PROVE OrderIInv'
  BY <1>9, TakesTurnOrder, HydratedOrder, TimerOrder, FlushedOrder DEF ChatStep
<1>. QED
  BY <1>1, <1>2, <1>3, <1>4, <1>5, <1>6, <1>7, <1>8, <1>9, ReceiveOrder, ResumesOrder,
     ClosesOrder DEF DispatcherNext

\* The rows of the jobs and the order of the messages are invariant too.
THEOREM OrderInvariance == DispatcherSpec => []OrderIInv
<1>. QED
  BY OrderInit, OrderStep, DispatcherInvariance, PTL DEF DispatcherSpec

\* The list of waiting jobs.  What it says of one job.
ListedOK(i) ==
    /\ caller[i] \in {"timer", "turn"}
    /\ \/ future[i] = "pending" /\ (place[i] = "queue" \/ Taken(i))
       \/ future[i] = "cancelled" /\ place[i] = "gone"

Listing == \A i \in listed : ListedOK(i)

\* A step that lists no job and leaves what is listed as it was.
LEMMA SameListed ==
    ASSUME Listing, UNCHANGED <<vars, caller>>, listed' \subseteq listed
    PROVE  Listing'
BY DEF Listing, ListedOK, Taken, vars

LEMMA CreateListed ==
    ASSUME DispatcherIInv, Listing, NEW i \in Items, NEW s \in Sessions, NEW ms,
           NEW who \in {"timer", "turn"}, CreateJob(i, s, ms, who), Rows
    PROVE  Listing'
<1>. USE DEF DispatcherIInv, IInv, TypeOK, JobTypeOK, Listing, ListedOK, Taken
<1>1. status[i] = "none" /\ i \notin listed
  BY DEF CreateJob, Unused, Rows, RowOK
<1>2. CASE closed
  <2>1. UNCHANGED vars /\ listed' = listed /\ caller' = [caller EXCEPT ![i] = "done"]
    BY <1>2 DEF CreateJob
  <2>2. UNCHANGED <<place, task, future>>
    BY <2>1 DEF vars
  <2>. QED  BY <1>1, <2>1, <2>2
<1>3. CASE ~closed
  <2>1. Submit(i) /\ listed' = listed \cup {i} /\ caller' = [caller EXCEPT ![i] = who]
    BY <1>3 DEF CreateJob
  <2>2. /\ place' = [place EXCEPT ![i] = "queue"] /\ task' = task
        /\ future' = [future EXCEPT ![i] = "pending"]
    BY <2>1 DEF Submit
  <2>3. ASSUME NEW j \in listed, j # i PROVE ListedOK(j)'
    BY <2>1, <2>2, <2>3
  <2>4. ListedOK(i)'
    BY <2>1, <2>2
  <2>. QED  BY <2>1, <2>3, <2>4
<1>. QED  BY <1>2, <1>3

LEMMA CancelListed ==
    ASSUME DispatcherIInv, Listing, NEW s \in Sessions, CancelJob(s)
    PROVE  Listing'
<1>. USE DEF DispatcherIInv, IInv, TypeOK, JobTypeOK, Listing, ListedOK, Taken
<1>1. UNCHANGED <<caller, listed, place, future>>
  BY DEF CancelJob, CancelActive, vars
<1>2. \A i \in Items : task'[i] = task[i] \/ task'[i] = "cancelling"
  BY DEF CancelJob, CancelActive, CancelTasks, vars
<1>. QED  BY <1>1, <1>2

LEMMA ChatListed ==
    ASSUME DispatcherIInv, Listing, Rows, NEW s \in Sessions, ChatStep(s)
    PROVE  Listing'
<1>1. ASSUME NEW m, Immediate(s, m) PROVE Listing'
  BY <1>1, CreateListed, CancelListed DEF Immediate
<1>2. ASSUME NEW m, Route(s, m) PROVE Listing'
  <2>1. CASE Immediate(s, m)
    BY <1>1, <2>1
  <2>2. CASE UNCHANGED <<vars, jobVars>>
    BY <2>2, SameListed DEF jobVars
  <2>3. CASE \E i \in Items, ms \in {batch[s], Append(batch[s], m)} :
               CreateJob(i, s, ms, "turn")
    BY <2>3, CreateListed
  <2>. QED  BY <1>2, <2>1, <2>2, <2>3 DEF Route, Collects, Commands
<1>3. CASE TakesTurn(s)
  BY <1>2, <1>3, SameListed DEF TakesTurn, jobVars
<1>4. CASE Hydrated(s)
  BY <1>2, <1>4 DEF Hydrated
<1>5. CASE TimerSeals(s)
  BY <1>5, SameListed, CreateListed DEF TimerSeals, jobVars
<1>6. CASE Flushed(s)
  BY <1>1, <1>6 DEF Flushed
<1>. QED  BY <1>3, <1>4, <1>5, <1>6 DEF ChatStep

\* A worker takes the job, gives it up when the queue is closed, or settles
\* the job that was cancelled before its first step.
LEMMA WorkerListed ==
    ASSUME DispatcherIInv, Listing, QueueStep
    PROVE  Listing'
<1>. USE DEF DispatcherIInv, IInv, TypeOK, JobTypeOK, Listing, ListedOK, Taken
<1>1. PICK s \in Sessions : WorkerStep(s)
  BY DEF QueueStep
<1>2. UNCHANGED <<caller, listed>>
  BY DEF QueueStep, jobVars
<1>3. ASSUME NEW i \in Items, WorkerSkips(s, i) PROVE Listing'
  BY <1>2, <1>3 DEF WorkerSkips, IsHead, QueuedOK
<1>4. ASSUME NEW i \in Items, WorkerStarts(s, i) PROVE Listing'
  BY <1>2, <1>4 DEF WorkerStarts, Launch, IsHead
<1>5. ASSUME NEW i \in Items, WorkerAdmitted(s, i) PROVE Listing'
  BY <1>2, <1>5 DEF WorkerAdmitted, Launch
<1>6. ASSUME NEW i \in Items, WorkerBlocks(s, i) PROVE Listing'
  BY <1>2, <1>6 DEF WorkerBlocks, IsHead
<1>7. ASSUME NEW i \in Items, WorkerDiscards(s, i) PROVE Listing'
  BY <1>2, <1>7 DEF WorkerDiscards, Discarded, CancelFutures
<1>8. ASSUME WorkerCollects(s) PROVE Listing'
  <2>1. active[s] \in Items /\ place[active[s]] = "active"
    BY <1>8 DEF WorkerCollects, Collected, WorkerOK
  <2>. QED  BY <1>2, <1>8, <2>1 DEF WorkerCollects, Collected, Outcome, Ended
<1>9. ASSUME WorkerStops(s) PROVE Listing'
  BY <1>2, <1>9 DEF WorkerStops
<1>. QED  BY <1>1, <1>3, <1>4, <1>5, <1>6, <1>7, <1>8, <1>9 DEF WorkerStep

\* The first step of a job takes it off the list; only a job that was
\* cancelled before that ends while it is listed.
LEMMA JobListed ==
    ASSUME DispatcherIInv, Listing, NEW i \in Items, JobStep(i)
    PROVE  Listing'
<1>. USE DEF DispatcherIInv, IInv, TypeOK, JobTypeOK, Listing, ListedOK, Taken
<1>1. task[i] \in Live /\ place[i] = "active" /\ caller' = caller
  BY DEF JobStep, JobBegins, JobNeverBegins, AgentAnswers, AgentFails, SendsOn,
         CancelSeen, AgentTimesOut, Undone, TimedOut, Executes, PlaceOK
<1>2. /\ listed' \subseteq listed
      /\ JobNeverBegins(i) \/ i \notin listed'
  BY DEF ListedIsWaiting, JobStep, JobBegins, JobNeverBegins, AgentAnswers,
         AgentFails, SendsOn, CancelSeen, AgentTimesOut, Undone, TimedOut
<1>3. /\ UNCHANGED <<place, future>>
      /\ \A j \in Items : j # i => task'[j] = task[j]
      /\ JobNeverBegins(i) => task' = [task EXCEPT ![i] = "aborted"]
  BY DEF vars, Ends, JobStep, JobBegins, JobNeverBegins, AgentAnswers, AgentFails,
         SendsOn, CancelSeen, AgentTimesOut, Undone, TimedOut
<1>4. ASSUME NEW j \in listed', j # i PROVE ListedOK(j)'
  BY <1>1, <1>2, <1>3, <1>4
<1>5. ASSUME i \in listed' PROVE ListedOK(i)'
  BY <1>1, <1>2, <1>3, <1>5
<1>. QED  BY <1>4, <1>5

LEMMA ListingStep ==
    DispatcherIInv /\ OrderIInv /\ Listing /\ [DispatcherNext]_dispatcherVars
    => Listing'
<1>. SUFFICES ASSUME DispatcherIInv, OrderIInv, Listing,
                     [DispatcherNext]_dispatcherVars
              PROVE  Listing'
  OBVIOUS
<1>0. Rows
  BY DEF OrderIInv
<1>. USE DEF DispatcherIInv, IInv, TypeOK, JobTypeOK
<1>1. ASSUME \/ \E m \in Msgs : Receive(m)
             \/ DispatcherCloses \/ Restart \/ UNCHANGED dispatcherVars
      PROVE  Listing'
  BY <1>1, SameListed DEF Receive, DispatcherCloses, Restart, dispatcherVars, jobVars
<1>2. CASE QueueClosed
  BY <1>2 DEF QueueClosed, CloseReturns, jobVars, Listing, ListedOK, Taken
<1>3. ASSUME NEW s \in Sessions, ChatStep(s) PROVE Listing'
  BY <1>0, <1>3, ChatListed
<1>4. ASSUME NEW s \in Sessions, ClearJobs(s) PROVE Listing'
  BY <1>4 DEF ClearJobs, Queued, CancelFutures, Listing, ListedOK, Taken
<1>5. ASSUME NEW i \in Items, CallerResumes(i) PROVE Listing'
  BY <1>5 DEF CallerResumes, Resumed, vars, Listing, ListedOK, Taken
<1>6. ASSUME NEW i \in Items, JobStep(i) PROVE Listing'
  BY <1>6, JobListed
<1>7. ASSUME NEW i \in Items, RemoveJob(i) PROVE Listing'
  BY <1>7 DEF RemoveJob, RemoveQueued, CancelFutures, Listing, ListedOK, Taken
<1>8. CASE QueueStep
  BY <1>8, WorkerListed
<1>9. CASE QueueCloses
  <2>1. UNCHANGED <<caller, listed>>
    BY <1>9 DEF QueueCloses
  <2>2. \A i \in Items : task[i] \in {"running", "cancelling", "aborted"}
                          => task'[i] \in {"running", "cancelling", "aborted"}
    <3>1. CancelTasks({active[s] : s \in Sessions} \ {NoItem})
      BY <1>9 DEF QueueCloses, Close
    <3>. QED  BY <3>1 DEF CancelTasks
  <2>3. \A i \in Items :
          IF place[i] = "queue"
          THEN place'[i] = "gone" /\ (future[i] = "pending" => future'[i] = "cancelled")
          ELSE place'[i] = place[i] /\ future'[i] = future[i]
    BY <1>9 DEF QueueCloses, Close, CancelFutures
  <2>4. ASSUME NEW i \in listed PROVE ListedOK(i)'
    BY <2>1, <2>2, <2>3 DEF Listing, ListedOK, Taken, QueuedOK
  <2>. QED  BY <2>1, <2>4 DEF Listing
<1>. QED
  BY <1>1, <1>2, <1>3, <1>4, <1>5, <1>6, <1>7, <1>8, <1>9 DEF DispatcherNext

\* The panel is right up to one job of a chat: a job the user was told is
\* removed has not run and never will; the list of queued jobs holds every
\* waiting job and none that has begun; and what it holds remove_queued_job
\* would find in the queue, but for the one job, older than those that wait,
\* that a worker of the chat has just taken (queued_jobs, _worker).
THEOREM PanelShowsTheQueue == DispatcherSpec => []PanelIsTrue
<1>1. DispatcherIInv => RemovedNeverRuns
  BY DEF DispatcherIInv, RemovedOK, RemovedNeverRuns
<1>2. DispatcherIInv => ListedIsWaiting
  BY DEF DispatcherIInv
<1>3. DispatcherInit => Listing
  BY DEF DispatcherInit, Listing
<1>4. DispatcherSpec => []Listing
  BY <1>3, ListingStep, DispatcherInvariance, OrderInvariance, PTL DEF DispatcherSpec
<1>5. DispatcherIInv /\ Listing => ListedIsRemovable
  <2>. SUFFICES ASSUME DispatcherIInv, Listing PROVE ListedIsRemovable
    OBVIOUS
  <2>1. ASSUME NEW i \in listed, NEW j \in listed,
               SessionOf[i] = SessionOf[j], Taken(i), i # j
        PROVE  ~Taken(j) /\ (place[j] = "queue" => ticket[i] <= ticket[j])
    BY <2>1 DEF DispatcherIInv, IInv, JobTypeOK, HeldIsOldest, Taken
  <2>. QED  BY <2>1 DEF ListedIsRemovable, Listing, ListedOK
<1>6. DispatcherIInv /\ Listing => PanelIsTrue
  BY <1>1, <1>2, <1>5 DEF PanelIsTrue
<1>. QED  BY <1>4, <1>6, DispatcherInvariance, PTL

\* No message is answered by two jobs, with any number of chats and messages,
\* however often the listener reports a message, and whether a window, a
\* command or nothing at all seals its batch (mark_inbound_processed,
\* _seal_message_batch).
THEOREM MessagesHaveOneJob == DispatcherSpec => []OneJobPerMessage
<1>1. DispatcherIInv /\ OrderIInv => OneJobPerMessage
  <2>. SUFFICES ASSUME DispatcherIInv, OrderIInv, NEW i \in Items, NEW j \in Items, i # j,
                       NEW m \in SetOf(contents[i]), m \in SetOf(contents[j])
                PROVE  FALSE
    BY DEF OneJobPerMessage
  <2>1. SessionOf[i] = SessionOf[j]
    BY DEF OrderIInv, Messages, ContentsOK
  <2>2. i < j \/ j < i
    BY DispatcherAssumption
  <2>3. m < m
    BY <2>1, <2>2 DEF OrderIInv, Messages, ContentsOK
  <2>4. m \in Nat
    <3>1. contents[i] \in Seq(Msgs)
      BY DEF DispatcherIInv, JobTypeOK
    <3>2. PICK k \in DOMAIN contents[i] : m = contents[i][k]
      BY DEF SetOf
    <3>3. m \in Msgs
      BY <3>1, <3>2
    <3>. QED  BY <3>3, DispatcherAssumption
  <2>. QED  BY <2>3, <2>4
<1>. QED  BY <1>1, OrderInvariance, DispatcherInvariance, PTL

\* The jobs of a chat are queued in the order of the messages they answer,
\* although batches are sealed by timers, images are decoded late and commands
\* overtake; the queue starts them in that order (InOrder).
THEOREM JobsKeepTheOrder == DispatcherSpec => []OrderKept
<1>1. DispatcherIInv /\ OrderIInv => OrderKept
  <2>. SUFFICES ASSUME DispatcherIInv, OrderIInv PROVE OrderKept
    OBVIOUS
  <2>1. ASSUME NEW i \in Items, NEW j \in Items, SessionOf[i] = SessionOf[j],
               0 < ticket[i], ticket[i] < ticket[j]
        PROVE  i < j
    <3>1. ticket[i] \in Nat /\ ticket[j] \in Nat /\ i \in Nat /\ j \in Nat
      BY DispatcherAssumption DEF DispatcherIInv, IInv, TypeOK
    <3>2. ~(j < i) /\ j # i
      BY <2>1, <3>1 DEF OrderIInv, Rows, UsedOK
    <3>. QED  BY <3>1, <3>2
  <2>. QED
    BY <2>1 DEF OrderKept, OrderIInv, Messages, ContentsOK, Ascending
<1>. QED  BY <1>1, OrderInvariance, DispatcherInvariance, PTL

\* No job is shown as queued or running that nobody works on: whoever leaves
\* a job leaves a final row, whether the job returned, was cancelled in any of
\* its stages, removed from the queue, discarded by close() or interrupted by
\* a restart.  What the adapter raised and what a closed queue refused is left.
THEOREM RowsAreSettled == DispatcherSpec => []NoGhostJob
<1>1. DispatcherIInv /\ OrderIInv => NoGhostJob
  <2>. SUFFICES ASSUME DispatcherIInv, OrderIInv, NEW i \in Items,
                       caller[i] = "done", task[i] \notin Live \cup {"raised"}
                PROVE  status[i] \in Final \/ (closed /\ status[i] = "queued")
    BY DEF NoGhostJob
  <2>1. RowOK(i) /\ FutureTruth /\ future[i] \in Futures
    BY DEF OrderIInv, Rows, DispatcherIInv, IInv, TypeOK
  <2>. QED  BY <2>1 DEF RowOK, FutureTruth, Futures, Final
<1>. QED  BY <1>1, OrderInvariance, DispatcherInvariance, PTL
=============================================================================
