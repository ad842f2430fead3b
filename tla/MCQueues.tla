------------------------------ MODULE MCQueues ------------------------------
(***************************************************************************)
(* Where the bridge waits in one run: for the lock of WeChat's database    *)
(* and its snapshots, and in the queue of the jobs.  The two share no      *)
(* state; `part' says which of them moves in a behaviour.                  *)
(*                                                                         *)
(* Two conversations compete for one permit of the queue; in one of them   *)
(* an item waits behind another one.                                       *)
(***************************************************************************)
EXTENDS DatabaseAccess, SessionTaskQueue, TLC

CONSTANTS a1, a2, b1, sa, sb

MCSessions == {sa, sb}
MCItems == {a1, a2, b1}
MCSessionOf == (a1 :> sa) @@ (a2 :> sa) @@ (b1 :> sb)

VARIABLE part

allVars == <<part, databaseVars, vars>>

\* Each module keeps to its types.
QueuesTypeOK == DatabaseTypeOK /\ TypeOK

QueuesInit ==
    /\ part \in {"database", "queue"}
    /\ DatabaseInit /\ Init

OfDatabase(A) ==
    part = "database" /\ A /\ UNCHANGED <<part, vars>>
OfQueue(A) ==
    part = "queue" /\ A /\ UNCHANGED <<part, databaseVars>>

QueuesNext ==
    \/ OfDatabase(DatabaseNext)
    \/ OfQueue(Next)

\* Weaker than the fairness of DatabaseSpec and of FairSpec: while a thread or
\* a task of the part may go on, one of them does.
QueuesSpec ==
    /\ QueuesInit /\ [][QueuesNext]_allVars
    /\ WF_allVars(\/ OfDatabase(CallStep \/ Begin("get_new_messages"))
                  \/ OfQueue(\/ \E s \in Sessions : WorkerStep(s)
                             \/ \E i \in Items : TaskEnds(i)
                             \/ CloseReturns))
=============================================================================
