--------------------------- MODULE SerialExecutor ---------------------------
(***************************************************************************)
(* What the bridge promises about Agent work, whatever the queue inside    *)
(* looks like: every conversation ("session") runs its items one at a time *)
(* and in the order they were submitted, different sessions run in         *)
(* parallel up to a global limit, an item may be given up before it        *)
(* started, and nothing starts once the executor was shut.                 *)
(*                                                                         *)
(* This is the abstract specification that SessionTaskQueue implements.    *)
(***************************************************************************)
EXTENDS Integers, FiniteSets

CONSTANTS Items,           \* everything that may ever be submitted
          Sessions,        \* the conversations
          SessionOf,       \* the conversation an item belongs to
          MaxConcurrency   \* how many items may run at the same time

VARIABLES phase,           \* [Items -> Phases]
          ticket,          \* [Items -> Nat], the order of submission
          shut             \* TRUE once no further item may start

absVars == <<phase, ticket, shut>>

Phases == {"new", "pending", "running", "over"}

Running == {i \in Items : phase[i] = "running"}

\* The items that must start before i may: earlier ones of the same session.
Ahead(i) == {j \in Items : /\ SessionOf[j] = SessionOf[i]
                           /\ phase[j] = "pending"
                           /\ ticket[j] < ticket[i]}

AbsInit == /\ phase = [i \in Items |-> "new"]
           /\ ticket = [i \in Items |-> 0]
           /\ shut = FALSE

Accept(i) == /\ ~shut
             /\ phase[i] = "new"
             /\ phase' = [phase EXCEPT ![i] = "pending"]
             /\ ticket'[i] \in Nat
             /\ \A j \in Items : ticket[j] < ticket'[i]
             /\ ticket' = [ticket EXCEPT ![i] = ticket'[i]]
             /\ UNCHANGED shut

Begin(i) == /\ ~shut
            /\ phase[i] = "pending"
            /\ Ahead(i) = {}
            /\ \A j \in Running : SessionOf[j] # SessionOf[i]
            /\ Cardinality(Running) < MaxConcurrency
            /\ phase' = [phase EXCEPT ![i] = "running"]
            /\ UNCHANGED <<ticket, shut>>

End(i) == /\ phase[i] = "running"
          /\ phase' = [phase EXCEPT ![i] = "over"]
          /\ UNCHANGED <<ticket, shut>>

\* Some pending items are given up, none of them ever having started.
GiveUp(S) == /\ \A i \in S : phase[i] = "pending"
             /\ phase' = [i \in Items |-> IF i \in S THEN "over" ELSE phase[i]]
             /\ UNCHANGED <<ticket, shut>>

\* Shutting gives up pending items too; running ones are left to end.
Shut(S) == /\ ~shut
           /\ \A i \in S : phase[i] = "pending"
           /\ phase' = [i \in Items |-> IF i \in S THEN "over" ELSE phase[i]]
           /\ shut' = TRUE
           /\ UNCHANGED ticket

AbsNext == \/ \E i \in Items : Accept(i) \/ Begin(i) \/ End(i)
           \/ \E S \in SUBSET Items : GiveUp(S) \/ Shut(S)

AbsSpec == AbsInit /\ [][AbsNext]_absVars
=============================================================================
