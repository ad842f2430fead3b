---------------------------- MODULE ReplyOutbox ----------------------------
(***************************************************************************)
(* What the bridge promises about a reply it accepted for WeChat: replies  *)
(* are taken up one at a time and oldest first, a reply is typed into      *)
(* WeChat at most once, and one that was given up (cancelled, expired,     *)
(* failed, or left over from an earlier run of the bridge) never.          *)
(*                                                                         *)
(* This is the abstract specification that IdleUiaSender implements as     *)
(* long as the user does not interfere in the instant after the send       *)
(* action.  Replies are numbered in the order they were accepted.          *)
(***************************************************************************)
EXTENDS Naturals

CONSTANT Deliveries      \* 1..n for some n

VARIABLES stage,         \* [Deliveries -> Stages]
          posts          \* how often the bridge posted the reply

outboxVars == <<stage, posts>>

Stages == {"new", "waiting", "inflight", "over"}

OutboxInit == /\ stage = [d \in Deliveries |-> "new"]
              /\ posts = [d \in Deliveries |-> 0]

Accept(d) == /\ stage[d] = "new"
             /\ \A e \in Deliveries : e < d => stage[e] # "new"
             /\ stage' = [stage EXCEPT ![d] = "waiting"]
             /\ UNCHANGED posts

Take(d) == /\ stage[d] = "waiting"
           /\ \A e \in Deliveries : /\ stage[e] # "inflight"
                                    /\ e < d => stage[e] # "waiting"
           /\ stage' = [stage EXCEPT ![d] = "inflight"]
           /\ UNCHANGED posts

\* Whoever does not verify what it sends is done with it at once.
Post(d) == /\ stage[d] = "inflight"
           /\ posts[d] = 0
           /\ posts' = [posts EXCEPT ![d] = 1]
           /\ stage' \in {stage, [stage EXCEPT ![d] = "over"]}

\* Back to the queue, for a reply that certainly was not posted.
PutBack(d) == /\ stage[d] = "inflight"
              /\ posts[d] = 0
              /\ stage' = [stage EXCEPT ![d] = "waiting"]
              /\ UNCHANGED posts

\* The replies in S are done with, whatever became of them.
Conclude(S) == /\ \A d \in S : stage[d] \in {"waiting", "inflight"}
               /\ stage' = [d \in Deliveries |->
                              IF d \in S THEN "over" ELSE stage[d]]
               /\ UNCHANGED posts

OutboxNext == \/ \E d \in Deliveries :
                    Accept(d) \/ Take(d) \/ Post(d) \/ PutBack(d)
              \/ \E S \in SUBSET Deliveries : Conclude(S)

OutboxSpec == OutboxInit /\ [][OutboxNext]_outboxVars
=============================================================================
