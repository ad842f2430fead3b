-------------------------- MODULE CompanionEntries --------------------------
(***************************************************************************)
(* The realtime cards of one conversation and the deliveries each of them  *)
(* stands for (companion/controller.py): a job of the Agent gets one card, *)
(* its reply is split into deliveries that are queued one by one, and what *)
(* the card shows is the aggregate of what the sender told of them.  The   *)
(* user cancels, retries and sends again, echoes confirm deliveries, rows  *)
(* expire, and the user may clear the conversation at any time; positions  *)
(* of cards in a list are kept in three maps meanwhile.                    *)
(*                                                                         *)
(* Deliveries are numbered in the order of their rows.  What a delivery    *)
(* says is the part of the reply it was made from.                         *)
(*                                                                         *)
(* A definition whose name ends in Bug is a mutant of the one after it.    *)
(***************************************************************************)
EXTENDS Integers, SequencesExt

CONSTANTS MaxReplies,    \* bound on the jobs of the Agent
          MaxParts,      \* bound on the deliveries of a reply
          MaxDeliveries, \* bound on the deliveries
          MaxCardClears

ASSUME EntriesAssumption ==
    {MaxReplies, MaxParts, MaxDeliveries, MaxCardClears} \subseteq Nat

VARIABLES
    job,            \* [stage, parts, sent]: what the dispatcher does with it
    outbox,         \* the outbound table: [says, key, status]
    worker,         \* the delivery the sender works on, 0 when none
    toldCards,      \* history: what the companion was told of a delivery
    cards,          \* _realtime, with the _delivery_states of each card
    agentEntries,   \* _agent_entries, 0 when missing
    sourceEntries,  \* _source_entries
    deliveryEntries,\* _delivery_entries
    clearings

boardVars == <<cards, agentEntries, sourceEntries, deliveryEntries>>
entriesVars == <<job, outbox, worker, toldCards, boardVars, clearings>>

Jobs == 1..MaxReplies
Parts == 1..MaxParts
Deliveries == DOMAIN outbox
NoReply == 0
NoKey == <<0, 0>>

Waiting == {"queued", "retrying"}
Failures == {"failed", "expired", "cancelled"}
RowStatus == Waiting \cup Failures \cup {"sending", "sent"}

EntriesTypeOK ==
    /\ \A d \in Deliveries : /\ outbox[d].status \in RowStatus
                             /\ toldCards[d] \in RowStatus \cup {"nothing"}
    /\ DOMAIN toldCards = Deliveries /\ worker \in {0} \cup Deliveries
    /\ Range(agentEntries) \subseteq 0..Len(cards)
    /\ Range(sourceEntries) \subseteq 0..Len(cards)
    /\ Range(deliveryEntries) \subseteq 0..Len(cards)

EntriesInit ==
    /\ job = [j \in Jobs |-> [stage |-> "new", parts |-> 0, sent |-> 0]]
    /\ outbox = <<>> /\ worker = 0 /\ toldCards = <<>> /\ cards = <<>> /\ clearings = 0
    /\ agentEntries = [j \in Jobs |-> 0]
    /\ sourceEntries = [k \in Jobs \X Parts |-> 0]
    /\ deliveryEntries = [d \in 1..MaxDeliveries |-> 0]

-----------------------------------------------------------------------------

NewCard(j, status) ==
    [job |-> j, status |-> status, expected |-> 1, ids |-> <<>>, states |-> <<>>]

AggregateBug(states, expected) ==
    LET shown == Range(states) IN
    IF shown \cap Failures # {}
    THEN CHOOSE f \in shown \cap Failures : TRUE
    ELSE IF shown = {"sent"} THEN "sent"
    ELSE IF shown \cap {"sending", "retrying"} # {}
         THEN CHOOSE a \in shown \cap {"sending", "retrying"} : TRUE
    ELSE "queued"

\* _aggregate_delivery_status: the first failure, in this order; "sent" when
\* all expected deliveries are; the first activity.
FirstOf(order, shown) ==
    LET hits == {i \in DOMAIN order : order[i] \in shown}
    IN IF hits = {} THEN "queued" ELSE order[Min(hits)]

Aggregate(states, expected) ==
    LET shown == Range(states) IN
    IF shown \cap Failures # {}
    THEN FirstOf(<<"failed", "expired", "cancelled">>, shown)
    ELSE IF Len(states) >= expected /\ shown = {"sent"} THEN "sent"
    ELSE FirstOf(<<"sending", "retrying">>, shown)

\* _updated_delivery_entry.
Updated(card, d, status) ==
    LET known == Contains(card.ids, d)
        ids == IF known THEN card.ids ELSE Append(card.ids, d)
        states == IF known
                  THEN [i \in DOMAIN ids |-> IF ids[i] = d THEN status
                                             ELSE card.states[i]]
                  ELSE Append(card.states, status)
    IN [card EXCEPT !.ids = ids, !.states = states,
                    !.status = Aggregate(states, card.expected)]

\* The card of a delivery: its own, or the one of the reply it is a part of.
Location(table, d) ==
    IF deliveryEntries[d] # 0 THEN deliveryEntries[d]
    ELSE IF table[d].key = NoKey THEN 0
    ELSE sourceEntries[table[d].key]

\* handle_sender_update: the sender tells the status of a delivery that is in
\* the table.
Tell(table, d, status) ==
    LET at == Location(table, d) IN
    /\ cards' = IF at = 0
                THEN Append(cards, Updated(NewCard(NoReply, status), d, status))
                ELSE [cards EXCEPT ![at] = Updated(@, d, status)]
    /\ deliveryEntries' =
          [deliveryEntries EXCEPT ![d] = IF at = 0 THEN Len(cards) + 1 ELSE at]
    /\ outbox' = table
    /\ toldCards' = [i \in DOMAIN table |-> IF i = d THEN status ELSE toldCards[i]]

\* enqueue_outbound_delivery and the notice of it.
Put(says, key) ==
    /\ Len(outbox) < MaxDeliveries
    /\ Tell(Append(outbox, [says |-> says, key |-> key, status |-> "queued"]),
            Len(outbox) + 1, "queued")

-----------------------------------------------------------------------------
(* handle_agent_update, called by the dispatcher. *)

\* The jobs of a session run one after the other, in their order.
Over(j) == \/ job[j].stage = "done"
           \/ job[j].stage = "replying" /\ job[j].sent = job[j].parts

ReplyStarts(j) ==
    /\ job[j].stage = "new" /\ \A i \in 1..(j - 1) : job[i].stage # "new" /\ Over(i)
    /\ job' = [job EXCEPT ![j].stage = "running"]
    /\ cards' = Append(cards, NewCard(j, "generating"))
    /\ agentEntries' = [agentEntries EXCEPT ![j] = Len(cards) + 1]
    /\ UNCHANGED <<outbox, worker, toldCards, sourceEntries, deliveryEntries, clearings>>

\* The Agent has answered; cards that were cleared are gone.
ReplyCompletes(j, n) ==
    /\ job[j].stage = "running"
    /\ job' = [job EXCEPT ![j] = [stage |-> "replying", parts |-> n, sent |-> 0]]
    /\ LET at == agentEntries[j] IN
       IF at = 0 THEN UNCHANGED boardVars
       ELSE /\ cards' = [cards EXCEPT ![at].status = "generated",
                                      ![at].expected = n]
            /\ agentEntries' = [agentEntries EXCEPT ![j] = 0]
            /\ sourceEntries' = [k \in DOMAIN sourceEntries |->
                  IF k[1] = j /\ k[2] <= n THEN at ELSE sourceEntries[k]]
            /\ UNCHANGED deliveryEntries
    /\ UNCHANGED <<outbox, worker, toldCards, clearings>>

JobEnds(j, status) ==
    /\ job[j].stage = "running"
    /\ job' = [job EXCEPT ![j].stage = "done"]
    /\ LET at == agentEntries[j] IN
       IF at = 0 THEN UNCHANGED boardVars
       ELSE /\ cards' = [cards EXCEPT ![at].status = status]
            /\ agentEntries' = [agentEntries EXCEPT ![j] = 0]
            /\ UNCHANGED <<sourceEntries, deliveryEntries>>
    /\ UNCHANGED <<outbox, worker, toldCards, clearings>>

\* The next part of the reply goes to the outbound table.
JobSends(j) ==
    LET part == job[j].sent + 1 IN
    /\ job[j].stage = "replying" /\ part <= job[j].parts
    /\ job' = [job EXCEPT ![j].sent = part]
    /\ Put(<<j, part>>, <<j, part>>)
    /\ UNCHANGED <<worker, agentEntries, sourceEntries, clearings>>

\* A part cannot be queued, or the job is cancelled in between: the card is no
\* longer known by its job.
JobStops(j) ==
    /\ job[j].stage = "replying" /\ job[j].sent < job[j].parts
    /\ job' = [job EXCEPT ![j].stage = "done"]
    /\ UNCHANGED <<outbox, worker, toldCards, boardVars, clearings>>

-----------------------------------------------------------------------------
(* The sender and the table. *)

Change(d, status) ==
    /\ Tell([outbox EXCEPT ![d].status = status], d, status)
    /\ UNCHANGED <<job, agentEntries, sourceEntries, clearings>>

\* The oldest row that waits.
WorkerClaims(d) ==
    /\ worker = 0 /\ worker' = d
    /\ outbox[d].status \in Waiting
    /\ \A i \in 1..(d - 1) : outbox[i].status \notin Waiting
    /\ Change(d, "sending")

\* Whatever an echo has made of the row meanwhile.
WorkerSettles(d, status) ==
    /\ worker = d /\ worker' = 0
    /\ Change(d, status)

\* claim_next_outbound_delivery expires overdue rows and tells nobody; a row
\* that was claimed is expired with a notice.
RowExpires(d) ==
    /\ outbox[d].status \in Waiting
    /\ outbox' = [outbox EXCEPT ![d].status = "expired"]
    /\ UNCHANGED <<job, worker, toldCards, boardVars, clearings>>

\* retry_delivery and resend_delivery: a new row and a card of its own.
Again(d) ==
    /\ outbox[d].status \in {"failed", "expired", "sent"}
    /\ Put(outbox[d].says, NoKey)
    /\ UNCHANGED <<job, worker, agentEntries, sourceEntries, clearings>>

CancelDelivery(d) ==
    /\ outbox[d].status \in Waiting /\ Change(d, "cancelled") /\ UNCHANGED worker

-----------------------------------------------------------------------------

\* _mark_matching_delivery_sent: the newest card one of whose deliveries says
\* what the message says, and the first such delivery of it.
Matching(says) ==
    LET hits == {i \in DOMAIN cards :
                   \E d \in Range(cards[i].ids) : outbox[d].says = says}
    IN IF hits = {} THEN 0
       ELSE LET ids == cards[Max(hits)].ids
            IN ids[Min({k \in DOMAIN ids : outbox[ids[k]].says = says})]

EchoCard(d) == CHOOSE i \in DOMAIN cards :
                  /\ Contains(cards[i].ids, d)
                  /\ \A k \in DOMAIN cards : Contains(cards[k].ids, d) => k <= i

\* WeChat reports a message of the account: what was posted of a delivery, or
\* words of the user that equal a delivery that is on a card and still waits.
Echo(d) ==
    /\ \/ outbox[d].status \in {"sending", "sent", "retrying", "failed"}
       \/ outbox[d].status = "queued" /\ deliveryEntries[d] # 0
    /\ LET hit == Matching(outbox[d].says) IN
       IF hit = 0 THEN UNCHANGED <<outbox, worker, toldCards, cards>>
       ELSE /\ outbox' = [outbox EXCEPT ![hit].status = "sent"]
            /\ toldCards' = [toldCards EXCEPT ![hit] = "sent"]
            /\ cards' = [cards EXCEPT ![EchoCard(hit)] = Updated(@, hit, "sent")]
    /\ UNCHANGED <<job, worker, agentEntries, sourceEntries, deliveryEntries,
                   clearings>>

\* clear_local_messages; jobs and deliveries go on.
ClearCards ==
    /\ clearings < MaxCardClears /\ clearings' = clearings + 1
    /\ cards' = <<>>
    /\ agentEntries' = [j \in Jobs |-> 0]
    /\ sourceEntries' = [k \in Jobs \X Parts |-> 0]
    /\ deliveryEntries' = [d \in 1..MaxDeliveries |-> 0]
    /\ UNCHANGED <<job, outbox, worker, toldCards>>

EntriesNext ==
    \/ \E j \in Jobs :
          \/ ReplyStarts(j) \/ JobSends(j) \/ JobStops(j)
          \/ \E n \in Parts : ReplyCompletes(j, n)
          \/ \E status \in {"generation_failed", "cancelled"} : JobEnds(j, status)
    \/ \E d \in Deliveries :
          \/ WorkerClaims(d) \/ RowExpires(d) \/ Again(d)
          \/ CancelDelivery(d) \/ Echo(d)
          \/ \E status \in {"sent", "failed", "retrying"} : WorkerSettles(d, status)
    \/ ClearCards

EntriesSpec == EntriesInit /\ [][EntriesNext]_entriesVars

-----------------------------------------------------------------------------
(* Properties. *)

\* A card shows "sent" only when every part of the reply has its row and all
\* of these were sent, however parts, echoes, retries and clearings interleave.
SentIsTrue ==
    \A i \in DOMAIN cards :
       cards[i].status = "sent" =>
          /\ \A d \in Range(cards[i].ids) : outbox[d].status = "sent"
          /\ cards[i].job # NoReply =>
                \A p \in 1..job[cards[i].job].parts :
                   \E d \in Range(cards[i].ids) : outbox[d].key = <<cards[i].job, p>>

\* No delivery is on two cards, and what a card shows of one is what the
\* companion was told last: a position that a clearing left behind is never
\* used for another card.
OneCardPerDelivery ==
    \A i \in DOMAIN cards : \A k \in DOMAIN cards[i].ids :
       LET d == cards[i].ids[k] IN
       /\ cards[i].states[k] = toldCards[d]
       /\ deliveryEntries[d] = i
       /\ outbox[d].key # NoKey => cards[i].job \in {outbox[d].key[1], NoReply}

\* The cards tell the truth about the deliveries.
CardsAreTrue == SentIsTrue /\ OneCardPerDelivery
=============================================================================
