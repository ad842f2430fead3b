---------------------------- MODULE SenderProofs ----------------------------
(***************************************************************************)
(* Proofs about the reply sender, for every number of deliveries, every    *)
(* set of messages and every bound: a reply is posted at most once, what   *)
(* is over stays over, and the sender is the outbox of ReplyOutbox.        *)
(***************************************************************************)
EXTENDS IdleUiaSender, FiniteSetTheorems, TLAPS

-----------------------------------------------------------------------------
(* The invariant. *)

\* Rows are filled in order, and those that exist have a message.
TableOK ==
    /\ \A d \in Deliveries : Exists(d) <=> row[d].msg \in Messages
    /\ \A d, e \in Deliveries : e < d /\ Exists(d) => Exists(e)

\* The delivery in hand: no older one waits, and what happened to it since it
\* was claimed left it in a status its place allows.  SENDING is the status of
\* the delivery that is attempted, or of one a crash has left.
HandOK ==
    /\ cur # NoDelivery =>
          Exists(cur) /\ \A e \in Deliveries : e < cur => ~Pending(e)
    /\ pc \in Waiting =>
          row[cur].status \in PendingStatuses \cup {"cancelled", "sent"}
    /\ pc \in Attempting =>
          row[cur].status \in {"sending", "sent"} /\ row[cur].attempts >= 1
    /\ \A d \in Deliveries :
          Running /\ row[d].status = "sending" => d = cur /\ pc \in Attempting

\* What a start has discarded is over and not in hand.
BootOK == \A d \in Deliveries :
             d <= boot => row[d].status \in FinalStatuses /\ d # cur

SenderIInv == TypeOK /\ TableOK /\ HandOK /\ BootOK

\* The user leaves WeChat alone in the instant after the send action.
Undisturbed == ~TypesAfterSend /\ ~MovesAfterSend

\* Every start discards what an earlier run has left, as run_bridge does; or
\* it recovers it, but each reply is sent by the foreground driver, which
\* marks the row before it sends.
FreshStarts == StartupDiscards \subseteq {TRUE}
MarkedSends == VerifySends /\ Messages \subseteq Images \ Quotes
Repeatless == FreshStarts \/ MarkedSends

\* The places where the reply in hand may have been posted.
AfterPost == {"bg_invoked", "bg_verify", "fg_done", "fg_verify", "quote_done",
              "quote_verify"}

\* A row of which a recovery knows that it may have been posted.
Recalled(d) == /\ ~FreshStarts /\ Pending(d)
               /\ row[d].code = "recovered_foreground_inflight"

\* Such a row, cancelled while the worker has it in hand.
WasRecalled(d) == ~FreshStarts /\ row[d].status = "cancelled"

\* What was posted was posted once, waits only to be looked up, and is in hand
\* only while its result is being looked for.  What is older is over.
PostedOK ==
    \A d \in Deliveries : posted[d] # 0 =>
       /\ posted[d] = 1 /\ Exists(d)
       /\ Pending(d) => Recalled(d)
       /\ d = cur => \/ pc \in AfterPost
                     \/ pc = "recover" /\ Recalled(d)
                     \/ pc \in Waiting /\ WasRecalled(d)
       /\ \A e \in Deliveries :
             e < d => e # cur /\ row[e].status \in FinalStatuses

\* The mark of the foreground driver, and that no echo is outstanding which
\* could confirm a reply before it is looked up.
MarkOK ==
    /\ pc = "off" => \A m \in Messages : echoes[m] = 0
    /\ ~FreshStarts =>
          /\ pc \in Attempting => pc \in {"fallback", "fg", "fg_done", "fg_verify"}
          /\ pc \in {"fg", "fg_done", "fg_verify"} /\ row[cur].status = "sending"
             => row[cur].code = "foreground_inflight"
    /\ \A d \in Deliveries : posted[d] # 0 =>
          /\ ~FreshStarts /\ row[d].status = "sending"
             => row[d].code = "foreground_inflight"
          /\ Pending(d) \/ (d = cur /\ pc \in Waiting)
             => \A m \in Messages : echoes[m] = 0

\* Text that is still in the box was not posted.
BoxOK ==
    /\ pc = "bg_typed" /\ ~touched => box = Msg
    /\ pc = "bg_invoked" => box \in {Empty, Msg}
    /\ pc \in {"bg_invoked", "bg_verify"} /\ posted[cur] # 0 => box # Msg

PostIInv == PostedOK /\ MarkOK /\ BoxOK

\* No two replies look the same.
DistinctReplies == ~RepeatsText /\ \A i, j \in Images : i = j

\* Rows differ in their messages, and an echo or a row of WeChat's database is
\* of a reply that was posted.
ProofOK ==
    /\ \A d, e \in Deliveries : Exists(d) /\ row[d].msg = row[e].msg => d = e
    /\ \A m \in Messages :
          echoes[m] # 0 \/ rows[m] # 0
          => \E d \in Deliveries : row[d].msg = m /\ posted[d] # 0
    /\ pc = "quote_done" /\ answer = "verified" => posted[cur] # 0

ProofIInv == ProofOK /\ SentWasPosted

\* A cancelled reply was not posted and nobody tries.
CancelledOK ==
    \A d \in cancelled : /\ row[d].status = "cancelled" /\ row[d].code = "none"
                         /\ posted[d] = 0
                         /\ d = cur => pc \in Waiting
-----------------------------------------------------------------------------
(* What the operations on the table do to its rows. *)

\* Only row d changes, to this status and code.
Changes(d, status, code) ==
    /\ row' \in [Deliveries -> Row]
    /\ \A e \in Deliveries : e # d => row'[e] = row[e]
    /\ row'[d].status = status /\ row'[d].code = code
    /\ row'[d].msg = row[d].msg

LEMMA UpdateFacts ==
    ASSUME row \in [Deliveries -> Row], NEW d \in Deliveries,
           NEW s \in Statuses, NEW c \in Codes, Update(d, s, c)
    PROVE  Changes(d, s, c) /\ row'[d].attempts = row[d].attempts
  <1>1. /\ row' = [row EXCEPT ![d] = [row[d] EXCEPT !.status = s, !.code = c]]
        /\ row[d] \in Row
    BY DEF Update
  <1> DEFINE new == [row[d] EXCEPT !.status = s, !.code = c]
  <1>2. new \in Row
    BY <1>1 DEF Row
  <1>3. new.status = s /\ new.code = c
    BY <1>1 DEF Row
  <1>4. new.msg = row[d].msg /\ new.attempts = row[d].attempts
    BY <1>1 DEF Row
  <1>5. row' = [row EXCEPT ![d] = new]
    BY <1>1
  <1> HIDE DEF new
  <1>6. QED
    BY <1>2, <1>3, <1>4, <1>5 DEF Changes

LEMMA UpdateAttemptFacts ==
    ASSUME row \in [Deliveries -> Row], NEW d \in Deliveries,
           NEW s \in Statuses, NEW c \in Codes, NEW n \in 0..MaxAttempts,
           NEW b \in BOOLEAN, UpdateAttempt(d, s, c, n, b)
    PROVE  Changes(d, s, c) /\ row'[d].attempts = n
  <1> DEFINE new == [row[d] EXCEPT !.status = s, !.code = c, !.attempts = n,
                                  !.deferred = b]
  <1>1. row' = [row EXCEPT ![d] = new] /\ row[d] \in Row
    BY DEF UpdateAttempt
  <1>2. new \in Row
    BY <1>1 DEF Row
  <1>3. new.status = s /\ new.code = c
    BY <1>1 DEF Row
  <1>4. new.msg = row[d].msg /\ new.attempts = n
    BY <1>1 DEF Row
  <1> HIDE DEF new
  <1>6. QED
    BY <1>1, <1>2, <1>3, <1>4 DEF Changes

\* What no operation on existing rows changes.
KeepsMessages ==
    /\ row' \in [Deliveries -> Row]
    /\ \A e \in Deliveries : row'[e].msg = row[e].msg

\* The row as a claim leaves it, unless it is the claimed one.
Swept(e) == /\ row'[e].status = IF Pending(e) /\ row[e].old THEN "expired"
                                ELSE row[e].status
            /\ row'[e].code = row[e].code
            /\ row'[e].attempts = row[e].attempts

LEMMA WithoutStaleFacts ==
    ASSUME row \in [Deliveries -> Row]
    PROVE  /\ WithoutStale \in [Deliveries -> Row]
           /\ \A e \in Deliveries :
                 /\ WithoutStale[e].msg = row[e].msg
                 /\ WithoutStale[e].status =
                       IF Pending(e) /\ row[e].old THEN "expired"
                       ELSE row[e].status
                 /\ WithoutStale[e].code = row[e].code
                 /\ WithoutStale[e].attempts = row[e].attempts
  <1>1. ASSUME NEW e \in Deliveries
        PROVE  /\ WithoutStale[e] \in Row
               /\ WithoutStale[e].msg = row[e].msg
               /\ WithoutStale[e].status =
                     IF Pending(e) /\ row[e].old THEN "expired"
                     ELSE row[e].status
               /\ WithoutStale[e].code = row[e].code
               /\ WithoutStale[e].attempts = row[e].attempts
    <2>1. row[e] \in Row
      OBVIOUS
    <2>2. CASE e \in Stale
      <3>1. WithoutStale[e] = [row[e] EXCEPT !.status = "expired"]
        BY <2>2 DEF WithoutStale
      <3>2. Pending(e) /\ row[e].old
        BY <2>2 DEF Stale
      <3>3. QED
        BY <2>1, <3>1, <3>2 DEF Row, Statuses, FinalStatuses
    <2>3. CASE e \notin Stale
      <3>1. WithoutStale[e] = row[e]
        BY <2>3 DEF WithoutStale
      <3>2. ~(Pending(e) /\ row[e].old)
        BY <2>3 DEF Stale
      <3>3. QED
        BY <2>1, <3>1, <3>2
    <2>4. QED
      BY <2>2, <2>3
  <1>2. WithoutStale = [e \in Deliveries |-> WithoutStale[e]]
    BY DEF WithoutStale
  <1>3. QED
    BY <1>1, <1>2

LEMMA ClaimFacts ==
    ASSUME row \in [Deliveries -> Row], NEW d \in Deliveries, Claim(d)
    PROVE  /\ KeepsMessages /\ Pending(d)
           /\ row'[d].status = "waiting_for_idle"
           /\ row'[d].code = row[d].code
           /\ \A e \in Deliveries : e # d => Swept(e)
           /\ \A e \in Deliveries :
                 e < d => row'[e].status \notin PendingStatuses
  <1> DEFINE new == [WithoutStale[d] EXCEPT !.status = "waiting_for_idle"]
  <1>1. /\ WithoutStale \in [Deliveries -> Row] /\ WithoutStale[d] \in Row
        /\ row' = [WithoutStale EXCEPT ![d] = new]
    BY WithoutStaleFacts DEF Claim
  <1>2. /\ new \in Row /\ new.status = "waiting_for_idle"
        /\ new.msg = WithoutStale[d].msg /\ new.code = WithoutStale[d].code
    BY <1>1 DEF Row, Statuses, PendingStatuses
  <1>3. Pending(d) /\ \A e \in Deliveries : e < d => e \notin Candidates
    BY DEF Claim, Oldest, Candidates, Deliveries
  <1> HIDE DEF new
  <1>4. KeepsMessages
    BY <1>1, <1>2, WithoutStaleFacts DEF KeepsMessages
  <1>5. \A e \in Deliveries : e # d => row'[e] = WithoutStale[e]
    BY <1>1
  <1>6. row'[d] = new
    BY <1>1
  <1>7. \A e \in Deliveries : e # d => Swept(e)
    BY <1>5, WithoutStaleFacts DEF Swept
  <1>8. ASSUME NEW e \in Deliveries, e < d
        PROVE  row'[e].status \notin PendingStatuses
    <2>1. e # d /\ e \notin Candidates
      BY <1>3, <1>8 DEF Deliveries
    <2>2. Swept(e)
      BY <1>7, <2>1
    <2>3. QED
      BY <2>1, <2>2 DEF Swept, Candidates, Pending, PendingStatuses
  <1>9. QED
    BY <1>2, <1>3, <1>4, <1>6, <1>7, <1>8, WithoutStaleFacts

LEMMA ClaimNoneFacts ==
    ASSUME row \in [Deliveries -> Row], ClaimNone
    PROVE  KeepsMessages /\ \A e \in Deliveries : Swept(e)
  BY WithoutStaleFacts DEF ClaimNone, KeepsMessages, Swept

LEMMA InsertFacts ==
    ASSUME row \in [Deliveries -> Row], NEW d \in Deliveries,
           NEW m \in Messages, Insert(d, m)
    PROVE  /\ ~Exists(d) /\ \A e \in Deliveries : e < d => Exists(e)
           /\ row' \in [Deliveries -> Row]
           /\ \A e \in Deliveries : e # d => row'[e] = row[e]
           /\ row'[d].status = "queued" /\ row'[d].code = "none"
           /\ row'[d].msg = m
  <1> DEFINE new == [NoRow EXCEPT !.status = "queued", !.msg = m]
  <1>1. row' = [row EXCEPT ![d] = new]
    BY DEF Insert
  <1>2. /\ new.status = "queued" /\ new.code = "none" /\ new.msg = m
        /\ new.attempts = 0 /\ new.old = FALSE /\ new.deferred = FALSE
    BY DEF NoRow
  <1>3. new \in Row
    <2>1. /\ "none" \in Statuses /\ "none" \in Codes
          /\ 0 \in 0..MaxAttempts /\ NoMessage \in Messages \cup {NoMessage}
      BY DeliveriesAssumption DEF Statuses, Codes
    <2>2. NoRow \in Row
      BY <2>1 DEF NoRow, Row
    <2>3. "queued" \in Statuses
      BY DEF Statuses, PendingStatuses
    <2>4. QED
      BY <2>2, <2>3 DEF Row
  <1>4. ~Exists(d) /\ \A e \in Deliveries : e < d => Exists(e)
    BY DeliveriesAssumption DEF Insert, Exists, Deliveries
  <1> HIDE DEF new
  <1>5. QED
    BY <1>1, <1>2, <1>3, <1>4

LEMMA MarkFacts ==
    ASSUME row \in [Deliveries -> Row], NEW m \in Messages, MarkNewest(m)
    PROVE  \/ UNCHANGED row
           \/ \E d \in Deliveries : /\ IsNewest(d, m)
                                    /\ Changes(d, "sent", "none")
                                    /\ row'[d].attempts = row[d].attempts
  <1>1. "sent" \in Statuses /\ "none" \in Codes
    BY DEF Statuses, FinalStatuses, Codes
  <1>2. ASSUME NEW d \in Deliveries, IsNewest(d, m), Update(d, "sent", "none")
        PROVE  /\ Changes(d, "sent", "none")
               /\ row'[d].attempts = row[d].attempts
    BY <1>1, <1>2, UpdateFacts
  <1>3. QED
    BY <1>2 DEF MarkNewest

LEMMA CancelFacts ==
    ASSUME row \in [Deliveries -> Row], NEW d \in Deliveries, CancelRow(d)
    PROVE  /\ Pending(d) /\ Changes(d, "cancelled", "none")
           /\ row'[d].attempts = row[d].attempts
  <1>1. "cancelled" \in Statuses /\ "none" \in Codes
    BY DEF Statuses, FinalStatuses, Codes
  <1>2. QED
    BY <1>1, UpdateFacts DEF CancelRow

\* Time changes none of what the sender looks at except the deadlines.
Ticks == /\ KeepsMessages
         /\ \A e \in Deliveries : /\ row'[e].status = row[e].status
                                  /\ row'[e].code = row[e].code
                                  /\ row'[e].attempts = row[e].attempts

LEMMA TicksFacts ==
    ASSUME row \in [Deliveries -> Row], NEW d \in Deliveries,
           Ages(d) \/ BecomesDue(d)
    PROVE  Ticks
  <1> DEFINE new == row'[d]
  <1>1. /\ row[d] \in Row
        /\ \/ row' = [row EXCEPT ![d] = [row[d] EXCEPT !.old = TRUE]]
           \/ row' = [row EXCEPT ![d] = [row[d] EXCEPT !.deferred = FALSE]]
    BY DEF Ages, BecomesDue
  <1>2. \/ new = [row[d] EXCEPT !.old = TRUE]
        \/ new = [row[d] EXCEPT !.deferred = FALSE]
    BY <1>1
  <1>3. row' = [row EXCEPT ![d] = new]
    BY <1>1, <1>2
  <1> HIDE DEF new
  <1>4. /\ new \in Row /\ new.status = row[d].status /\ new.msg = row[d].msg
        /\ new.code = row[d].code /\ new.attempts = row[d].attempts
    BY <1>1, <1>2 DEF Row
  <1>5. QED
    BY <1>3, <1>4 DEF Ticks, KeepsMessages

LEMMA DiscardFacts ==
    ASSUME row \in [Deliveries -> Row], DiscardPending
    PROVE  /\ KeepsMessages
           /\ \A e \in Deliveries :
                 IF row[e].status \in PendingStatuses \cup {"sending"}
                 THEN row'[e].status = "expired" /\ row'[e].code = "other"
                 ELSE row'[e] = row[e]
  <1>1. ASSUME NEW e \in Deliveries
        PROVE  /\ row'[e] \in Row /\ row'[e].msg = row[e].msg
               /\ IF row[e].status \in PendingStatuses \cup {"sending"}
                  THEN row'[e].status = "expired" /\ row'[e].code = "other"
                  ELSE row'[e] = row[e]
    <2>1. row[e] \in Row
      OBVIOUS
    <2>2. CASE row[e].status \in PendingStatuses \cup {"sending"}
      <3>1. row'[e] = [row[e] EXCEPT !.status = "expired", !.code = "other"]
        BY <2>2 DEF DiscardPending, Discarded
      <3>2. QED
        BY <2>1, <2>2, <3>1 DEF Row, Statuses, FinalStatuses, Codes
    <2>3. CASE row[e].status \notin PendingStatuses \cup {"sending"}
      BY <2>1, <2>3 DEF DiscardPending, Discarded
    <2>4. QED
      BY <2>2, <2>3
  <1>2. row' = [e \in Deliveries |-> row'[e]]
    BY DEF DiscardPending, Discarded
  <1>3. QED
    BY <1>1, <1>2 DEF KeepsMessages

LEMMA RecoverFacts ==
    ASSUME row \in [Deliveries -> Row], Recover
    PROVE  /\ KeepsMessages
           /\ \A e \in Deliveries :
                 IF row[e].status = "sending"
                 THEN /\ row'[e].status = "queued"
                      /\ row[e].code = "foreground_inflight"
                         => row'[e].code = "recovered_foreground_inflight"
                 ELSE row'[e] = row[e]
  <1>1. ASSUME NEW e \in Deliveries
        PROVE  /\ row'[e] \in Row /\ row'[e].msg = row[e].msg
               /\ IF row[e].status = "sending"
                  THEN /\ row'[e].status = "queued"
                       /\ row[e].code = "foreground_inflight"
                          => row'[e].code = "recovered_foreground_inflight"
                  ELSE row'[e] = row[e]
    <2>1. row[e] \in Row
      OBVIOUS
    <2>2. CASE row[e].status = "sending"
      <3>1. \E c \in Recovered :
               /\ row'[e] = [row[e] EXCEPT !.status = "queued", !.code = c]
               /\ row[e].code = "foreground_inflight"
                  => c = "recovered_foreground_inflight"
        BY <2>2 DEF Recover, Recovered
      <3>2. QED
        BY <2>1, <2>2, <3>1 DEF Row, Statuses, PendingStatuses, Codes, Recovered
    <2>3. CASE row[e].status # "sending"
      BY <2>1, <2>3 DEF Recover
    <2>4. QED
      BY <2>2, <2>3
  <1>2. row' = [e \in Deliveries |-> row'[e]]
    BY DEF Recover
  <1>3. QED
    BY <1>1, <1>2 DEF KeepsMessages
-----------------------------------------------------------------------------
(* The steps of the worker, by what they do to the delivery in hand. *)

LEMMA InHand ==
    ASSUME TypeOK, TableOK, HandOK, cur # NoDelivery
    PROVE  /\ cur \in Deliveries /\ row[cur] \in Row /\ Exists(cur)
           /\ Msg \in Messages /\ Tries \in 0..MaxAttempts
  <1>1. cur \in Deliveries /\ Exists(cur)
    BY DEF TypeOK, HandOK
  <1>2. row[cur] \in Row /\ row[cur].msg \in Messages
    BY <1>1 DEF TypeOK, TableOK
  <1>3. QED
    BY <1>1, <1>2 DEF Msg, Tries, Row

\* The row in hand becomes one that nobody sends.
Settles == \/ UNCHANGED row /\ row[cur].status \in {"sent", "cancelled"}
           \/ \E s \in PendingStatuses \cup FinalStatuses, c \in Codes :
                 Changes(cur, s, c)

LetsGo == cur # NoDelivery /\ NextClaim /\ Settles

GoesOn == /\ cur # NoDelivery /\ cur' = cur /\ UNCHANGED row
          /\ \/ pc \in Attempting /\ pc' \in Attempting
             \/ pc = "recover" /\ pc' = "wait"

Attempts == /\ cur # NoDelivery /\ cur' = cur /\ pc' \in Attempting
            /\ \E c \in Codes : Changes(cur, "sending", c)
            /\ row'[cur].attempts >= 1

Takes == /\ pc = "claim"
         /\ \E d \in Deliveries :
               /\ Claim(d) /\ cur' = d
               /\ pc' = IF VerifySends /\ row[d].code \in Recovered
                        THEN "recover" ELSE "wait"

Sweeps == pc = "claim" /\ ClaimNone /\ pc' = pc /\ cur' = cur

Held == pc \in Waiting \cup Attempting

LEMMA HandSettles ==
    ASSUME TypeOK, TableOK, HandOK, Held
    PROVE  /\ cur # NoDelivery
           /\ \A s \in PendingStatuses \cup FinalStatuses, c \in Codes :
                 Update(cur, s, c) => Settles
           /\ \A s \in PendingStatuses \cup FinalStatuses, c \in Codes,
                 n \in 0..MaxAttempts, b \in BOOLEAN :
                 UpdateAttempt(cur, s, c, n, b) => Settles
           /\ HandleFailure => Settles
           /\ pc \in Attempting =>
                 \A b \in BOOLEAN : PutBack(b) => Settles
           /\ ResultUnknown => Settles
           /\ Confirm => Settles
  <1>1. /\ cur # NoDelivery /\ cur \in Deliveries
        /\ row \in [Deliveries -> Row] /\ Tries \in 0..MaxAttempts
    BY InHand DEF Held, TypeOK, Waiting, Attempting
  <1>2. /\ PendingStatuses \cup FinalStatuses \subseteq Statuses
        /\ {"none", "other", "delivery_unknown"} \subseteq Codes
        /\ {"failed", "sent"} \subseteq FinalStatuses
        /\ {"retry_wait", "waiting_for_idle"} \subseteq PendingStatuses
    BY DEF Statuses, FinalStatuses, PendingStatuses, Codes
  <1>3. ASSUME NEW s \in PendingStatuses \cup FinalStatuses, NEW c \in Codes,
               Update(cur, s, c)
        PROVE  Settles
    BY <1>1, <1>2, <1>3, UpdateFacts DEF Settles
  <1>4. ASSUME NEW s \in PendingStatuses \cup FinalStatuses, NEW c \in Codes,
               NEW n \in 0..MaxAttempts, NEW b \in BOOLEAN,
               UpdateAttempt(cur, s, c, n, b)
        PROVE  Settles
    BY <1>1, <1>2, <1>4, UpdateAttemptFacts DEF Settles
  <1>5. HandleFailure => Settles
    BY <1>1, <1>2, <1>3, <1>4 DEF HandleFailure
  <1>6. ASSUME pc \in Attempting, NEW b \in BOOLEAN, PutBack(b)
        PROVE  Settles
    <2>1. Tries >= 1
      BY <1>6 DEF HandOK, Tries
    <2>2. Tries - 1 \in 0..MaxAttempts
      BY <1>1, <2>1, DeliveriesAssumption
    <2>3. QED
      BY <1>2, <1>4, <1>6, <2>2 DEF PutBack
  <1>7. (ResultUnknown => Settles) /\ (Confirm => Settles)
    BY <1>2, <1>3 DEF ResultUnknown, Confirm, Settles
  <1>8. QED
    BY <1>1, <1>3, <1>4, <1>5, <1>6, <1>7

LEMMA WorkerShape ==
    ASSUME TypeOK, TableOK, HandOK, WorkerStep
    PROVE  Takes \/ Sweeps \/ GoesOn \/ Attempts \/ LetsGo
  <1> USE DEF Held, LetsGo, GoesOn
  <1>a. Held => /\ cur # NoDelivery /\ cur \in Deliveries
                /\ Tries \in 0..MaxAttempts /\ row \in [Deliveries -> Row]
    BY InHand DEF TypeOK, Waiting, Attempting
  <1>b. /\ {"none", "other", "delivery_unknown", "foreground_inflight"}
              \subseteq Codes
        /\ {"failed", "sent", "expired"} \subseteq FinalStatuses
        /\ {"retry_wait", "waiting_for_idle"} \subseteq PendingStatuses
        /\ "sending" \in Statuses
    BY DEF Statuses, FinalStatuses, PendingStatuses, Codes
  <1>1. CASE ClaimNext
    BY <1>1 DEF ClaimNext, Takes, Waiting
  <1>2. CASE ClaimExpires
    BY <1>2 DEF ClaimExpires, Sweeps
  <1>3. CASE RecoverFinds
    BY <1>3, HandSettles DEF RecoverFinds, Waiting
  <1>4. CASE RecoverMisses
    <2>1. CASE row[cur].code = "recovered_foreground_inflight"
      BY <1>4, <1>b, <2>1, HandSettles DEF RecoverMisses, Waiting
    <2>2. CASE row[cur].code # "recovered_foreground_inflight"
      BY <1>4, <1>a, <2>2 DEF RecoverMisses, GoTo, Waiting
    <2>3. QED
      BY <2>1, <2>2
  <1>5. CASE WaitEnds
    <2>1. Held /\ NextClaim
      BY <1>5 DEF WaitEnds, Waiting
    <2>2. Settles
      BY <1>5, <1>b, <2>1, HandSettles DEF WaitEnds, Settles
    <2>3. QED
      BY <1>a, <2>1, <2>2
  <1>6. CASE WaitDefers
    <2>1. Held /\ NextClaim
      BY <1>6 DEF WaitDefers, MayAttempt, Waiting
    <2>2. Settles
      BY <1>6, <1>a, <1>b, <2>1, HandSettles DEF WaitDefers
    <2>3. QED
      BY <1>a, <2>1, <2>2
  <1>7. CASE StartAttempt
    <2>1. Held /\ pc' \in Attempting /\ cur' = cur
      BY <1>7
      DEF StartAttempt, MayStart, MayAttempt, Waiting, Attempting
    <2>2. Tries + 1 \in 0..MaxAttempts /\ Tries + 1 >= 1
      BY <1>7, <1>a, <2>1, DeliveriesAssumption DEF StartAttempt, MayStart
    <2>3. UpdateAttempt(cur, "sending", "none", Tries + 1, FALSE)
      BY <1>7 DEF StartAttempt
    <2>4. Changes(cur, "sending", "none") /\ row'[cur].attempts = Tries + 1
      BY <1>a, <1>b, <2>1, <2>2, <2>3, UpdateAttemptFacts
    <2>5. QED
      BY <1>a, <1>b, <2>1, <2>2, <2>4 DEF Attempts
  <1>8. CASE ResolveFails
    <2>1. Held /\ NextClaim
      BY <1>8 DEF ResolveFails, MayStart, MayAttempt, Waiting
    <2>2. Tries + 1 \in 0..MaxAttempts
      BY <1>8, <1>a, <2>1, DeliveriesAssumption DEF ResolveFails, MayStart
    <2>3. Settles
      BY <1>8, <1>b, <2>1, <2>2, HandSettles DEF ResolveFails
    <2>4. QED
      BY <1>a, <2>1, <2>3
  <1>9. CASE InternalError
    BY <1>9, <1>b, HandSettles DEF InternalError
  <1>10. CASE BgUnavailable \/ BgTypes
    BY <1>10, <1>a DEF BgUnavailable, BgTypes, GoTo, Attempting
  <1>11. CASE BgInvokes
    BY <1>11, <1>a DEF BgInvokes, GoTo, Attempting
  <1>12. CASE BgConsumed \/ BgEnters
    <2>1. Held /\ pc \in Attempting /\ AfterBackgroundSend
      BY <1>12 DEF BgConsumed, BgEnters, Attempting
    <2>2. CASE VerifySends
      BY <1>a, <2>1, <2>2 DEF AfterBackgroundSend, GoTo, Attempting
    <2>3. CASE ~VerifySends
      BY <2>1, <2>3, HandSettles DEF AfterBackgroundSend
    <2>4. QED
      BY <2>2, <2>3
  <1>13. CASE BgBusy
    <2>1. Held /\ pc \in Attempting /\ NextClaim
      BY <1>13 DEF BgBusy, Attempting
    <2>2. Settles
      BY <1>13, <2>1, HandSettles DEF BgBusy
    <2>3. QED
      BY <1>a, <2>1, <2>2
  <1>14. CASE BgInterrupted
    <2>1. Held /\ pc \in Attempting /\ NextClaim
      BY <1>14 DEF BgInterrupted, Attempting
    <2>2. Settles
      BY <1>14, <2>1, HandSettles DEF BgInterrupted
    <2>3. QED
      BY <1>a, <2>1, <2>2
  <1>15. CASE BgVerified
    BY <1>15, HandSettles DEF BgVerified, Attempting
  <1>16. CASE BgUnverified
    BY <1>16, <1>a, HandSettles DEF BgUnverified, GoTo, Attempting
  <1>17. CASE FallbackRefused
    <2>1. Held /\ pc \in Attempting /\ NextClaim
      BY <1>17 DEF FallbackRefused, Attempting
    <2>2. Settles
      BY <1>17, <1>b, <2>1, HandSettles DEF FallbackRefused
    <2>3. QED
      BY <1>a, <2>1, <2>2
  <1>18. CASE FallbackStarts
    <2>1. /\ Held /\ pc' \in Attempting /\ cur' = cur
          /\ row[cur].attempts >= 1
      BY <1>18 DEF FallbackStarts, GoTo, Attempting, HandOK
    <2>2. Update(cur, "sending", "foreground_inflight")
      BY <1>18 DEF FallbackStarts
    <2>3. /\ Changes(cur, "sending", "foreground_inflight")
          /\ row'[cur].attempts = row[cur].attempts
      BY <1>a, <1>b, <2>1, <2>2, UpdateFacts
    <2>4. QED
      BY <1>a, <1>b, <2>1, <2>3 DEF Attempts
  <1>19. CASE FgInterrupted
    <2>1. Held /\ pc \in Attempting /\ NextClaim
      BY <1>19 DEF FgInterrupted, Attempting
    <2>2. QED
      BY <1>19, <1>a, <2>1, HandSettles DEF FgInterrupted
  <1>20. CASE FgFails
    BY <1>20, <1>b, HandSettles DEF FgFails, Attempting
  <1>21. CASE FgTriggers \/ QuoteTriggers
    BY <1>21, <1>a DEF FgTriggers, QuoteTriggers, Attempting
  <1>22. CASE ChildLost
    BY <1>22, HandSettles DEF ChildLost, Attempting
  <1>23. CASE FgAnswered
    BY <1>23, <1>a, HandSettles DEF FgAnswered, GoTo, Attempting
  <1>24. CASE FgVerifies
    BY <1>24, HandSettles DEF FgVerifies, Attempting
  <1>25. CASE QuoteUnavailable
    <2>1. Held /\ pc \in Attempting
      BY <1>25 DEF QuoteUnavailable, Attempting
    <2>2. CASE touched
      BY <1>25, <1>a, <2>1, <2>2, HandSettles DEF QuoteUnavailable
    <2>3. CASE ~touched
      BY <1>25, <1>a, <2>1, <2>3 DEF QuoteUnavailable, GoTo, Attempting
    <2>4. QED
      BY <2>2, <2>3
  <1>26. CASE QuoteBusy \/ QuoteGivesUp \/ QuoteStopped
    BY <1>26, HandSettles DEF QuoteBusy, QuoteGivesUp, QuoteStopped, Attempting
  <1>27. CASE QuoteAnswered
    BY <1>27, <1>a, HandSettles DEF QuoteAnswered, GoTo, Attempting
  <1>28. QED
    BY <1>1, <1>2, <1>3, <1>4, <1>5, <1>6, <1>7, <1>8, <1>9, <1>10, <1>11,
       <1>12, <1>13, <1>14, <1>15, <1>16, <1>17, <1>18, <1>19, <1>20, <1>21,
       <1>22, <1>23, <1>24, <1>25, <1>26, <1>27 DEF WorkerStep

\* The types of what is neither the table nor the worker's place.
DataOK == /\ stopping \in BOOLEAN /\ cooling \in BOOLEAN
          /\ touched \in BOOLEAN /\ answer \in Answers
          /\ box \in Messages \cup {Empty, UserDraft}
          /\ pending \in [Messages -> Nat] /\ echoes \in [Messages -> Nat]
          /\ rows \in [Messages -> Nat]
          /\ posted \in [Deliveries -> 0..MaxPosts]

LEMMA WorkerData ==
    ASSUME TypeOK, TableOK, HandOK, WorkerStep
    PROVE  DataOK'
  <1> USE DEF DataOK
  <1>a. DataOK /\ UNCHANGED stopping
    BY DEF TypeOK, WorkerStep
  <1>b. Held => cur \in Deliveries /\ Msg \in Messages
    BY InHand DEF Held, TypeOK, Waiting, Attempting
  <1>c. /\ {"none", "ok", "unknown", "verified"} \subseteq Answers
        /\ MaxPosts \in Nat
    BY SenderAssumption DEF Answers
  <1>d. UNCHANGED chat => UNCHANGED <<box, echoes, rows, posted>>
    BY DEF chat
  <1>e. ASSUME Held, Posts
        PROVE  /\ echoes' \in [Messages -> Nat] /\ rows' \in [Messages -> Nat]
               /\ box' \in Messages \cup {Empty, UserDraft}
               /\ posted' \in [Deliveries -> 0..MaxPosts]
    BY <1>a, <1>b, <1>c, <1>e DEF Posts
  <1>f. Held /\ Verified => rows' \in [Messages -> Nat]
    BY <1>a, <1>b DEF Verified
  <1>g. Held /\ (RecordPending \/ ForgetPending)
        => pending' \in [Messages -> Nat]
    BY <1>a, <1>b DEF RecordPending, ForgetPending
  <1>h. Held /\ Leftover => box' \in Messages \cup {Empty, UserDraft}
    BY <1>a, <1>b DEF Leftover
  <1>i. NextClaim => touched' \in BOOLEAN /\ answer' \in Answers
    BY <1>c DEF NextClaim
  <1>j. ASSUME NEW p, GoTo(p)
        PROVE  touched' \in BOOLEAN /\ answer' \in Answers
    BY <1>a, <1>j DEF GoTo
  <1>1. CASE ClaimNext \/ ClaimExpires
    BY <1>1, <1>a, <1>d DEF ClaimNext, ClaimExpires
  <1>2. CASE RecoverFinds
    BY <1>2, <1>a, <1>f, <1>i DEF RecoverFinds, Held, Waiting
  <1>3. CASE RecoverMisses
    <2>1. Held /\ pending' \in [Messages -> Nat]
      BY <1>3, <1>a, <1>g DEF RecoverMisses, Held, Waiting
    <2>2. touched' \in BOOLEAN /\ answer' \in Answers
      BY <1>3, <1>i, <1>j DEF RecoverMisses
    <2>3. QED
      BY <1>3, <1>a, <1>d, <2>1, <2>2 DEF RecoverMisses
  <1>4. CASE WaitEnds \/ WaitDefers
    BY <1>4, <1>a, <1>d, <1>i DEF WaitEnds, WaitDefers
  <1>5. CASE StartAttempt
    <2>1. Held
      BY <1>5 DEF StartAttempt, MayStart, MayAttempt, Held, Waiting
    <2>2. rows' \in [Messages -> Nat]
      BY <1>5, <1>a DEF StartAttempt
    <2>3. QED
      BY <1>5, <1>a, <1>g, <2>1, <2>2 DEF StartAttempt
  <1>6. CASE ResolveFails
    <2>1. Held
      BY <1>6 DEF ResolveFails, MayStart, MayAttempt, Held, Waiting
    <2>2. QED
      BY <1>6, <1>a, <1>d, <1>g, <1>i, <2>1 DEF ResolveFails
  <1>7. CASE InternalError \/ BgUnavailable
    BY <1>7, <1>a, <1>d, <1>g, <1>i, <1>j
    DEF InternalError, BgUnavailable, Held
  <1>8. CASE BgTypes
    BY <1>8, <1>a, <1>b, <1>j DEF BgTypes, Held, Attempting
  <1>9. CASE BgInvokes
    BY <1>9, <1>a, <1>d, <1>e, <1>j DEF BgInvokes, Held, Attempting
  <1>10. AfterBackgroundSend => touched' \in BOOLEAN /\ answer' \in Answers
    BY <1>i, <1>j DEF AfterBackgroundSend
  <1>11. CASE BgConsumed
    BY <1>11, <1>a, <1>d, <1>10 DEF BgConsumed
  <1>12. CASE BgEnters
    BY <1>12, <1>a, <1>d, <1>e, <1>10 DEF BgEnters, Held, Attempting
  <1>13. CASE BgBusy \/ BgInterrupted
    BY <1>13, <1>a, <1>d, <1>g, <1>i DEF BgBusy, BgInterrupted, Held, Attempting
  <1>14. CASE BgVerified
    BY <1>14, <1>a, <1>f, <1>i DEF BgVerified, Held, Attempting
  <1>15. CASE BgUnverified
    BY <1>15, <1>a, <1>d, <1>i, <1>j DEF BgUnverified
  <1>16. CASE FallbackRefused
    BY <1>16, <1>a, <1>g, <1>i DEF FallbackRefused, Held, Attempting
  <1>17. CASE FallbackStarts
    BY <1>17, <1>a, <1>d, <1>j DEF FallbackStarts
  <1>18. CASE FgInterrupted
    BY <1>18, <1>a, <1>g, <1>h, <1>i DEF FgInterrupted, Held, Attempting
  <1>19. CASE FgFails
    BY <1>19, <1>a, <1>g, <1>h, <1>i DEF FgFails, Held, Attempting
  <1>20. CASE FgTriggers
    BY <1>20, <1>a, <1>b, <1>c, <1>e DEF FgTriggers, Held, Attempting
  <1>21. CASE ChildLost
    BY <1>21, <1>a, <1>h, <1>i DEF ChildLost, Held, Attempting
  <1>22. CASE FgAnswered
    BY <1>22, <1>a, <1>d, <1>i, <1>j DEF FgAnswered
  <1>23. CASE FgVerifies
    BY <1>23, <1>a, <1>f, <1>i DEF FgVerifies, Held, Attempting
  <1>24. CASE QuoteUnavailable
    BY <1>24, <1>a, <1>d, <1>i, <1>j DEF QuoteUnavailable
  <1>25. CASE QuoteBusy \/ QuoteStopped
    BY <1>25, <1>a, <1>d, <1>g, <1>i DEF QuoteBusy, QuoteStopped, Held, Attempting
  <1>26. CASE QuoteGivesUp
    BY <1>26, <1>a, <1>h, <1>i DEF QuoteGivesUp, Held, Attempting
  <1>27. CASE QuoteTriggers
    BY <1>27, <1>a, <1>b, <1>c, <1>e DEF QuoteTriggers, Held, Attempting
  <1>28. CASE QuoteAnswered
    BY <1>28, <1>a, <1>d, <1>i, <1>j DEF QuoteAnswered
  <1>29. QED
    BY <1>1, <1>2, <1>3, <1>4, <1>5, <1>6, <1>7, <1>8, <1>9, <1>11, <1>12,
       <1>13, <1>14, <1>15, <1>16, <1>17, <1>18, <1>19, <1>20, <1>21, <1>22,
       <1>23, <1>24, <1>25, <1>26, <1>27, <1>28 DEF WorkerStep
-----------------------------------------------------------------------------
(* The invariant holds. *)

\* The part of the types that the shape of a step decides.
PlaceOK == /\ row \in [Deliveries -> Row]
           /\ pc \in Places
           /\ cur \in Deliveries \cup {NoDelivery}
           /\ (cur = NoDelivery) <=> (pc \in {"off", "claim"})

HistoryOK == /\ boot \in 0..MaxDeliveries /\ starts \in 0..MaxStarts
             /\ cancelled \subseteq Deliveries

LEMMA TypesSplit == TypeOK <=> PlaceOK /\ DataOK /\ HistoryOK
  BY DEF TypeOK, PlaceOK, DataOK, HistoryOK

Core == PlaceOK /\ TableOK /\ HandOK /\ BootOK

LEMMA SenderInitIInv == SenderInit => SenderIInv
  <1> SUFFICES ASSUME SenderInit PROVE SenderIInv
    OBVIOUS
  <1> USE DeliveriesAssumption, SenderAssumption DEF SenderInit
  <1>1. row \in [Deliveries -> Row]
    <2>1. /\ "none" \in Statuses /\ "none" \in Codes
          /\ 0 \in 0..MaxAttempts /\ NoMessage \in Messages \cup {NoMessage}
      BY DEF Statuses, Codes
    <2>2. NoRow \in Row
      BY <2>1 DEF NoRow, Row
    <2>3. QED
      BY <2>2 DEF TableInit
  <1>2. \A d \in Deliveries : row[d].status = "none" /\ row[d].msg = NoMessage
    BY DEF TableInit, NoRow
  <1>3. PlaceOK
    BY <1>1 DEF PlaceOK, Places
  <1>4. DataOK /\ HistoryOK
    <2>1. 0 \in 0..MaxPosts /\ boot \in 0..MaxDeliveries /\ starts \in 0..MaxStarts
      OBVIOUS
    <2>2. posted \in [Deliveries -> 0..MaxPosts]
      BY <2>1
    <2>3. /\ pending \in [Messages -> Nat] /\ echoes \in [Messages -> Nat]
          /\ rows \in [Messages -> Nat]
      OBVIOUS
    <2>4. QED
      BY <2>1, <2>2, <2>3 DEF DataOK, HistoryOK, Answers
  <1>5. TableOK
    BY <1>2 DEF TableOK, Exists
  <1>6. HandOK
    BY <1>2 DEF HandOK, Waiting, Attempting, Running
  <1>7. BootOK
    BY DEF BootOK, Deliveries
  <1>8. QED
    BY <1>3, <1>4, <1>5, <1>6, <1>7, TypesSplit DEF SenderIInv

LEMMA StatusSets ==
    /\ "sending" \notin PendingStatuses \cup FinalStatuses \cup {"none"}
    /\ "none" \notin PendingStatuses \cup FinalStatuses
    /\ PendingStatuses \cap FinalStatuses = {}
    /\ {"sent", "failed", "expired", "cancelled"} = FinalStatuses
    /\ {"queued", "waiting_for_idle", "retry_wait"} = PendingStatuses
    /\ Waiting \cap Attempting = {}
    /\ "off" \notin Waiting \cup Attempting
    /\ "claim" \notin Waiting \cup Attempting
    /\ "recover" \in Waiting /\ "wait" \in Waiting
    /\ Places = {"off", "claim"} \cup Waiting \cup Attempting
  BY DEF PendingStatuses, FinalStatuses, Waiting, Attempting, Places

LEMMA WorkerCore ==
    ASSUME SenderIInv, UNCHANGED history,
           Takes \/ Sweeps \/ GoesOn \/ Attempts \/ LetsGo
    PROVE  Core'
  <1>1. /\ PlaceOK /\ TableOK /\ HandOK /\ BootOK /\ boot' = boot
        /\ boot \in 0..MaxDeliveries /\ NoDelivery \notin Deliveries
    BY TypesSplit, SenderAssumption DEF SenderIInv, history, HistoryOK
  <1> USE StatusSets
  <1>2. CASE Takes
    <2>1. PICK d \in Deliveries : Claim(d) /\ cur' = d
      BY <1>2 DEF Takes
    <2>2. /\ KeepsMessages /\ Pending(d)
          /\ row'[d].status = "waiting_for_idle"
          /\ \A e \in Deliveries : e # d => Swept(e)
          /\ \A e \in Deliveries :
                e < d => row'[e].status \notin PendingStatuses
      BY <1>1, <2>1, ClaimFacts DEF PlaceOK
    <2>3. pc = "claim" /\ pc' \in Waiting /\ cur = NoDelivery
      BY <1>1, <1>2 DEF Takes, PlaceOK
    <2>4. PlaceOK'
      BY <1>1, <2>1, <2>2, <2>3 DEF PlaceOK, KeepsMessages
    <2>5. \A e \in Deliveries : Exists(e)' <=> Exists(e)
      BY <2>2 DEF Exists, Swept, Pending
    <2>6. TableOK'
      BY <1>1, <2>2, <2>5 DEF TableOK, KeepsMessages
    <2>7. \A e \in Deliveries : row'[e].status # "sending"
      BY <1>1, <2>2, <2>3 DEF HandOK, Running, Swept
    <2>8. HandOK'
      BY <1>1, <2>1, <2>2, <2>3, <2>5, <2>7 DEF HandOK, Pending, Exists
    <2>9. BootOK'
      BY <1>1, <2>1, <2>2 DEF BootOK, Swept, Pending
    <2>10. QED
      BY <2>4, <2>6, <2>8, <2>9 DEF Core
  <1>3. CASE Sweeps
    <2>1. KeepsMessages /\ \A e \in Deliveries : Swept(e)
      BY <1>1, <1>3, ClaimNoneFacts DEF Sweeps, PlaceOK
    <2>2. pc = "claim" /\ pc' = pc /\ cur = NoDelivery /\ cur' = cur
      BY <1>1, <1>3 DEF Sweeps, PlaceOK
    <2>3. PlaceOK'
      BY <1>1, <2>1, <2>2 DEF PlaceOK, KeepsMessages
    <2>4. \A e \in Deliveries : Exists(e)' <=> Exists(e)
      BY <2>1 DEF Exists, Swept, Pending
    <2>5. TableOK'
      BY <1>1, <2>1, <2>4 DEF TableOK, KeepsMessages
    <2>6. HandOK'
      BY <1>1, <2>1, <2>2 DEF HandOK, Running, Swept
    <2>7. BootOK'
      BY <1>1, <2>1, <2>2 DEF BootOK, Swept, Pending
    <2>8. QED
      BY <2>3, <2>5, <2>6, <2>7 DEF Core
  <1>4. CASE GoesOn
    <2>1. PlaceOK'
      BY <1>1, <1>4 DEF PlaceOK, GoesOn
    <2>2. TableOK'
      BY <1>1, <1>4 DEF TableOK, Exists, GoesOn
    <2>3. HandOK'
      BY <1>1, <1>4 DEF HandOK, PlaceOK, Exists, Pending, Running, GoesOn
    <2>4. BootOK'
      BY <1>1, <1>4 DEF BootOK, GoesOn
    <2>5. QED
      BY <2>1, <2>2, <2>3, <2>4 DEF Core
  <1>5. CASE Attempts
    <2>1. PICK c \in Codes : Changes(cur, "sending", c)
      BY <1>5 DEF Attempts
    <2>2. /\ cur \in Deliveries /\ cur' = cur /\ pc' \in Attempting
          /\ pc \in Waiting \cup Attempting /\ row'[cur].attempts >= 1
      BY <1>1, <1>5 DEF Attempts, PlaceOK
    <2>3. PlaceOK'
      BY <1>1, <2>1, <2>2 DEF PlaceOK, Changes
    <2>4. Exists(cur) /\ \A e \in Deliveries : Exists(e)' <=> Exists(e)
      BY <1>1, <2>1, <2>2 DEF Exists, Changes, HandOK
    <2>5. TableOK'
      BY <1>1, <2>1, <2>2, <2>4 DEF TableOK, Changes
    <2>6. \A e \in Deliveries : e < cur => ~Pending(e)'
      BY <1>1, <2>1, <2>2 DEF HandOK, Pending, Changes, PlaceOK, Deliveries
    <2>7. HandOK'
      BY <1>1, <2>1, <2>2, <2>4, <2>6
      DEF HandOK, PlaceOK, Exists, Running, Changes
    <2>8. BootOK'
      BY <1>1, <2>1, <2>2 DEF BootOK, Changes
    <2>9. QED
      BY <2>3, <2>5, <2>7, <2>8 DEF Core
  <1>6. CASE LetsGo
    <2>1. /\ cur \in Deliveries /\ pc' = "claim" /\ cur' = NoDelivery
          /\ pc \in Waiting \cup Attempting
      BY <1>1, <1>6 DEF LetsGo, NextClaim, PlaceOK
    <2>2. /\ row' \in [Deliveries -> Row]
          /\ \A e \in Deliveries : e # cur => row'[e] = row[e]
          /\ row'[cur].msg = row[cur].msg
          /\ row'[cur].status \in PendingStatuses \cup FinalStatuses
      BY <1>1, <1>6 DEF LetsGo, Settles, Changes, PlaceOK
    <2>3. PlaceOK'
      BY <1>1, <2>1, <2>2 DEF PlaceOK
    <2>4. Exists(cur) /\ \A e \in Deliveries : Exists(e)' <=> Exists(e)
      BY <1>1, <2>1, <2>2 DEF Exists, HandOK
    <2>5. TableOK'
      BY <1>1, <2>1, <2>2, <2>4 DEF TableOK
    <2>6. HandOK'
      BY <1>1, <2>1, <2>2 DEF HandOK, Running
    <2>7. BootOK'
      BY <1>1, <2>1, <2>2 DEF BootOK
    <2>8. QED
      BY <2>3, <2>5, <2>6, <2>7 DEF Core
  <1>7. QED
    BY <1>2, <1>3, <1>4, <1>5, <1>6

LEMMA SomeRowsFinite ==
    ASSUME NEW S \in SUBSET Deliveries
    PROVE  Cardinality(S) \in 0..MaxDeliveries
  <1>1. /\ IsFiniteSet(Deliveries)
        /\ Cardinality(Deliveries) = MaxDeliveries
    <2>1. MaxDeliveries \in Nat /\ 1 \in Int /\ MaxDeliveries \in Int
      BY DeliveriesAssumption
    <2>2. /\ IsFiniteSet(1..MaxDeliveries)
          /\ Cardinality(1..MaxDeliveries) =
                IF 1 > MaxDeliveries THEN 0 ELSE MaxDeliveries - 1 + 1
      BY <2>1, FS_Interval
    <2>3. QED
      BY <2>1, <2>2 DEF Deliveries
  <1>2. Cardinality(S) <= MaxDeliveries /\ Cardinality(S) \in Nat
    BY <1>1, FS_Subset, FS_CardinalityType
  <1>3. QED
    BY <1>2, DeliveriesAssumption

\* The rows that exist are the first ones, so their number tells which.
LEMMA FirstRowsExist ==
    ASSUME TableOK, NEW d \in Deliveries,
           d <= Cardinality({e \in Deliveries : Exists(e)})
    PROVE  Exists(d)
  <1> DEFINE S == {e \in Deliveries : Exists(e)}
  <1>1. SUFFICES ASSUME ~Exists(d) PROVE FALSE
    OBVIOUS
  <1>2. ASSUME NEW e \in S PROVE e \in 1..(d - 1)
    <2>1. e \in Deliveries /\ Exists(e)
      OBVIOUS
    <2>2. ~(d < e)
      BY <1>1, <2>1 DEF TableOK
    <2>3. d # e
      BY <1>1, <2>1
    <2>4. QED
      BY <2>1, <2>2, <2>3, DeliveriesAssumption DEF Deliveries
  <1>3. d \in Nat /\ d >= 1 /\ d - 1 \in Nat
    BY DeliveriesAssumption DEF Deliveries
  <1>4. IsFiniteSet(1..(d - 1)) /\ Cardinality(1..(d - 1)) = d - 1
    <2>1. /\ IsFiniteSet(1..(d - 1))
          /\ Cardinality(1..(d - 1)) =
                IF 1 > d - 1 THEN 0 ELSE (d - 1) - 1 + 1
      BY <1>3, FS_Interval
    <2>2. QED
      BY <1>3, <2>1
  <1>5. S \subseteq 1..(d - 1)
    BY <1>2
  <1>6. Cardinality(S) <= d - 1
    BY <1>4, <1>5, FS_Subset
  <1>7. Cardinality(S) \in Nat
    BY SomeRowsFinite, DeliveriesAssumption
  <1>8. QED
    BY <1>3, <1>6, <1>7

\* Steps that leave the table, the worker's place and the history alone.
LEMMA FrameCore ==
    ASSUME SenderIInv, UNCHANGED <<row, pc, cur, history>>
    PROVE  Core'
  <1>1. UNCHANGED <<row, pc, cur, boot>>
    BY DEF history
  <1>2. PlaceOK /\ TableOK /\ HandOK /\ BootOK
    BY TypesSplit DEF SenderIInv
  <1>3. PlaceOK' /\ TableOK'
    BY <1>1, <1>2 DEF PlaceOK, TableOK, Exists
  <1>4. HandOK'
    BY <1>1, <1>2 DEF HandOK, Exists, Pending, Running
  <1>5. BootOK'
    BY <1>1, <1>2 DEF BootOK
  <1>6. QED
    BY <1>3, <1>4, <1>5 DEF Core

\* A row is cancelled, or confirmed by its echo.
LEMMA MarkCore ==
    ASSUME SenderIInv, UNCHANGED <<pc, cur, boot>>, NEW d \in Deliveries,
           Exists(d), row'[d].attempts = row[d].attempts,
           \/ Pending(d) /\ Changes(d, "cancelled", "none")
           \/ d > boot /\ Changes(d, "sent", "none")
    PROVE  Core'
  <1>1. PlaceOK /\ TableOK /\ HandOK /\ BootOK /\ boot \in 0..MaxDeliveries
    BY TypesSplit DEF SenderIInv, HistoryOK
  <1>2. /\ row' \in [Deliveries -> Row]
        /\ \A e \in Deliveries : e # d => row'[e] = row[e]
        /\ row'[d].msg = row[d].msg
        /\ row'[d].status \in {"cancelled", "sent"}
    BY DEF Changes
  <1>3. PlaceOK'
    BY <1>1, <1>2 DEF PlaceOK
  <1>4. \A e \in Deliveries : Exists(e)' <=> Exists(e)
    BY <1>2 DEF Exists
  <1>5. TableOK'
    BY <1>1, <1>2, <1>4 DEF TableOK
  <1>6. \A e \in Deliveries : Pending(e)' => Pending(e)
    BY <1>2 DEF Pending, PendingStatuses
  <1>7. d = cur /\ pc \in Attempting => row'[d].status = "sent"
    BY <1>1, StatusSets DEF HandOK, Pending, Changes
  <1>a. pc \in Waiting \cup Attempting => cur \in Deliveries
    BY <1>1, StatusSets DEF PlaceOK
  <1>b. cur # NoDelivery => cur \in Deliveries
    BY <1>1 DEF PlaceOK
  <1>c. pc \in Waiting =>
           row'[cur].status \in PendingStatuses \cup {"cancelled", "sent"}
    BY <1>1, <1>2, <1>a DEF HandOK
  <1>d. pc \in Attempting =>
           row'[cur].status \in {"sending", "sent"} /\ row'[cur].attempts >= 1
    <2>1. CASE d = cur /\ pc \in Attempting
      BY <1>1, <1>7, <2>1 DEF HandOK
    <2>2. CASE d # cur
      BY <1>1, <1>2, <1>a, <2>2 DEF HandOK
    <2>3. QED
      BY <2>1, <2>2
  <1>e. \A e \in Deliveries : row'[e].status = "sending" => row[e].status = "sending"
    BY <1>2
  <1>f. cur # NoDelivery =>
           Exists(cur)' /\ \A e \in Deliveries : e < cur => ~Pending(e)'
    BY <1>1, <1>4, <1>6, <1>b DEF HandOK
  <1>8. HandOK'
    BY <1>1, <1>c, <1>d, <1>e, <1>f DEF HandOK, Running
  <1>9. BootOK'
    BY <1>1, <1>2, StatusSets DEF BootOK
  <1>10. QED
    BY <1>3, <1>5, <1>8, <1>9 DEF Core

LEMMA TicksCore ==
    ASSUME SenderIInv, UNCHANGED <<pc, cur, boot>>, Ticks
    PROVE  Core'
  <1>1. PlaceOK /\ TableOK /\ HandOK /\ BootOK
    BY TypesSplit DEF SenderIInv
  <1>2. PlaceOK'
    BY <1>1 DEF PlaceOK, Ticks, KeepsMessages
  <1>3. \A e \in Deliveries : /\ Exists(e)' <=> Exists(e)
                              /\ Pending(e)' <=> Pending(e)
    BY DEF Exists, Pending, Ticks
  <1>4. TableOK'
    BY <1>1, <1>3 DEF TableOK, Ticks, KeepsMessages
  <1>a. pc \in Waiting \cup Attempting => cur \in Deliveries
    BY <1>1, StatusSets DEF PlaceOK
  <1>b. cur # NoDelivery => cur \in Deliveries
    BY <1>1 DEF PlaceOK
  <1>5. HandOK'
    BY <1>1, <1>3, <1>a, <1>b DEF HandOK, Running, Ticks
  <1>6. BootOK'
    BY <1>1 DEF BootOK, Ticks
  <1>7. QED
    BY <1>2, <1>4, <1>5, <1>6 DEF Core

LEMMA InsertCore ==
    ASSUME SenderIInv, UNCHANGED <<pc, cur, boot>>, NEW d \in Deliveries,
           NEW m \in Messages, Insert(d, m)
    PROVE  Core'
  <1>1. PlaceOK /\ TableOK /\ HandOK /\ BootOK
    BY TypesSplit DEF SenderIInv
  <1>2. /\ ~Exists(d) /\ \A e \in Deliveries : e < d => Exists(e)
        /\ row' \in [Deliveries -> Row]
        /\ \A e \in Deliveries : e # d => row'[e] = row[e]
        /\ row'[d].status = "queued" /\ row'[d].msg = m
    BY <1>1, InsertFacts DEF PlaceOK
  <1>3. PlaceOK'
    BY <1>1, <1>2 DEF PlaceOK
  <1>4. \A e \in Deliveries : Exists(e)' <=> (Exists(e) \/ e = d)
    BY <1>2 DEF Exists
  <1>5. \A e \in Deliveries : Exists(e) => e < d
    BY <1>1, <1>2, DeliveriesAssumption DEF TableOK, Deliveries
  <1>6. TableOK'
    <2>1. \A e \in Deliveries : Exists(e)' <=> row'[e].msg \in Messages
      BY <1>1, <1>2, <1>4 DEF TableOK
    <2>2. ASSUME NEW e \in Deliveries, NEW f \in Deliveries, f < e, Exists(e)'
          PROVE  Exists(f)'
      BY <1>1, <1>2, <1>4, <2>2 DEF TableOK
    <2>3. QED
      BY <2>1, <2>2 DEF TableOK
  <1>7. cur # d
    BY <1>1, <1>2, SenderAssumption DEF HandOK
  <1>8. HandOK'
    <2>1. ASSUME cur # NoDelivery
          PROVE  /\ Exists(cur)'
                 /\ \A e \in Deliveries : e < cur => ~Pending(e)'
      <3>1. cur \in Deliveries /\ Exists(cur) /\ cur < d
        BY <1>1, <1>5, <2>1 DEF HandOK, PlaceOK
      <3>2. \A e \in Deliveries : e < cur => e # d
        BY <3>1, DeliveriesAssumption DEF Deliveries
      <3>3. QED
        BY <1>1, <1>2, <1>4, <2>1, <3>1, <3>2 DEF HandOK, Pending
    <2>2. /\ pc \in Waiting \cup Attempting => row'[cur] = row[cur]
          /\ row'[d].status # "sending"
      BY <1>1, <1>2, <1>7, StatusSets DEF PlaceOK
    <2>3. QED
      BY <1>1, <1>2, <1>7, <2>1, <2>2 DEF HandOK, Running
  <1>9. BootOK'
    BY <1>1, <1>2, <1>7 DEF BootOK, Exists, FinalStatuses
  <1>10. QED
    BY <1>3, <1>6, <1>8, <1>9 DEF Core

LEMMA StartCore ==
    ASSUME SenderIInv, Start
    PROVE  /\ Core' /\ boot' \in 0..MaxDeliveries
           /\ pending' \in [Messages -> Nat]
  <1>1. PlaceOK /\ TableOK /\ HandOK /\ BootOK /\ boot \in 0..MaxDeliveries
    BY TypesSplit DEF SenderIInv, HistoryOK
  <1>2. /\ pc = "off" /\ pc' = "claim" /\ cur = NoDelivery /\ cur' = cur
    BY <1>1 DEF Start, PlaceOK
  <1>3. /\ KeepsMessages
        /\ \A e \in Deliveries : Exists(e)' <=> Exists(e)
        /\ \A e \in Deliveries : row'[e].status # "sending"
        /\ \A e \in Deliveries :
              row[e].status \in FinalStatuses => row'[e].status \in FinalStatuses
        /\ DiscardPending => \A e \in Deliveries :
              Exists(e) => row'[e].status \in FinalStatuses
    <2>1. CASE DiscardPending
      <3>1. /\ KeepsMessages
            /\ \A e \in Deliveries :
                  IF row[e].status \in PendingStatuses \cup {"sending"}
                  THEN row'[e].status = "expired"
                  ELSE row'[e] = row[e]
        BY <1>1, <2>1, DiscardFacts DEF PlaceOK
      <3>2. \A e \in Deliveries : row[e].status \in Statuses
        BY <1>1 DEF PlaceOK, Row
      <3>3. \A e \in Deliveries : Exists(e)' <=> Exists(e)
        BY <3>1 DEF Exists, PendingStatuses
      <3>4. \A e \in Deliveries : row'[e].status # "sending"
        BY <3>1
      <3>5. \A e \in Deliveries : Exists(e) => row'[e].status \in FinalStatuses
        BY <3>1, <3>2 DEF Exists, Statuses, FinalStatuses
      <3>6. QED
        BY <3>1, <3>3, <3>4, <3>5 DEF Exists, FinalStatuses
    <2>2. CASE Recover /\ ~DiscardPending
      <3>1. /\ KeepsMessages
            /\ \A e \in Deliveries : IF row[e].status = "sending"
                                     THEN row'[e].status = "queued"
                                     ELSE row'[e] = row[e]
        BY <1>1, <2>2, RecoverFacts DEF PlaceOK
      <3>2. QED
        BY <2>2, <3>1 DEF Exists, FinalStatuses
    <2>3. QED
      BY <2>1, <2>2 DEF Start
  <1>4. PlaceOK' /\ TableOK'
    BY <1>1, <1>2, <1>3 DEF PlaceOK, TableOK, KeepsMessages, Places
  <1>5. HandOK'
    BY <1>2, <1>3 DEF HandOK, Waiting, Attempting
  <1>6. boot' \in 0..MaxDeliveries
    BY <1>1, SomeRowsFinite DEF Start
  <1>7. ASSUME NEW d \in Deliveries, d <= boot'
        PROVE  row'[d].status \in FinalStatuses /\ d # cur'
    <2>1. d # NoDelivery
      BY SenderAssumption
    <2>2. CASE UNCHANGED boot
      BY <1>1, <1>2, <1>3, <1>7, <2>1, <2>2 DEF BootOK
    <2>3. CASE DiscardPending /\ boot' = Cardinality({e \in Deliveries : Exists(e)})
      BY <1>1, <1>2, <1>3, <1>7, <2>1, <2>3, FirstRowsExist
    <2>4. QED
      BY <2>2, <2>3 DEF Start
  <1>8. pending' \in [Messages -> Nat]
    <2>1. CASE UNCHANGED pending
      BY <2>1, TypesSplit DEF SenderIInv, DataOK
    <2>2. CASE pending' = [m \in Messages |->
                 Cardinality({d \in Deliveries :
                                /\ row'[d].msg = m
                                /\ row'[d].status = "queued"
                                /\ row'[d].code \in Recovered})]
      BY <2>2, SomeRowsFinite, DeliveriesAssumption
    <2>3. QED
      BY <2>1, <2>2 DEF Start
  <1>9. QED
    BY <1>4, <1>5, <1>6, <1>7, <1>8 DEF Core, BootOK

\* Every echo marks rows of the run's own timeline only.
LEMMA EchoFacts ==
    ASSUME SenderIInv, NEW m \in Messages, Echo(m)
    PROVE  /\ \/ UNCHANGED row
              \/ \E p \in SameSignature(m), d \in Deliveries :
                    /\ IsNewest(d, p) /\ Changes(d, "sent", "none")
                    /\ row'[d].attempts = row[d].attempts
           /\ pending' \in [Messages -> Nat] /\ echoes' \in [Messages -> Nat]
           /\ echoes[m] # 0
           /\ \A p \in Messages : echoes'[p] # 0 => echoes[p] # 0
  <1>1. DataOK /\ row \in [Deliveries -> Row]
    BY TypesSplit DEF SenderIInv, PlaceOK
  <1>2. SameSignature(m) \subseteq Messages
    BY SenderAssumption DEF SameSignature
  <1>3. \/ UNCHANGED row
        \/ \E p \in SameSignature(m) : MarkNewest(p)
    BY DEF Echo
  <1>4. ASSUME NEW p \in SameSignature(m), MarkNewest(p)
        PROVE  \/ UNCHANGED row
               \/ \E d \in Deliveries :
                    /\ IsNewest(d, p) /\ Changes(d, "sent", "none")
                    /\ row'[d].attempts = row[d].attempts
    BY <1>1, <1>2, <1>4, MarkFacts
  <1>5. \/ UNCHANGED pending
        \/ \E p \in Messages : /\ pending[p] > 0
                               /\ pending' = [pending EXCEPT ![p] = @ - 1]
    BY <1>2 DEF Echo
  <1>6. pending' \in [Messages -> Nat]
    BY <1>1, <1>5 DEF DataOK
  <1>7. echoes[m] > 0 /\ echoes' = [echoes EXCEPT ![m] = @ - 1]
    BY DEF Echo
  <1>8. /\ echoes' \in [Messages -> Nat] /\ echoes[m] # 0
        /\ \A p \in Messages : echoes'[p] # 0 => echoes[p] # 0
    BY <1>1, <1>7 DEF DataOK
  <1>9. QED
    BY <1>3, <1>4, <1>6, <1>8

LEMMA SenderStep == SenderIInv /\ [SenderNext]_senderVars => SenderIInv'
  <1> SUFFICES ASSUME SenderIInv, [SenderNext]_senderVars PROVE SenderIInv'
    OBVIOUS
  <1>1. TypeOK /\ TableOK /\ HandOK /\ PlaceOK /\ DataOK /\ HistoryOK
    BY TypesSplit DEF SenderIInv
  <1>2. Core' /\ DataOK' /\ HistoryOK' => SenderIInv'
    <2>1. PlaceOK' /\ DataOK' /\ HistoryOK' => TypeOK'
      BY TypesSplit DEF TypeOK, PlaceOK, DataOK, HistoryOK
    <2>2. QED
      BY <2>1 DEF SenderIInv, Core
  <1>3. UNCHANGED history => HistoryOK' /\ UNCHANGED boot
    BY <1>1 DEF history, HistoryOK
  <1>4. UNCHANGED chat => UNCHANGED <<box, echoes, rows, posted>>
    BY DEF chat
  <1>5. CASE WorkerStep
    <2>1. UNCHANGED history
      BY <1>5 DEF WorkerStep
    <2>2. Core'
      BY <1>1, <1>5, <2>1, WorkerShape, WorkerCore
    <2>3. DataOK'
      BY <1>1, <1>5, WorkerData
    <2>4. QED
      BY <1>2, <1>3, <2>1, <2>2, <2>3
  <1>6. ASSUME NEW d \in Deliveries, Cancel(d) PROVE SenderIInv'
    <2>1. /\ Pending(d) /\ Changes(d, "cancelled", "none")
          /\ row'[d].attempts = row[d].attempts
      BY <1>1, <1>6, CancelFacts DEF Cancel, PlaceOK
    <2>2. Exists(d) /\ UNCHANGED <<pc, cur, boot, starts>>
      BY <1>6, <2>1 DEF Cancel, Exists, Pending, PendingStatuses
    <2>3. Core'
      BY <2>1, <2>2, MarkCore
    <2>4. DataOK' /\ HistoryOK'
      BY <1>1, <1>4, <1>6, <2>2 DEF Cancel, DataOK, HistoryOK
    <2>5. QED
      BY <1>2, <2>3, <2>4
  <1>7. ASSUME NEW d \in Deliveries, Expires(d) \/ FallsDue(d)
        PROVE  SenderIInv'
    <2>1. Ages(d) \/ BecomesDue(d)
      BY <1>7 DEF Expires, FallsDue
    <2>2. Ticks
      BY <1>1, <2>1, TicksFacts DEF PlaceOK
    <2>3. /\ UNCHANGED <<pc, cur, answer, touched, stopping, cooling, pending>>
          /\ UNCHANGED chat /\ UNCHANGED history
      BY <1>7 DEF Expires, FallsDue
    <2>4. Core'
      BY <1>3, <2>2, <2>3, TicksCore
    <2>5. DataOK'
      BY <1>1, <1>4, <2>3 DEF DataOK
    <2>6. QED
      BY <1>2, <1>3, <2>3, <2>4, <2>5
  <1>8. ASSUME NEW d \in Deliveries, NEW m \in Messages, Insert(d, m),
               UNCHANGED <<pc, cur, answer, touched, stopping, cooling,
                           pending, chat, history>>
        PROVE  SenderIInv'
    <2>1. Core'
      BY <1>3, <1>8, InsertCore
    <2>2. DataOK'
      BY <1>1, <1>4, <1>8 DEF DataOK
    <2>3. QED
      BY <1>2, <1>3, <1>8, <2>1, <2>2
  <1>9. ASSUME NEW d \in Deliveries, NEW m \in Messages, Enqueue(d, m)
        PROVE  SenderIInv'
    BY <1>8, <1>9 DEF Enqueue
  <1>10. ASSUME NEW d \in Deliveries, NEW o \in Deliveries,
                RetryOrResend(d, o)
         PROVE  SenderIInv'
    <2>1. row[o].status \in {"failed", "expired", "sent"}
      BY <1>10 DEF RetryOrResend, InsertCopy
    <2>2. row[o].msg \in Messages
      BY <1>1, <2>1 DEF TableOK, Exists
    <2>3. QED
      BY <1>8, <1>10, <2>2 DEF RetryOrResend, InsertCopy
  <1>11. ASSUME NEW m \in Messages, Echo(m) PROVE SenderIInv'
    <2>1. /\ UNCHANGED <<pc, cur, answer, touched, stopping, cooling, box,
                         rows, posted>>
          /\ UNCHANGED history
      BY <1>11 DEF Echo
    <2>2. Core'
      <3>1. CASE UNCHANGED row
        BY <2>1, <3>1, FrameCore
      <3>2. ASSUME NEW p \in SameSignature(m), NEW d \in Deliveries,
                   IsNewest(d, p), Changes(d, "sent", "none"),
                   row'[d].attempts = row[d].attempts
            PROVE  Core'
        <4>1. Exists(d) /\ d > boot
          BY <3>2 DEF IsNewest, Carded
        <4>2. QED
          BY <1>3, <2>1, <3>2, <4>1, MarkCore
      <3>3. QED
        BY <1>11, <3>1, <3>2, EchoFacts
    <2>3. DataOK'
      BY <1>1, <1>11, <2>1, EchoFacts DEF DataOK
    <2>4. QED
      BY <1>2, <1>3, <2>1, <2>2, <2>3
  <1>12. ASSUME UNCHANGED <<row, pc, cur, history>>, DataOK'
         PROVE  SenderIInv'
    BY <1>2, <1>3, <1>12, FrameCore
  <1>13. ASSUME NEW m \in Messages, PendingDropped(m) PROVE SenderIInv'
    <2>1. pending' \in [Messages -> Nat]
      BY <1>1, <1>13 DEF PendingDropped, DataOK
    <2>2. DataOK' /\ UNCHANGED <<row, pc, cur, history>>
      BY <1>1, <1>4, <1>13, <2>1 DEF PendingDropped, DataOK
    <2>3. QED
      BY <1>12, <2>2
  <1>14. CASE UserTypes
    BY <1>1, <1>12, <1>14 DEF UserTypes, DataOK
  <1>15. CASE UserMoves
    BY <1>1, <1>4, <1>12, <1>15 DEF UserMoves, DataOK
  <1>16. CASE CoolingEnds
    BY <1>1, <1>4, <1>12, <1>16 DEF CoolingEnds, DataOK
  <1>17. CASE Stop
    BY <1>1, <1>4, <1>12, <1>17 DEF Stop, DataOK
  <1>18. CASE Start
    <2>1. /\ Core' /\ boot' \in 0..MaxDeliveries
          /\ pending' \in [Messages -> Nat]
      BY <1>18, StartCore
    <2>2. HistoryOK'
      BY <1>1, <1>18, <2>1, SenderAssumption DEF Start, HistoryOK
    <2>3. DataOK'
      BY <1>1, <1>4, <1>18, <2>1 DEF Start, DataOK
    <2>4. QED
      BY <1>2, <2>1, <2>2, <2>3
  <1>19. CASE ProcessEnds
    <2>1. /\ pc' = "off" /\ cur' = NoDelivery /\ UNCHANGED row
          /\ UNCHANGED history
      BY <1>19 DEF ProcessEnds
    <2>2. TableOK /\ BootOK
      BY DEF SenderIInv
    <2>3. PlaceOK' /\ TableOK'
      BY <1>1, <2>1, <2>2 DEF PlaceOK, TableOK, Exists, Places
    <2>4. HandOK'
      BY <2>1, StatusSets DEF HandOK, Running
    <2>5. BootOK'
      BY <1>3, <2>1, <2>2, SenderAssumption DEF BootOK
    <2>6. DataOK'
      BY <1>1, <1>19 DEF ProcessEnds, DataOK, Answers
    <2>7. QED
      BY <1>2, <1>3, <2>1, <2>3, <2>4, <2>5, <2>6 DEF Core
  <1>20. CASE UNCHANGED senderVars
    <2>1. UNCHANGED <<row, pc, cur, history>> /\ DataOK'
      BY <1>1, <1>20 DEF senderVars, DataOK, chat
    <2>2. QED
      BY <1>12, <2>1
  <1>21. QED
    BY <1>5, <1>6, <1>7, <1>9, <1>10, <1>11, <1>13, <1>14, <1>15, <1>16,
       <1>17, <1>18, <1>19, <1>20 DEF SenderNext, WorkerEnds, Crash

\* The sender keeps to its types, rows are filled in order, no reply older
\* than the one in hand waits, SENDING is the status of the reply in hand or
\* of one a crash has left, and what a start has discarded is over.
THEOREM SenderInvariance == SenderSpec => []SenderIInv
  BY SenderInitIInv, SenderStep, PTL DEF SenderSpec
-----------------------------------------------------------------------------
(* Nothing is posted but the delivery in hand. *)

LEMMA WorkerPosts ==
    ASSUME WorkerStep
    PROVE  UNCHANGED posted \/ (pc \in Attempting /\ Posts)
  <1>1. UNCHANGED chat => UNCHANGED posted
    BY DEF chat
  <1>2. CASE ClaimNext \/ ClaimExpires \/ RecoverFinds \/ RecoverMisses
             \/ WaitEnds \/ WaitDefers \/ StartAttempt \/ ResolveFails
             \/ InternalError
    BY <1>1, <1>2
    DEF ClaimNext, ClaimExpires, RecoverFinds, RecoverMisses, WaitEnds,
        WaitDefers, StartAttempt, ResolveFails, InternalError
  <1>3. CASE BgUnavailable \/ BgTypes \/ BgInvokes \/ BgConsumed \/ BgEnters
             \/ BgBusy \/ BgInterrupted \/ BgVerified \/ BgUnverified
    BY <1>1, <1>3
    DEF BgUnavailable, BgTypes, BgInvokes, BgConsumed, BgEnters, BgBusy,
        BgInterrupted, BgVerified, BgUnverified, Attempting
  <1>4. CASE FallbackRefused \/ FallbackStarts \/ FgInterrupted \/ FgFails
             \/ FgTriggers \/ ChildLost \/ FgAnswered \/ FgVerifies
    BY <1>1, <1>4
    DEF FallbackRefused, FallbackStarts, FgInterrupted, FgFails, FgTriggers,
        ChildLost, FgAnswered, FgVerifies, Attempting
  <1>5. CASE QuoteUnavailable \/ QuoteBusy \/ QuoteGivesUp \/ QuoteStopped
             \/ QuoteTriggers \/ QuoteAnswered
    BY <1>1, <1>5
    DEF QuoteUnavailable, QuoteBusy, QuoteGivesUp, QuoteStopped,
        QuoteTriggers, QuoteAnswered, Attempting
  <1>6. QED
    BY <1>2, <1>3, <1>4, <1>5 DEF WorkerStep

\* The steps of everybody but the worker, by their effect on the table.
Bystander == \/ UNCHANGED row
             \/ \E d \in Deliveries, m \in Messages : Insert(d, m)
             \/ \E d \in Deliveries : CancelRow(d)
             \/ Ticks
             \/ \E m \in Messages, d \in Deliveries :
                   IsNewest(d, m) /\ Changes(d, "sent", "none")
             \/ pc = "off" /\ (DiscardPending \/ Recover)

LEMMA OthersDoNotPost ==
    ASSUME SenderIInv, [SenderNext]_senderVars, ~WorkerStep
    PROVE  Bystander /\ UNCHANGED posted
  <1>1. row \in [Deliveries -> Row] /\ TableOK
    BY DEF SenderIInv, TypeOK
  <1>2. UNCHANGED chat => UNCHANGED posted
    BY DEF chat
  <1>3. ASSUME NEW d \in Deliveries,
               Cancel(d) \/ Expires(d) \/ FallsDue(d)
        PROVE  Bystander /\ UNCHANGED posted
    BY <1>1, <1>2, <1>3, TicksFacts
    DEF Bystander, Cancel, Expires, FallsDue
  <1>4. ASSUME NEW d \in Deliveries, NEW m \in Messages, Enqueue(d, m)
        PROVE  Bystander /\ UNCHANGED posted
    BY <1>2, <1>4 DEF Bystander, Enqueue
  <1>5. ASSUME NEW d \in Deliveries, NEW o \in Deliveries, RetryOrResend(d, o)
        PROVE  Bystander /\ UNCHANGED posted
    <2>1. Insert(d, row[o].msg) /\ row[o].status # "none"
      BY <1>5 DEF RetryOrResend, InsertCopy
    <2>2. row[o].msg \in Messages
      BY <1>1, <2>1 DEF TableOK, Exists
    <2>3. QED
      BY <1>2, <1>5, <2>1, <2>2 DEF Bystander, RetryOrResend
  <1>6. ASSUME NEW m \in Messages, Echo(m)
        PROVE  Bystander /\ UNCHANGED posted
    <2>1. SameSignature(m) \subseteq Messages
      BY SenderAssumption DEF SameSignature
    <2>2. Bystander
      BY <1>6, <2>1, EchoFacts DEF Bystander
    <2>3. QED
      BY <1>6, <2>2 DEF Echo
  <1>7. ASSUME NEW m \in Messages, PendingDropped(m)
        PROVE  Bystander /\ UNCHANGED posted
    BY <1>2, <1>7 DEF Bystander, PendingDropped
  <1>8. CASE UserTypes \/ UserMoves \/ CoolingEnds \/ Stop
    BY <1>2, <1>8 DEF Bystander, UserTypes, UserMoves, CoolingEnds, Stop
  <1>9. CASE Start
    BY <1>2, <1>9 DEF Bystander, Start
  <1>10. CASE WorkerEnds \/ Crash
    BY <1>10 DEF Bystander, WorkerEnds, Crash, ProcessEnds
  <1>11. CASE UNCHANGED senderVars
    BY <1>2, <1>11 DEF Bystander, senderVars
  <1>12. QED
    BY <1>3, <1>4, <1>5, <1>6, <1>7, <1>8, <1>9, <1>10, <1>11 DEF SenderNext

LEMMA PostsOnlyHand ==
    ASSUME SenderIInv, [SenderNext]_senderVars, NEW d \in Deliveries,
           posted'[d] # posted[d]
    PROVE  d = cur /\ pc \in Attempting /\ row[d].status \in {"sending", "sent"}
  <1>1. WorkerStep /\ pc \in Attempting /\ Posts
    BY WorkerPosts, OthersDoNotPost
  <1>2. posted \in [Deliveries -> 0..MaxPosts]
    BY DEF SenderIInv, TypeOK
  <1>3. d = cur
    BY <1>1, <1>2 DEF Posts
  <1>4. QED
    BY <1>1, <1>3 DEF SenderIInv, HandOK

\* Restarting the bridge is the boundary: what a start has discarded is not
\* posted any more, whatever the sender was doing when the run before ended.
THEOREM NothingStale == SenderSpec => NoStaleReply
  <1>1. ASSUME SenderIInv, [SenderNext]_senderVars, NEW d \in 1..boot
        PROVE  posted'[d] = posted[d]
    <2>1. boot \in 0..MaxDeliveries /\ BootOK
      BY <1>1 DEF SenderIInv, TypeOK
    <2>2. d \in Deliveries /\ d <= boot
      BY <2>1, DeliveriesAssumption DEF Deliveries
    <2>3. d # cur
      BY <2>1, <2>2 DEF BootOK
    <2>4. QED
      BY <1>1, <2>2, <2>3, PostsOnlyHand
  <1>2. SenderIInv /\ [SenderNext]_senderVars
        => [\A d \in 1..boot : posted'[d] = posted[d]]_senderVars
    BY <1>1
  <1>3. QED
    BY <1>2, SenderInvariance, PTL DEF SenderSpec, NoStaleReply

\* A delivery whose result is unknown is never taken up again: only an echo
\* still changes its row, and it is not posted any more.
THEOREM UnknownStaysFinal == SenderSpec => UnknownIsFinal
  <1>1. ASSUME SenderIInv, [SenderNext]_senderVars, NEW d \in Deliveries,
               row[d].status = "failed"
        PROVE  row'[d].status \in {"failed", "sent"} /\ posted'[d] = posted[d]
    <2>1. TypeOK /\ TableOK /\ HandOK /\ PlaceOK
      BY <1>1, TypesSplit DEF SenderIInv
    <2>2. Held => cur \in Deliveries /\ d # cur
      BY <1>1, <2>1, StatusSets DEF Held, HandOK, PlaceOK
    <2>3. posted'[d] = posted[d]
      BY <1>1, PostsOnlyHand
    <2>4. CASE WorkerStep
      <3>1. cur # NoDelivery => Held
        BY <2>1, StatusSets DEF PlaceOK, Held
      <3>2. CASE Takes
        <4>1. PICK e \in Deliveries : Claim(e)
          BY <3>2 DEF Takes
        <4>2. Pending(e) /\ \A f \in Deliveries : f # e => Swept(f)
          BY <2>1, <4>1, ClaimFacts DEF PlaceOK
        <4>3. QED
          BY <1>1, <2>3, <4>2 DEF Pending, PendingStatuses, Swept
      <3>3. CASE Sweeps
        <4>1. Swept(d)
          BY <2>1, <3>3, ClaimNoneFacts DEF Sweeps, PlaceOK
        <4>2. QED
          BY <1>1, <2>3, <4>1 DEF Pending, PendingStatuses, Swept
      <3>4. CASE GoesOn \/ Attempts \/ LetsGo
        BY <1>1, <2>2, <2>3, <3>1, <3>4
        DEF GoesOn, Attempts, LetsGo, Settles, Changes
      <3>5. QED
        BY <2>1, <2>4, <3>2, <3>3, <3>4, WorkerShape
    <2>5. CASE ~WorkerStep
      <3>1. Bystander
        BY <1>1, <2>5, OthersDoNotPost
      <3>2. ASSUME NEW e \in Deliveries, NEW m \in Messages, Insert(e, m)
            PROVE  row'[d] = row[d]
        BY <1>1, <2>1, <3>2, InsertFacts DEF PlaceOK, Exists
      <3>3. ASSUME NEW e \in Deliveries, CancelRow(e)
            PROVE  row'[d] = row[d]
        BY <1>1, <2>1, <3>3, CancelFacts
        DEF PlaceOK, Pending, PendingStatuses, Changes
      <3>4. ASSUME NEW e \in Deliveries, Changes(e, "sent", "none")
            PROVE  row'[d].status \in {"failed", "sent"}
        BY <1>1, <3>4 DEF Changes
      <3>5. DiscardPending \/ Recover => row'[d] = row[d]
        BY <1>1, <2>1, DiscardFacts, RecoverFacts DEF PlaceOK, PendingStatuses
      <3>6. QED
        BY <1>1, <2>3, <3>1, <3>2, <3>3, <3>4, <3>5 DEF Bystander, Ticks
    <2>6. QED
      BY <2>4, <2>5
  <1>2. SenderIInv /\ [SenderNext]_senderVars
        => [\A d \in Deliveries :
               row[d].status = "failed" /\ row[d].code = "delivery_unknown"
               => /\ row'[d].status \in {"failed", "sent"}
                  /\ posted'[d] = posted[d]]_senderVars
    BY <1>1
  <1>3. QED
    BY <1>2, SenderInvariance, PTL DEF SenderSpec, UnknownIsFinal
-----------------------------------------------------------------------------
(* A reply is posted once.                                                 *)

Ends == row'[cur].status \in FinalStatuses

LEMMA HandEnds ==
    ASSUME TypeOK, TableOK, HandOK, Held
    PROVE  /\ \A s \in FinalStatuses, c \in Codes : Update(cur, s, c) => Ends
           /\ ResultUnknown => Ends
           /\ Confirm => Ends
  <1>1. cur \in Deliveries /\ row \in [Deliveries -> Row]
    BY InHand DEF Held, TypeOK, Waiting, Attempting
  <1>2. /\ FinalStatuses \subseteq Statuses
        /\ {"none", "delivery_unknown"} \subseteq Codes
        /\ {"failed", "sent"} \subseteq FinalStatuses
    BY DEF Statuses, FinalStatuses, Codes
  <1>3. ASSUME NEW s \in FinalStatuses, NEW c \in Codes, Update(cur, s, c)
        PROVE  Ends
    BY <1>1, <1>2, <1>3, UpdateFacts DEF Ends, Changes
  <1>4. QED
    BY <1>2, <1>3 DEF ResultUnknown, Confirm, Ends

\* What a step of the worker does with the reply in hand, if it was posted.
Drops == LetsGo /\ (posted[cur] = 0 \/ Ends)

Proceeds == /\ GoesOn
            /\ \/ posted[cur] = 0
               \/ pc' \in AfterPost
               \/ pc' = "wait" /\ WasRecalled(cur)

Begins == Attempts /\ posted[cur] = 0

PostsOnce == /\ Posts /\ posted[cur] = 0 /\ pc \in Attempting \ {"fallback"}
             /\ \/ GoesOn /\ pc' \in AfterPost
                \/ LetsGo /\ Ends

PostShape == \/ /\ UNCHANGED <<posted, echoes>>
                /\ Takes \/ Sweeps \/ Drops \/ Proceeds \/ Begins
             \/ PostsOnce

LEMMA WorkerPostShape ==
    ASSUME SenderIInv, PostedOK, BoxOK, Undisturbed, WorkerStep
    PROVE  PostShape
  <1>1. TypeOK /\ TableOK /\ HandOK /\ NoDelivery \notin Deliveries
    BY SenderAssumption DEF SenderIInv
  <1>2. Takes \/ Sweeps \/ GoesOn \/ Attempts \/ LetsGo
    BY <1>1, WorkerShape
  <1>3. Held <=> cur # NoDelivery
    BY <1>1 DEF Held, TypeOK, Places, Waiting, Attempting
  <1>4. ASSUME Held, NextClaim PROVE LetsGo
    BY <1>2, <1>3, <1>4
    DEF NextClaim, Takes, Sweeps, GoesOn, Attempts, Held, Waiting, Attempting
  <1>5. Held => cur \in Deliveries /\ Msg \in Messages
    BY <1>1, <1>3, InHand
  <1>6. ASSUME Held,
               \/ pc \in Attempting \ AfterPost
               \/ pc = "wait" /\ row[cur].status # "cancelled"
        PROVE  posted[cur] = 0
    BY <1>5, <1>6 DEF PostedOK, WasRecalled, AfterPost, Waiting, Attempting
  <1>7. UNCHANGED chat => UNCHANGED <<box, echoes, rows, posted>>
    BY DEF chat
  <1>8. ASSUME Held, UNCHANGED row, cur' = cur, pc \in Attempting,
               pc' \in Attempting
        PROVE  GoesOn
    BY <1>3, <1>8 DEF GoesOn
  <1>9. Held => /\ {"other", "delivery_unknown"} \subseteq Codes
                /\ {"failed", "expired"} \subseteq FinalStatuses
    BY DEF Codes, FinalStatuses
  <1>10. CASE ClaimNext \/ ClaimExpires
    <2>1. pc = "claim" /\ UNCHANGED chat
      BY <1>10 DEF ClaimNext, ClaimExpires
    <2>2. Takes \/ Sweeps
      BY <1>2, <1>3, <2>1
      DEF GoesOn, Attempts, LetsGo, Held, Waiting, Attempting
    <2>3. QED
      BY <1>7, <2>1, <2>2 DEF PostShape
  <1>11. CASE RecoverFinds
    <2>1. Held /\ NextClaim /\ Confirm /\ UNCHANGED <<echoes, posted>>
      BY <1>11 DEF RecoverFinds, Held, Waiting
    <2>2. QED
      BY <1>1, <1>4, <2>1, HandEnds DEF PostShape, Drops
  <1>12. CASE RecoverMisses
    <2>1. Held /\ UNCHANGED <<echoes, posted>> /\ pc = "recover"
      BY <1>7, <1>12 DEF RecoverMisses, Held, Waiting
    <2>2. CASE row[cur].code = "recovered_foreground_inflight"
      <3>1. Update(cur, "failed", "delivery_unknown") /\ NextClaim
        BY <1>12, <2>2 DEF RecoverMisses
      <3>2. QED
        BY <1>1, <1>4, <1>9, <2>1, <3>1, HandEnds DEF PostShape, Drops
    <2>3. CASE row[cur].code # "recovered_foreground_inflight"
      <3>1. GoTo("wait") /\ UNCHANGED row
        BY <1>12, <2>3 DEF RecoverMisses
      <3>2. GoesOn /\ pc' = "wait"
        BY <1>3, <2>1, <3>1 DEF GoesOn, GoTo
      <3>3. posted[cur] # 0 => WasRecalled(cur)
        BY <1>5, <2>1, <2>3 DEF PostedOK, Recalled, AfterPost
      <3>4. QED
        BY <2>1, <3>2, <3>3 DEF PostShape, Proceeds
    <2>4. QED
      BY <2>2, <2>3
  <1>13. CASE WaitEnds
    <2>1. Held /\ UNCHANGED <<echoes, posted>> /\ NextClaim
      BY <1>7, <1>13 DEF WaitEnds, Held, Waiting
    <2>2. Ends
      BY <1>1, <1>9, <1>13, <2>1, HandEnds DEF WaitEnds, Ends, FinalStatuses
    <2>3. QED
      BY <1>4, <2>1, <2>2 DEF PostShape, Drops
  <1>14. CASE WaitDefers \/ ResolveFails
    <2>1. /\ Held /\ UNCHANGED <<echoes, posted>> /\ NextClaim
          /\ pc = "wait" /\ row[cur].status # "cancelled"
      BY <1>7, <1>14
      DEF WaitDefers, ResolveFails, MayStart, MayAttempt, Held, Waiting
    <2>2. QED
      BY <1>4, <1>6, <2>1 DEF PostShape, Drops
  <1>15. CASE StartAttempt
    <2>1. /\ Held /\ UNCHANGED <<echoes, posted>> /\ cur' = cur
          /\ pc = "wait" /\ row[cur].status # "cancelled"
          /\ pc' \in Attempting
      BY <1>15
      DEF StartAttempt, MayStart, MayAttempt, Held, Waiting, Attempting
    <2>2. Attempts
      BY <1>2, <1>3, <2>1
      DEF Takes, Sweeps, GoesOn, LetsGo, NextClaim, Waiting, Attempting
    <2>3. QED
      BY <1>6, <2>1, <2>2 DEF PostShape, Begins
  <1>16. CASE InternalError
    <2>1. /\ Held /\ UNCHANGED <<echoes, posted>> /\ NextClaim
          /\ Update(cur, "failed", "other")
      BY <1>7, <1>16 DEF InternalError, Held
    <2>2. QED
      BY <1>1, <1>4, <1>9, <2>1, HandEnds DEF PostShape, Drops
  <1>17. CASE BgUnavailable \/ BgTypes
    <2>1. /\ Held /\ UNCHANGED <<echoes, posted>> /\ UNCHANGED row
          /\ cur' = cur /\ pc' \in Attempting
          /\ pc \in Attempting /\ pc \notin AfterPost
      BY <1>7, <1>17
      DEF BgUnavailable, BgTypes, GoTo, Held, Attempting, AfterPost
    <2>2. QED
      BY <1>6, <1>8, <2>1 DEF PostShape, Proceeds
  <1>18. CASE BgInvokes
    <2>1. /\ Held /\ UNCHANGED row /\ cur' = cur
          /\ pc' \in Attempting \cap AfterPost
          /\ pc \in Attempting \ {"fallback"} /\ pc \notin AfterPost
          /\ Posts \/ UNCHANGED <<echoes, posted>>
      BY <1>7, <1>18 DEF BgInvokes, GoTo, Held, Attempting, AfterPost
    <2>2. QED
      BY <1>6, <1>8, <2>1 DEF PostShape, Proceeds, PostsOnce
  <1>19. CASE BgConsumed \/ BgEnters
    <2>1. /\ Held /\ pc \in Attempting \ {"fallback"}
          /\ Posts \/ UNCHANGED <<echoes, posted>>
          /\ AfterBackgroundSend
      BY <1>7, <1>19 DEF BgConsumed, BgEnters, Held, Attempting
    <2>2. \/ GoesOn /\ pc' \in AfterPost
          \/ LetsGo /\ Ends
      <3>1. CASE VerifySends
        BY <1>8, <2>1, <3>1
        DEF AfterBackgroundSend, GoTo, Attempting, AfterPost
      <3>2. CASE ~VerifySends
        BY <1>1, <1>4, <2>1, <3>2, HandEnds DEF AfterBackgroundSend
      <3>3. QED
        BY <3>1, <3>2
    <2>3. Posts /\ ~(UNCHANGED <<echoes, posted>>) => posted[cur] = 0
      BY <1>5, <1>7, <1>19, <2>1 DEF BgConsumed, BgEnters, BoxOK
    <2>4. QED
      BY <2>1, <2>2, <2>3 DEF PostShape, Proceeds, Drops, PostsOnce
  <1>20. CASE BgBusy
    <2>1. /\ Held /\ UNCHANGED <<echoes, posted>> /\ NextClaim
          /\ pc = "bg"
      BY <1>7, <1>20 DEF BgBusy, Held, Attempting, BoxOK
    <2>2. QED
      BY <1>4, <1>6, <2>1 DEF PostShape, Drops, AfterPost, Attempting
  <1>21. CASE BgInterrupted
    <2>1. /\ Held /\ UNCHANGED <<echoes, posted>> /\ NextClaim
      BY <1>7, <1>21 DEF BgInterrupted, Held, Attempting
    <2>2. posted[cur] = 0
      <3>1. CASE pc = "bg_invoked"
        BY <1>21, <3>1 DEF BgInterrupted, BoxOK
      <3>2. CASE pc # "bg_invoked"
        BY <1>6, <1>21, <2>1, <3>2 DEF BgInterrupted, AfterPost, Attempting
      <3>3. QED
        BY <3>1, <3>2
    <2>3. QED
      BY <1>4, <2>1, <2>2 DEF PostShape, Drops
  <1>22. CASE BgVerified
    <2>1. Held /\ NextClaim /\ Confirm /\ UNCHANGED <<echoes, posted>>
      BY <1>22 DEF BgVerified, Held, Attempting
    <2>2. QED
      BY <1>1, <1>4, <2>1, HandEnds DEF PostShape, Drops
  <1>23. CASE BgUnverified
    <2>1. /\ Held /\ UNCHANGED <<echoes, posted>> /\ pc = "bg_verify"
      BY <1>7, <1>23 DEF BgUnverified, Held, Attempting
    <2>2. CASE box = Msg /\ GoTo("fallback") /\ UNCHANGED row
      <3>1. posted[cur] = 0
        BY <2>1, <2>2 DEF BoxOK
      <3>2. GoesOn
        BY <1>8, <2>1, <2>2 DEF GoTo, Attempting
      <3>3. QED
        BY <2>1, <3>1, <3>2 DEF PostShape, Proceeds
    <2>3. CASE ResultUnknown /\ NextClaim
      BY <1>1, <1>4, <2>1, <2>3, HandEnds DEF PostShape, Drops
    <2>4. QED
      BY <1>23, <2>2, <2>3 DEF BgUnverified
  <1>24. CASE FallbackRefused
    <2>1. /\ Held /\ UNCHANGED <<echoes, posted>> /\ NextClaim
          /\ pc \in Attempting /\ pc \notin AfterPost
      BY <1>24 DEF FallbackRefused, Held, Attempting, AfterPost
    <2>2. QED
      BY <1>4, <1>6, <2>1 DEF PostShape, Drops
  <1>25. CASE FallbackStarts
    <2>1. /\ Held /\ UNCHANGED <<echoes, posted>> /\ cur' = cur
          /\ pc \in Attempting /\ pc \notin AfterPost /\ pc' \in Attempting
      BY <1>7, <1>25 DEF FallbackStarts, GoTo, Held, Attempting, AfterPost
    <2>2. posted[cur] = 0
      BY <1>6, <2>1
    <2>3. GoesOn \/ Attempts
      BY <1>2, <1>3, <2>1
      DEF Takes, Sweeps, LetsGo, NextClaim, Attempting
    <2>4. QED
      BY <2>1, <2>2, <2>3 DEF PostShape, Begins, Proceeds
  <1>26. CASE FgInterrupted
    <2>1. /\ Held /\ UNCHANGED <<echoes, posted>> /\ NextClaim
          /\ pc \in Attempting /\ pc \notin AfterPost
      BY <1>26 DEF FgInterrupted, Held, Attempting, AfterPost, Undisturbed
    <2>2. QED
      BY <1>4, <1>6, <2>1 DEF PostShape, Drops
  <1>27. CASE FgFails
    <2>1. /\ Held /\ UNCHANGED <<echoes, posted>> /\ NextClaim
          /\ Update(cur, "failed", "other")
      BY <1>27 DEF FgFails, Held, Attempting
    <2>2. QED
      BY <1>1, <1>4, <1>9, <2>1, HandEnds DEF PostShape, Drops
  <1>28. CASE FgTriggers \/ QuoteTriggers
    <2>1. /\ Held /\ UNCHANGED row /\ cur' = cur
          /\ pc' \in Attempting \cap AfterPost
          /\ pc \in Attempting \ {"fallback"} /\ pc \notin AfterPost
          /\ Posts \/ UNCHANGED <<echoes, posted>>
      BY <1>28 DEF FgTriggers, QuoteTriggers, Held, Attempting, AfterPost
    <2>2. QED
      BY <1>6, <1>8, <2>1 DEF PostShape, Proceeds, PostsOnce
  <1>29. CASE ChildLost
    <2>1. /\ Held /\ UNCHANGED <<echoes, posted>> /\ NextClaim
          /\ ResultUnknown
      BY <1>29 DEF ChildLost, Held, Attempting
    <2>2. QED
      BY <1>1, <1>4, <2>1, HandEnds DEF PostShape, Drops
  <1>30. CASE FgAnswered
    <2>1. /\ Held /\ UNCHANGED <<echoes, posted>> /\ pc = "fg_done"
      BY <1>7, <1>30 DEF FgAnswered, Held, Attempting
    <2>2. CASE answer = "unknown"
      BY <1>1, <1>4, <1>30, <2>1, <2>2, HandEnds
      DEF FgAnswered, PostShape, Drops
    <2>3. CASE answer # "unknown"
      BY <1>8, <1>30, <2>1, <2>3
      DEF FgAnswered, PostShape, Proceeds, GoTo, Attempting, AfterPost
    <2>4. QED
      BY <2>2, <2>3
  <1>31. CASE FgVerifies
    <2>1. /\ Held /\ UNCHANGED <<echoes, posted>> /\ NextClaim
          /\ Confirm \/ ResultUnknown
      BY <1>31 DEF FgVerifies, Held, Attempting
    <2>2. QED
      BY <1>1, <1>4, <2>1, HandEnds DEF PostShape, Drops
  <1>32. CASE QuoteUnavailable
    <2>1. /\ Held /\ UNCHANGED <<echoes, posted>>
          /\ pc \in Attempting /\ pc \notin AfterPost
      BY <1>7, <1>32 DEF QuoteUnavailable, Held, Attempting, AfterPost
    <2>2. CASE ~touched
      BY <1>6, <1>8, <1>32, <2>1, <2>2
      DEF QuoteUnavailable, PostShape, Proceeds, GoTo, Attempting
    <2>3. CASE touched
      BY <1>4, <1>6, <1>32, <2>1, <2>3 DEF QuoteUnavailable, PostShape, Drops
    <2>4. QED
      BY <2>2, <2>3
  <1>33. CASE QuoteBusy \/ QuoteGivesUp \/ QuoteStopped
    <2>1. /\ Held /\ UNCHANGED <<echoes, posted>> /\ NextClaim
          /\ pc \in Attempting /\ pc \notin AfterPost
      BY <1>7, <1>33
      DEF QuoteBusy, QuoteGivesUp, QuoteStopped, Held, Attempting, AfterPost
    <2>2. QED
      BY <1>4, <1>6, <2>1 DEF PostShape, Drops
  <1>34. CASE QuoteAnswered
    <2>1. /\ Held /\ UNCHANGED <<echoes, posted>> /\ pc = "quote_done"
      BY <1>7, <1>34 DEF QuoteAnswered, Held, Attempting
    <2>2. CASE (ResultUnknown \/ Confirm) /\ NextClaim
      BY <1>1, <1>4, <2>1, <2>2, HandEnds DEF PostShape, Drops
    <2>3. CASE GoTo("quote_verify") /\ UNCHANGED row
      BY <1>8, <2>1, <2>3
      DEF PostShape, Proceeds, GoTo, Attempting, AfterPost
    <2>4. QED
      BY <1>34, <2>2, <2>3 DEF QuoteAnswered
  <1>35. QED
    BY <1>10, <1>11, <1>12, <1>13, <1>14, <1>15, <1>16, <1>17, <1>18, <1>19,
       <1>20, <1>21, <1>22, <1>23, <1>24, <1>25, <1>26, <1>27, <1>28, <1>29,
       <1>30, <1>31, <1>32, <1>33, <1>34 DEF WorkerStep

LEMMA WorkerPosted ==
    ASSUME SenderIInv, PostedOK, MarkOK, Repeatless, PostShape
    PROVE  /\ PostedOK'
           /\ \A d \in Deliveries : posted'[d] # 0 =>
                 /\ ~FreshStarts /\ row'[d].status = "sending"
                    => row'[d].code = "foreground_inflight"
                 /\ Pending(d)' \/ (d = cur' /\ pc' \in Waiting)
                    => \A m \in Messages : echoes'[m] = 0
  <1>1. /\ PlaceOK /\ TableOK /\ HandOK /\ NoDelivery \notin Deliveries
        /\ posted \in [Deliveries -> 0..MaxPosts]
        /\ MaxPosts \in Nat
    BY TypesSplit, SenderAssumption DEF SenderIInv, DataOK
  <1>2. Held <=> cur # NoDelivery
    BY <1>1, StatusSets DEF Held, PlaceOK
  <1> DEFINE EchoOK(d) == /\ ~FreshStarts /\ row[d].status = "sending"
                             => row[d].code = "foreground_inflight"
                          /\ Pending(d) \/ (d = cur /\ pc \in Waiting)
                             => \A m \in Messages : echoes[m] = 0
             OneOK(d) == /\ posted[d] = 1 /\ Exists(d)
                         /\ Pending(d) => Recalled(d)
                         /\ d = cur => \/ pc \in AfterPost
                                       \/ pc = "recover" /\ Recalled(d)
                                       \/ pc \in Waiting /\ WasRecalled(d)
                         /\ \A e \in Deliveries :
                               e < d => e # cur /\ row[e].status \in FinalStatuses
  <1>3. SUFFICES ASSUME NEW d \in Deliveries, posted'[d] # 0
                 PROVE  OneOK(d)' /\ EchoOK(d)'
    BY DEF PostedOK
  <1>4. posted[d] # 0 => OneOK(d) /\ EchoOK(d)
    BY DEF PostedOK, MarkOK
  <1>5. CASE Takes /\ UNCHANGED <<posted, echoes>>
    <2>1. PICK c \in Deliveries :
             /\ Claim(c) /\ cur' = c
             /\ pc' = IF VerifySends /\ row[c].code \in Recovered
                      THEN "recover" ELSE "wait"
      BY <1>5 DEF Takes
    <2>2. /\ KeepsMessages /\ Pending(c)
          /\ row'[c].status = "waiting_for_idle"
          /\ row'[c].code = row[c].code
          /\ \A e \in Deliveries : e # c => Swept(e)
      BY <1>1, <2>1, ClaimFacts DEF PlaceOK
    <2>3. pc = "claim" /\ cur = NoDelivery
      BY <1>1, <1>5 DEF Takes, PlaceOK
    <2>4. \A e \in Deliveries : row[e].status \in FinalStatuses =>
             e # c /\ row'[e].status \in FinalStatuses
      BY <2>2, StatusSets DEF Swept, Pending
    <2>5. \A e \in Deliveries :
             Pending(e)' => Pending(e) /\ row'[e].code = row[e].code
      BY <2>2 DEF Swept, Pending, PendingStatuses
    <2>6. Recalled(c) => pc' = "recover" \/ ~VerifySends
      BY <2>1 DEF Recalled, Recovered
    <2>7. OneOK(d)'
      <3>1. Exists(d)' /\ (Pending(d)' => Recalled(d)')
        BY <1>3, <1>4, <1>5, <2>2, <2>5
        DEF Exists, Pending, Recalled, Swept, PendingStatuses
      <3>2. d = cur' => pc' = "recover" /\ Recalled(d)'
        <4>1. SUFFICES ASSUME d = c
                       PROVE  pc' = "recover" /\ Recalled(d)'
          BY <2>1
        <4>2. Recalled(d) /\ VerifySends
          BY <1>3, <1>4, <1>5, <2>2, <4>1 DEF Recalled, Repeatless, MarkedSends
        <4>3. QED
          BY <2>2, <2>6, <4>1, <4>2 DEF Recalled, Pending, PendingStatuses
      <3>3. QED
        BY <1>3, <1>4, <1>5, <2>1, <2>4, <3>1, <3>2
    <2>8. row'[d].status # "sending"
      BY <1>1, <2>2, <2>3 DEF HandOK, Running, Swept
    <2>9. QED
      BY <1>3, <1>4, <1>5, <2>1, <2>2, <2>5, <2>7, <2>8
  <1>6. CASE Sweeps /\ UNCHANGED <<posted, echoes>>
    <2>1. KeepsMessages /\ \A e \in Deliveries : Swept(e)
      BY <1>1, <1>6, ClaimNoneFacts DEF Sweeps, PlaceOK
    <2>2. pc' = "claim" /\ pc = pc' /\ cur = NoDelivery /\ cur' = cur
      BY <1>1, <1>6 DEF Sweeps, PlaceOK
    <2>3. \A e \in Deliveries : row[e].status \in FinalStatuses =>
             row'[e].status \in FinalStatuses
      BY <2>1, StatusSets DEF Swept, Pending
    <2>4. \A e \in Deliveries : /\ Exists(e)' <=> Exists(e)
                                /\ Pending(e)' => Pending(e)
                                /\ row'[e].code = row[e].code
                                /\ row'[e].status = "sending" => row[e].status = "sending"
      BY <2>1 DEF Swept, Pending, PendingStatuses, Exists
    <2>5. QED
      BY <1>1, <1>3, <1>4, <1>6, <2>2, <2>3, <2>4, StatusSets DEF Recalled
  <1>7. CASE Drops /\ UNCHANGED <<posted, echoes>>
    <2>1. /\ cur \in Deliveries /\ pc' = "claim" /\ cur' = NoDelivery
          /\ Held
      BY <1>1, <1>2, <1>7 DEF Drops, LetsGo, NextClaim, PlaceOK
    <2>2. \A e \in Deliveries : e # cur => row'[e] = row[e]
      BY <1>7 DEF Drops, LetsGo, Settles, Changes
    <2>3. \A e \in Deliveries : e < d => e # cur
      BY <1>3, <1>4, <1>7
    <2>4. CASE d = cur
      <3>1. Ends
        BY <1>3, <1>7, <2>4 DEF Drops
      <3>2. QED
        BY <1>1, <1>3, <1>4, <1>7, <2>1, <2>2, <2>3, <2>4, <3>1, StatusSets
        DEF Ends, Exists, Pending
    <2>5. CASE d # cur
      BY <1>1, <1>3, <1>4, <1>7, <2>1, <2>2, <2>3, <2>5, StatusSets
      DEF Exists, Pending, Recalled
    <2>6. QED
      BY <2>4, <2>5
  <1>8. CASE Proceeds /\ UNCHANGED <<posted, echoes>>
    <2>1. /\ UNCHANGED row /\ cur' = cur
          /\ \/ pc \in Attempting /\ pc' \in Attempting
             \/ pc = "recover" /\ pc' = "wait"
          /\ d = cur => \/ pc' \in AfterPost
                        \/ pc' = "wait" /\ WasRecalled(cur)
      BY <1>3, <1>8 DEF Proceeds, GoesOn
    <2>2. OneOK(d)'
      BY <1>3, <1>4, <1>8, <2>1, StatusSets
      DEF Exists, Pending, Recalled, WasRecalled
    <2>3. EchoOK(d)'
      BY <1>3, <1>4, <1>8, <2>1, StatusSets DEF Pending
    <2>4. QED
      BY <2>2, <2>3
  <1>9. CASE Begins /\ UNCHANGED <<posted, echoes>>
    <2>1. /\ cur \in Deliveries /\ cur' = cur /\ d # cur
          /\ \A e \in Deliveries : e # cur => row'[e] = row[e]
      BY <1>1, <1>3, <1>9 DEF Begins, Attempts, Changes, PlaceOK
    <2>2. \A e \in Deliveries : e < d => e # cur
      BY <1>3, <1>4, <1>9
    <2>3. QED
      BY <1>3, <1>4, <1>9, <2>1, <2>2 DEF Exists, Pending, Recalled
  <1>10. CASE PostsOnce
    <2>1. /\ cur \in Deliveries /\ Exists(cur)
          /\ posted' = [posted EXCEPT ![cur] = @ + 1] /\ posted[cur] = 0
          /\ pc \in Attempting \ {"fallback"}
      BY <1>1, <1>2, <1>10 DEF PostsOnce, Posts, Held, PlaceOK, HandOK
    <2>2. \A e \in Deliveries : e < cur => row[e].status \in FinalStatuses
      <3>1. ASSUME NEW e \in Deliveries, e < cur
            PROVE  row[e].status \in FinalStatuses
        <4>1. Exists(e) /\ ~Pending(e) /\ e # cur
          BY <1>1, <2>1, <3>1, DeliveriesAssumption
          DEF TableOK, HandOK, PlaceOK, Deliveries
        <4>2. row[e].status # "sending" /\ row[e].status \in Statuses
          BY <1>1, <2>1, <4>1, StatusSets
          DEF HandOK, Running, PlaceOK, Row
        <4>3. QED
          BY <4>1, <4>2 DEF Exists, Pending, Statuses
      <3>2. QED
        BY <3>1
    <2>3. \A e \in Deliveries : e # cur => row'[e] = row[e]
      BY <1>10 DEF PostsOnce, LetsGo, GoesOn, Settles, Changes
    <2>4. row'[cur].status \in FinalStatuses \cup {"sending"}
      BY <1>1, <1>10, <2>1
      DEF PostsOnce, Ends, GoesOn, HandOK, FinalStatuses
    <2>5. CASE d = cur
      <3>1. posted'[d] = 1
        BY <1>1, <2>1, <2>5
      <3>2. cur' = cur => pc' \in AfterPost
        BY <1>1, <1>10, <2>1 DEF PostsOnce, LetsGo, NextClaim
      <3>3. cur' \in {cur, NoDelivery}
        BY <1>10 DEF PostsOnce, LetsGo, NextClaim, GoesOn
      <3>4. ~Pending(d)' /\ Exists(d)'
        BY <2>4, <2>5, StatusSets DEF Pending, Exists
      <3>5. \A e \in Deliveries : e < d => e # cur /\ e # cur'
        BY <1>1, <2>1, <2>5, <3>3, DeliveriesAssumption DEF Deliveries
      <3>6. ~FreshStarts /\ row'[d].status = "sending"
            => row'[d].code = "foreground_inflight"
        BY <1>10, <2>1, <2>5, StatusSets DEF PostsOnce, Ends, GoesOn, MarkOK
      <3>7. ~(d = cur' /\ pc' \in Waiting)
        BY <2>5, <3>2 DEF AfterPost, Waiting
      <3>8. QED
        BY <2>2, <2>3, <2>5, <3>1, <3>2, <3>4, <3>5, <3>6, <3>7
    <2>6. CASE d # cur
      <3>1. posted[d] # 0 /\ posted'[d] = posted[d] /\ row'[d] = row[d]
        BY <1>1, <1>3, <2>1, <2>3, <2>6
      <3>2. cur < d => FALSE
        BY <1>4, <2>1, <3>1
      <3>3. d < cur
        BY <2>1, <2>6, <3>2, DeliveriesAssumption DEF Deliveries
      <3>4. ~Pending(d)' /\ d # cur'
        BY <1>1, <1>10, <2>1, <2>6, <3>1, <3>3
        DEF HandOK, Pending, PostsOnce, GoesOn, LetsGo, NextClaim
      <3>5. \A e \in Deliveries : e < d =>
               e # cur' /\ row'[e].status \in FinalStatuses
        BY <1>1, <1>4, <1>10, <2>3, <3>1
        DEF PostsOnce, GoesOn, LetsGo, NextClaim
      <3>6. QED
        BY <1>4, <3>1, <3>4, <3>5 DEF Exists
    <2>7. QED
      BY <2>5, <2>6
  <1>11. QED
    BY <1>5, <1>6, <1>7, <1>8, <1>9, <1>10 DEF PostShape

\* With recoveries, every send is a marked one.
MarkedPlaces == {"fallback", "fg", "fg_done", "fg_verify"}

LEMMA WorkerMark ==
    ASSUME SenderIInv, MarkOK, Repeatless, WorkerStep, ~FreshStarts
    PROVE  /\ pc' \in Attempting => pc' \in MarkedPlaces
           /\ pc' \in {"fg", "fg_done", "fg_verify"}
                 /\ row'[cur'].status = "sending"
              => row'[cur'].code = "foreground_inflight"
  <1>1. /\ TypeOK /\ TableOK /\ HandOK /\ row \in [Deliveries -> Row]
        /\ VerifySends /\ Messages \subseteq Images \ Quotes
    BY DEF SenderIInv, TypeOK, Repeatless, MarkedSends
  <1>2. pc \in Attempting => pc \in MarkedPlaces
    BY DEF MarkOK, MarkedPlaces
  <1>3. Held => cur \in Deliveries /\ Msg \in Messages
    BY <1>1, InHand DEF Held, TypeOK, Waiting, Attempting
  <1>4. NextClaim => pc' = "claim"
    BY DEF NextClaim
  <1>5. CASE pc' \notin Attempting
    BY <1>5 DEF Attempting
  <1>6. CASE StartAttempt
    <2>1. Msg \in Messages
      BY <1>3, <1>6 DEF StartAttempt, MayStart, MayAttempt, Held, Waiting
    <2>2. pc' = "fallback"
      BY <1>1, <1>6, <2>1 DEF StartAttempt
    <2>3. QED
      BY <2>2 DEF MarkedPlaces
  <1>7. CASE FallbackStarts
    <2>1. /\ Update(cur, "sending", "foreground_inflight")
          /\ pc' = "fg" /\ cur' = cur /\ pc = "fallback"
      BY <1>7 DEF FallbackStarts, GoTo
    <2>2. cur \in Deliveries
      BY <1>3, <2>1 DEF Held, Attempting
    <2>3. "foreground_inflight" \in Codes /\ "sending" \in Statuses
      BY DEF Codes, Statuses
    <2>4. row'[cur].code = "foreground_inflight"
      BY <1>1, <2>1, <2>2, <2>3, UpdateFacts DEF Changes
    <2>5. QED
      BY <2>1, <2>4 DEF MarkedPlaces
  <1>8. CASE FgTriggers
    BY <1>8 DEF FgTriggers, MarkOK, MarkedPlaces
  <1>9. CASE FgAnswered /\ pc' \in Attempting
    BY <1>9 DEF FgAnswered, GoTo, NextClaim, MarkOK, MarkedPlaces, Attempting
  <1>10. CASE pc' \in Attempting
              /\ ~(StartAttempt \/ FallbackStarts \/ FgTriggers \/ FgAnswered)
    <2>1. FALSE
      BY <1>2, <1>4, <1>10
      DEF WorkerStep, ClaimNext, ClaimExpires, RecoverFinds, RecoverMisses,
          WaitEnds, WaitDefers, ResolveFails, InternalError, BgUnavailable,
          BgTypes, BgInvokes, BgConsumed, BgEnters, BgBusy, BgInterrupted,
          BgVerified, BgUnverified, FallbackRefused, FgInterrupted, FgFails,
          ChildLost, FgVerifies, QuoteUnavailable, QuoteBusy, QuoteGivesUp,
          QuoteStopped, QuoteTriggers, QuoteAnswered, GoTo, MarkedPlaces,
          Attempting
    <2>2. QED
      BY <2>1
  <1>11. QED
    BY <1>5, <1>6, <1>7, <1>8, <1>9, <1>10

LEMMA WorkerBox ==
    ASSUME SenderIInv, PostedOK, BoxOK, WorkerStep
    PROVE  BoxOK'
  <1>1. TypeOK /\ TableOK /\ HandOK
    BY DEF SenderIInv
  <1>2. Held => cur \in Deliveries /\ Msg \in Messages
    BY <1>1, InHand DEF Held, TypeOK, Waiting, Attempting
  <1>3. UNCHANGED chat => UNCHANGED <<box, posted>>
    BY DEF chat
  <1>4. CASE pc' \notin {"bg_typed", "bg_invoked", "bg_verify"}
    BY <1>4 DEF BoxOK
  <1>5. CASE BgTypes
    BY <1>5 DEF BgTypes, GoTo, BoxOK, Msg
  <1>6. CASE BgInvokes
    <2>1. /\ pc' = "bg_invoked" /\ cur' = cur /\ UNCHANGED row
          /\ box = Msg /\ pc = "bg_typed" /\ Held
          /\ Posts \/ UNCHANGED <<box, posted>>
      BY <1>3, <1>6 DEF BgInvokes, GoTo, Guard, BoxOK, Held, Attempting
    <2>2. posted[cur] = 0 /\ Empty # Msg
      BY <1>2, <2>1, SenderAssumption DEF PostedOK, AfterPost, Waiting
    <2>3. Msg' = Msg
      BY <2>1 DEF Msg
    <2>4. box' = Empty \/ (box' = Msg' /\ posted'[cur'] = 0)
      BY <2>1, <2>2, <2>3 DEF Posts
    <2>5. QED
      BY <2>1, <2>2, <2>3, <2>4 DEF BoxOK
  <1>7. CASE BgConsumed
    <2>1. box = Empty /\ UNCHANGED box /\ Held
      BY <1>3, <1>7 DEF BgConsumed, Held, Attempting
    <2>2. CASE VerifySends
      <3>1. UNCHANGED <<row, cur>> /\ pc' = "bg_verify" /\ Msg' = Msg
        BY <1>7, <2>2 DEF BgConsumed, AfterBackgroundSend, GoTo, Msg
      <3>2. QED
        BY <1>2, <2>1, <3>1, SenderAssumption DEF BoxOK
    <2>3. CASE ~VerifySends
      BY <1>4, <1>7, <2>3 DEF BgConsumed, AfterBackgroundSend, NextClaim
    <2>4. QED
      BY <2>2, <2>3
  <1>8. CASE BgEnters
    <2>1. /\ pc = "bg_invoked" /\ box = Msg /\ Held
          /\ Posts \/ UNCHANGED <<box, posted>>
      BY <1>3, <1>8 DEF BgEnters, Held, Attempting
    <2>2. posted[cur] = 0
      BY <2>1 DEF BoxOK
    <2>3. CASE VerifySends
      <3>1. UNCHANGED <<row, cur>> /\ pc' = "bg_verify" /\ Msg' = Msg
        BY <1>8, <2>3 DEF BgEnters, AfterBackgroundSend, GoTo, Msg
      <3>2. box' = Empty \/ posted'[cur'] = 0
        BY <2>1, <2>2, <3>1 DEF Posts
      <3>3. QED
        BY <1>2, <2>1, <3>1, <3>2, SenderAssumption DEF BoxOK
    <2>4. CASE ~VerifySends
      BY <1>4, <1>8, <2>4 DEF BgEnters, AfterBackgroundSend, NextClaim
    <2>5. QED
      BY <2>3, <2>4
  <1>9. ASSUME pc' \in {"bg_typed", "bg_invoked", "bg_verify"},
               ~(BgTypes \/ BgInvokes \/ BgConsumed \/ BgEnters)
        PROVE  FALSE
    <2>1. NextClaim => pc' = "claim"
      BY DEF NextClaim
    <2>2. QED
      BY <1>9, <2>1
      DEF WorkerStep, ClaimNext, ClaimExpires, RecoverFinds, RecoverMisses,
          WaitEnds, WaitDefers, StartAttempt, ResolveFails, InternalError,
          BgUnavailable, BgBusy, BgInterrupted, BgVerified, BgUnverified,
          FallbackRefused, FallbackStarts, FgInterrupted, FgFails, FgTriggers,
          ChildLost, FgAnswered, FgVerifies, QuoteUnavailable, QuoteBusy,
          QuoteGivesUp, QuoteStopped, QuoteTriggers, QuoteAnswered, GoTo
  <1>10. QED
    BY <1>4, <1>5, <1>6, <1>7, <1>8, <1>9

LEMMA MarkKept ==
    ASSUME PlaceOK, MarkOK, UNCHANGED <<pc, cur, posted>>,
           \A m \in Messages : echoes[m] = 0 => echoes'[m] = 0,
           \A e \in Deliveries :
              /\ row'[e].status = "sending"
                 => row[e].status = "sending" /\ row'[e].code = row[e].code
              /\ posted[e] # 0 /\ Pending(e)' => Pending(e)
    PROVE  MarkOK'
  <1>1. pc' = "off" => \A m \in Messages : echoes'[m] = 0
    BY DEF MarkOK
  <1>2. ASSUME ~FreshStarts
        PROVE  /\ pc' \in Attempting => pc' \in {"fallback", "fg", "fg_done", "fg_verify"}
               /\ pc' \in {"fg", "fg_done", "fg_verify"}
                     /\ row'[cur'].status = "sending"
                  => row'[cur'].code = "foreground_inflight"
    <2>1. pc \in {"fg", "fg_done", "fg_verify"} => cur \in Deliveries
      BY DEF PlaceOK
    <2>2. QED
      BY <1>2, <2>1 DEF MarkOK
  <1>3. ASSUME NEW d \in Deliveries, posted'[d] # 0
        PROVE  /\ ~FreshStarts /\ row'[d].status = "sending"
                  => row'[d].code = "foreground_inflight"
               /\ Pending(d)' \/ (d = cur' /\ pc' \in Waiting)
                  => \A m \in Messages : echoes'[m] = 0
    <2>1. posted[d] # 0
      BY <1>3
    <2>2. ~FreshStarts /\ row'[d].status = "sending"
          => row'[d].code = "foreground_inflight"
      BY <2>1 DEF MarkOK
    <2>3. Pending(d)' \/ (d = cur' /\ pc' \in Waiting)
          => \A m \in Messages : echoes[m] = 0
      BY <2>1 DEF MarkOK
    <2>4. QED
      BY <2>2, <2>3
  <1>4. QED
    BY <1>1, <1>2, <1>3 DEF MarkOK

\* What the user, the echoes and time do to a table of replies of which some
\* were posted.
LEMMA BystanderPosted ==
    ASSUME SenderIInv, PostedOK, MarkOK, UNCHANGED <<pc, cur, posted>>,
           \A m \in Messages : echoes[m] = 0 => echoes'[m] = 0,
           \/ UNCHANGED row
           \/ \E d \in Deliveries, m \in Messages : Insert(d, m)
           \/ \E d \in Deliveries : CancelRow(d)
           \/ Ticks
           \/ /\ \E m \in Messages : echoes[m] # 0
              /\ \E d \in Deliveries : Changes(d, "sent", "none")
    PROVE  PostedOK' /\ MarkOK'
  <1>1. /\ PlaceOK /\ TableOK /\ HandOK /\ NoDelivery \notin Deliveries
    BY TypesSplit, SenderAssumption DEF SenderIInv
  <1>3. CASE UNCHANGED row
    <2>1. PostedOK'
      BY <1>3 DEF PostedOK, Exists, Pending, Recalled, WasRecalled
    <2>2. MarkOK'
      BY <1>3 DEF MarkOK, Pending
    <2>3. QED
      BY <2>1, <2>2
  <1>4. ASSUME NEW i \in Deliveries, NEW m \in Messages, Insert(i, m)
        PROVE  PostedOK' /\ MarkOK'
    <2>1. /\ ~Exists(i)
          /\ \A e \in Deliveries : e # i => row'[e] = row[e]
      BY <1>1, <1>4, InsertFacts DEF PlaceOK
    <2>2. \A d \in Deliveries : posted[d] # 0 => d # i
      BY <2>1 DEF PostedOK
    <2>3. \A e \in Deliveries : row[e].status \in FinalStatuses => e # i
      BY <2>1, StatusSets DEF Exists
    <2>4. cur # i
      BY <1>1, <2>1 DEF HandOK
    <2>5. PostedOK'
      BY <2>1, <2>2, <2>3 DEF PostedOK, Exists, Pending, Recalled, WasRecalled
    <2>6. MarkOK'
      <3>1. row'[i].status = "queued"
        BY <1>1, <1>4, InsertFacts DEF PlaceOK
      <3>2. QED
        BY <1>1, <2>1, <2>2, <3>1, MarkKept DEF Pending
    <2>7. QED
      BY <2>5, <2>6
  <1>5. ASSUME NEW i \in Deliveries, CancelRow(i)
        PROVE  PostedOK' /\ MarkOK'
    <2>1. /\ Pending(i) /\ row'[i].status = "cancelled"
          /\ \A e \in Deliveries : e # i => row'[e] = row[e]
      BY <1>1, <1>5, CancelFacts DEF PlaceOK, Changes
    <2>2. \A e \in Deliveries :
             row[e].status \in FinalStatuses => row'[e].status \in FinalStatuses
      BY <2>1, StatusSets
    <2>3. i = cur => pc \in Waiting
      BY <1>1, <2>1, StatusSets DEF HandOK, PlaceOK, Pending
    <2>4. \A e \in Deliveries : /\ Exists(e) => Exists(e)'
                                /\ Pending(e)' => e # i /\ Pending(e)
      BY <2>1, StatusSets DEF Exists, Pending
    <2>5. ASSUME NEW d \in Deliveries, posted[d] # 0, d = cur
          PROVE  \/ pc \in AfterPost
                 \/ pc = "recover" /\ Recalled(d)'
                 \/ pc \in Waiting /\ WasRecalled(d)'
      BY <2>1, <2>3, <2>5 DEF PostedOK, Recalled, WasRecalled, Pending
    <2>6. PostedOK'
      BY <2>1, <2>2, <2>4, <2>5 DEF PostedOK, Recalled
    <2>7. MarkOK'
      BY <1>1, <2>1, <2>4, MarkKept
    <2>8. QED
      BY <2>6, <2>7
  <1>6. CASE Ticks
    <2>1. \A e \in Deliveries : /\ Exists(e)' <=> Exists(e)
                                /\ Pending(e)' <=> Pending(e)
                                /\ Recalled(e)' <=> Recalled(e)
                                /\ row'[e].status = row[e].status
                                /\ row'[e].code = row[e].code
      BY <1>6 DEF Ticks, Exists, Pending, Recalled
    <2>2. PostedOK'
      BY <2>1 DEF PostedOK, WasRecalled
    <2>3. MarkOK'
      BY <1>1, <2>1, MarkKept
    <2>4. QED
      BY <2>2, <2>3
  <1>7. ASSUME NEW i \in Deliveries, NEW m \in Messages, echoes[m] # 0,
               Changes(i, "sent", "none")
        PROVE  PostedOK' /\ MarkOK'
    <2>1. /\ row'[i].status = "sent"
          /\ \A e \in Deliveries : e # i => row'[e] = row[e]
      BY <1>7 DEF Changes
    <2>2. \A d \in Deliveries : posted[d] # 0 =>
             ~Pending(d) /\ (d = cur => pc \notin Waiting)
      BY <1>7 DEF MarkOK
    <2>3. \A e \in Deliveries : /\ Exists(e) => Exists(e)'
                                /\ Pending(e)' => Pending(e)
      BY <2>1, StatusSets DEF Exists, Pending
    <2>4. \A e \in Deliveries :
             row[e].status \in FinalStatuses => row'[e].status \in FinalStatuses
      BY <2>1, StatusSets
    <2>5. PostedOK'
      BY <2>2, <2>3, <2>4, StatusSets DEF PostedOK
    <2>6. \A e \in Deliveries : row'[e].status = "sending" => row'[e] = row[e]
      BY <2>1
    <2>7. MarkOK'
      BY <1>1, <2>3, <2>6, MarkKept
    <2>8. QED
      BY <2>5, <2>7
  <1>8. QED
    BY <1>3, <1>4, <1>5, <1>6, <1>7

LEMMA StartPosted ==
    ASSUME SenderIInv, PostedOK, MarkOK, Repeatless, Start
    PROVE  PostedOK' /\ MarkOK'
  <1>1. PlaceOK /\ TableOK /\ HandOK /\ NoDelivery \notin Deliveries
    BY TypesSplit, SenderAssumption DEF SenderIInv
  <1>2. /\ pc = "off" /\ pc' = "claim" /\ cur = NoDelivery /\ cur' = cur
        /\ UNCHANGED <<posted, echoes>>
    BY <1>1 DEF Start, PlaceOK, chat
  <1>3. \A m \in Messages : echoes'[m] = 0
    BY <1>2 DEF MarkOK
  <1>4. ASSUME NEW d \in Deliveries
        PROVE  /\ Exists(d) => Exists(d)'
               /\ row[d].status \in FinalStatuses => row'[d].status \in FinalStatuses
               /\ row'[d].status # "sending"
               /\ posted[d] # 0 /\ Pending(d)' => Recalled(d)'
    <2>1. CASE DiscardPending
      <3>1. IF row[d].status \in PendingStatuses \cup {"sending"}
            THEN row'[d].status = "expired"
            ELSE row'[d] = row[d]
        BY <1>1, <2>1, DiscardFacts DEF PlaceOK
      <3>2. QED
        BY <3>1, StatusSets DEF Exists, Pending
    <2>2. CASE FALSE \in StartupDiscards /\ Recover
      <3>1. IF row[d].status = "sending"
            THEN /\ row'[d].status = "queued"
                 /\ row[d].code = "foreground_inflight"
                    => row'[d].code = "recovered_foreground_inflight"
            ELSE row'[d] = row[d]
        BY <1>1, <2>2, RecoverFacts DEF PlaceOK
      <3>2. ~FreshStarts
        BY <2>2 DEF FreshStarts
      <3>3. CASE row[d].status = "sending"
        BY <3>1, <3>2, <3>3, StatusSets DEF Exists, Pending, Recalled, MarkOK
      <3>4. CASE row[d].status # "sending"
        BY <3>1, <3>4, StatusSets DEF Exists, Pending, Recalled, PostedOK
      <3>5. QED
        BY <3>3, <3>4
    <2>3. QED
      BY <2>1, <2>2 DEF Start
  <1>5. PostedOK'
    BY <1>1, <1>2, <1>4 DEF PostedOK
  <1>6. MarkOK'
    BY <1>2, <1>3, <1>4, StatusSets DEF MarkOK
  <1>7. QED
    BY <1>5, <1>6

LEMMA PostInit == SenderInit => PostIInv
  <1> SUFFICES ASSUME SenderInit PROVE PostIInv
    OBVIOUS
  <1>1. \A d \in Deliveries : posted[d] = 0
    BY DEF SenderInit
  <1>2. PostedOK
    BY <1>1 DEF PostedOK
  <1>3. MarkOK
    BY <1>1, StatusSets DEF SenderInit, MarkOK
  <1>4. BoxOK
    BY DEF SenderInit, BoxOK
  <1>5. QED
    BY <1>2, <1>3, <1>4 DEF PostIInv

LEMMA PostStep ==
    ASSUME Undisturbed, Repeatless
    PROVE  SenderIInv /\ PostIInv /\ [SenderNext]_senderVars => PostIInv'
  <1> SUFFICES ASSUME SenderIInv, PostIInv, [SenderNext]_senderVars
               PROVE  PostIInv'
    OBVIOUS
  <1>1. PostedOK /\ MarkOK /\ BoxOK
    BY DEF PostIInv
  <1>2. PlaceOK /\ TableOK /\ HandOK
    BY TypesSplit DEF SenderIInv
  <1>3. UNCHANGED chat => UNCHANGED <<box, echoes, posted>>
    BY DEF chat
  <1>4. CASE WorkerStep
    <2>1. PostShape
      BY <1>1, <1>4, WorkerPostShape
    <2>2. BoxOK'
      BY <1>1, <1>4, WorkerBox
    <2>3. pc' # "off"
      BY <2>1, StatusSets
      DEF PostShape, Takes, Sweeps, Drops, Proceeds, Begins, PostsOnce,
          LetsGo, GoesOn, Attempts, NextClaim
    <2>4. MarkOK'
      BY <1>1, <1>4, <2>1, <2>3, WorkerPosted, WorkerMark
      DEF MarkOK, MarkedPlaces
    <2>5. QED
      BY <1>1, <2>1, <2>2, <2>4, WorkerPosted DEF PostIInv
  <1>5. pc \in {"bg_typed", "bg_invoked", "bg_verify"}
        => cur \in Deliveries /\ Msg \in Messages
    <2>1. TypeOK
      BY DEF SenderIInv
    <2>2. QED
      BY <1>2, <2>1, InHand DEF TypeOK
  <1>6. ASSUME UNCHANGED <<pc, cur, posted, box>>, touched => touched',
               \A e \in Deliveries : Exists(e) => row'[e].msg = row[e].msg
        PROVE  BoxOK'
    <2>1. CASE pc \in {"bg_typed", "bg_invoked", "bg_verify"}
      <3>1. Msg' = Msg
        BY <1>2, <1>5, <1>6, <2>1 DEF Msg, HandOK, PlaceOK
      <3>2. QED
        BY <1>1, <1>6, <3>1 DEF BoxOK
    <2>2. CASE pc \notin {"bg_typed", "bg_invoked", "bg_verify"}
      BY <1>6, <2>2 DEF BoxOK
    <2>3. QED
      BY <2>1, <2>2
  <1>7. ASSUME NEW d \in Deliveries, Cancel(d) PROVE PostIInv'
    <2>1. CancelRow(d) /\ UNCHANGED <<pc, cur, touched>> /\ UNCHANGED chat
      BY <1>7 DEF Cancel
    <2>2. \A e \in Deliveries : row'[e].msg = row[e].msg
      BY <1>2, <2>1, CancelFacts DEF PlaceOK, Changes
    <2>3. QED
      BY <1>1, <1>3, <1>6, <2>1, <2>2, BystanderPosted DEF PostIInv
  <1>8. ASSUME NEW d \in Deliveries, Expires(d) \/ FallsDue(d)
        PROVE  PostIInv'
    <2>1. /\ Ages(d) \/ BecomesDue(d)
          /\ UNCHANGED <<pc, cur, touched>> /\ UNCHANGED chat
      BY <1>8 DEF Expires, FallsDue
    <2>2. Ticks
      BY <1>2, <2>1, TicksFacts DEF PlaceOK
    <2>3. \A e \in Deliveries : row'[e].msg = row[e].msg
      BY <2>2 DEF Ticks, KeepsMessages
    <2>4. QED
      BY <1>1, <1>3, <1>6, <2>1, <2>2, <2>3, BystanderPosted DEF PostIInv
  <1>9. ASSUME NEW d \in Deliveries, NEW m \in Messages, Insert(d, m),
               UNCHANGED <<pc, cur, touched>>, UNCHANGED chat
        PROVE  PostIInv'
    <2>1. \A e \in Deliveries : Exists(e) => row'[e].msg = row[e].msg
      BY <1>2, <1>9, InsertFacts DEF PlaceOK
    <2>2. QED
      BY <1>1, <1>3, <1>6, <1>9, <2>1, BystanderPosted DEF PostIInv
  <1>10. ASSUME NEW d \in Deliveries, NEW m \in Messages, Enqueue(d, m)
         PROVE  PostIInv'
    BY <1>9, <1>10 DEF Enqueue
  <1>11. ASSUME NEW d \in Deliveries, NEW o \in Deliveries,
                RetryOrResend(d, o)
         PROVE  PostIInv'
    <2>1. row[o].status # "none"
      BY <1>11 DEF RetryOrResend, InsertCopy
    <2>2. row[o].msg \in Messages
      BY <1>2, <2>1 DEF TableOK, Exists
    <2>3. QED
      BY <1>9, <1>11, <2>2 DEF RetryOrResend, InsertCopy
  <1>12. ASSUME NEW m \in Messages, Echo(m) PROVE PostIInv'
    <2>1. UNCHANGED <<pc, cur, touched, box, posted>>
      BY <1>12 DEF Echo
    <2>2. /\ echoes[m] # 0
          /\ \A p \in Messages : echoes[p] = 0 => echoes'[p] = 0
          /\ \/ UNCHANGED row
             \/ \E d \in Deliveries : Changes(d, "sent", "none")
      <3>1. /\ echoes' \in [Messages -> Nat]
            /\ \A p \in Messages : echoes'[p] # 0 => echoes[p] # 0
        BY <1>12, EchoFacts
      <3>2. QED
        BY <1>12, <3>1, EchoFacts
    <2>3. \A e \in Deliveries : row'[e].msg = row[e].msg
      BY <2>2 DEF Changes
    <2>4. QED
      BY <1>1, <1>6, <2>1, <2>2, <2>3, BystanderPosted DEF PostIInv
  <1>13. ASSUME UNCHANGED <<row, pc, cur, box, echoes, posted>>,
                touched => touched'
         PROVE  PostIInv'
    BY <1>1, <1>6, <1>13, BystanderPosted DEF PostIInv
  <1>14. ASSUME NEW m \in Messages, PendingDropped(m) PROVE PostIInv'
    BY <1>3, <1>13, <1>14 DEF PendingDropped
  <1>15. CASE UserTypes
    <2>1. /\ UNCHANGED <<row, pc, cur, echoes, posted>>
          /\ pc # "bg_invoked" /\ box' \in {Empty, UserDraft}
          /\ touched' = (pc \in Guarded)
      BY <1>15 DEF UserTypes, Undisturbed
    <2>2. BoxOK'
      <3>1. Msg' = Msg
        BY <2>1 DEF Msg
      <3>2. QED
        BY <1>5, <2>1, <3>1, SenderAssumption DEF BoxOK, Guarded
    <2>3. QED
      BY <1>1, <2>1, <2>2, BystanderPosted DEF PostIInv
  <1>16. CASE UserMoves \/ CoolingEnds \/ Stop
    BY <1>3, <1>13, <1>16 DEF UserMoves, CoolingEnds, Stop
  <1>17. CASE Start
    <2>1. pc' = "claim"
      BY <1>17 DEF Start
    <2>2. QED
      BY <1>1, <1>17, <2>1, StartPosted DEF PostIInv, BoxOK
  <1>18. CASE ProcessEnds
    <2>1. /\ pc' = "off" /\ cur' = NoDelivery
          /\ UNCHANGED <<row, posted>>
          /\ \A m \in Messages : echoes'[m] = 0
      BY <1>18 DEF ProcessEnds
    <2>2. NoDelivery \notin Deliveries
      BY SenderAssumption
    <2>3. PostedOK'
      BY <1>1, <2>1, <2>2 DEF PostedOK, Exists, Pending, Recalled, WasRecalled
    <2>4. MarkOK'
      BY <1>1, <2>1, StatusSets DEF MarkOK, Pending
    <2>5. QED
      BY <2>1, <2>3, <2>4 DEF PostIInv, BoxOK
  <1>19. CASE UNCHANGED senderVars
    BY <1>3, <1>13, <1>19 DEF senderVars
  <1>20. QED
    BY <1>4, <1>7, <1>8, <1>10, <1>11, <1>12, <1>14, <1>15, <1>16, <1>17,
       <1>18, <1>19 DEF SenderNext, WorkerEnds, Crash

LEMMA PostInvariance ==
    ASSUME Undisturbed, Repeatless
    PROVE  SenderSpec => []PostIInv
  <1>1. SenderIInv /\ PostIInv /\ [SenderNext]_senderVars => PostIInv'
    BY PostStep
  <1>2. QED
    BY <1>1, PostInit, SenderInvariance, PTL DEF SenderSpec

\* A reply is posted at most once, whatever the user, a crash or a restart
\* interrupts, as long as nobody touches WeChat in the instant after the send
\* action, and a start either discards what it finds or finds marked sends.
THEOREM PostedOnce ==
    ASSUME Undisturbed, Repeatless
    PROVE  SenderSpec => []AtMostOnce
  <1>1. SenderIInv /\ PostIInv => AtMostOnce
    <2>1. SUFFICES ASSUME SenderIInv, PostIInv, NEW d \in Deliveries
                   PROVE  posted[d] <= 1
      BY DEF AtMostOnce
    <2>2. posted[d] \in 0..MaxPosts
      BY <2>1 DEF SenderIInv, TypeOK
    <2>3. QED
      BY <2>1, <2>2 DEF PostIInv, PostedOK
  <1>2. QED
    BY <1>1, PostInvariance, SenderInvariance, PTL

\* And what an earlier run, or an attempt with an unknown result, may have
\* posted is not posted again.
THEOREM NothingRepeated ==
    ASSUME Undisturbed, Repeatless
    PROVE  SenderSpec => NeverRepeated
  BY PostedOnce, NothingStale, UnknownStaysFinal, PTL DEF NeverRepeated
-----------------------------------------------------------------------------
(* What is SENT was posted. *)

NotSent == \A e \in Deliveries :
              row'[e].status = "sent" => row[e].status = "sent"

LEMMA HandNotSent ==
    ASSUME TypeOK, TableOK, HandOK, Held
    PROVE  /\ \A s \in Statuses \ {"sent"}, c \in Codes :
                 Update(cur, s, c) => NotSent
           /\ \A s \in Statuses \ {"sent"}, c \in Codes,
                 n \in 0..MaxAttempts, b \in BOOLEAN :
                 UpdateAttempt(cur, s, c, n, b) => NotSent
           /\ HandleFailure => NotSent
           /\ pc \in Attempting => \A b \in BOOLEAN : PutBack(b) => NotSent
           /\ ResultUnknown => NotSent
  <1>1. /\ cur \in Deliveries /\ row \in [Deliveries -> Row]
        /\ Tries \in 0..MaxAttempts
    BY InHand DEF Held, TypeOK, Waiting, Attempting
  <1>2. /\ {"failed", "retry_wait", "waiting_for_idle"}
              \subseteq Statuses \ {"sent"}
        /\ {"none", "other", "delivery_unknown"} \subseteq Codes
    BY DEF Statuses, FinalStatuses, PendingStatuses, Codes
  <1>3. ASSUME NEW s \in Statuses \ {"sent"}, NEW c \in Codes,
               Update(cur, s, c)
        PROVE  NotSent
    BY <1>1, <1>3, UpdateFacts DEF Changes, NotSent
  <1>4. ASSUME NEW s \in Statuses \ {"sent"}, NEW c \in Codes,
               NEW n \in 0..MaxAttempts, NEW b \in BOOLEAN,
               UpdateAttempt(cur, s, c, n, b)
        PROVE  NotSent
    BY <1>1, <1>4, UpdateAttemptFacts DEF Changes, NotSent
  <1>5. HandleFailure => NotSent
    BY <1>1, <1>2, <1>3, <1>4 DEF HandleFailure
  <1>6. ASSUME pc \in Attempting, NEW b \in BOOLEAN, PutBack(b)
        PROVE  NotSent
    <2>1. Tries >= 1
      BY <1>6 DEF HandOK, Tries
    <2>2. Tries - 1 \in 0..MaxAttempts
      BY <1>1, <2>1, DeliveriesAssumption
    <2>3. QED
      BY <1>2, <1>4, <1>6, <2>2 DEF PutBack
  <1>7. ResultUnknown => NotSent
    BY <1>2, <1>3 DEF ResultUnknown, NotSent
  <1>8. QED
    BY <1>3, <1>4, <1>5, <1>6, <1>7

\* The worker confirms a reply only by a row of WeChat's database or by the
\* quoting driver's own look at the chat.
LEMMA WorkerSends ==
    ASSUME SenderIInv, VerifySends, WorkerStep
    PROVE  \/ NotSent
           \/ /\ Held /\ Confirm /\ UNCHANGED posted
              /\ \/ rows[Msg] > 0
                 \/ pc = "quote_done" /\ answer = "verified"
  <1>1. TypeOK /\ TableOK /\ HandOK /\ row \in [Deliveries -> Row]
    BY DEF SenderIInv, TypeOK
  <1>2. Held => Tries \in 0..MaxAttempts
    BY <1>1, InHand DEF Held, TypeOK, Waiting, Attempting
  <1>3. /\ {"failed", "retry_wait", "waiting_for_idle", "expired", "sending"}
              \subseteq Statuses \ {"sent"}
        /\ {"none", "other", "delivery_unknown", "foreground_inflight"}
              \subseteq Codes
    BY DEF Statuses, FinalStatuses, PendingStatuses, Codes
  <1>4. UNCHANGED row => NotSent
    BY DEF NotSent
  <1>5. UNCHANGED chat => UNCHANGED posted
    BY DEF chat
  <1>6. CASE ClaimNext
    <2>1. PICK d \in Deliveries : Claim(d)
      BY <1>6 DEF ClaimNext
    <2>2. QED
      BY <1>1, <2>1, ClaimFacts DEF Swept, NotSent
  <1>7. CASE ClaimExpires
    BY <1>1, <1>7, ClaimNoneFacts DEF ClaimExpires, Swept, NotSent
  <1>8. CASE RecoverFinds \/ BgVerified \/ FgVerifies
    <2>1. /\ Held /\ UNCHANGED posted
          /\ (Verified /\ Confirm) \/ ResultUnknown
      BY <1>8
      DEF RecoverFinds, BgVerified, FgVerifies, Held, Waiting, Attempting
    <2>2. QED
      BY <1>1, <2>1, HandNotSent DEF Verified
  <1>9. CASE RecoverMisses
    <2>1. Held
      BY <1>9 DEF RecoverMisses, Held, Waiting
    <2>2. QED
      BY <1>1, <1>3, <1>4, <1>9, <2>1, HandNotSent DEF RecoverMisses
  <1>10. CASE WaitEnds
    <2>1. Held
      BY <1>10 DEF WaitEnds, Held, Waiting
    <2>2. QED
      BY <1>1, <1>3, <1>4, <1>10, <2>1, HandNotSent DEF WaitEnds
  <1>11. CASE WaitDefers
    <2>1. Held
      BY <1>11 DEF WaitDefers, MayAttempt, Held, Waiting
    <2>2. QED
      BY <1>1, <1>2, <1>3, <1>11, <2>1, HandNotSent DEF WaitDefers
  <1>12. CASE StartAttempt \/ ResolveFails
    <2>1. Held /\ Tries < MaxAttempts
      BY <1>12
      DEF StartAttempt, ResolveFails, MayStart, MayAttempt, Held, Waiting
    <2>2. Tries + 1 \in 0..MaxAttempts
      BY <1>2, <2>1, DeliveriesAssumption
    <2>3. QED
      BY <1>1, <1>3, <1>12, <2>1, <2>2, HandNotSent
      DEF StartAttempt, ResolveFails
  <1>13. CASE InternalError \/ FallbackStarts \/ FgFails
    <2>1. Held
      BY <1>13 DEF InternalError, FallbackStarts, FgFails, Held, Attempting
    <2>2. QED
      BY <1>1, <1>3, <1>13, <2>1, HandNotSent
      DEF InternalError, FallbackStarts, FgFails
  <1>14. CASE BgUnavailable \/ BgTypes \/ BgInvokes \/ BgConsumed \/ BgEnters
              \/ FgTriggers \/ QuoteTriggers
    BY <1>4, <1>14
    DEF BgUnavailable, BgTypes, BgInvokes, BgConsumed, BgEnters,
        AfterBackgroundSend, FgTriggers, QuoteTriggers
  <1>15. CASE BgBusy \/ BgInterrupted
    <2>1. Held /\ pc \in Attempting
      BY <1>15 DEF BgBusy, BgInterrupted, Held, Attempting
    <2>2. QED
      BY <1>1, <1>15, <2>1, HandNotSent DEF BgBusy, BgInterrupted
  <1>16. CASE BgUnverified \/ ChildLost \/ FgAnswered \/ QuoteGivesUp
    <2>1. Held
      BY <1>16
      DEF BgUnverified, ChildLost, FgAnswered, QuoteGivesUp, Held, Attempting
    <2>2. QED
      BY <1>1, <1>4, <1>16, <2>1, HandNotSent
      DEF BgUnverified, ChildLost, FgAnswered, QuoteGivesUp
  <1>17. CASE FallbackRefused \/ FgInterrupted
    <2>1. Held /\ pc \in Attempting
      BY <1>17 DEF FallbackRefused, FgInterrupted, Held, Attempting
    <2>2. QED
      BY <1>1, <1>3, <1>17, <2>1, HandNotSent
      DEF FallbackRefused, FgInterrupted
  <1>18. CASE QuoteUnavailable \/ QuoteBusy \/ QuoteStopped
    <2>1. Held
      BY <1>18 DEF QuoteUnavailable, QuoteBusy, QuoteStopped, Held, Attempting
    <2>2. QED
      BY <1>1, <1>4, <1>18, <2>1, HandNotSent
      DEF QuoteUnavailable, QuoteBusy, QuoteStopped
  <1>19. CASE QuoteAnswered
    <2>1. Held /\ UNCHANGED posted /\ pc = "quote_done"
      BY <1>5, <1>19 DEF QuoteAnswered, Held, Attempting
    <2>2. QED
      BY <1>1, <1>4, <1>19, <2>1, HandNotSent DEF QuoteAnswered
  <1>20. QED
    BY <1>6, <1>7, <1>8, <1>9, <1>10, <1>11, <1>12, <1>13, <1>14, <1>15,
       <1>16, <1>17, <1>18, <1>19 DEF WorkerStep

\* Only a post brings echoes and rows of the database.
LEMMA WorkerTraces ==
    ASSUME SenderIInv, WorkerStep
    PROVE  \/ Posts /\ pc \in Attempting
           \/ /\ UNCHANGED <<echoes, posted>>
              /\ \A m \in Messages : rows'[m] # 0 => rows[m] # 0
  <1>1. TypeOK /\ TableOK /\ HandOK /\ rows \in [Messages -> Nat]
    BY DEF SenderIInv, TypeOK
  <1>2. Held => Msg \in Messages
    BY <1>1, InHand DEF Held, TypeOK, Waiting, Attempting
  <1>3. UNCHANGED chat => UNCHANGED <<echoes, rows, posted>>
    BY DEF chat
  <1>4. Held /\ Verified => \A m \in Messages : rows'[m] # 0 => rows[m] # 0
    BY <1>1, <1>2 DEF Verified
  <1>5. CASE RecoverFinds \/ BgVerified \/ FgVerifies
    BY <1>4, <1>5
    DEF RecoverFinds, BgVerified, FgVerifies, Held, Waiting, Attempting
  <1>6. CASE StartAttempt
    <2>1. /\ UNCHANGED <<echoes, posted>>
          /\ rows' \in {rows, [rows EXCEPT ![Msg] = 0]}
      BY <1>6 DEF StartAttempt
    <2>2. QED
      BY <1>1, <2>1
  <1>7. CASE ClaimNext \/ ClaimExpires \/ RecoverMisses \/ WaitEnds
             \/ WaitDefers \/ ResolveFails \/ InternalError \/ BgUnavailable
             \/ BgTypes \/ BgConsumed \/ BgBusy \/ BgInterrupted
             \/ BgUnverified
    BY <1>3, <1>7
    DEF ClaimNext, ClaimExpires, RecoverMisses, WaitEnds, WaitDefers,
        ResolveFails, InternalError, BgUnavailable, BgTypes, BgConsumed,
        BgBusy, BgInterrupted, BgUnverified
  <1>8. CASE BgInvokes \/ BgEnters \/ FgTriggers \/ QuoteTriggers
    BY <1>3, <1>8
    DEF BgInvokes, BgEnters, FgTriggers, QuoteTriggers, Attempting
  <1>9. CASE FallbackRefused \/ FallbackStarts \/ FgInterrupted \/ FgFails
             \/ ChildLost \/ FgAnswered \/ QuoteUnavailable \/ QuoteBusy
             \/ QuoteGivesUp \/ QuoteStopped \/ QuoteAnswered
    BY <1>3, <1>9
    DEF FallbackRefused, FallbackStarts, FgInterrupted, FgFails, ChildLost,
        FgAnswered, QuoteUnavailable, QuoteBusy, QuoteGivesUp, QuoteStopped,
        QuoteAnswered
  <1>10. QED
    BY <1>5, <1>6, <1>7, <1>8, <1>9 DEF WorkerStep

\* Whoever moves, a row keeps its message, and what was posted stays so.
LEMMA MessagesKept ==
    ASSUME SenderIInv, [SenderNext]_senderVars
    PROVE  /\ \A e \in Deliveries : Exists(e) => row'[e].msg = row[e].msg
           /\ \A e \in Deliveries : posted[e] # 0 => posted'[e] # 0
  <1>1. /\ TypeOK /\ PlaceOK /\ TableOK /\ HandOK
        /\ posted \in [Deliveries -> 0..MaxPosts] /\ MaxPosts \in Nat
    BY TypesSplit, SenderAssumption DEF SenderIInv, DataOK
  <1>2. CASE WorkerStep
    <2>1. Takes \/ Sweeps \/ GoesOn \/ Attempts \/ LetsGo
      BY <1>1, <1>2, WorkerShape
    <2>2. \A e \in Deliveries : row'[e].msg = row[e].msg
      <3>1. CASE Takes
        BY <1>1, <3>1, ClaimFacts DEF Takes, KeepsMessages, PlaceOK
      <3>2. CASE Sweeps
        BY <1>1, <3>2, ClaimNoneFacts DEF Sweeps, KeepsMessages, PlaceOK
      <3>3. CASE GoesOn \/ Attempts \/ LetsGo
        BY <3>3 DEF GoesOn, Attempts, LetsGo, Settles, Changes
      <3>4. QED
        BY <2>1, <3>1, <3>2, <3>3
    <2>3. \A e \in Deliveries : posted[e] # 0 => posted'[e] # 0
      BY <1>1, <1>2, WorkerPosts DEF Posts
    <2>4. QED
      BY <2>2, <2>3
  <1>3. CASE ~WorkerStep
    <2>1. Bystander /\ UNCHANGED posted
      BY <1>3, OthersDoNotPost
    <2>2. ASSUME NEW i \in Deliveries, NEW m \in Messages, Insert(i, m)
          PROVE  \A e \in Deliveries : Exists(e) => row'[e].msg = row[e].msg
      BY <1>1, <2>2, InsertFacts DEF PlaceOK
    <2>3. (\E d \in Deliveries : CancelRow(d)) \/ DiscardPending \/ Recover
          => \A e \in Deliveries : row'[e].msg = row[e].msg
      BY <1>1, CancelFacts, DiscardFacts, RecoverFacts
      DEF PlaceOK, Changes, KeepsMessages
    <2>4. QED
      BY <2>1, <2>2, <2>3 DEF Bystander, Ticks, KeepsMessages, Changes
  <1>4. QED
    BY <1>2, <1>3

\* With replies that all look different, the row an echo marks is the row of
\* the message that was posted.
LEMMA EchoMarksPosted ==
    ASSUME SenderIInv, ProofOK, DistinctReplies, NEW m \in Messages, Echo(m)
    PROVE  \/ UNCHANGED row
           \/ \E d \in Deliveries : posted[d] # 0 /\ Changes(d, "sent", "none")
  <1>1. SUFFICES ASSUME NEW p \in SameSignature(m), NEW d \in Deliveries,
                        IsNewest(d, p), Changes(d, "sent", "none")
                 PROVE  posted[d] # 0
    BY EchoFacts
  <1>2. p = m
    BY DEF SameSignature, DistinctReplies
  <1>3. echoes[m] # 0
    BY EchoFacts
  <1>4. PICK e \in Deliveries : row[e].msg = m /\ posted[e] # 0
    BY <1>3 DEF ProofOK
  <1>5. Exists(d) /\ row[d].msg = row[e].msg
    BY <1>1, <1>2, <1>4 DEF IsNewest, Carded
  <1>6. d = e
    BY <1>4, <1>5 DEF ProofOK
  <1>7. QED
    BY <1>4, <1>6

LEMMA ProofInit == SenderInit => ProofIInv
  <1> SUFFICES ASSUME SenderInit PROVE ProofIInv
    OBVIOUS
  <1>1. \A d \in Deliveries : ~Exists(d) /\ row[d].status = "none"
    BY DEF SenderInit, TableInit, NoRow, Exists
  <1>2. ProofOK
    BY <1>1 DEF SenderInit, ProofOK
  <1>3. SentWasPosted
    BY <1>1 DEF SentWasPosted
  <1>4. QED
    BY <1>2, <1>3 DEF ProofIInv

LEMMA ProofStep ==
    ASSUME DistinctReplies
    PROVE  SenderIInv /\ ProofOK /\ [SenderNext]_senderVars
           => ProofOK' /\ (VerifySends /\ SentWasPosted => SentWasPosted')
  <1> DEFINE SentOK == VerifySends /\ SentWasPosted => SentWasPosted'
  <1> SUFFICES ASSUME SenderIInv, ProofOK, [SenderNext]_senderVars
               PROVE  ProofOK' /\ SentOK
    OBVIOUS
  <1>1. /\ TypeOK /\ PlaceOK /\ TableOK /\ HandOK /\ ProofOK
        /\ posted \in [Deliveries -> 0..MaxPosts] /\ MaxPosts \in Nat
        /\ echoes \in [Messages -> Nat] /\ rows \in [Messages -> Nat]
        /\ NoDelivery \notin Deliveries
    BY TypesSplit, SenderAssumption DEF SenderIInv, DataOK
  <1>2. \A d \in Deliveries : (posted[d] > 0) <=> (posted[d] # 0)
    BY <1>1
  <1>3. SenderIInv'
    BY SenderStep
  <1>4. \A d \in Deliveries : (posted'[d] > 0) <=> (posted'[d] # 0)
    <2>1. posted' \in [Deliveries -> 0..MaxPosts]
      BY <1>3 DEF SenderIInv, TypeOK
    <2>2. QED
      BY <1>1, <2>1
  <1>5. \A d \in Deliveries : posted[d] # 0 => posted'[d] # 0
    BY MessagesKept
  \* Rows differ in their messages.
  <1>6. ASSUME \A e \in Deliveries : row'[e].msg = row[e].msg
        PROVE  /\ \A d, e \in Deliveries :
                     Exists(d)' /\ row'[d].msg = row'[e].msg => d = e
               /\ \A m \in Messages, d \in Deliveries :
                     row[d].msg = m => row'[d].msg = m
    <2>1. \A d \in Deliveries : Exists(d)' <=> Exists(d)
      BY <1>1, <1>3, <1>6 DEF SenderIInv, TableOK
    <2>2. QED
      BY <1>1, <1>6, <2>1 DEF ProofOK
  \* An echo or a row of the database is still of a posted reply.
  <1>7. ASSUME NEW m \in Messages, echoes[m] # 0 \/ rows[m] # 0,
               \A e \in Deliveries : Exists(e) => row'[e].msg = row[e].msg
        PROVE  \E d \in Deliveries : row'[d].msg = m /\ posted'[d] # 0
    <2>1. PICK d \in Deliveries : row[d].msg = m /\ posted[d] # 0
      BY <1>1, <1>7 DEF ProofOK
    <2>2. Exists(d)
      BY <1>1, <2>1 DEF TableOK
    <2>3. QED
      BY <1>5, <1>7, <2>1, <2>2
  <1>8. CASE WorkerStep
    <2>1. \A e \in Deliveries : row'[e].msg = row[e].msg
      <3>1. Takes \/ Sweeps \/ GoesOn \/ Attempts \/ LetsGo
        BY <1>1, <1>8, WorkerShape
      <3>2. CASE Takes
        BY <1>1, <3>2, ClaimFacts DEF Takes, KeepsMessages, PlaceOK
      <3>3. CASE Sweeps
        BY <1>1, <3>3, ClaimNoneFacts DEF Sweeps, KeepsMessages, PlaceOK
      <3>4. CASE GoesOn \/ Attempts \/ LetsGo
        BY <3>4 DEF GoesOn, Attempts, LetsGo, Settles, Changes
      <3>5. QED
        BY <3>1, <3>2, <3>3, <3>4
    <2>2. Held => cur \in Deliveries /\ Msg \in Messages
      BY <1>1, InHand DEF Held, TypeOK, Waiting, Attempting
    <2>3. ASSUME NEW m \in Messages, echoes'[m] # 0 \/ rows'[m] # 0
          PROVE  \E d \in Deliveries : row'[d].msg = m /\ posted'[d] # 0
      <3>1. CASE Posts /\ pc \in Attempting
        <4>1. /\ cur \in Deliveries /\ Msg \in Messages
              /\ posted' = [posted EXCEPT ![cur] = @ + 1]
              /\ echoes' = [echoes EXCEPT ![Msg] = @ + 1]
              /\ rows' = [rows EXCEPT ![Msg] = @ + 1]
          BY <2>2, <3>1 DEF Posts, Held
        <4>2. CASE m = Msg
          <5>1. row'[cur].msg = m
            BY <2>1, <4>1, <4>2 DEF Msg
          <5>2. posted'[cur] # 0
            BY <1>1, <4>1
          <5>3. QED
            BY <4>1, <5>1, <5>2
        <4>3. CASE m # Msg
          BY <1>1, <1>7, <2>1, <2>3, <4>1, <4>3
        <4>4. QED
          BY <4>2, <4>3
      <3>2. CASE /\ UNCHANGED <<echoes, posted>>
                 /\ \A n \in Messages : rows'[n] # 0 => rows[n] # 0
        BY <1>7, <2>1, <2>3, <3>2
      <3>3. QED
        BY <1>8, <3>1, <3>2, WorkerTraces
    <2>4. pc' = "quote_done" /\ answer' = "verified" => posted'[cur'] # 0
      <3>1. CASE QuoteTriggers
        <4>1. cur \in Deliveries /\ cur' = cur
          BY <2>2, <3>1 DEF QuoteTriggers, Held, Attempting
        <4>2. answer' = "verified" => posted' # posted
          BY <3>1 DEF QuoteTriggers
        <4>3. posted' # posted => posted' = [posted EXCEPT ![cur] = @ + 1]
          BY <3>1 DEF QuoteTriggers, Posts
        <4>4. QED
          BY <1>1, <4>1, <4>2, <4>3
      <3>2. CASE ~QuoteTriggers
        <4>1. pc' # "quote_done"
          <5>1. NextClaim => pc' = "claim"
            BY DEF NextClaim
          <5>2. QED
            BY <1>8, <3>2, <5>1
            DEF WorkerStep, ClaimNext, ClaimExpires, RecoverFinds,
                RecoverMisses, WaitEnds, WaitDefers, StartAttempt,
                ResolveFails, InternalError, BgUnavailable, BgTypes,
                BgInvokes, BgConsumed, BgEnters, AfterBackgroundSend, BgBusy,
                BgInterrupted, BgVerified, BgUnverified, FallbackRefused,
                FallbackStarts, FgInterrupted, FgFails, FgTriggers,
                ChildLost, FgAnswered, FgVerifies, QuoteUnavailable,
                QuoteBusy, QuoteGivesUp, QuoteStopped, QuoteAnswered, GoTo
        <4>2. QED
          BY <4>1
      <3>3. QED
        BY <3>1, <3>2
    <2>5. SentOK
      <3> SUFFICES ASSUME VerifySends, SentWasPosted PROVE SentWasPosted'
        OBVIOUS
      <3>1. CASE NotSent
        BY <1>1, <1>2, <1>4, <1>5, <3>1 DEF SentWasPosted, NotSent
      <3>2. CASE /\ Held /\ Confirm /\ UNCHANGED posted
                 /\ \/ rows[Msg] > 0
                    \/ pc = "quote_done" /\ answer = "verified"
        <4>1. "sent" \in Statuses /\ "none" \in Codes
          BY DEF Statuses, FinalStatuses, Codes
        <4>2. Changes(cur, "sent", "none")
          BY <1>1, <2>2, <3>2, <4>1, UpdateFacts DEF Confirm, PlaceOK
        <4>3. CASE rows[Msg] > 0
          <5>1. PICK d \in Deliveries : row[d].msg = Msg /\ posted[d] # 0
            BY <1>1, <2>2, <3>2, <4>3 DEF ProofOK
          <5>2. cur = d
            BY <1>1, <2>2, <3>2, <5>1 DEF ProofOK, HandOK, Msg
          <5>3. QED
            BY <1>1, <1>2, <1>4, <3>2, <4>2, <5>1, <5>2
            DEF Changes, SentWasPosted
        <4>4. CASE pc = "quote_done" /\ answer = "verified"
          BY <1>1, <1>2, <1>4, <3>2, <4>2, <4>4
          DEF Changes, SentWasPosted, ProofOK
        <4>5. QED
          BY <3>2, <4>3, <4>4
      <3>3. QED
        BY <1>8, <3>1, <3>2, WorkerSends
    <2>6. QED
      BY <1>6, <2>1, <2>3, <2>4, <2>5 DEF ProofOK
  <1>9. CASE ~WorkerStep
    <2>1. Bystander /\ UNCHANGED posted
      BY <1>9, OthersDoNotPost
    <2>2. ASSUME NEW m \in Messages, echoes'[m] # 0 \/ rows'[m] # 0
          PROVE  echoes[m] # 0 \/ rows[m] # 0
      <3>1. ASSUME NEW p \in Messages, Echo(p)
            PROVE  UNCHANGED rows /\ \A q \in Messages :
                       echoes'[q] # 0 => echoes[q] # 0
        BY <3>1, EchoFacts DEF Echo
      <3>2. UNCHANGED chat => UNCHANGED <<echoes, rows>>
        BY DEF chat
      <3>3. ProcessEnds => UNCHANGED rows /\ echoes'[m] = 0
        BY DEF ProcessEnds
      <3>4. CASE UNCHANGED <<echoes, rows>>
        BY <2>2, <3>4
      <3>5. CASE SenderNext /\ ~(UNCHANGED <<echoes, rows>>)
        BY <1>9, <2>2, <3>1, <3>2, <3>3, <3>5
        DEF SenderNext, Cancel, Expires, FallsDue, Enqueue, RetryOrResend,
            PendingDropped, UserTypes, UserMoves, CoolingEnds, Stop, Start,
            WorkerEnds, Crash
      <3>6. CASE UNCHANGED senderVars
        BY <3>2, <3>4, <3>6 DEF senderVars
      <3>7. QED
        BY <3>4, <3>5, <3>6
    <2>3. \/ UNCHANGED <<pc, cur, answer>>
          \/ pc' \in {"off", "claim"}
      BY <1>9
      DEF SenderNext, Cancel, Expires, FallsDue, Enqueue, RetryOrResend, Echo,
          PendingDropped, UserTypes, UserMoves, CoolingEnds, Stop, Start,
          WorkerEnds, Crash, ProcessEnds, senderVars
    <2>4. pc' = "quote_done" /\ answer' = "verified" => posted'[cur'] # 0
      BY <1>1, <2>1, <2>3 DEF ProofOK
    <2>5. \A m \in Messages :
             echoes'[m] # 0 \/ rows'[m] # 0
             => \E d \in Deliveries : row'[d].msg = m /\ posted'[d] # 0
      BY <1>7, <2>2, MessagesKept
    <2>6. ASSUME NEW d \in Deliveries, NEW e \in Deliveries,
                 Exists(d)', row'[d].msg = row'[e].msg
          PROVE  d = e
      <3>1. CASE \A f \in Deliveries : row'[f].msg = row[f].msg
        BY <1>6, <2>6, <3>1
      <3>2. ASSUME NEW i \in Deliveries, NEW m \in Messages, Insert(i, m),
                   \A f \in Deliveries : row[f].msg # m
            PROVE  d = e
        <4>1. /\ ~Exists(i) /\ row'[i].msg = m
              /\ \A f \in Deliveries : f # i => row'[f] = row[f]
          BY <1>1, <3>2, InsertFacts DEF PlaceOK
        <4>2. QED
          BY <1>1, <2>6, <3>2, <4>1 DEF ProofOK, Exists
      <3>3. ASSUME NEW i \in Deliveries, NEW m \in Messages, Enqueue(i, m)
            PROVE  d = e
        BY <3>2, <3>3 DEF Enqueue, DistinctReplies
      <3>4. ~(\E i, o \in Deliveries : RetryOrResend(i, o))
        BY DEF RetryOrResend, DistinctReplies
      <3>5. CASE ~(\E i \in Deliveries, m \in Messages : Enqueue(i, m))
        <4>1. \/ UNCHANGED row \/ Ticks
              \/ \E i \in Deliveries : CancelRow(i)
              \/ \E i \in Deliveries : Changes(i, "sent", "none")
              \/ DiscardPending \/ Recover
          <5>1. ASSUME NEW i \in Deliveries, Expires(i) \/ FallsDue(i)
                PROVE  Ticks
            BY <1>1, <5>1, TicksFacts DEF Expires, FallsDue, PlaceOK
          <5>2. ASSUME NEW m \in Messages, Echo(m)
                PROVE  UNCHANGED row
                       \/ \E i \in Deliveries : Changes(i, "sent", "none")
            BY <5>2, EchoFacts
          <5>3. QED
            BY <1>9, <3>4, <3>5, <5>1, <5>2
            DEF SenderNext, Cancel, PendingDropped, UserTypes, UserMoves,
                CoolingEnds, Stop, Start, WorkerEnds, Crash, ProcessEnds,
                senderVars
        <4>2. \A f \in Deliveries : row'[f].msg = row[f].msg
          BY <1>1, <4>1, CancelFacts, DiscardFacts, RecoverFacts
          DEF PlaceOK, Ticks, KeepsMessages, Changes
        <4>3. QED
          BY <3>1, <4>2
      <3>6. QED
        BY <3>3, <3>5
    <2>7. SentOK
      <3> SUFFICES ASSUME VerifySends, SentWasPosted PROVE SentWasPosted'
        OBVIOUS
      <3>1. ASSUME NEW i \in Deliveries, posted[i] # 0,
                   Changes(i, "sent", "none")
            PROVE  SentWasPosted'
        BY <1>1, <1>2, <1>4, <2>1, <3>1 DEF SentWasPosted, Changes
      <3>2. CASE \A f \in Deliveries :
                    row'[f].status = "sent" => row[f].status = "sent"
        BY <1>1, <2>1, <3>2 DEF SentWasPosted
      <3>3. ASSUME NEW m \in Messages, Echo(m) PROVE SentWasPosted'
        BY <1>1, <3>1, <3>2, <3>3, EchoMarksPosted
      <3>4. CASE \A m \in Messages : ~Echo(m)
        <4>1. \/ UNCHANGED row \/ Ticks
              \/ \E i \in Deliveries : CancelRow(i)
              \/ \E i \in Deliveries, m \in Messages : Insert(i, m)
              \/ DiscardPending \/ Recover
          <5>1. ASSUME NEW i \in Deliveries, Expires(i) \/ FallsDue(i)
                PROVE  Ticks
            BY <1>1, <5>1, TicksFacts DEF Expires, FallsDue, PlaceOK
          <5>2. ~(\E i, o \in Deliveries : RetryOrResend(i, o))
            BY DEF RetryOrResend, DistinctReplies
          <5>3. QED
            BY <1>9, <3>4, <5>1, <5>2
            DEF SenderNext, Enqueue, Cancel, PendingDropped, UserTypes,
                UserMoves, CoolingEnds, Stop, Start, WorkerEnds, Crash,
                ProcessEnds, senderVars
        <4>2. \A i \in Deliveries, m \in Messages : Insert(i, m)
              => \A f \in Deliveries :
                    row'[f].status = "sent" => row[f].status = "sent"
          BY <1>1, InsertFacts DEF PlaceOK
        <4>3. \A f \in Deliveries :
                 row'[f].status = "sent" => row[f].status = "sent"
          BY <1>1, <4>1, <4>2, CancelFacts, DiscardFacts, RecoverFacts
          DEF PlaceOK, Ticks, Changes
        <4>4. QED
          BY <3>2, <4>3
      <3>5. QED
        BY <3>3, <3>4
    <2>8. QED
      BY <2>4, <2>5, <2>6, <2>7 DEF ProofOK
  <1>10. QED
    BY <1>8, <1>9

LEMMA ProofInvariance ==
    ASSUME VerifySends, DistinctReplies
    PROVE  SenderSpec => []ProofIInv
  <1>1. SenderIInv /\ ProofIInv /\ [SenderNext]_senderVars => ProofIInv'
    BY ProofStep DEF ProofIInv
  <1>2. QED
    BY <1>1, ProofInit, SenderInvariance, PTL DEF SenderSpec

\* A reply that is SENT really reached the chat, when sends are verified and
\* no two replies look the same: a confirmation then is of the reply's own
\* echo or row of the database.
THEOREM SentIsPosted ==
    ASSUME VerifySends, DistinctReplies
    PROVE  SenderSpec => []SentWasPosted
  BY ProofInvariance, PTL DEF ProofIInv
-----------------------------------------------------------------------------
(* What is cancelled is not posted. *)

\* The worker lets a cancelled reply go and does nothing else with it.
LEMMA WorkerCancelled ==
    ASSUME SenderIInv, ProofOK, CancelledOK, WorkerStep,
           NEW d \in cancelled, d = cur
    PROVE  /\ row'[d] = row[d] /\ UNCHANGED posted
           /\ cur' = cur => pc' \in Waiting
  <1>1. /\ TypeOK /\ TableOK /\ HandOK /\ d \in Deliveries
        /\ cur # NoDelivery
    BY SenderAssumption DEF SenderIInv, TypeOK
  <1>2. /\ row[cur].status = "cancelled" /\ row[cur].code = "none"
        /\ posted[cur] = 0 /\ pc \in Waiting
    BY DEF CancelledOK
  <1>3. NextClaim => cur' # cur
    BY <1>1 DEF NextClaim
  <1>4. UNCHANGED chat => UNCHANGED posted
    BY DEF chat
  <1>5. Msg \in Messages
    BY <1>1, InHand
  <1>6. ~Verified
    <2>1. SUFFICES ASSUME rows[Msg] > 0 PROVE FALSE
      BY DEF Verified
    <2>2. PICK e \in Deliveries : row[e].msg = Msg /\ posted[e] # 0
      BY <1>5, <2>1 DEF ProofOK
    <2>3. e = cur
      BY <1>1, <2>2 DEF ProofOK, HandOK, Msg
    <2>4. QED
      BY <1>2, <2>2, <2>3
  <1>7. CASE RecoverMisses
    BY <1>1, <1>2, <1>4, <1>7 DEF RecoverMisses, GoTo, Waiting
  <1>8. CASE WaitEnds
    BY <1>1, <1>2, <1>3, <1>4, <1>8 DEF WaitEnds
  <1>9. ~(WaitDefers \/ StartAttempt \/ ResolveFails)
    BY <1>2 DEF WaitDefers, StartAttempt, ResolveFails, MayStart, MayAttempt
  <1>10. ~RecoverFinds
    BY <1>6 DEF RecoverFinds
  <1>11. ~(ClaimNext \/ ClaimExpires)
    BY <1>2 DEF ClaimNext, ClaimExpires, Waiting
  <1>12. ~(InternalError \/ BgUnavailable \/ BgTypes \/ BgInvokes
           \/ BgConsumed \/ BgEnters \/ BgBusy \/ BgInterrupted \/ BgVerified
           \/ BgUnverified)
    BY <1>2
    DEF InternalError, BgUnavailable, BgTypes, BgInvokes, BgConsumed,
        BgEnters, BgBusy, BgInterrupted, BgVerified, BgUnverified, Waiting,
        Attempting
  <1>13. ~(FallbackRefused \/ FallbackStarts \/ FgInterrupted \/ FgFails
           \/ FgTriggers \/ ChildLost \/ FgAnswered \/ FgVerifies
           \/ QuoteUnavailable \/ QuoteBusy \/ QuoteGivesUp \/ QuoteStopped
           \/ QuoteTriggers \/ QuoteAnswered)
    BY <1>2
    DEF FallbackRefused, FallbackStarts, FgInterrupted, FgFails, FgTriggers,
        ChildLost, FgAnswered, FgVerifies, QuoteUnavailable, QuoteBusy,
        QuoteGivesUp, QuoteStopped, QuoteTriggers, QuoteAnswered, Waiting
  <1>14. QED
    BY <1>7, <1>8, <1>9, <1>10, <1>11, <1>12, <1>13 DEF WorkerStep

\* A waiting row of which nothing is known was not posted.
LEMMA WaitingNotPosted ==
    ASSUME FreshStarts, PostedOK, NEW d \in Deliveries, Pending(d)
    PROVE  posted[d] = 0
  BY DEF PostedOK, Recalled

LEMMA CancelledStep ==
    ASSUME FreshStarts, DistinctReplies
    PROVE  SenderIInv /\ PostedOK /\ ProofOK /\ CancelledOK
              /\ [SenderNext]_senderVars
           => CancelledOK'
  <1> SUFFICES ASSUME SenderIInv, PostedOK, ProofOK, CancelledOK,
                      [SenderNext]_senderVars
               PROVE  CancelledOK'
    OBVIOUS
  <1>1. /\ TypeOK /\ PlaceOK /\ TableOK /\ HandOK /\ cancelled \subseteq Deliveries
        /\ NoDelivery \notin Deliveries
    BY TypesSplit, SenderAssumption DEF SenderIInv, HistoryOK
  <1>2. \A d \in cancelled : /\ d \in Deliveries /\ row[d].status = "cancelled"
                             /\ row[d].code = "none" /\ posted[d] = 0
                             /\ d = cur => pc \in Waiting
                             /\ ~Pending(d) /\ Exists(d)
    BY <1>1, StatusSets DEF CancelledOK, Pending, Exists
  <1>3. CASE WorkerStep
    <2>1. cancelled' = cancelled
      BY <1>3 DEF WorkerStep, history
    <2>2. ASSUME NEW d \in cancelled
          PROVE  /\ row'[d].status = "cancelled" /\ row'[d].code = "none"
                 /\ posted'[d] = 0
                 /\ d = cur' => pc' \in Waiting
      <3>1. CASE d = cur
        BY <1>2, <1>3, <3>1, WorkerCancelled
      <3>2. CASE d # cur
        <4>1. posted'[d] = 0
          BY <1>2, <3>2, PostsOnlyHand
        <4>2. Takes \/ Sweeps \/ GoesOn \/ Attempts \/ LetsGo
          BY <1>1, <1>3, WorkerShape
        <4>3. CASE Takes
          <5>1. PICK c \in Deliveries : Claim(c) /\ cur' = c
            BY <4>3 DEF Takes
          <5>2. Pending(c) /\ \A e \in Deliveries : e # c => Swept(e)
            BY <1>1, <5>1, ClaimFacts DEF PlaceOK
          <5>3. QED
            BY <1>2, <4>1, <5>1, <5>2 DEF Swept
        <4>4. CASE Sweeps
          <5>1. Swept(d)
            BY <1>1, <1>2, <4>4, ClaimNoneFacts DEF Sweeps, PlaceOK
          <5>2. QED
            BY <1>2, <3>2, <4>1, <4>4, <5>1 DEF Swept, Sweeps
        <4>5. CASE GoesOn \/ Attempts \/ LetsGo
          <5>1. row'[d] = row[d]
            BY <1>2, <3>2, <4>5
            DEF GoesOn, Attempts, LetsGo, Settles, Changes
          <5>2. cur' # d
            BY <1>1, <1>2, <3>2, <4>5 DEF GoesOn, Attempts, LetsGo, NextClaim
          <5>3. QED
            BY <1>2, <4>1, <5>1, <5>2
        <4>6. QED
          BY <4>2, <4>3, <4>4, <4>5
      <3>3. QED
        BY <3>1, <3>2
    <2>3. QED
      BY <2>1, <2>2 DEF CancelledOK
  <1>4. CASE ~WorkerStep
    <2>1. UNCHANGED posted
      BY <1>4, OthersDoNotPost
    <2>2. CASE UNCHANGED <<row, pc, cur, cancelled>>
      BY <2>1, <2>2 DEF CancelledOK
    <2>3. ASSUME NEW i \in Deliveries, Cancel(i) PROVE CancelledOK'
      <3>1. /\ CancelRow(i) /\ cancelled' = cancelled \cup {i}
            /\ UNCHANGED <<pc, cur>>
        BY <2>3 DEF Cancel
      <3>2. /\ Pending(i) /\ row'[i].status = "cancelled"
            /\ row'[i].code = "none"
            /\ \A e \in Deliveries : e # i => row'[e] = row[e]
        BY <1>1, <3>1, CancelFacts DEF PlaceOK, Changes
      <3>3. posted[i] = 0
        BY <3>2, WaitingNotPosted
      <3>4. i = cur => pc \in Waiting
        BY <1>1, <3>2, StatusSets DEF HandOK, PlaceOK, Pending
      <3>5. QED
        BY <1>2, <2>1, <3>1, <3>2, <3>3, <3>4 DEF CancelledOK
    <2>4. ASSUME NEW i \in Deliveries, NEW m \in Messages, Insert(i, m),
                 UNCHANGED <<pc, cur, cancelled>>
          PROVE  CancelledOK'
      <3>1. ~Exists(i) /\ \A e \in Deliveries : e # i => row'[e] = row[e]
        BY <1>1, <2>4, InsertFacts DEF PlaceOK
      <3>2. QED
        BY <1>2, <2>1, <2>4, <3>1 DEF CancelledOK
    <2>5. ASSUME NEW i \in Deliveries, NEW m \in Messages, Enqueue(i, m)
          PROVE  CancelledOK'
      BY <2>4, <2>5 DEF Enqueue, history
    <2>6. ~(\E i, o \in Deliveries : RetryOrResend(i, o))
      BY DEF RetryOrResend, DistinctReplies
    <2>7. ASSUME NEW i \in Deliveries, Expires(i) \/ FallsDue(i)
          PROVE  CancelledOK'
      <3>1. Ticks /\ UNCHANGED <<pc, cur, cancelled>>
        BY <1>1, <2>7, TicksFacts DEF Expires, FallsDue, PlaceOK, history
      <3>2. QED
        BY <1>2, <2>1, <3>1 DEF CancelledOK, Ticks
    <2>8. ASSUME NEW m \in Messages, Echo(m) PROVE CancelledOK'
      <3>1. UNCHANGED <<pc, cur, cancelled>>
        BY <2>8 DEF Echo, history
      <3>2. ASSUME NEW i \in Deliveries, posted[i] # 0,
                   Changes(i, "sent", "none")
            PROVE  CancelledOK'
        BY <1>2, <2>1, <3>1, <3>2 DEF CancelledOK, Changes
      <3>3. QED
        BY <2>2, <2>8, <3>1, <3>2, EchoMarksPosted
    <2>9. CASE Start
      <3>1. /\ cur = NoDelivery /\ cur' = cur /\ UNCHANGED cancelled
        BY <1>1, <2>9 DEF Start, PlaceOK
      <3>2. DiscardPending
        BY <2>9 DEF Start, FreshStarts
      <3>3. \A e \in Deliveries :
               row[e].status = "cancelled" => row'[e] = row[e]
        BY <1>1, <3>2, DiscardFacts DEF PlaceOK, PendingStatuses
      <3>4. QED
        BY <1>1, <1>2, <2>1, <3>1, <3>3 DEF CancelledOK
    <2>10. CASE ProcessEnds
      BY <1>1, <1>2, <2>1, <2>10 DEF ProcessEnds, CancelledOK, history
    <2>11. QED
      BY <1>4, <2>2, <2>3, <2>5, <2>6, <2>7, <2>8, <2>9, <2>10
      DEF SenderNext, PendingDropped, UserTypes, UserMoves, CoolingEnds, Stop,
          WorkerEnds, Crash, senderVars, history
  <1>5. QED
    BY <1>3, <1>4

\* Everything that is known of a sender whose starts are fresh and whose
\* replies all look different.
OutboxIInv == SenderIInv /\ PostIInv /\ ProofOK /\ CancelledOK

LEMMA OutboxInvariance ==
    ASSUME Undisturbed, FreshStarts, DistinctReplies
    PROVE  SenderSpec => []OutboxIInv
  <1>1. SenderSpec => []PostIInv
    BY PostInvariance DEF Repeatless
  <1>2. SenderSpec => []ProofOK
    <2>1. SenderIInv /\ ProofOK /\ [SenderNext]_senderVars => ProofOK'
      BY ProofStep
    <2>2. SenderInit => ProofOK
      BY ProofInit DEF ProofIInv
    <2>3. QED
      BY <2>1, <2>2, SenderInvariance, PTL DEF SenderSpec
  <1>3. SenderInit => CancelledOK
    BY DEF SenderInit, CancelledOK
  <1>4. SenderIInv /\ PostIInv /\ ProofOK /\ CancelledOK
           /\ [SenderNext]_senderVars
        => CancelledOK'
    BY CancelledStep DEF PostIInv
  <1>5. SenderSpec => []CancelledOK
    BY <1>1, <1>2, <1>3, <1>4, SenderInvariance, PTL DEF SenderSpec
  <1>6. QED
    BY <1>1, <1>2, <1>5, SenderInvariance, PTL DEF OutboxIInv

\* A reply the user has cancelled is not posted any more, however the
\* cancellation meets the worker, which looks at it only between two waits.
THEOREM CancelledStays ==
    ASSUME Undisturbed, FreshStarts, DistinctReplies
    PROVE  SenderSpec => CancelledNeverPosted
  <1>1. ASSUME OutboxIInv, [SenderNext]_senderVars, NEW d \in cancelled
        PROVE  posted'[d] = posted[d]
    <2>1. /\ SenderIInv /\ d \in Deliveries
          /\ row[d].status = "cancelled"
      BY <1>1 DEF OutboxIInv, CancelledOK, SenderIInv, TypeOK
    <2>2. QED
      BY <1>1, <2>1, PostsOnlyHand
  <1>2. OutboxIInv /\ [SenderNext]_senderVars
        => [\A d \in cancelled : posted'[d] = posted[d]]_senderVars
    BY <1>1
  <1>3. QED
    BY <1>2, OutboxInvariance, PTL DEF SenderSpec, CancelledNeverPosted
-----------------------------------------------------------------------------
(* The sender is an outbox. *)

Ongoing == {"waiting", "inflight"}

LEMMA StageIsFunction == /\ Stage = [d \in Deliveries |-> Stage[d]]
                         /\ Stage' = [d \in Deliveries |-> Stage'[d]]
  BY DEF Stage

\* A step that ends some of the replies, or none, is one of the outbox.
LEMMA ConcludeSome ==
    ASSUME UNCHANGED posted,
           \A d \in Deliveries :
              \/ Stage'[d] = Stage[d]
              \/ Stage[d] \in Ongoing /\ Stage'[d] = "over"
    PROVE  Outbox!OutboxNext
  <1> DEFINE S == {d \in Deliveries : Stage'[d] # Stage[d]}
  <1>1. \A d \in S : Stage[d] \in {"waiting", "inflight"}
    BY DEF Ongoing
  <1>2. Stage' = [d \in Deliveries |-> IF d \in S THEN "over" ELSE Stage[d]]
    BY StageIsFunction
  <1>3. Outbox!Conclude(S)
    BY <1>1, <1>2 DEF Outbox!Conclude
  <1>4. QED
    BY <1>3 DEF Outbox!OutboxNext

\* A step that changes the stage of one reply.
LEMMA OneStage ==
    ASSUME NEW d \in Deliveries, NEW s, Stage'[d] = s,
           \A e \in Deliveries : e # d => Stage'[e] = Stage[e]
    PROVE  Stage' = [Stage EXCEPT ![d] = s]
  BY StageIsFunction

\* The stage of a reply that is not in hand shows its status.
LEMMA StageOutOfHand ==
    ASSUME NEW d \in Deliveries, d # cur
    PROVE  Stage[d] = IF ~Exists(d) THEN "new"
                      ELSE IF Pending(d) THEN "waiting" ELSE "over"
  BY DEF Stage

LEMMA NextStageOutOfHand ==
    ASSUME NEW d \in Deliveries, d # cur'
    PROVE  Stage'[d] = IF row'[d].status = "none" THEN "new"
                       ELSE IF row'[d].status \in PendingStatuses
                       THEN "waiting" ELSE "over"
  BY DEF Stage, Exists, Pending

LEMMA StageInHand ==
    ASSUME SenderIInv, cur # NoDelivery
    PROVE  /\ cur \in Deliveries /\ Exists(cur)
           /\ pc \in Attempting => Stage[cur] = "inflight"
           /\ pc \in Waiting =>
                Stage[cur] = IF row[cur].status = "cancelled" THEN "over"
                             ELSE "waiting"
  <1>1. cur \in Deliveries /\ Exists(cur)
    BY InHand DEF SenderIInv
  <1>2. pc \in Attempting => Stage[cur] = "inflight"
    BY <1>1 DEF Stage
  <1>3. ASSUME pc \in Waiting
        PROVE  Stage[cur] = IF row[cur].status = "cancelled" THEN "over"
                            ELSE "waiting"
    <2>1. /\ pc \notin Attempting
          /\ row[cur].status \in PendingStatuses \cup {"cancelled", "sent"}
          /\ "cancelled" \notin PendingStatuses
      BY <1>3 DEF SenderIInv, HandOK, Waiting, Attempting, PendingStatuses
    <2>2. QED
      BY <1>1, <2>1 DEF Stage, Pending
  <1>4. QED
    BY <1>1, <1>2, <1>3

LEMMA NextStageInHand ==
    ASSUME cur' \in Deliveries, row'[cur'].status # "none"
    PROVE  Stage'[cur'] = IF pc' \in Attempting THEN "inflight"
                          ELSE IF row'[cur'].status \in PendingStatuses \cup {"sent"}
                          THEN "waiting" ELSE "over"
  BY DEF Stage, Exists, Pending

\* A cancelled reply in hand is not put back and not attempted.
LEMMA CancelledInHand ==
    ASSUME SenderIInv, WorkerStep, pc \in Waiting,
           row[cur].status = "cancelled"
    PROVE  row'[cur].status \in FinalStatuses /\ pc' \notin Attempting
  <1>1. /\ TypeOK /\ TableOK /\ HandOK /\ Held /\ cur \in Deliveries
        /\ "wait" \notin Attempting /\ "claim" \notin Attempting
    BY InHand, StatusSets DEF SenderIInv, TypeOK, Held
  <1>2. CASE RecoverMisses
    BY <1>1, <1>2, HandEnds, StatusSets
    DEF RecoverMisses, GoTo, Ends, NextClaim, Codes
  <1>3. CASE RecoverFinds
    BY <1>1, <1>3, HandEnds DEF RecoverFinds, Ends, NextClaim
  <1>4. CASE WaitEnds
    BY <1>1, <1>4, StatusSets DEF WaitEnds, NextClaim
  <1>5. ~(WaitDefers \/ StartAttempt \/ ResolveFails)
    BY DEF WaitDefers, StartAttempt, ResolveFails, MayStart, MayAttempt
  <1>6. ~(ClaimNext \/ ClaimExpires)
    BY DEF ClaimNext, ClaimExpires, Waiting
  <1>7. ~(InternalError \/ BgUnavailable \/ BgTypes \/ BgInvokes
          \/ BgConsumed \/ BgEnters \/ BgBusy \/ BgInterrupted \/ BgVerified
          \/ BgUnverified)
    BY DEF InternalError, BgUnavailable, BgTypes, BgInvokes, BgConsumed,
           BgEnters, BgBusy, BgInterrupted, BgVerified, BgUnverified, Waiting,
           Attempting
  <1>8. ~(FallbackRefused \/ FallbackStarts \/ FgInterrupted \/ FgFails
          \/ FgTriggers \/ ChildLost \/ FgAnswered \/ FgVerifies
          \/ QuoteUnavailable \/ QuoteBusy \/ QuoteGivesUp \/ QuoteStopped
          \/ QuoteTriggers \/ QuoteAnswered)
    BY DEF FallbackRefused, FallbackStarts, FgInterrupted, FgFails, FgTriggers,
           ChildLost, FgAnswered, FgVerifies, QuoteUnavailable, QuoteBusy,
           QuoteGivesUp, QuoteStopped, QuoteTriggers, QuoteAnswered, Waiting
  <1>9. QED
    BY <1>2, <1>3, <1>4, <1>5, <1>6, <1>7, <1>8 DEF WorkerStep

\* What the worker does, by its effect on the reply in hand, is a step of the
\* outbox.
LEMMA WorkerStages ==
    ASSUME SenderIInv, WorkerStep, PostShape
    PROVE  Outbox!OutboxNext
  <1>1. /\ PlaceOK /\ HandOK /\ NoDelivery \notin Deliveries
        /\ row \in [Deliveries -> Row]
        /\ posted \in [Deliveries -> 0..MaxPosts]
    BY TypesSplit, SenderAssumption DEF SenderIInv, PlaceOK, DataOK
  <1>2. cur # NoDelivery <=> pc \in Waiting \cup Attempting
    BY <1>1, StatusSets DEF PlaceOK
  <1>3. CASE UNCHANGED posted /\ Takes
    <2>1. PICK c \in Deliveries : Claim(c) /\ cur' = c
      BY <1>3 DEF Takes
    <2>2. /\ cur = NoDelivery /\ cur' # NoDelivery /\ pc' \in Waiting
          /\ Pending(c) /\ \A e \in Deliveries : e # c => Swept(e)
          /\ row'[c].status = "waiting_for_idle"
      BY <1>1, <1>2, <1>3, <2>1, ClaimFacts, StatusSets DEF Takes, PlaceOK
    <2>3. Stage[c] = "waiting" /\ Stage'[c] = "waiting"
      <3>1. c # cur /\ Exists(c)
        BY <1>1, <2>2, StatusSets DEF Pending, Exists
      <3>2. Stage[c] = "waiting"
        BY <2>2, <3>1, StageOutOfHand
      <3>3. Stage'[c] = "waiting"
        BY <2>1, <2>2, NextStageInHand, StatusSets
      <3>4. QED
        BY <3>2, <3>3
    <2>4. ASSUME NEW e \in Deliveries, e # c
          PROVE  \/ Stage'[e] = Stage[e]
                 \/ Stage[e] \in Ongoing /\ Stage'[e] = "over"
      <3>1. e # cur /\ e # cur' /\ Swept(e)
        BY <1>1, <2>1, <2>2, <2>4
      <3>2. QED
        BY <3>1, StageOutOfHand, NextStageOutOfHand, StatusSets
        DEF Swept, Pending, Exists, Ongoing
    <2>5. QED
      BY <1>3, <2>3, <2>4, ConcludeSome
  <1>4. CASE UNCHANGED posted /\ Sweeps
    <2>1. /\ cur = NoDelivery /\ cur' = NoDelivery
          /\ \A e \in Deliveries : Swept(e)
      BY <1>1, <1>2, <1>4, ClaimNoneFacts, StatusSets DEF Sweeps
    <2>2. ASSUME NEW e \in Deliveries
          PROVE  \/ Stage'[e] = Stage[e]
                 \/ Stage[e] \in Ongoing /\ Stage'[e] = "over"
      BY <1>1, <2>1, StageOutOfHand, NextStageOutOfHand, StatusSets
      DEF Swept, Pending, Exists, Ongoing
    <2>3. QED
      BY <1>4, <2>2, ConcludeSome
  <1>5. ASSUME cur # NoDelivery, cur' \in {cur, NoDelivery},
               \A e \in Deliveries : e # cur => row'[e] = row[e]
        PROVE  \A e \in Deliveries : e # cur => Stage'[e] = Stage[e]
    BY <1>1, <1>5, StageOutOfHand, NextStageOutOfHand DEF Pending, Exists
  <1>6. ASSUME LetsGo
        PROVE  /\ cur \in Deliveries
               /\ \A e \in Deliveries : e # cur => Stage'[e] = Stage[e]
               /\ Stage'[cur] = IF row'[cur].status \in PendingStatuses
                                THEN "waiting" ELSE "over"
               /\ \/ Stage[cur] \in Ongoing
                  \/ Stage[cur] = "over" /\ row'[cur].status \in FinalStatuses
    <2>1. /\ cur \in Deliveries /\ Exists(cur) /\ cur' = NoDelivery
          /\ cur # NoDelivery
      BY <1>6, StageInHand DEF LetsGo, NextClaim
    <2>2. /\ \A e \in Deliveries : e # cur => row'[e] = row[e]
          /\ row'[cur].status # "none"
      BY <1>6, <2>1, StatusSets DEF LetsGo, Settles, Changes, Exists
    <2>3. \A e \in Deliveries : e # cur => Stage'[e] = Stage[e]
      BY <1>5, <2>1, <2>2
    <2>4. Stage'[cur] = IF row'[cur].status \in PendingStatuses
                        THEN "waiting" ELSE "over"
      BY <1>1, <2>1, <2>2, NextStageOutOfHand
    <2>5. CASE pc \in Attempting
      BY <2>1, <2>3, <2>4, <2>5, StageInHand DEF Ongoing
    <2>6. CASE pc \in Waiting
      BY <2>1, <2>3, <2>4, <2>6, StageInHand, CancelledInHand DEF Ongoing
    <2>7. QED
      BY <1>2, <2>1, <2>5, <2>6
  <1>7. CASE UNCHANGED posted /\ Drops
    <2>1. LetsGo /\ (posted[cur] = 0 \/ Ends)
      BY <1>7 DEF Drops
    <2>2. CASE Stage[cur] = "inflight" /\ row'[cur].status \in PendingStatuses
      <3>1. posted[cur] = 0 /\ Stage'[cur] = "waiting"
        BY <1>6, <2>1, <2>2, StatusSets DEF Ends
      <3>2. Stage' = [Stage EXCEPT ![cur] = "waiting"]
        BY <1>6, <2>1, <3>1, OneStage
      <3>3. Outbox!PutBack(cur)
        BY <1>7, <2>2, <3>1, <3>2 DEF Outbox!PutBack
      <3>4. QED
        BY <1>6, <2>1, <3>3 DEF Outbox!OutboxNext
    <2>3. CASE ~(Stage[cur] = "inflight"
                 /\ row'[cur].status \in PendingStatuses)
      <3>1. \A e \in Deliveries :
               \/ Stage'[e] = Stage[e]
               \/ Stage[e] \in Ongoing /\ Stage'[e] = "over"
        BY <1>6, <2>1, <2>3, StatusSets DEF Ongoing
      <3>2. QED
        BY <1>7, <3>1, ConcludeSome
    <2>4. QED
      BY <2>2, <2>3
  <1>8. CASE UNCHANGED posted /\ Proceeds
    <2>1. /\ cur \in Deliveries /\ Exists(cur) /\ cur' = cur
          /\ cur # NoDelivery /\ UNCHANGED row
          /\ \/ pc \in Attempting /\ pc' \in Attempting
             \/ pc \in Waiting /\ pc' \in Waiting
      BY <1>8, StageInHand, StatusSets DEF Proceeds, GoesOn
    <2>2. \A e \in Deliveries : Stage'[e] = Stage[e]
      BY <2>1, StatusSets DEF Stage, Exists, Pending
    <2>3. QED
      BY <1>8, <2>2, ConcludeSome
  <1>9. CASE UNCHANGED posted /\ Begins
    <2>1. /\ cur \in Deliveries /\ cur' = cur /\ cur # NoDelivery
          /\ pc' \in Attempting /\ row'[cur].status = "sending"
          /\ \A e \in Deliveries : e # cur => row'[e] = row[e]
      BY <1>9, StageInHand DEF Begins, Attempts, Changes
    <2>2. /\ Stage'[cur] = "inflight"
          /\ \A e \in Deliveries : e # cur => Stage'[e] = Stage[e]
      BY <1>5, <2>1, NextStageInHand
    <2>3. CASE pc \in Attempting
      <3>1. Stage[cur] = "inflight"
        BY <2>1, <2>3, StageInHand
      <3>2. QED
        BY <1>9, <2>2, <3>1, ConcludeSome
    <2>4. CASE pc \in Waiting
      <3>1. Stage[cur] = "waiting"
        BY <2>1, <2>4, StageInHand, CancelledInHand
      <3>2. \A e \in Deliveries : e # cur => Stage[e] # "inflight"
        BY StageOutOfHand
      <3>3. \A e \in Deliveries : e < cur => Stage[e] # "waiting"
        BY <1>1, <2>1, StageOutOfHand DEF HandOK, Deliveries
      <3>4. Stage' = [Stage EXCEPT ![cur] = "inflight"]
        BY <2>1, <2>2, OneStage
      <3>5. Outbox!Take(cur)
        BY <1>9, <2>1, <3>1, <3>2, <3>3, <3>4 DEF Outbox!Take
      <3>6. QED
        BY <2>1, <3>5 DEF Outbox!OutboxNext
    <2>5. QED
      BY <1>2, <2>1, <2>3, <2>4
  <1>10. CASE PostsOnce
    <2>1. /\ cur # NoDelivery /\ pc \in Attempting /\ posted[cur] = 0 /\ Posts
      BY <1>10, <1>2, StatusSets DEF PostsOnce
    <2>2. cur \in Deliveries /\ Exists(cur) /\ Stage[cur] = "inflight"
      BY <2>1, StageInHand
    <2>3. posted' = [posted EXCEPT ![cur] = 1]
      BY <2>1 DEF Posts
    <2>4. Stage' \in {Stage, [Stage EXCEPT ![cur] = "over"]}
      <3>1. CASE GoesOn /\ pc' \in AfterPost
        <4>1. cur' = cur /\ UNCHANGED row /\ pc' \in Attempting
          BY <3>1 DEF GoesOn, AfterPost, Attempting
        <4>2. \A e \in Deliveries : Stage'[e] = Stage[e]
          BY <2>1, <2>2, <4>1 DEF Stage, Exists, Pending
        <4>3. QED
          BY <4>2, StageIsFunction
      <3>2. CASE LetsGo /\ Ends
        <4>1. Stage'[cur] = "over"
          BY <1>6, <3>2, StatusSets DEF Ends
        <4>2. QED
          BY <1>6, <3>2, <4>1, OneStage
      <3>3. QED
        BY <1>10, <3>1, <3>2 DEF PostsOnce
    <2>5. Outbox!Post(cur)
      BY <2>1, <2>2, <2>3, <2>4 DEF Outbox!Post
    <2>6. QED
      BY <2>2, <2>5 DEF Outbox!OutboxNext
  <1>11. QED
    BY <1>3, <1>4, <1>7, <1>8, <1>9, <1>10 DEF PostShape

\* What happens around the worker is a step of the outbox too.
LEMMA BystanderStages ==
    ASSUME FreshStarts, DistinctReplies, SenderIInv, PostedOK, ProofOK,
           [SenderNext]_senderVars, ~WorkerStep
    PROVE  Outbox!OutboxNext
  <1>1. /\ TypeOK /\ PlaceOK /\ TableOK /\ HandOK
        /\ row \in [Deliveries -> Row] /\ NoDelivery \notin Deliveries
        /\ UNCHANGED posted
    BY TypesSplit, SenderAssumption, OthersDoNotPost DEF SenderIInv, PlaceOK
  <1>2. CASE UNCHANGED <<row, pc, cur>>
    <2>1. \A d \in Deliveries : Stage'[d] = Stage[d]
      BY <1>2 DEF Stage, Exists, Pending
    <2>2. QED
      BY <1>1, <2>1, ConcludeSome
  <1>3. ASSUME NEW i \in Deliveries, NEW m \in Messages, Insert(i, m),
               UNCHANGED <<pc, cur>>
        PROVE  Outbox!OutboxNext
    <2>1. /\ ~Exists(i) /\ \A e \in Deliveries : e < i => Exists(e)
          /\ \A e \in Deliveries : e # i => row'[e] = row[e]
          /\ row'[i].status = "queued"
      BY <1>1, <1>3, InsertFacts
    <2>2. i # cur /\ i # cur'
      BY <1>1, <1>3, <2>1 DEF HandOK
    <2>3. Stage[i] = "new"
      BY <2>1, <2>2, StageOutOfHand
    <2>4. Stage'[i] = "waiting"
      BY <2>1, <2>2, NextStageOutOfHand, StatusSets
    <2>5. \A e \in Deliveries : e < i => Stage[e] # "new"
      BY <2>1 DEF Stage
    <2>6. \A e \in Deliveries : e # i => Stage'[e] = Stage[e]
      BY <1>3, <2>1 DEF Stage, Exists, Pending
    <2>7. Stage' = [Stage EXCEPT ![i] = "waiting"]
      BY <2>4, <2>6, OneStage
    <2>8. Outbox!Accept(i)
      BY <1>1, <2>3, <2>5, <2>7 DEF Outbox!Accept
    <2>9. QED
      BY <2>8 DEF Outbox!OutboxNext
  <1>4. ASSUME NEW i \in Deliveries, Cancel(i) PROVE Outbox!OutboxNext
    <2>1. /\ CancelRow(i) /\ UNCHANGED <<pc, cur>>
      BY <1>4 DEF Cancel
    <2>2. /\ Pending(i) /\ row'[i].status = "cancelled"
          /\ \A e \in Deliveries : e # i => row'[e] = row[e]
      BY <1>1, <2>1, CancelFacts DEF Changes
    <2>3. i = cur => pc \notin Attempting
      BY <1>1, <2>2, StatusSets DEF HandOK, Pending
    <2>4. Stage[i] = "waiting" /\ Stage'[i] = "over"
      BY <2>1, <2>2, <2>3, StatusSets DEF Stage, Exists, Pending
    <2>5. \A e \in Deliveries : e # i => Stage'[e] = Stage[e]
      BY <2>1, <2>2 DEF Stage, Exists, Pending
    <2>6. QED
      BY <1>1, <2>4, <2>5, ConcludeSome DEF Ongoing
  <1>5. ASSUME NEW i \in Deliveries, Expires(i) \/ FallsDue(i)
        PROVE  Outbox!OutboxNext
    <2>1. Ticks /\ UNCHANGED <<pc, cur>>
      BY <1>1, <1>5, TicksFacts DEF Expires, FallsDue
    <2>2. \A d \in Deliveries : Stage'[d] = Stage[d]
      BY <2>1 DEF Stage, Exists, Pending, Ticks
    <2>3. QED
      BY <1>1, <2>2, ConcludeSome
  <1>6. ASSUME NEW m \in Messages, Echo(m) PROVE Outbox!OutboxNext
    <2>1. UNCHANGED <<pc, cur>>
      BY <1>6 DEF Echo
    <2>2. CASE UNCHANGED row
      BY <1>2, <2>1, <2>2
    <2>3. ASSUME NEW i \in Deliveries, posted[i] # 0,
                 Changes(i, "sent", "none")
          PROVE  Outbox!OutboxNext
      <3>1. /\ Exists(i) /\ ~Pending(i)
            /\ i = cur => pc \in AfterPost
        BY <2>3 DEF PostedOK, Recalled, WasRecalled
      <3>2. i = cur => pc \in Attempting
        BY <3>1 DEF AfterPost, Attempting
      <3>3. Stage'[i] = Stage[i]
        BY <2>1, <2>3, <3>1, <3>2, StatusSets
        DEF Stage, Exists, Pending, Changes
      <3>4. \A e \in Deliveries : e # i => Stage'[e] = Stage[e]
        BY <2>1, <2>3 DEF Stage, Exists, Pending, Changes
      <3>5. QED
        BY <1>1, <3>3, <3>4, ConcludeSome
    <2>4. QED
      BY <1>6, <2>2, <2>3, EchoMarksPosted
  <1>7. CASE Start
    <2>1. cur = NoDelivery /\ cur' = cur /\ DiscardPending
      BY <1>1, <1>7, StatusSets DEF Start, FreshStarts, PlaceOK
    <2>2. ASSUME NEW d \in Deliveries
          PROVE  \/ Stage'[d] = Stage[d]
                 \/ Stage[d] \in Ongoing /\ Stage'[d] = "over"
      BY <1>1, <2>1, DiscardFacts, StageOutOfHand, NextStageOutOfHand,
         StatusSets
      DEF Ongoing, Exists, Pending
    <2>3. QED
      BY <1>1, <2>2, ConcludeSome
  <1>8. CASE ProcessEnds
    <2>1. cur' = NoDelivery /\ UNCHANGED row
      BY <1>8 DEF ProcessEnds
    <2>2. ASSUME NEW d \in Deliveries, d # cur PROVE Stage'[d] = Stage[d]
      BY <1>1, <2>1, <2>2, StageOutOfHand, NextStageOutOfHand
      DEF Exists, Pending
    <2>3. ASSUME cur # NoDelivery
          PROVE  \/ Stage'[cur] = Stage[cur]
                 \/ Stage[cur] \in Ongoing /\ Stage'[cur] = "over"
      <3>1. /\ cur \in Deliveries /\ Exists(cur)
            /\ pc \in Attempting => ~Pending(cur)
            /\ pc \in Attempting \/ pc \in Waiting
        BY <1>1, <2>3, StageInHand, StatusSets DEF HandOK, PlaceOK, Pending
      <3>2. Stage'[cur] = IF Pending(cur) THEN "waiting" ELSE "over"
        BY <1>1, <2>1, <2>3, <3>1, NextStageOutOfHand DEF Exists, Pending
      <3>3. QED
        BY <2>3, <3>1, <3>2, StageInHand, StatusSets DEF Ongoing, Pending
    <2>4. QED
      BY <1>1, <2>2, <2>3, ConcludeSome
  <1>9. \A i, o \in Deliveries : ~RetryOrResend(i, o)
    BY DEF RetryOrResend, DistinctReplies
  <1>10. \A i \in Deliveries, m \in Messages :
            Enqueue(i, m) => Insert(i, m) /\ UNCHANGED <<pc, cur>>
    BY DEF Enqueue
  <1>11. QED
    BY <1>2, <1>3, <1>4, <1>5, <1>6, <1>7, <1>8, <1>9, <1>10
    DEF SenderNext, PendingDropped, UserTypes, UserMoves, CoolingEnds, Stop,
        WorkerEnds, Crash, senderVars

\* The sender is an outbox: it takes up one reply at a time, the oldest first,
\* posts each at most once, puts back only what it has not posted and gives
\* nothing that is over a second life, whatever the user, WeChat, the echoes
\* and a crash do in between.
THEOREM SenderRefinement ==
    ASSUME Undisturbed, FreshStarts, DistinctReplies
    PROVE  SenderSpec => ImplementsOutbox
  <1>1. SenderInit => Outbox!OutboxInit
    <2> SUFFICES ASSUME SenderInit PROVE Outbox!OutboxInit
      OBVIOUS
    <2>1. \A d \in Deliveries : Stage[d] = "new"
      BY DEF SenderInit, TableInit, NoRow, Stage, Exists
    <2>2. Stage = [d \in Deliveries |-> "new"]
      BY <2>1, StageIsFunction
    <2>3. QED
      BY <2>2 DEF SenderInit, Outbox!OutboxInit
  <1>2. OutboxIInv /\ [SenderNext]_senderVars
        => [Outbox!OutboxNext]_(Outbox!outboxVars)
    <2> SUFFICES ASSUME OutboxIInv, [SenderNext]_senderVars
                 PROVE  Outbox!OutboxNext
      OBVIOUS
    <2>1. CASE WorkerStep
      <3>1. PostShape
        BY <2>1, WorkerPostShape DEF OutboxIInv, PostIInv
      <3>2. QED
        BY <2>1, <3>1, WorkerStages DEF OutboxIInv
    <2>2. CASE ~WorkerStep
      BY <2>2, BystanderStages DEF OutboxIInv, PostIInv
    <2>3. QED
      BY <2>1, <2>2
  <1>3. QED
    BY <1>1, <1>2, OutboxInvariance, PTL
    DEF SenderSpec, ImplementsOutbox, Outbox!OutboxSpec
=============================================================================
