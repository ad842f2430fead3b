---------------------------- MODULE ChannelProofs ----------------------------
(***************************************************************************)
(* Proofs about the WeChat channel: the answers of the database wrapper    *)
(* are true for every number of shards (DatabaseAccess), and a row is      *)
(* known for what it is for any members, replies and texts                 *)
(* (ChannelIntake).                                                        *)
(*                                                                         *)
(* AnswersAreTrue is about the places where a call ends; its inductive     *)
(* invariant says how the call got there: what a retry has left in the     *)
(* work directory, and what the snapshots hold once all shards were opened.*)
(* AuthorsAreKnown and RepliesAreKnown are about what has gone wrong; their*)
(* invariant says why nothing does: the channel waits for exactly the rows *)
(* that are owed to it, and knows the account by what it has learned.      *)
(***************************************************************************)
EXTENDS DatabaseAccess, ChannelIntake, TLAPS

Places == {"idle", "lookup", "scan", "find", "read", "corrupt", "rewritten",
           "none", "raised"}
CallTypes == [at : Places, name : Methods, retried : BOOLEAN, rewrites : 0..Delays,
              existed : BOOLEAN, damaged : BOOLEAN]
Snapshot == [kind : Kinds, has : BOOLEAN, upto : Nat]

Typed ==
    /\ written \in Nat /\ holder \in Shards \cup {NoShard}
    /\ snapshots \in [Shards -> Snapshot]
    /\ handles \subseteq Shards /\ cached \in Shards \cup {NoShard}
    /\ call \in CallTypes

\* Handles are open while a call searches and reads, and of the shard that is
\* read only while it reads.
HandlesInUse ==
    /\ call.at \notin {"find", "read"} => handles = {}
    /\ call.at = "read" => cached \in Shards /\ handles = {cached}

\* A retried call meets a corrupt snapshot only when one was damaged again.
CorruptAgain ==
    /\ call.retried =>
          \/ call.damaged
          \/ \A s \in Shards : snapshots[s].kind # "corrupt"
    /\ call.at = "corrupt" /\ call.retried => call.damaged

\* A chat that was there when the call began is in the snapshots searched.
ChatIsThere ==
    call.at # "idle" /\ call.existed =>
        /\ holder \in Shards
        /\ call.at = "find" => snapshots[holder].has

DatabaseInv ==
    /\ Typed /\ HandlesInUse /\ CorruptAgain /\ ChatIsThere
    /\ FailsForAReason /\ EmptyIsTrue
-----------------------------------------------------------------------------
\* What opening shards does to the snapshots: it leaves none corrupt that was
\* not, and if it succeeds, the shards opened hold what their sources do.
LEMMA OpensFacts ==
    ASSUME Typed, NEW ss \in SUBSET Shards, NEW after, NEW ok,
           Opens(ss, after, ok)
    PROVE  /\ after \in [Shards -> Snapshot]
           /\ \A s \in Shards : after[s].kind = "corrupt"
                                => snapshots[s].kind = "corrupt"
           /\ ok => \A s \in ss : after[s].has = (holder = s)
  <1> DEFINE stale == {s \in ss : ~Fresh(s)}
  <1>1. PICK kinds \in [stale -> {"clean", "unused", "corrupt"}] :
          /\ ok = (\A s \in stale : Usable(kinds[s]))
          /\ after = [s \in Shards |->
                IF s \notin stale THEN snapshots[s]
                ELSE IF Usable(kinds[s])
                     THEN [kind |-> kinds[s], has |-> SourceOf(s).has,
                           upto |-> SourceOf(s).upto]
                     ELSE Missing]
    BY DEF Opens
  <1>2. \A s \in Shards : /\ SourceOf(s).has = (holder = s)
                          /\ SourceOf(s).has \in BOOLEAN
                          /\ SourceOf(s).upto \in Nat
    BY DEF SourceOf, Typed
  <1>3. \A s \in ss \ stale : snapshots[s].has = SourceOf(s).has
    BY DEF Fresh, SourceOf
  <1>4. Missing \in Snapshot /\ Missing.kind # "corrupt"
    BY DEF Missing, Snapshot, Kinds
  <1>5. \A s \in stale : Usable(kinds[s]) => kinds[s] \in Kinds \ {"corrupt"}
    BY <1>1 DEF Usable, Kinds
  <1> HIDE DEF stale
  <1>6. stale \subseteq ss
    BY DEF stale
  <1>7. \A s \in Shards : after[s] =
            IF s \notin stale THEN snapshots[s]
            ELSE IF Usable(kinds[s])
                 THEN [kind |-> kinds[s], has |-> SourceOf(s).has,
                       upto |-> SourceOf(s).upto]
                 ELSE Missing
    BY <1>1
  <1>8. ASSUME NEW s \in Shards
        PROVE  /\ after[s] \in Snapshot
               /\ after[s].kind = "corrupt" => snapshots[s].kind = "corrupt"
    <2>1. CASE s \notin stale
      BY <1>7, <2>1 DEF Typed
    <2>2. CASE s \in stale /\ Usable(kinds[s])
      <3> DEFINE new == [kind |-> kinds[s], has |-> SourceOf(s).has,
                         upto |-> SourceOf(s).upto]
      <3>1. kinds[s] \in Kinds \ {"corrupt"}
        BY <1>5, <2>2
      <3>2. new \in Snapshot /\ new.kind # "corrupt"
        BY <1>2, <3>1 DEF Snapshot
      <3>3. after[s] = new
        BY <1>7, <2>2
      <3>4. QED
        BY <3>2, <3>3
    <2>3. CASE s \in stale /\ ~Usable(kinds[s])
      BY <1>4, <1>7, <2>3
    <2>4. QED
      BY <2>1, <2>2, <2>3
  <1>9. after \in [Shards -> Snapshot]
    BY <1>1, <1>8
  <1>10. ok => \A s \in stale : Usable(kinds[s])
    BY <1>1
  <1>11. ASSUME ok, NEW s \in ss
         PROVE  after[s].has = (holder = s)
    <2>1. s \in Shards /\ SourceOf(s).has = (holder = s)
      BY <1>2
    <2>2. CASE s \notin stale
      BY <1>3, <1>7, <2>1, <2>2
    <2>3. CASE s \in stale
      <3>1. after[s] = [kind |-> kinds[s], has |-> SourceOf(s).has,
                        upto |-> SourceOf(s).upto]
        BY <1>7, <1>10, <1>11, <2>1, <2>3
      <3>2. after[s].has = SourceOf(s).has
        BY <3>1
      <3>3. QED
        BY <2>1, <3>2
    <2>4. QED
      BY <2>2, <2>3
  <1>12. QED
    BY <1>8, <1>9, <1>11

\* Moving a call to another place changes nothing else of it.
LEMMA CallGoesFacts ==
    ASSUME Typed, NEW at \in Places, CallGoes(at)
    PROVE  /\ call' \in CallTypes /\ call'.at = at
           /\ call'.name = call.name /\ call'.retried = call.retried
           /\ call'.rewrites = call.rewrites
           /\ call'.existed = call.existed /\ call'.damaged = call.damaged
  <1>1. call \in CallTypes /\ call' = [call EXCEPT !.at = at]
    BY DEF Typed, CallGoes
  <1>2. call' \in CallTypes
    BY <1>1 DEF CallTypes
  <1>3. call'.at = at
    BY <1>1 DEF CallTypes
  <1>4. call'.name = call.name
    BY <1>1 DEF CallTypes
  <1>5. call'.retried = call.retried
    BY <1>1 DEF CallTypes
  <1>6. call'.rewrites = call.rewrites
    BY <1>1 DEF CallTypes
  <1>7. call'.existed = call.existed
    BY <1>1 DEF CallTypes
  <1>8. call'.damaged = call.damaged
    BY <1>1 DEF CallTypes
  <1>9. QED
    BY <1>2, <1>3, <1>4, <1>5, <1>6, <1>7, <1>8
-----------------------------------------------------------------------------
LEMMA InvInit == DatabaseInit => DatabaseInv
  <1> SUFFICES ASSUME DatabaseInit PROVE DatabaseInv
    OBVIOUS
  <1> USE DEF DatabaseInit
  <1> DEFINE new == NewCall("get_messages")
  <1>0. new \in CallTypes /\ ~new.retried
    BY DEF NewCall, CallTypes, Places, Methods, Delays
  <1>01. call = [new EXCEPT !.at = "idle"]
    OBVIOUS
  <1> HIDE DEF new
  <1>02. call \in CallTypes
    BY <1>0, <1>01 DEF CallTypes, Places
  <1>03. call.at = "idle"
    BY <1>0, <1>01 DEF CallTypes
  <1>04. call.retried = new.retried
    BY <1>0, <1>01 DEF CallTypes
  <1>1. call \in CallTypes /\ call.at = "idle" /\ ~call.retried
    BY <1>0, <1>02, <1>03, <1>04
  <1>2. Missing \in Snapshot
    BY DEF Missing, Snapshot, Kinds
  <1>3. Typed
    BY <1>1, <1>2 DEF Typed
  <1>4. QED
    BY <1>1, <1>3 DEF DatabaseInv, HandlesInUse, CorruptAgain, ChatIsThere,
       FailsForAReason, EmptyIsTrue

\* The steps of the environment leave the call where it is.
LEMMA EnvironmentSteps ==
    ASSUME DatabaseInv,
           \/ WechatWrites \/ WechatMovesChat
           \/ \E s \in Shards : SnapshotDamaged(s)
    PROVE  DatabaseInv'
  <1> USE DEF DatabaseInv, HandlesInUse, CorruptAgain, ChatIsThere,
          FailsForAReason, EmptyIsTrue
  <1>1. CASE WechatWrites
    BY <1>1, DatabaseAssumption DEF WechatWrites, Typed, faults
  <1>2. CASE WechatMovesChat
    BY <1>2, DatabaseAssumption DEF WechatMovesChat, Typed
  <1>3. ASSUME NEW s \in Shards, SnapshotDamaged(s) PROVE DatabaseInv'
    <2> USE <1>3 DEF SnapshotDamaged
    <2>0. call \in CallTypes /\ call' = [call EXCEPT !.damaged = call.retried]
      BY DEF Typed
    <2>1. call' \in CallTypes
      BY <2>0 DEF CallTypes
    <2>2. call'.at = call.at
      BY <2>0 DEF CallTypes
    <2>3. call'.name = call.name
      BY <2>0 DEF CallTypes
    <2>4. call'.retried = call.retried
      BY <2>0 DEF CallTypes
    <2>5. call'.rewrites = call.rewrites
      BY <2>0 DEF CallTypes
    <2>6. call'.existed = call.existed
      BY <2>0 DEF CallTypes
    <2>7. call'.damaged = call.retried
      BY <2>0 DEF CallTypes
    <2>8. snapshots \in [Shards -> Snapshot]
      BY DEF Typed
    <2>9. [snapshots[s] EXCEPT !.kind = "corrupt"] \in Snapshot
      BY <2>8 DEF Snapshot, Kinds
    <2>10. [snapshots[s] EXCEPT !.kind = "corrupt"].has = snapshots[s].has
      BY <2>8 DEF Snapshot
    <2>11. snapshots' = [snapshots EXCEPT
                           ![s] = [snapshots[s] EXCEPT !.kind = "corrupt"]]
      OBVIOUS
    <2>12. snapshots' \in [Shards -> Snapshot]
      BY <2>8, <2>9, <2>11
    <2>13. \A t \in Shards : snapshots'[t].has = snapshots[t].has
      BY <2>8, <2>10, <2>11
    <2>14. Typed'
      BY <2>1, <2>12 DEF Typed
    <2>15. HandlesInUse' /\ FailsForAReason' /\ EmptyIsTrue'
      BY <2>2, <2>3, <2>4, <2>5, <2>6, <2>7
    <2>16. CorruptAgain'
      BY <2>4, <2>7
    <2>17. ChatIsThere'
      BY <2>2, <2>6, <2>13
    <2>18. QED
      BY <2>14, <2>15, <2>16, <2>17
  <1>4. QED
    BY <1>1, <1>2, <1>3

\* A new call has retried nothing, and notes whether the chat is there.
LEMMA BeginStep ==
    ASSUME DatabaseInv, NEW name \in Methods, Begin(name)
    PROVE  DatabaseInv'
  <1> USE DEF DatabaseInv, HandlesInUse, CorruptAgain, ChatIsThere,
          FailsForAReason, EmptyIsTrue
  <1>1. /\ call' \in CallTypes /\ call'.at = "lookup" /\ ~call'.retried
        /\ call'.existed = (holder # NoShard)
    BY DEF Begin, NewCall, CallTypes, Places, Methods, Delays
  <1>2. UNCHANGED <<written, holder, snapshots, handles, cached>>
        /\ call.at = "idle"
    BY DEF Begin
  <1>3. Typed'
    BY <1>1, <1>2 DEF Typed
  <1>4. QED
    BY <1>1, <1>2, <1>3 DEF Typed

\* Opening the cached shard, or all of them, leaves no new corrupt snapshot;
\* once all are open, the chat that was there is in one of them.
LEMMA OpeningSteps ==
    ASSUME DatabaseInv, TryCached \/ OpenAll
    PROVE  DatabaseInv'
  <1> USE DEF DatabaseInv, HandlesInUse, CorruptAgain, ChatIsThere,
          FailsForAReason, EmptyIsTrue
  <1>1. Typed
    OBVIOUS
  <1>2. CASE TryCached /\ cached = NoShard
    <2>1. CallGoes("scan") /\ call.at = "lookup"
          /\ UNCHANGED <<written, holder, snapshots, handles, cached>>
      BY <1>2 DEF TryCached
    <2>2. QED
      BY <2>1, CallGoesFacts DEF Typed, Places
  <1>3. CASE TryCached /\ cached # NoShard
    <2>1. PICK ok \in BOOLEAN :
            /\ Opens({cached}, snapshots', ok)
            /\ \/ /\ CallGoes("read") /\ cached' = cached
                  /\ handles' = handles \cup {cached}
               \/ /\ CallGoes("scan") /\ cached' = NoShard
                  /\ handles' = handles
      BY <1>3 DEF TryCached, AfterMiss
    <2>2. {cached} \in SUBSET Shards /\ call.at = "lookup"
          /\ UNCHANGED <<written, holder>> /\ handles = {}
      BY <1>3 DEF TryCached, Typed
    <2>3. /\ snapshots' \in [Shards -> Snapshot]
          /\ \A s \in Shards : snapshots'[s].kind = "corrupt"
                               => snapshots[s].kind = "corrupt"
      BY <1>1, <2>1, <2>2, OpensFacts
    <2>4. /\ call' \in CallTypes /\ call'.at \in {"read", "scan"}
          /\ call'.at = "read" => CallGoes("read")
          /\ call'.name = call.name /\ call'.retried = call.retried
          /\ call'.rewrites = call.rewrites
          /\ call'.existed = call.existed /\ call'.damaged = call.damaged
      BY <1>1, <2>1, CallGoesFacts DEF Places
    <2>5. /\ call'.at = "read" => handles' = {cached} /\ cached' = cached
          /\ call'.at = "scan" => handles' = {} /\ cached' = NoShard
      BY <1>1, <2>1, <2>2, CallGoesFacts DEF Places
    <2>6. Typed'
      BY <2>2, <2>3, <2>4, <2>5 DEF Typed
    <2>7. QED
      BY <2>2, <2>3, <2>4, <2>5, <2>6
  <1>4. CASE OpenAll
    <2>1. PICK ok \in BOOLEAN :
            /\ Opens(Shards, snapshots', ok)
            /\ IF ok THEN CallGoes("find") /\ handles' = Shards
                     ELSE CallGoes("rewritten") /\ handles' = handles
      BY <1>4 DEF OpenAll
    <2>2. call.at = "scan" /\ UNCHANGED <<written, holder, cached>>
          /\ handles = {}
      BY <1>4 DEF OpenAll
    <2>3. /\ snapshots' \in [Shards -> Snapshot]
          /\ \A s \in Shards : snapshots'[s].kind = "corrupt"
                               => snapshots[s].kind = "corrupt"
          /\ ok => \A s \in Shards : snapshots'[s].has = (holder = s)
      BY <1>1, <2>1, OpensFacts
    <2>4. CASE ok
      <3>1. CallGoes("find") /\ handles' = Shards
        BY <2>1, <2>4
      <3>2. /\ call' \in CallTypes /\ call'.at = "find"
            /\ call'.name = call.name /\ call'.retried = call.retried
            /\ call'.rewrites = call.rewrites
            /\ call'.existed = call.existed /\ call'.damaged = call.damaged
        BY <1>1, <3>1, CallGoesFacts DEF Places
      <3>3. Typed'
        BY <2>2, <2>3, <3>1, <3>2 DEF Typed
      <3>4. QED
        BY <2>2, <2>3, <2>4, <3>1, <3>2, <3>3
    <2>5. CASE ~ok
      <3>1. CallGoes("rewritten") /\ handles' = handles
        BY <2>1, <2>5
      <3>2. /\ call' \in CallTypes /\ call'.at = "rewritten"
            /\ call'.name = call.name /\ call'.retried = call.retried
            /\ call'.rewrites = call.rewrites
            /\ call'.existed = call.existed /\ call'.damaged = call.damaged
        BY <1>1, <3>1, CallGoesFacts DEF Places
      <3>3. Typed'
        BY <2>2, <2>3, <3>1, <3>2 DEF Typed
      <3>4. QED
        BY <2>2, <2>3, <3>1, <3>2, <3>3
    <2>6. QED
      BY <2>4, <2>5
  <1>5. QED
    BY <1>2, <1>3, <1>4

\* The search and the read change no snapshot.  The search answers "nothing
\* there" when no snapshot holds the chat, and it was not there then.
LEMMA ReadingSteps ==
    ASSUME DatabaseInv, FindTable \/ Read
    PROVE  DatabaseInv'
  <1> USE DEF DatabaseInv, HandlesInUse, CorruptAgain, ChatIsThere,
          FailsForAReason, EmptyIsTrue
  <1>1. Typed
    OBVIOUS
  <1>2. ASSUME NEW at \in {"corrupt", "read", "none", "idle"}, CallGoes(at)
        PROVE  /\ call' \in CallTypes /\ call'.at = at
               /\ call'.name = call.name /\ call'.retried = call.retried
               /\ call'.rewrites = call.rewrites
               /\ call'.existed = call.existed /\ call'.damaged = call.damaged
    BY <1>1, <1>2, CallGoesFacts DEF Places
  <1>3. CASE FindTable
    <2>1. call.at = "find" /\ UNCHANGED <<written, holder, snapshots>>
      BY <1>3 DEF FindTable
    <2>2. CASE /\ \E s \in Shards : snapshots[s].kind = "corrupt"
               /\ CallGoes("corrupt") /\ handles' = {} /\ cached' = cached
      <3>1. Typed'
        BY <1>2, <2>1, <2>2 DEF Typed
      <3>2. QED
        BY <1>2, <2>1, <2>2, <3>1
    <2>3. CASE \E s \in Shards :
                 CallGoes("read") /\ handles' = Kept(s) /\ cached' = s
      <3>1. Typed'
        BY <1>2, <2>1, <2>3 DEF Typed, Kept
      <3>2. QED
        BY <1>2, <2>1, <2>3, <3>1 DEF Kept
    <2>4. CASE /\ \A s \in Shards : ~snapshots[s].has
               /\ CallGoes("none") /\ handles' = {} /\ cached' = cached
      <3>1. Typed'
        BY <1>2, <2>1, <2>4 DEF Typed
      <3>2. ~call.existed
        BY <2>1, <2>4
      <3>3. QED
        BY <1>2, <2>1, <2>4, <3>1, <3>2
    <2>5. QED
      BY <1>3, <2>2, <2>3, <2>4 DEF FindTable
  <1>4. CASE Read
    <2>1. /\ call.at = "read" /\ handles' = {}
          /\ UNCHANGED <<written, holder, snapshots, cached>>
          /\ IF snapshots[cached].kind = "corrupt"
             THEN CallGoes("corrupt") ELSE CallGoes("idle")
      BY <1>4 DEF Read
    <2>2. CASE snapshots[cached].kind = "corrupt"
      <3>1. Typed'
        BY <1>2, <2>1, <2>2 DEF Typed
      <3>2. QED
        BY <1>2, <2>1, <2>2, <3>1
    <2>3. CASE snapshots[cached].kind # "corrupt"
      <3>1. Typed'
        BY <1>2, <2>1, <2>3 DEF Typed
      <3>2. QED
        BY <1>2, <2>1, <2>3, <3>1
    <2>4. QED
      BY <2>2, <2>3
  <1>5. QED
    BY <1>3, <1>4

\* The one retry deletes every snapshot, as no handle is open; a call raises
\* when that was not enough, or when WeChat wrote through both delays.
LEMMA HandlingSteps ==
    ASSUME DatabaseInv, HandleCorruption \/ HandleRewrite \/ Return
    PROVE  DatabaseInv'
  <1> USE DEF DatabaseInv, HandlesInUse, CorruptAgain, ChatIsThere,
          FailsForAReason, EmptyIsTrue
  <1>1. Typed
    OBVIOUS
  <1>2. ASSUME NEW at \in {"raised", "none", "idle"}, CallGoes(at)
        PROVE  /\ call' \in CallTypes /\ call'.at = at
               /\ call'.name = call.name /\ call'.retried = call.retried
               /\ call'.rewrites = call.rewrites
               /\ call'.existed = call.existed /\ call'.damaged = call.damaged
    BY <1>1, <1>2, CallGoesFacts DEF Places
  <1>3. CASE HandleCorruption /\ call.retried
    <2>1. /\ call.at = "corrupt" /\ CallGoes("raised")
          /\ UNCHANGED <<written, holder, snapshots, handles, cached>>
      BY <1>3 DEF HandleCorruption
    <2>2. Typed'
      BY <1>2, <2>1 DEF Typed
    <2>3. QED
      BY <1>2, <1>3, <2>1, <2>2
  <1>4. CASE HandleCorruption /\ ~call.retried
    <2>0. /\ call \in CallTypes /\ call.at = "corrupt" /\ handles = {}
          /\ call' = [call EXCEPT !.at = "lookup", !.retried = TRUE]
          /\ snapshots' = [s \in Shards |->
                             IF s \in handles THEN snapshots[s] ELSE Missing]
          /\ UNCHANGED <<written, holder, handles, cached>>
      BY <1>1, <1>4 DEF HandleCorruption, Typed
    <2>1. call' \in CallTypes
      BY <2>0 DEF CallTypes, Places
    <2>2. call'.at = "lookup"
      BY <2>0 DEF CallTypes
    <2>3. call'.existed = call.existed
      BY <2>0 DEF CallTypes
    <2>4. Missing \in Snapshot /\ Missing.kind # "corrupt"
      BY DEF Missing, Snapshot, Kinds
    <2>5. /\ snapshots' \in [Shards -> Snapshot]
          /\ \A s \in Shards : snapshots'[s].kind # "corrupt"
      BY <2>0, <2>4
    <2>6. Typed'
      BY <1>1, <2>0, <2>1, <2>5 DEF Typed
    <2>7. QED
      BY <2>0, <2>2, <2>3, <2>5, <2>6
  <1>5. CASE HandleRewrite /\ call.rewrites < Delays
    <2>0. /\ call \in CallTypes /\ call.at = "rewritten"
          /\ call' = [call EXCEPT !.at = "lookup",
                                 !.rewrites = call.rewrites + 1]
          /\ UNCHANGED <<written, holder, snapshots, handles, cached>>
      BY <1>1, <1>5 DEF HandleRewrite, Typed
    <2>1. call.rewrites \in 0..Delays /\ call.rewrites + 1 \in 0..Delays
      BY <1>5, <2>0 DEF CallTypes, Delays
    <2>2. call' \in CallTypes
      BY <2>0, <2>1 DEF CallTypes, Places
    <2>3. call'.at = "lookup"
      BY <2>0 DEF CallTypes
    <2>4. call'.existed = call.existed
      BY <2>0 DEF CallTypes
    <2>5. call'.retried = call.retried
      BY <2>0 DEF CallTypes
    <2>6. call'.damaged = call.damaged
      BY <2>0 DEF CallTypes
    <2>7. Typed'
      BY <1>1, <2>0, <2>2 DEF Typed
    <2>8. QED
      BY <2>0, <2>3, <2>4, <2>5, <2>6, <2>7
  <1>6. CASE HandleRewrite /\ ~(call.rewrites < Delays)
    <2>1. /\ call.at = "rewritten" /\ call.rewrites = Delays
          /\ UNCHANGED <<written, holder, snapshots, handles, cached>>
          /\ IF call.name = "get_new_messages" THEN CallGoes("none")
                                               ELSE CallGoes("raised")
      BY <1>1, <1>6 DEF HandleRewrite, GivesUpQuietly, Typed, CallTypes, Delays
    <2>2. CASE call.name = "get_new_messages"
      <3>1. Typed'
        BY <1>2, <2>1, <2>2 DEF Typed
      <3>2. QED
        BY <1>2, <2>1, <2>2, <3>1
    <2>3. CASE call.name # "get_new_messages"
      <3>1. Typed'
        BY <1>2, <2>1, <2>3 DEF Typed
      <3>2. QED
        BY <1>2, <2>1, <2>3, <3>1
    <2>4. QED
      BY <2>2, <2>3
  <1>7. CASE Return
    <2>1. /\ call.at \in {"none", "raised"} /\ CallGoes("idle")
          /\ UNCHANGED <<written, holder, snapshots, handles, cached>>
      BY <1>7 DEF Return
    <2>2. Typed'
      BY <1>2, <2>1 DEF Typed
    <2>3. QED
      BY <1>2, <2>1, <2>2
  <1>8. QED
    BY <1>3, <1>4, <1>5, <1>6, <1>7
-----------------------------------------------------------------------------
LEMMA InvStep == DatabaseInv /\ [DatabaseNext]_databaseVars => DatabaseInv'
  <1> SUFFICES ASSUME DatabaseInv, [DatabaseNext]_databaseVars
               PROVE  DatabaseInv'
    OBVIOUS
  <1>1. CASE UNCHANGED databaseVars
    BY <1>1 DEF databaseVars, DatabaseInv, Typed, HandlesInUse, CorruptAgain,
       ChatIsThere, FailsForAReason, EmptyIsTrue
  <1>2. CASE DatabaseNext
    BY <1>2, EnvironmentSteps, BeginStep, OpeningSteps, ReadingSteps,
       HandlingSteps DEF DatabaseNext, CallStep
  <1>3. QED
    BY <1>1, <1>2

LEMMA InvAnswers == DatabaseInv => AnswersAreTrue
  BY DEF DatabaseInv, HandlesInUse, AnswersAreTrue, HandlesClosed

\* The answers of the wrapper are true with any number of shards, of messages
\* and of faults: no handle is left behind, a call raises only when a snapshot
\* was damaged again after the retry or when WeChat wrote through all delays of
\* a call that is no poll, and only a chat that was not there when the call
\* began is said to be empty.
THEOREM DatabaseAnswersAreTrue == DatabaseSpec => []AnswersAreTrue
  <1>1. DatabaseSpec => []DatabaseInv
    BY InvInit, InvStep, PTL DEF DatabaseSpec
  <1>2. QED
    BY <1>1, InvAnswers, PTL

-----------------------------------------------------------------------------
(* The rows that come.                                                     *)


Parts == Replies \X {"text", "image"}

\* What is known of the account and saved, and of whom it can be mistaken: the
\* username of a member is learned with the id of the member only.
IdentityInv ==
    /\ selfIds = {Marker} \cup savedIds /\ selfNames = savedNames
    /\ mimics \subseteq Members
    /\ selfIds \cap Members \subseteq mimics
    /\ selfNames \cap Members \subseteq selfIds
    /\ learned \subseteq {Marker, OtherId, Me, Alias}
    /\ learned \cap {Marker, OtherId} \subseteq selfIds
    /\ learned \cap {Me, Alias} \subseteq selfNames \cup {Me}

\* The text of the part will come without its first word.
Marked(o) == o[2] = "text" /\ sent[o[1]].text \in WordTexts /\ chatKind = "group"

\* The channel waits for exactly what is owed; a part is owed until its row
\* comes, but for those that cannot be recognized.
OwedInv ==
    /\ Young = owed
    /\ \A o \in onWay \cup pending :
         sent[o[1]] # NotYet /\ o[2] \in PartsOf(sent[o[1]])
    /\ \A o \in owed : o \in onWay \/ Marked(o)
    /\ \A r \in onTimeline : sent[r] # NotYet
    /\ sending # Nothing => sent[sending] # NotYet

IntakeInv ==
    /\ IntakeTypeOK /\ IdentityInv /\ OwedInv
    /\ MembersHeard /\ AccountNotOverheard /\ EchoConfirmed /\ NoReplyLoop

-----------------------------------------------------------------------------
\* The constants of the model are different from each other.
LEMMA Different ==
    /\ Replies \subseteq Nat /\ 0 \notin Replies
    /\ WordTexts \subseteq Texts /\ Captions \subseteq Texts
    /\ Picture \notin Texts /\ Cut \notin Texts
    /\ \A m \in Members : m \notin {Me, Alias, NoName, Word, Marker, OtherId}
    /\ ChatKinds \subseteq {"group", "friend", "filehelper"}
BY IntakeAssumption

\* The parts of a reply.
LEMMA FormParts ==
    ASSUME NEW form \in Forms
    PROVE  /\ PartsOf(form) \subseteq {"text", "image"}
           /\ "image" \in PartsOf(form) => form.kind # "text"
           /\ "text" \in PartsOf(form) => form.kind # "image" /\ form.text \in Texts
           /\ form # NotYet /\ form.kind \in {"text", "both", "image"}
BY Different DEF Forms, PartsOf, NotYet

\* The rows that may come.
LEMMA RowFacts ==
    ASSUME NEW author \in Members \cup {Me}, NEW text, NEW kind,
           NEW row \in RowsOf(author, text, kind)
    PROVE  /\ row.author = author /\ row.text = text /\ row.kind = kind
           /\ author # Me => /\ row.id = author /\ row.name \in {author, NoName}
                             /\ chatKind = "group" => row.head \in {author, NoName}
                             /\ row.head \in {author, NoName, Word}
           /\ author = Me => /\ row.id \in {Marker, OtherId}
                             /\ row.name \in {Me, Alias, NoName}
                             /\ row.head \in {Me, Word, NoName}
           /\ author = Me /\ kind = "text" => (row.head = Word <=> text \in WordTexts)
<1>1. PICK i \in IdentitiesOf(author), head \in HeadsOf(author, text, kind) :
        row = Row(author, i[1], i[2], head, text, kind)
  BY DEF RowsOf
<1>2. author = Me => i \in {<<Marker, Me>>, <<Marker, Alias>>, <<OtherId, Alias>>,
                            <<OtherId, NoName>>}
  BY DEF IdentitiesOf
<1>3. author # Me => i \in {<<author, author>>, <<author, NoName>>}
  BY DEF IdentitiesOf
<1>4. /\ author = Me => head \in {Me, Word, NoName}
      /\ author # Me => head \in {author, Word, NoName}
      /\ author # Me /\ chatKind = "group" => head \in {author, NoName}
      /\ author = Me /\ kind = "text" => (head = Word <=> text \in WordTexts)
  BY DEF HeadsOf, Me, Word, NoName
<1> QED BY <1>1, <1>2, <1>3, <1>4 DEF Row

\* The account is known by what was learned.
LEMMA KnownIsSelf ==
    ASSUME IdentityInv, NEW row, row.id \in {Marker, OtherId},
           row.name \in {Me, Alias, NoName}, KnownIdentity(row)
    PROVE  IsSelf(row)
<1>1. row.id \in learned => row.id \in selfIds
  BY DEF IdentityInv
<1>2. row.name \in learned => row.name \in {Me} \cup selfNames
  BY DEF IdentityInv, Me, Alias, NoName, Marker, OtherId
<1> QED BY <1>1, <1>2 DEF KnownIdentity, IsSelf, RawIsSelf, IsSelfMessage

\* A member who is taken for the account is a mimic.
LEMMA SelfIsMimic ==
    ASSUME IntakeTypeOK, IdentityInv, NEW row, NEW m \in Members, row.id = m,
           row.name \in {m, NoName}, row.head \in {m, NoName, Word}, IsSelf(row)
    PROVE  m \in mimics
<1>1. {NoName, Word} \cap ({Me} \cup selfNames) = {} /\ m # Me
  BY Different DEF IntakeTypeOK, Me, Alias, NoName, Word
<1>2. m \in selfIds \/ m \in selfNames
  BY <1>1 DEF IsSelf, RawIsSelf, IsSelfMessage
<1> QED BY <1>2 DEF IdentityInv

-----------------------------------------------------------------------------
\* What a row that comes may be: one that somebody types, or the row of the
\* first part that is on its way.
Comes(row, part) ==
    /\ row.author = Me => /\ row.id \in {Marker, OtherId}
                          /\ row.name \in {Me, Alias, NoName}
    /\ row.author # Me => /\ row.author \in Members /\ chatKind # "filehelper"
                          /\ row.id = row.author
                          /\ row.name \in {row.author, NoName}
                          /\ row.head \in {row.author, NoName, Word}
    /\ part # <<>> =>
         /\ part \in onWay /\ \A other \in onWay : part[1] <= other[1]
         /\ row.author = Me /\ row.kind = part[2]
         /\ part[2] = "text" =>
              /\ row.text = sent[part[1]].text
              /\ row.head = Word <=> row.text \in WordTexts

\* What the steps that bring a row do.
LEMMA RowsCome ==
    ASSUME IntakeInv, ReceiveEcho \/ ReceiveTyped
    PROVE  \E row, part : \E called \in BOOLEAN :
              Comes(row, part) /\ ReceiveRow(row, part, called)
<1>1. CASE ReceiveEcho
  <2>1. PICK part \in onWay, called \in Calls :
          /\ \A other \in onWay : part[1] <= other[1]
          /\ \E row \in RowsOf(Me, IF part[2] = "image" THEN Picture
                                   ELSE sent[part[1]].text, part[2]) :
                ReceiveRow(row, part, called)
    BY <1>1 DEF ReceiveEcho
  <2>2. PICK row \in RowsOf(Me, IF part[2] = "image" THEN Picture
                                ELSE sent[part[1]].text, part[2]) :
          ReceiveRow(row, part, called)
    BY <2>1
  <2>3. part \in Parts /\ called \in BOOLEAN
    BY DEF IntakeInv, IntakeTypeOK, Parts, Calls
  <2>4. Comes(row, part)
    BY <2>1, <2>3, RowFacts DEF Comes, Parts
  <2> QED BY <2>2, <2>3, <2>4
<1>2. CASE ReceiveTyped
  <2>1. PICK author \in Authors : \E row \in TypedRows(author) : ReceiveRow(row, <<>>, TRUE)
    BY <1>2 DEF ReceiveTyped
  <2>2. PICK row \in TypedRows(author) : ReceiveRow(row, <<>>, TRUE)
    BY <2>1
  <2>3. /\ author \in Members \cup {Me}
        /\ author # Me => chatKind # "filehelper"
        /\ author # Me => author \in Members
    BY DEF Authors
  <2>4. \E text, kind : row \in RowsOf(author, text, kind)
    BY <2>2 DEF TypedRows
  <2>5. Comes(row, <<>>)
    BY <2>3, <2>4, RowFacts DEF Comes
  <2> QED BY <2>2, <2>5
<1> QED BY <1>1, <1>2

\* What is pending and young is what is owed, so a row is taken for an echo
\* exactly if it equals a part that is owed.
LEMMA EchoIsOwed ==
    ASSUME IntakeInv, NEW row
    PROVE  {p \in Young : Matches(p, row)} = {o \in owed : Equals(o, row)}
BY DEF IntakeInv, OwedInv, Matches, Equals

\* The part of a row that is recognized is the first one that could be.
LEMMA PartIsFirst ==
    ASSUME IntakeInv, NEW row, NEW part, Comes(row, part),
           part \in {o \in owed : Equals(o, row)}
    PROVE  First({o \in owed : Equals(o, row)}) = {part}
<1> DEFINE S == {o \in owed : Equals(o, row)}
<1>1. /\ part \in Parts /\ part # <<>> /\ S \subseteq Parts
      /\ Replies \subseteq Nat
  BY Different DEF IntakeInv, IntakeTypeOK, Parts
<1>2. /\ part \in onWay /\ \A other \in onWay : part[1] <= other[1]
      /\ row.author = Me /\ row.kind = part[2]
  BY <1>1 DEF Comes
<1>3. ASSUME NEW o \in S
      PROVE  part[1] <= o[1] /\ (o[1] <= part[1] => o = part)
  <2>1. o[2] = part[2] /\ o \in owed
    BY <1>2 DEF Equals
  <2>2. o \in onWay \/ Marked(o)
    BY <2>1 DEF IntakeInv, OwedInv
  <2>3. ~Marked(o)
    <3> SUFFICES ASSUME Marked(o) PROVE FALSE
      OBVIOUS
    <3>1. /\ part[2] = "text" /\ sent[o[1]].text \in WordTexts /\ chatKind = "group"
          /\ row.kind = "text" /\ row.text = sent[part[1]].text
          /\ row.text \in WordTexts => row.head = Word
      BY <1>1, <1>2, <2>1 DEF Marked, Comes
    <3>2. sent[o[1]].text = Content(row) /\ sent[part[1]].text = Content(row)
      BY <3>1 DEF Equals
    <3>3. Content(row) = Cut
      BY <3>1, <3>2 DEF Content
    <3>4. Cut \notin WordTexts
      BY Different
    <3> QED BY <3>1, <3>2, <3>3, <3>4
  <2>4. part[1] <= o[1]
    BY <1>2, <2>2, <2>3
  <2>5. /\ part \in Replies \X {"text", "image"} /\ o \in Replies \X {"text", "image"}
        /\ part[1] \in Nat /\ o[1] \in Nat
    BY <1>1 DEF Parts
  <2>6. o[1] = part[1] => o = part
    BY <2>1, <2>5
  <2> QED BY <2>4, <2>5, <2>6
<1>4. \A o \in S : o[1] \in Nat
  BY <1>1 DEF Parts
<1> QED BY <1>3, <1>4 DEF First

-----------------------------------------------------------------------------
\* The steps keep the invariant.  First a row that comes.
LEMMA ReceiveTypes ==
    ASSUME IntakeInv, NEW row, NEW part, NEW called \in BOOLEAN,
           Comes(row, part), ReceiveRow(row, part, called)
    PROVE  IntakeTypeOK' /\ IdentityInv'
<1> DEFINE S == {o \in owed : Equals(o, row)}
<1>1. /\ pending' = Young \ First(S) /\ old' = {} /\ owed' \subseteq owed
      /\ onWay' = onWay \ {part}
      /\ S # {} => Remember({<<row.id, row.name>>})
      /\ S = {} => UNCHANGED identities
      /\ learned' = IF S # {} /\ row.author = Me
                    THEN learned \cup ({row.id, row.name} \ {NoName}) ELSE learned
      /\ mimics' = IF S # {} THEN mimics \cup ({row.author} \ {Me}) ELSE mimics
      /\ UNCHANGED <<chatKind, sent, sending, onTimeline>>
  BY EchoIsOwed DEF ReceiveRow
<1>2. IntakeTypeOK /\ IdentityInv
  BY DEF IntakeInv
<1>3. /\ row.author = Me => row.id \in {Marker, OtherId} /\ row.name \in {Me, Alias, NoName}
      /\ row.author # Me => /\ row.author \in Members /\ row.id = row.author
                            /\ row.name \in {row.author, NoName}
  BY DEF Comes
<1>4. \A m \in Members : m \notin {Me, Alias, NoName, Word, Marker, OtherId}
  BY Different
<1> HIDE DEF S
<1>5. CASE S = {}
  <2>1. UNCHANGED <<selfIds, selfNames, savedIds, savedNames, learned, mimics>>
    BY <1>1, <1>5 DEF identities
  <2>2. IdentityInv'
    BY <1>2, <2>1 DEF IdentityInv
  <2>3. IntakeTypeOK'
    BY <1>1, <1>2, <2>1 DEF IntakeTypeOK, Young
  <2> QED BY <2>2, <2>3
<1>6. CASE S # {}
  <2>1. /\ selfIds' = selfIds \cup {row.id} /\ savedIds' = selfIds'
        /\ selfNames' = selfNames \cup ({row.name} \ {NoName}) /\ savedNames' = selfNames'
    BY <1>1, <1>6 DEF Remember
  <2>2. Marker \in selfIds
    BY <1>2 DEF IdentityInv
  <2>3. IntakeTypeOK'
    <3>1. /\ selfIds' \subseteq {Marker, OtherId} \cup Members
          /\ selfNames' \subseteq {Me, Alias} \cup Members
      BY <1>2, <1>3, <2>1 DEF IntakeTypeOK
    <3> QED BY <1>1, <1>2, <2>1, <3>1 DEF IntakeTypeOK, Young
  <2>4. CASE row.author = Me
    <3>1. /\ learned' = learned \cup ({row.id, row.name} \ {NoName}) /\ mimics' = mimics
      BY <1>1, <1>6, <2>4
    <3> QED BY <1>2, <1>3, <1>4, <2>1, <2>2, <2>3, <2>4, <3>1
            DEF IdentityInv, Me, Alias, NoName, Marker, OtherId
  <2>5. CASE row.author # Me
    <3>1. learned' = learned /\ mimics' = mimics \cup {row.author}
      BY <1>1, <1>6, <2>5
    <3> QED BY <1>2, <1>3, <1>4, <2>1, <2>2, <2>3, <2>5, <3>1 DEF IdentityInv
  <2> QED BY <2>3, <2>4, <2>5
<1> QED BY <1>5, <1>6

\* A row that comes takes from what is pending what it takes from what is owed.
LEMMA ReceiveOwed ==
    ASSUME IntakeInv, NEW row, NEW part, NEW called \in BOOLEAN,
           Comes(row, part), ReceiveRow(row, part, called)
    PROVE  OwedInv' /\ EchoConfirmed'
<1> DEFINE S == {o \in owed : Equals(o, row)}
<1>1. /\ pending' = Young \ First(S) /\ old' = {}
      /\ owed' = owed \ (IF part \in S THEN {part} ELSE First(S))
      /\ onWay' = onWay \ {part}
      /\ unconfirmed' = IF part \in S /\ S = {} THEN unconfirmed \cup {part}
                        ELSE unconfirmed
      /\ UNCHANGED <<chatKind, sent, sending, onTimeline>>
  BY EchoIsOwed DEF ReceiveRow
<1>2. OwedInv /\ unconfirmed = {} /\ owed \subseteq Parts
  BY DEF IntakeInv, EchoConfirmed, IntakeTypeOK, Parts
<1>3. part \in S => First(S) = {part}
  BY PartIsFirst
<1> HIDE DEF S
<1>4. Young' = owed'
  <2>1. pending' = owed \ First(S) /\ owed' = owed \ First(S) /\ old' = {}
    BY <1>1, <1>2, <1>3 DEF OwedInv
  <2> QED BY <2>1 DEF Young
<1>5. EchoConfirmed'
  BY <1>1, <1>2 DEF EchoConfirmed
<1>6. part \in owed' => Marked(part)
  <2> SUFFICES ASSUME part \in owed, part \notin S PROVE Marked(part)
    BY <1>1
  <2>1. /\ part \in Parts /\ part # <<>> /\ ~Equals(part, row)
    BY <1>2 DEF Parts, S
  <2>2. /\ row.kind = part[2] /\ part[2] = "text" /\ row.text = sent[part[1]].text
        /\ row.head = Word <=> row.text \in WordTexts
    BY <2>1 DEF Comes, Equals, Parts
  <2>3. Content(row) # sent[part[1]].text
    BY <2>1, <2>2 DEF Equals
  <2>4. chatKind = "group" /\ row.head = Word
    BY <2>2, <2>3 DEF Content
  <2> QED BY <2>2, <2>4 DEF Marked
<1>7. \A o \in owed' : o \in onWay' \/ Marked(o)
  BY <1>1, <1>2, <1>6 DEF OwedInv
<1>8. onWay' \subseteq onWay /\ pending' \subseteq pending
  BY <1>1 DEF Young
<1>9. \A o \in onWay' \cup pending' :
        sent'[o[1]] # NotYet /\ o[2] \in PartsOf(sent'[o[1]])
  BY <1>1, <1>2, <1>8 DEF OwedInv
<1> QED BY <1>1, <1>2, <1>4, <1>5, <1>7, <1>9 DEF OwedInv, Marked

\* A row of the account whose identity was learned is taken for one.
LEMMA KnownRow ==
    ASSUME IntakeInv, NEW row, NEW part, Comes(row, part), row.author = Me, KnownIdentity(row)
    PROVE  IsSelf(row)
BY KnownIsSelf DEF IntakeInv, Comes

\* A row of a member is taken for one of the account only if it is an echo or the
\* member is a mimic.
LEMMA MemberRow ==
    ASSUME IntakeInv, NEW row, NEW part, Comes(row, part), row.author # Me, IsSelf(row)
    PROVE  row.author \in mimics
BY SelfIsMimic DEF IntakeInv, Comes

\* The entry of a reply takes the row of each of its parts, if it is known to be
\* the account's.
LEMMA EntryTakes ==
    ASSUME IntakeInv, NEW row, NEW part, Comes(row, part), part # <<>>, IsSelf(row),
           part[1] \in onTimeline, Content(row) # Cut
    PROVE  Suppressed(row)
<1>1. /\ part \in onWay /\ part \in Parts /\ row.kind = part[2]
      /\ part[2] = "text" => row.text = sent[part[1]].text
  BY DEF Comes, IntakeInv, IntakeTypeOK, Parts
<1>2. /\ part[2] \in {"text", "image"} /\ part[1] \in Replies
      /\ part[2] \in PartsOf(sent[part[1]]) /\ sent[part[1]] \in Forms
  BY <1>1 DEF Parts, IntakeInv, OwedInv, IntakeTypeOK
<1>3. CASE part[2] = "image"
  BY <1>1, <1>2, <1>3, FormParts DEF Suppressed
<1>4. CASE part[2] = "text"
  <2>1. Content(row) = sent[part[1]].text
    BY <1>1, <1>4 DEF Content
  <2> QED BY <1>2, <1>4, <2>1, FormParts DEF Suppressed
<1> QED BY <1>2, <1>3, <1>4

\* A row that comes is taken for what it is: its author, and the reply it echoes.
LEMMA ReceiveVerdicts ==
    ASSUME IntakeInv, NEW row, NEW part, NEW called \in BOOLEAN,
           Comes(row, part), ReceiveRow(row, part, called)
    PROVE  MembersHeard' /\ AccountNotOverheard' /\ NoReplyLoop'
<1> DEFINE S == {o \in owed : Equals(o, row)}
           agent == ToAgent(row, S # {}, called)
<1>1. /\ mimics' = IF S # {} THEN mimics \cup ({row.author} \ {Me}) ELSE mimics
      /\ looped' = IF /\ part # <<>> /\ agent
                      /\ part[1] \in onTimeline /\ Content(row) # Cut
                      /\ KnownIdentity(row) \/ part \in S
                   THEN looped \cup {part[1]} ELSE looped
      /\ overheard' = IF /\ agent /\ row.author = Me /\ chatKind # "filehelper"
                         /\ KnownIdentity(row)
                      THEN overheard \cup {<<row.id, row.name>>} ELSE overheard
      /\ silenced' = IF row.author # Me /\ called /\ ~agent
                     THEN silenced \cup {row.author} ELSE silenced
  BY EchoIsOwed DEF ReceiveRow
<1>2. silenced \subseteq mimics /\ overheard = {} /\ looped = {}
  BY DEF IntakeInv, MembersHeard, AccountNotOverheard, NoReplyLoop
<1>3. /\ agent => S = {} /\ ~Suppressed(row)
      /\ agent /\ IsSelf(row) => chatKind = "filehelper"
      /\ called /\ ~agent => S # {} \/ IsSelf(row)
  BY DEF ToAgent, Suppressed
<1> HIDE DEF S, agent
<1>4. row.author # Me /\ called /\ ~agent => row.author \in mimics'
  BY <1>1, <1>3, MemberRow
<1>5. ~(agent /\ row.author = Me /\ chatKind # "filehelper" /\ KnownIdentity(row))
  BY <1>3, KnownRow
<1>6. ~(/\ part # <<>> /\ agent /\ part[1] \in onTimeline /\ Content(row) # Cut
        /\ KnownIdentity(row) \/ part \in S)
  <2> SUFFICES ASSUME part # <<>>, agent, part[1] \in onTimeline,
                      Content(row) # Cut, KnownIdentity(row)
               PROVE  FALSE
    BY <1>3
  <2>1. row.author = Me
    BY DEF Comes
  <2>2. IsSelf(row)
    BY <2>1, KnownRow
  <2> QED BY <1>3, <2>2, EntryTakes
<1>7. MembersHeard'
  <2>1. mimics \subseteq mimics'
    BY <1>1
  <2> QED BY <1>1, <1>2, <1>4, <2>1 DEF MembersHeard
<1>8. AccountNotOverheard' /\ NoReplyLoop'
  BY <1>1, <1>2, <1>5, <1>6 DEF AccountNotOverheard, NoReplyLoop
<1> QED BY <1>7, <1>8

\* Then the steps of the sender, the clock and the bridge.
LEMMA RecordKeeps ==
    ASSUME IntakeInv, NEW r \in Replies, NEW form \in Forms, Record(r, form)
    PROVE  IntakeTypeOK' /\ OwedInv'
<1>1. /\ sending' = r /\ sent' = [sent EXCEPT ![r] = form] /\ sent[r] = NotYet
      /\ pending' = pending \cup ({r} \X PartsOf(form))
      /\ onWay' = onWay \cup ({r} \X PartsOf(form))
      /\ owed' = owed \cup ({r} \X PartsOf(form))
      /\ onTimeline' = onTimeline \cup {r}
      /\ UNCHANGED <<chatKind, old, selfIds, selfNames, savedIds, savedNames>>
  BY DEF Record, PendingTypes, identities
<1>2. /\ IntakeTypeOK /\ OwedInv
      /\ sent \in [Replies -> Forms \cup {NotYet}]
      /\ onWay \subseteq Parts /\ pending \subseteq Parts /\ owed \subseteq Parts
      /\ old \subseteq pending
  BY DEF IntakeInv, IntakeTypeOK, Parts
<1>3. /\ PartsOf(form) \subseteq {"text", "image"} /\ form # NotYet
      /\ \A p \in {r} \X PartsOf(form) : p \in Parts /\ p[1] = r /\ p[2] \in PartsOf(form)
  BY FormParts DEF Parts
<1>4. /\ sent' \in [Replies -> Forms \cup {NotYet}] /\ sent'[r] = form
      /\ \A q \in Replies : q # r => sent'[q] = sent[q]
  BY <1>1, <1>2
<1>5. IntakeTypeOK'
  <2>1. onWay' \subseteq Parts /\ pending' \subseteq Parts /\ owed' \subseteq Parts
    BY <1>1, <1>2, <1>3
  <2> QED BY <1>1, <1>2, <1>4, <2>1 DEF IntakeTypeOK, Parts
<1>6. \A p \in onWay \cup pending : p \in Parts /\ p[1] # r /\ p[1] \in Replies
  BY <1>1, <1>2 DEF OwedInv, Parts
<1>7. Young' = owed'
  <2>1. old \cap ({r} \X PartsOf(form)) = {}
    BY <1>2, <1>3, <1>6
  <2> QED BY <1>1, <1>2, <2>1 DEF OwedInv, Young
<1>8. \A o \in onWay' \cup pending' :
        sent'[o[1]] # NotYet /\ o[2] \in PartsOf(sent'[o[1]])
  BY <1>1, <1>2, <1>3, <1>4, <1>6 DEF OwedInv
<1>9. \A o \in owed' : o \in onWay' \/ Marked(o)'
  <2>1. ASSUME NEW o \in owed, o \notin onWay PROVE Marked(o)'
    <3>1. Marked(o) /\ o \in pending
      BY <1>2, <2>1 DEF OwedInv, Young
    <3> QED BY <1>1, <1>4, <1>6, <3>1 DEF Marked
  <2> QED BY <1>1, <2>1
<1>10. /\ \A q \in onTimeline' : sent'[q] # NotYet
       /\ sending' # Nothing => sent'[sending'] # NotYet
  BY <1>1, <1>2, <1>3, <1>4 DEF OwedInv, IntakeTypeOK
<1> QED BY <1>5, <1>7, <1>8, <1>9, <1>10 DEF OwedInv

\* A reply that is given up takes with it what is owed of its text.
LEMMA FailKeeps ==
    ASSUME IntakeInv, SenderGivesUp
    PROVE  IntakeTypeOK' /\ OwedInv'
<1> DEFINE r == sending
           T == sent[r].text
<1>1. /\ sending' = Nothing
      /\ pending' = {p \in pending : sent[p[1]].text # T}
      /\ old' = old \cap pending'
      /\ onWay' = onWay \/ onWay' = onWay \ ({r} \X PartsOf(sent[r]))
      /\ owed' = {o \in owed : sent[o[1]].text # T}
      /\ onTimeline' = onTimeline \ {r}
      /\ UNCHANGED <<chatKind, sent, selfIds, selfNames, savedIds, savedNames>>
  BY DEF SenderGivesUp, identities
<1>2. IntakeTypeOK /\ OwedInv
  BY DEF IntakeInv
<1> HIDE DEF r, T
<1>3. IntakeTypeOK'
  BY <1>1, <1>2 DEF IntakeTypeOK
<1>4. Young' = owed'
  BY <1>1, <1>2 DEF OwedInv, Young
<1>5. \A o \in owed' : o \in onWay' \/ Marked(o)
  <2>1. ASSUME NEW o \in owed', o \in onWay PROVE o \in onWay'
    <3>1. sent[o[1]].text # T /\ o \in owed
      BY <1>1, <2>1
    <3>2. o \notin {r} \X PartsOf(sent[r])
      BY <3>1 DEF T
    <3> QED BY <1>1, <2>1, <3>2
  <2> QED BY <1>1, <1>2, <2>1 DEF OwedInv
<1> QED BY <1>1, <1>2, <1>3, <1>4, <1>5 DEF OwedInv, Marked

\* The rows that verify a reply are the account's, or outside the file helper
\* a member's.
LEMMA VerifyingFacts ==
    ASSUME NEW form, NEW ids \in Verifying(form), NEW i \in ids
    PROVE  \/ i \in IdentitiesOf(Me) /\ i[1] \in {Marker, OtherId}
              /\ i[2] \in {Me, Alias, NoName}
           \/ i[1] \in Members /\ i[2] \in {i[1], NoName} /\ i \notin IdentitiesOf(Me)
<1>1. PICK a \in Members \cup {Me} : i \in IdentitiesOf(a)
  <2>1. CASE form.kind = "text"
    BY <2>1 DEF Verifying, Writers, Authors
  <2>2. CASE form.kind # "text"
    BY <2>2 DEF Verifying, Authors
  <2> QED BY <2>1, <2>2
<1>2. CASE a = Me
  BY <1>1, <1>2 DEF IdentitiesOf
<1>3. CASE a # Me
  <2>1. i \in {<<a, a>>, <<a, NoName>>} /\ a \in Members
    BY <1>1, <1>3 DEF IdentitiesOf
  <2>2. i[1] = a /\ i[2] \in {a, NoName}
    BY <2>1
  <2>3. a \notin {Marker, OtherId}
    BY <2>1, Different
  <2>4. \A j \in IdentitiesOf(Me) : j[1] \in {Marker, OtherId}
    BY DEF IdentitiesOf
  <2> QED BY <2>1, <2>2, <2>3, <2>4
<1> QED BY <1>2, <1>3

\* The end of a send leaves what is owed; whom it teaches the channel has sent
\* what verified it.
LEMMA SucceedKeeps ==
    ASSUME IntakeInv, SendSucceeds
    PROVE  /\ IntakeTypeOK' /\ OwedInv' /\ IdentityInv' /\ mimics \subseteq mimics'
           /\ UNCHANGED <<unconfirmed, looped, overheard, silenced>>
<1>1. IntakeTypeOK /\ OwedInv /\ IdentityInv
  BY DEF IntakeInv
<1>2. /\ sending' = Nothing
      /\ UNCHANGED <<chatKind, sent, onWay, pending, old, onTimeline, owed,
                     unconfirmed, looped, overheard, silenced>>
  BY DEF SendSucceeds
<1>3. OwedInv'
  BY <1>1, <1>2 DEF OwedInv, Young, Marked
<1>4. CASE UNCHANGED <<identities, learned, mimics>>
  <2>1. IntakeTypeOK' /\ IdentityInv'
    BY <1>1, <1>2, <1>4 DEF IntakeTypeOK, IdentityInv, identities
  <2> QED BY <1>2, <1>3, <1>4, <2>1
<1>5. CASE ~UNCHANGED <<identities, learned, mimics>>
  <2>1. PICK ids \in Verifying(sent[sending]) :
          LET own == ids \cap IdentitiesOf(Me) IN
             /\ Remember(ids)
             /\ learned' = learned \cup {i[1] : i \in own}
                                   \cup ({i[2] : i \in own} \ {NoName})
             /\ mimics' = mimics \cup {i[1] : i \in ids \ own}
    BY <1>5 DEF SendSucceeds
  <2> DEFINE own == ids \cap IdentitiesOf(Me)
  <2>2. /\ selfIds' = selfIds \cup {i[1] : i \in ids} /\ savedIds' = selfIds'
        /\ selfNames' = selfNames \cup ({i[2] : i \in ids} \ {NoName})
        /\ savedNames' = selfNames'
        /\ learned' = learned \cup {i[1] : i \in own}
                              \cup ({i[2] : i \in own} \ {NoName})
        /\ mimics' = mimics \cup {i[1] : i \in ids \ own}
    BY <2>1 DEF Remember
  <2>3. /\ \A i \in own : i[1] \in {Marker, OtherId} /\ i[2] \in {Me, Alias, NoName}
        /\ \A i \in ids \ own : i[1] \in Members /\ i[2] \in {i[1], NoName}
        /\ own \subseteq ids
    <3>1. ASSUME NEW i \in own
          PROVE  i[1] \in {Marker, OtherId} /\ i[2] \in {Me, Alias, NoName}
      BY <3>1, VerifyingFacts
    <3>2. ASSUME NEW i \in ids \ own
          PROVE  i[1] \in Members /\ i[2] \in {i[1], NoName}
      BY <3>2, VerifyingFacts
    <3> QED BY <3>1, <3>2
  <2>4. \A m \in Members : m \notin {Me, Alias, NoName, Word, Marker, OtherId}
    BY Different
  <2> HIDE DEF own
  <2>5. IntakeTypeOK'
    <3>1. /\ selfIds' \subseteq {Marker, OtherId} \cup Members
          /\ selfNames' \subseteq {Me, Alias} \cup Members
      BY <1>1, <2>2, <2>3 DEF IntakeTypeOK
    <3> QED BY <1>1, <1>2, <2>2, <3>1 DEF IntakeTypeOK
  <2>6. IdentityInv'
    BY <1>1, <2>2, <2>3, <2>4 DEF IdentityInv, Me, Alias, NoName, Marker, OtherId
  <2> QED BY <1>2, <1>3, <2>2, <2>5, <2>6
<1> QED BY <1>4, <1>5

\* A minute and a restart.
LEMMA OtherSteps ==
    ASSUME IntakeInv, MinutePasses \/ BridgeRestarts
    PROVE  IntakeTypeOK' /\ OwedInv' /\ IdentityInv'
<1>1. IntakeTypeOK /\ OwedInv /\ IdentityInv
  BY DEF IntakeInv
<1>2. CASE MinutePasses
  BY <1>1, <1>2 DEF MinutePasses, IntakeTypeOK, OwedInv, IdentityInv, Young, Marked,
                    identities, verdicts
<1>3. CASE BridgeRestarts
  <2>1. /\ sending' = Nothing /\ pending' = {} /\ old' = {} /\ onTimeline' = {}
        /\ owed' = {} /\ selfIds' = {Marker} \cup savedIds /\ selfNames' = savedNames
        /\ UNCHANGED <<chatKind, sent, onWay, savedIds, savedNames, mimics, learned>>
    BY <1>3 DEF BridgeRestarts, Loaded, verdicts
  <2>2. selfIds' = selfIds /\ selfNames' = selfNames
    BY <1>1, <2>1 DEF IdentityInv
  <2>3. IntakeTypeOK'
    BY <1>1, <2>1, <2>2 DEF IntakeTypeOK
  <2>4. OwedInv'
    BY <1>1, <2>1 DEF OwedInv, Young, Marked
  <2>5. IdentityInv'
    BY <1>1, <2>1, <2>2 DEF IdentityInv
  <2> QED BY <2>3, <2>4, <2>5
<1> QED BY <1>2, <1>3

\* The invariant holds of a channel that starts.
LEMMA IntakeInvInit ==
    IntakeInit => IntakeInv
<1> SUFFICES ASSUME IntakeInit PROVE IntakeInv
  OBVIOUS
<1>1. IntakeTypeOK
  BY DEF IntakeInit, IntakeTypeOK
<1>2. IdentityInv
  BY Different DEF IntakeInit, IdentityInv
<1>3. OwedInv
  BY DEF IntakeInit, OwedInv, Young, Nothing
<1> QED BY <1>1, <1>2, <1>3
        DEF IntakeInit, IntakeInv, MembersHeard, AccountNotOverheard, EchoConfirmed,
            NoReplyLoop

\* Every step of the channel keeps it.
LEMMA IntakeInvStep ==
    ASSUME IntakeInv, [IntakeNext]_intakeVars
    PROVE  IntakeInv'
<1> DEFINE Verdict == /\ MembersHeard /\ AccountNotOverheard
                      /\ EchoConfirmed /\ NoReplyLoop
<1>1. IntakeTypeOK /\ IdentityInv /\ OwedInv /\ Verdict
  BY DEF IntakeInv
<1>2. UNCHANGED verdicts => Verdict'
  BY <1>1 DEF verdicts, MembersHeard, AccountNotOverheard, EchoConfirmed, NoReplyLoop
<1>3. UNCHANGED <<identities, verdicts>> => IdentityInv'
  BY <1>1 DEF identities, verdicts, IdentityInv
<1>4. CASE \E r \in Replies, form \in Forms : Record(r, form)
  <2>1. UNCHANGED <<identities, verdicts>>
    BY <1>4 DEF Record
  <2> QED BY <1>2, <1>3, <1>4, <2>1, RecordKeeps DEF IntakeInv
<1>5. CASE SenderGivesUp
  <2>1. UNCHANGED <<identities, verdicts>>
    BY <1>5 DEF SenderGivesUp
  <2> QED BY <1>2, <1>3, <1>5, <2>1, FailKeeps DEF IntakeInv
<1>6. CASE MinutePasses \/ BridgeRestarts
  <2>1. UNCHANGED verdicts
    BY <1>6 DEF MinutePasses, BridgeRestarts
  <2> QED BY <1>2, <1>6, <2>1, OtherSteps DEF IntakeInv
<1>7. CASE ReceiveEcho \/ ReceiveTyped
  <2>1. PICK row, part : \E called \in BOOLEAN :
          Comes(row, part) /\ ReceiveRow(row, part, called)
    BY <1>7, RowsCome
  <2> QED BY <2>1, ReceiveTypes, ReceiveOwed, ReceiveVerdicts DEF IntakeInv
<1>8. CASE UNCHANGED intakeVars
  BY <1>1, <1>2, <1>3, <1>8
     DEF intakeVars, IntakeInv, IntakeTypeOK, OwedInv, Young, Marked, identities
<1>9. CASE SendSucceeds
  <2>1. Verdict'
    BY <1>1, <1>9, SucceedKeeps
       DEF MembersHeard, AccountNotOverheard, EchoConfirmed, NoReplyLoop
  <2> QED BY <1>9, <2>1, SucceedKeeps DEF IntakeInv
<1> QED BY <1>4, <1>5, <1>6, <1>7, <1>8, <1>9 DEF IntakeNext

\* What the channel waits for and whom it knows, in every reachable state.
THEOREM IntakeInvariance == IntakeSpec => []IntakeInv
<1> QED BY IntakeInvInit, IntakeInvStep, PTL DEF IntakeSpec

\* A page of a group's history shows the user's rows as theirs and no others.
LEMMA PageAgrees ==
    IntakeTypeOK /\ IdentityInv => HistoryAgrees
<1> SUFFICES ASSUME IntakeTypeOK, IdentityInv, chatKind = "group",
                    NEW author \in Authors, NEW row \in PageRows(author),
                    NEW other \in PageRows(author), other.id = row.id
             PROVE  /\ IsSelf(row) => HistoryIsSelf(row, other)
                    /\ HistoryIsSelf(row, other) /\ ~IsSelf(row) => author = Me
  BY DEF HistoryAgrees
<1>1. PICK i \in IdentitiesOf(author), h \in {NoName, author, Word} :
        row = Row(author, i[1], i[2], h, Picture, "text")
  BY DEF PageRows
<1>2. PICK g \in {NoName, author, Word} : other.head = g
  BY DEF PageRows, Row
<1>3. /\ row.id = i[1] /\ row.name = i[2] /\ row.head = h
      /\ row \in [author : {author}, id : {i[1]}, name : {i[2]}, head : {h},
                  text : {Picture}, kind : {"text"}]
  BY <1>1 DEF Row
<1>4. PICK n : HistoryIsSelf(row, other) = IsSelf([row EXCEPT !.name = n])
               /\ n = IF RawIsSelf(row) THEN Me
                      ELSE IF row.head # NoName THEN row.head
                      ELSE IF row.id \notin selfIds /\ other.head # NoName
                           THEN other.head ELSE row.name
  BY DEF HistoryIsSelf, HistoryRaw
<1> DEFINE new == [row EXCEPT !.name = n]
<1>5. new.id = row.id /\ new.name = n /\ new.head = row.head
  BY <1>3
<1> HIDE DEF new
<1>6. IsSelf(row) <=> RawIsSelf(row)
  BY DEF IsSelf, RawIsSelf, IsSelfMessage
<1>7. RawIsSelf(row) => IsSelf(new)
  BY <1>4, <1>5 DEF IsSelf, RawIsSelf, IsSelfMessage
<1>8. ASSUME author # Me, IsSelf(new), ~RawIsSelf(row)
      PROVE  FALSE
  <2>1. /\ author \in Members /\ row.id = author /\ row.name \in {author, NoName}
    BY <1>3, <1>8 DEF Authors, IdentitiesOf
  <2>2. /\ row.id \notin selfIds /\ row.name \notin {Me} \cup selfNames
        /\ row.head \notin {Me} \cup selfNames
    BY <1>8 DEF RawIsSelf, IsSelfMessage
  <2>3. author \notin selfNames
    <3>1. author \notin selfIds
      BY <2>1, <2>2
    <3> QED BY <2>1, <3>1 DEF IdentityInv
  <2>31. {NoName, Word} \cap ({Me} \cup selfNames) = {} /\ author # Me
    <3>1. selfNames \subseteq {Me, Alias} \cup Members
      BY DEF IntakeTypeOK
    <3> QED BY <2>1, <3>1, Different DEF Me, Alias, NoName, Word
  <2>4. n \notin {Me} \cup selfNames
    BY <1>2, <1>4, <1>8, <2>1, <2>2, <2>3, <2>31
  <2> QED BY <1>5, <1>8, <2>2, <2>4 DEF IsSelf, RawIsSelf, IsSelfMessage
<1> QED BY <1>4, <1>6, <1>7, <1>8 DEF new

\* _is_self_message, _remember_self_identity, _delivery_matches_rows and the
\* pages of history, with any members, replies and texts: whoever is not
\* heard has sent what equals a reply on its way or verified one, the account
\* is not overheard under an identity that was learned, from an echo or by a
\* verification, and a page never takes a member for it.
THEOREM AuthorsAlwaysKnown == IntakeSpec => []AuthorsAreKnown
<1>1. IntakeInv => AuthorsAreKnown
  BY PageAgrees DEF IntakeInv, AuthorsAreKnown
<1> QED BY <1>1, IntakeInvariance, PTL

\* _record_pending_outbound, _consume_pending_outbound and
\* _suppress_unmarked_delivery_echo: a row that is owed within a minute is
\* recognized as an echo, and the Agent gets no reply of the bridge but the
\* excused ones.
THEOREM RepliesAlwaysKnown == IntakeSpec => []RepliesAreKnown
<1>1. IntakeInv => RepliesAreKnown
  BY DEF IntakeInv, RepliesAreKnown
<1> QED BY <1>1, IntakeInvariance, PTL
=============================================================================
