--------------------------- MODULE DatabaseAccess ---------------------------
(***************************************************************************)
(* One call of the WeChat database (channels/wechat.py, the class          *)
(* _SerializedWeChatDb and _safe_message_connection).                      *)
(*                                                                         *)
(* WeChat keeps its messages in encrypted shards and goes on writing them. *)
(* Opening a shard decrypts it to a snapshot in the work directory, unless *)
(* the snapshot there is as new.  A snapshot may be damaged, and WeChat    *)
(* may write while it is made.  The RLock admits one call at a time, so    *)
(* there is one `call'; Windows deletes no file that has an open handle.   *)
(*                                                                         *)
(* External, modelled from how wechat.py uses it: the opening of a shard,  *)
(* the search for the table of the chat, the read and its closing of the   *)
(* connection, and the listener with its watermark.                        *)
(*                                                                         *)
(* A definition whose name ends in Bug is a mutant of the one after it.    *)
(***************************************************************************)
EXTENDS Naturals, FiniteSets

CONSTANTS Shards,
          NoShard,
          MaxWritten,  \* bound on the messages of the chat
          MaxMoves,    \* bound on WeChat's moves of the chat to another shard
          MaxDamages,  \* bound on the damage done to snapshots
          MaxReads,    \* bound on the calls of other threads than the listener
          MaxBroken    \* bound on snapshots broken while WeChat writes

ASSUME DatabaseAssumption ==
    /\ NoShard \notin Shards /\ IsFiniteSet(Shards)
    /\ {MaxWritten, MaxMoves, MaxDamages, MaxReads, MaxBroken} \subseteq Nat

Kinds == {"missing", "clean", "unused", "corrupt"}
Methods == {"get_new_messages", "get_messages"}
Delays == 2  \* the length of _CONCURRENT_REWRITE_DELAYS

VARIABLES
    written,    \* messages of the chat that WeChat has written
    holder,     \* the shard that holds the table of the chat, or NoShard
    snapshots,  \* the files of the work directory, and what they hold
    handles,    \* shards whose snapshot is open
    cached,     \* _agent_bridge_msg_conn_cache of the chat, or NoShard
    call,       \* the call under the lock: its place, method and retries
    watermark,  \* the messages that the listener has got
    moves, damages, reads, broken

databaseVars == <<written, holder, snapshots, handles, cached, call, watermark,
                  moves, damages, reads, broken>>
faults == <<moves, damages, reads, broken>>

Missing == [kind |-> "missing", has |-> FALSE, upto |-> 0]
NewCall(name) ==
    [at |-> "lookup", name |-> name, retried |-> FALSE, rewrites |-> 0,
     existed |-> holder # NoShard, damaged |-> FALSE]

DatabaseInit ==
    /\ written = 0 /\ holder = NoShard
    /\ snapshots = [s \in Shards |-> Missing]
    /\ handles = {} /\ cached = NoShard
    /\ call = [NewCall("get_messages") EXCEPT !.at = "idle"]
    /\ watermark = 0 /\ moves = 0 /\ damages = 0 /\ reads = 0
    /\ broken = 0

\* The environment: WeChat writes a message, moves the chat while nobody
\* reads, or a snapshot is damaged at any moment.
WechatWrites ==
    /\ written < MaxWritten /\ written' = written + 1
    /\ IF holder = NoShard THEN holder' \in Shards ELSE holder' = holder
    /\ UNCHANGED <<snapshots, handles, cached, call, watermark, faults>>

WechatMovesChat ==
    /\ call.at = "idle" /\ holder # NoShard /\ moves < MaxMoves
    /\ holder' \in Shards \ {holder} /\ moves' = moves + 1
    /\ UNCHANGED <<written, snapshots, handles, cached, call, watermark,
                   damages, reads, broken>>

SnapshotDamaged(s) ==
    /\ snapshots[s].kind \notin {"missing", "corrupt"} /\ damages < MaxDamages
    /\ snapshots' = [snapshots EXCEPT ![s].kind = "corrupt"]
    /\ damages' = damages + 1
    /\ call' = [call EXCEPT !.damaged = call.retried]
    /\ UNCHANGED <<written, holder, handles, cached, watermark, moves, reads,
                   broken>>

\* _check_merged_snapshot: unused pages do no harm, any other issue does.
UsableBug(kind) == TRUE
Usable(kind) == kind \in {"clean", "unused"}

SourceOf(s) == [has |-> holder = s, upto |-> IF holder = s THEN written ELSE 0]
Fresh(s) ==
    /\ snapshots[s].kind # "missing"
    /\ [has |-> snapshots[s].has, upto |-> snapshots[s].upto] = SourceOf(s)

\* Opening the shards `ss' leaves the snapshots `after'.  A stale one is made
\* anew, which needs its file not to be open.  `ok' is FALSE when a new one is
\* not usable: the RuntimeError with _CONCURRENT_REWRITE_MARKER.
Opens(ss, after, ok) ==
    LET stale == {s \in ss : ~Fresh(s)} IN
    \E kinds \in [stale -> {"clean", "unused", "corrupt"}] :
       LET bad == {s \in stale : kinds[s] = "corrupt"} IN
       /\ stale \cap handles = {}
       /\ broken + Cardinality(bad) <= MaxBroken
       /\ broken' = broken + Cardinality(bad)
       /\ ok = (\A s \in stale : Usable(kinds[s]))
       /\ after = [s \in Shards |->
             IF s \notin stale THEN snapshots[s]
             ELSE IF Usable(kinds[s])
                  THEN [kind |-> kinds[s], has |-> SourceOf(s).has,
                        upto |-> SourceOf(s).upto]
                  ELSE Missing]

CallGoes(at) == call' = [call EXCEPT !.at = at]

\* __getattr__'s serialized: a thread takes the lock and calls a method.
Begin(name) ==
    /\ call.at = "idle" /\ call' = NewCall(name)
    /\ IF name = "get_new_messages" THEN reads' = reads
       ELSE reads < MaxReads /\ reads' = reads + 1
    /\ UNCHANGED <<written, holder, snapshots, handles, cached, watermark,
                   moves, damages, broken>>

\* The cached shard is tried first; whatever goes wrong with it, the cache is
\* dropped and every shard is searched.
AfterMiss == "scan"
TryCached ==
    /\ call.at = "lookup"
    /\ IF cached = NoShard
       THEN CallGoes("scan") /\ UNCHANGED <<snapshots, handles, cached, broken>>
       ELSE \E ok \in BOOLEAN :
            /\ Opens({cached}, snapshots', ok)
            /\ IF ok /\ snapshots'[cached].has
                  /\ snapshots'[cached].kind # "corrupt"
               THEN /\ CallGoes("read")
                    /\ handles' = handles \cup {cached} /\ cached' = cached
               ELSE CallGoes(AfterMiss) /\ handles' = handles /\ cached' = NoShard
    /\ UNCHANGED <<written, holder, watermark, moves, damages, reads>>

\* Every shard is opened; those opened before one that fails are dropped.
OpenAll ==
    /\ call.at = "scan"
    /\ \E ok \in BOOLEAN :
          /\ Opens(Shards, snapshots', ok)
          /\ IF ok THEN CallGoes("find") /\ handles' = Shards
                   ELSE CallGoes("rewritten") /\ handles' = handles
    /\ UNCHANGED <<written, holder, cached, watermark, moves, damages, reads>>

\* The connections that stay open once `selected' has the table.
KeptBug(selected) == Shards
Kept(selected) == {selected}

\* _find_msg_table looks at one shard after the other until one has the table.
FindTable ==
    /\ call.at = "find"
    /\ \/ /\ \E s \in Shards : snapshots[s].kind = "corrupt"
          /\ CallGoes("corrupt") /\ handles' = {} /\ cached' = cached
       \/ \E s \in Shards :
          /\ snapshots[s].has /\ snapshots[s].kind # "corrupt"
          /\ CallGoes("read") /\ handles' = Kept(s) /\ cached' = s
       \/ /\ \A s \in Shards : snapshots[s].kind # "corrupt" /\ ~snapshots[s].has
          /\ CallGoes("none") /\ handles' = {} /\ cached' = cached
    /\ UNCHANGED <<written, holder, snapshots, watermark, faults>>

\* The method reads the table and closes its connection; the listener takes
\* what is new as its watermark.
Read ==
    LET s == cached IN
    /\ call.at = "read" /\ handles' = handles \ {s}
    /\ IF snapshots[s].kind = "corrupt"
       THEN CallGoes("corrupt") /\ watermark' = watermark
       ELSE /\ CallGoes("idle")
            /\ watermark' = IF call.name = "get_new_messages"
                            THEN snapshots[s].upto ELSE watermark
    /\ UNCHANGED <<written, holder, snapshots, cached, faults>>

\* The handlers of serialized.  A corruption deletes the snapshots once
\* (_invalidate_derived_snapshots, which passes over what it cannot delete); a
\* rewrite is waited for twice, and then a poll answers that nothing is new.
HandleCorruption ==
    /\ call.at = "corrupt"
    /\ IF call.retried
       THEN CallGoes("raised") /\ UNCHANGED snapshots
       ELSE /\ call' = [call EXCEPT !.at = "lookup", !.retried = TRUE]
            /\ snapshots' = [s \in Shards |-> IF s \in handles THEN snapshots[s]
                                ELSE Missing]
    /\ UNCHANGED <<written, holder, handles, cached, watermark, faults>>

GivesUpQuietly(name) == name = "get_new_messages"

HandleRewrite ==
    /\ call.at = "rewritten"
    /\ IF call.rewrites < Delays
       THEN call' = [call EXCEPT !.at = "lookup", !.rewrites = @ + 1]
       ELSE CallGoes(IF GivesUpQuietly(call.name) THEN "none" ELSE "raised")
    /\ UNCHANGED <<written, holder, snapshots, handles, cached, watermark,
                   faults>>

\* The call answers that there is nothing, or raises.
Return ==
    /\ call.at \in {"none", "raised"} /\ CallGoes("idle")
    /\ UNCHANGED <<written, holder, snapshots, handles, cached, watermark,
                   faults>>

CallStep ==
    \/ TryCached \/ OpenAll \/ FindTable \/ Read
    \/ HandleCorruption \/ HandleRewrite \/ Return

DatabaseNext ==
    \/ WechatWrites \/ WechatMovesChat
    \/ \E s \in Shards : SnapshotDamaged(s)
    \/ \E name \in Methods : Begin(name)
    \/ CallStep

\* A call that began goes on, and the thread of the listener polls for ever.
DatabaseSpec ==
    /\ DatabaseInit /\ [][DatabaseNext]_databaseVars
    /\ WF_databaseVars(CallStep \/ Begin("get_new_messages"))
-----------------------------------------------------------------------------
(* Properties.                                                             *)

\* The types of the variables.
DatabaseTypeOK ==
    /\ written \in 0..MaxWritten /\ watermark \in 0..MaxWritten
    /\ {holder, cached} \subseteq Shards \cup {NoShard}
    /\ handles \subseteq Shards
    /\ \A s \in Shards : snapshots[s].kind \in Kinds
                        /\ snapshots[s].upto \in 0..written
    /\ call.rewrites \in 0..Delays

\* No connection outlives the call that opened it: one that did would keep the
\* next damaged snapshot from being deleted (_safe_message_connection).
HandlesClosed ==
    call.at \in {"idle", "none", "raised", "corrupt", "rewritten"} => handles = {}

\* A call fails for a reason only: a snapshot that was damaged again after the
\* retry, or, for a method other than the poll, WeChat writing all the time.
\* Damage of before the call, and writes during a poll, never reach the caller.
FailsForAReason ==
    call.at = "raised" =>
        \/ call.retried /\ call.damaged
        \/ call.rewrites = Delays /\ call.name # "get_new_messages"

\* "Nothing there" is true of a chat, or it is the answer to a poll, which the
\* listener makes again: history never shows an empty chat because WeChat wrote.
EmptyIsTrue ==
    call.at = "none" /\ call.name # "get_new_messages" => ~call.existed

\* The answers of the wrapper are true: an error has a reason, "nothing there"
\* is so, and no handle is left behind that would spoil a later call.
AnswersAreTrue == HandlesClosed /\ FailsForAReason /\ EmptyIsTrue

\* The listener gets every message in the end, whatever was damaged, moved or
\* rewritten in between.
EveryMessageRead == <>[](watermark = written)
=============================================================================
