--------------------------- MODULE SessionContext ---------------------------
(***************************************************************************)
(* What an Agent is told of a conversation: the history and the native     *)
(* sessions of one conversation (sessions/repository.py, resolver.py,      *)
(* context.py), and how runtime/dispatcher.py builds prompts of them.      *)
(*                                                                         *)
(* An Agent whose native session is new gets the summary and the recent    *)
(* messages; an initialized one only the observed group messages that it   *)
(* has not got yet.  The context of a job is read when its batch opens,    *)
(* what has been forwarded is looked up when the job runs, and between the *)
(* two other jobs run, the user gives commands and clears the history, and *)
(* the companion's recovery thread stores old messages.                    *)
(*                                                                         *)
(* What has been forwarded is kept in memory only, while the rows and the  *)
(* native sessions are in the database: a bridge that is started again     *)
(* tells an Agent the recent observed messages once more.                  *)
(*                                                                         *)
(* A definition whose name ends in Bug is a mutant of the one after it.    *)
(***************************************************************************)
EXTENDS Naturals, SequencesExt

CONSTANTS Providers,
          DefaultProvider, \* resolver.default_provider
          BoundProvider,   \* of the configured session binding, or NoProvider
          NoProvider,
          Retain,          \* recent_limit: rows that are not summarized
          RenamesSession,  \* an Agent may answer with another session id
          MaxRows,         \* bound on the rows ever stored
          MaxNatives,      \* bound on the native sessions
          MaxJobs,         \* bound on the jobs that wait
          MaxRuns,         \* bound on the starts of the bridge
          MaxClears        \* bound on clear_session_messages

ASSUME ContextAssumption ==
    /\ DefaultProvider \in Providers
    /\ BoundProvider \in Providers \cup {NoProvider} /\ NoProvider \notin Providers
    /\ Retain \in Nat \ {0} /\ RenamesSession \in BOOLEAN
    /\ {MaxRows, MaxNatives, MaxJobs, MaxRuns, MaxClears} \subseteq Nat

Ids == 1..MaxRows
Natives == 1..MaxNatives
NoNative == 0

VARIABLES
    messages,  \* the stored messages, ordered by created_at and rowid
    stored,    \* rows stored so far: the last rowid
    observed,  \* the rows marked _bridge_context_only
    flagged,   \* the rows with summarized = 1
    summary,   \* the rows unified_sessions.summary tells of
    exists,    \* the conversation is bound to a session
    provider,  \* unified_sessions.current_provider
    natives,   \* native_sessions
    applied,   \* the binding has been applied in this run of the bridge
    building,  \* the context that the loop thread reads, or NoBuild
    batch,     \* _pending_batches of the conversation, or NoBatch
    jobs,      \* the jobs that wait in the queue
    running,   \* the job that runs, or NoJob
    forwarded, \* _forwarded_context_messages
    runs, clears,
    told,      \* history: <<row, run>>, an observed row told in a run
    again      \* history: <<run, later run>>, a row of it told again later by
               \* a prompt without context, to an Agent that has its session

historyVars == <<messages, stored, observed, flagged, summary>>
sessionVars == <<exists, provider, natives, applied>>
workVars == <<building, batch, jobs, running>>
contextVars == <<historyVars, sessionVars, workVars, forwarded, runs,
                 clears, told, again>>

NoBuild == [stage |-> "none"]
NoBatch == [open |-> FALSE]
NoJob == [stage |-> "none"]

\* A native session is known by its place in natives.
Native == [provider : Providers, active : BOOLEAN, initialized : BOOLEAN,
           configured : BOOLEAN]

-----------------------------------------------------------------------------
(* sessions/repository.py: the history. *)

\* A message is stored with the time it was created at: others that were
\* created later may be there already.
Positions == 1..Len(messages) + 1
Stored(place) == InsertAt(messages, place, stored + 1)

\* The places of the rows that are not summarized, and those after i.
Unsummarized(seq) == {i \in DOMAIN seq : seq[i] \notin flagged}
After(seq, i) == {k \in Unsummarized(seq) : k > i}

\* rollup_summary: all but the newest rows that are not summarized.
CompactedBug(seq) ==
    {seq[i] : i \in {k \in Unsummarized(seq) :
                        Cardinality(After(seq, k)) > Retain}}

Compacted(seq) ==
    {seq[i] : i \in {k \in Unsummarized(seq) :
                        Cardinality(After(seq, k)) >= Retain}}

\* recent_messages.
Recent(seq) == {seq[i] : i \in {k \in DOMAIN seq : k + Retain > Len(seq)}}

\* ContextBuilder.build, in the loop thread, for a message that asks provider
\* p, or NoProvider for the first one of a batch.  First rollup_summary reads.
Read(p, dispatch) ==
    [stage |-> "read", for |-> p, dispatch |-> dispatch,
     messages |-> ToSet(messages), compact |-> Compacted(messages),
     summary |-> summary, meanwhile |-> 0]

\* Then it marks the rows and writes the summary it has extended.
RollUpWrites ==
    /\ building.stage = "read"
    /\ flagged' = flagged \cup (building.compact \cap ToSet(messages))
    /\ summary' = building.summary \cup building.compact
    /\ building' = [building EXCEPT !.stage = "written",
                                   !.summary = @ \cup building.compact]
    /\ UNCHANGED <<messages, stored, observed, sessionVars, batch, jobs, running,
                   forwarded, runs, clears, told, again>>

\* Last it reads the recent messages.
Built == LET recent == Recent(messages)
         IN [summary |-> building.summary, recent |-> recent,
             lost |-> building.messages \ (building.summary \cup recent),
             meanwhile |-> building.meanwhile]

-----------------------------------------------------------------------------
(* sessions/repository.py and resolver.py: the native sessions. *)

ActiveOf(p) == {n \in DOMAIN natives :
                  natives[n].provider = p /\ natives[n].active}

\* get_active_native_session.
Active(p) == IF ActiveOf(p) = {} THEN NoNative
             ELSE CHOOSE n \in ActiveOf(p) : \A m \in ActiveOf(p) : m <= n

Deactivated(seq, p) ==
    [n \in DOMAIN seq |-> IF seq[n].provider = p
                          THEN [seq[n] EXCEPT !.active = FALSE] ELSE seq[n]]

AddedBug(seq, p, initialized, configured) ==
    Append(seq, [provider |-> p, active |-> TRUE, initialized |-> initialized,
                 configured |-> configured])

\* add_native_session, of an active one.
Added(seq, p, initialized, configured) ==
    Append(Deactivated(seq, p),
           [provider |-> p, active |-> TRUE, initialized |-> initialized,
            configured |-> configured])

\* activate_native_session.
Activated(n) ==
    [Deactivated(natives, natives[n].provider) EXCEPT ![n].active = TRUE]

Configured == {n \in DOMAIN natives : natives[n].configured}

\* _apply_binding, once in each run of the bridge.
BindingAdds == BoundProvider # NoProvider /\ ~applied /\ Configured = {}

ApplyBinding ==
    /\ applied' = (BoundProvider # NoProvider)
    /\ natives' = IF BoundProvider = NoProvider \/ applied THEN natives
                  ELSE IF Configured = {} THEN Added(natives, BoundProvider, TRUE, TRUE)
                  ELSE LET n == CHOOSE n \in Configured : TRUE
                       IN IF natives[n].active THEN natives ELSE Activated(n)
    /\ provider' = IF BoundProvider # NoProvider /\ ~applied THEN BoundProvider
                   ELSE IF ~exists THEN DefaultProvider
                   ELSE provider

\* resolve: the session of the conversation, a new one if there is none.
Resolve ==
    /\ BindingAdds => Len(natives) < MaxNatives
    /\ exists' = TRUE
    /\ ApplyBinding

\* What the loop thread reads and hands on tells of rows stored before.
Rows == SUBSET (1..stored)
Context == [summary : Rows, recent : Rows, lost : Rows, meanwhile : Nat]
Building == [stage : {"read", "written"}, for : Providers \cup {NoProvider},
             dispatch : BOOLEAN, messages : Rows, compact : Rows,
             summary : Rows, meanwhile : Nat]
Batch == [open : {TRUE}, context : Context, own : Rows, included : Rows,
          dispatch : BOOLEAN]
Work == [stage : {"queued", "session", "agent"}, provider : Providers,
         context : Context, own : Rows, included : Rows,
         native : 0..MaxNatives, include : BOOLEAN, asked : Rows, prompt : Rows]

ContextTypeOK ==
    /\ messages \in Seq(Ids) /\ IsInjective(messages)
    /\ stored \in 0..MaxRows /\ ToSet(messages) \subseteq 1..stored
    /\ observed \in Rows
    /\ flagged \subseteq ToSet(messages)
    /\ summary \in Rows
    /\ exists \in BOOLEAN /\ provider \in Providers /\ applied \in BOOLEAN
    /\ natives \in Seq(Native) /\ Len(natives) <= MaxNatives
    /\ \A p \in Providers : \A m, n \in ActiveOf(p) : m = n
    /\ building \in Building \cup {NoBuild}
    /\ batch \in Batch \cup {NoBatch}
    /\ jobs \in Seq(Work) /\ \A k \in DOMAIN jobs : jobs[k].stage = "queued"
    /\ running \in Work \cup {NoJob} /\ running.stage # "queued"
    /\ running # NoJob => running.native <= Len(natives)
    /\ running.stage = "agent" => running.native # NoNative
    /\ forwarded \in [Providers -> Rows]
    /\ runs \in Nat \ {0}
    /\ told \in [Providers -> SUBSET ((1..stored) \X (1..runs))]
    /\ again \subseteq (1..runs) \X (1..runs)

-----------------------------------------------------------------------------
(* runtime/dispatcher.py: messages become batches, and batches jobs. *)

ContextInit ==
    /\ messages = <<>> /\ stored = 0
    /\ observed = {} /\ flagged = {} /\ summary = {}
    /\ exists = FALSE /\ provider = DefaultProvider
    /\ natives = <<>> /\ applied = FALSE
    /\ building = NoBuild /\ batch = NoBatch /\ jobs = <<>> /\ running = NoJob
    /\ forwarded = [p \in Providers |-> {}]
    /\ runs = 1 /\ clears = 0
    /\ told = [p \in Providers |-> {}] /\ again = {}

\* What comes first when a message is handled.
Begins(p, dispatch) ==
    /\ ~batch.open /\ stored < MaxRows
    /\ p # NoProvider => Len(jobs) < MaxJobs
    /\ Resolve
    /\ building' = Read(p, dispatch)
    /\ UNCHANGED <<historyVars, batch, jobs, running, forwarded, runs, clears,
                   told, again>>

\* add_inbound_message.
Inbound(dispatch, place) ==
    /\ messages' = Stored(place) /\ stored' = stored + 1
    /\ observed' = IF dispatch THEN observed ELSE observed \cup {stored + 1}

Joined(b, dispatch) ==
    [b EXCEPT !.own = @ \cup {stored + 1},
              !.dispatch = @ \/ dispatch,
              !.included = IF dispatch THEN @ ELSE @ \cup {stored + 1}]

\* _enqueue_message_batch: the context is that of the first message.
OpensBatch(place) ==
    /\ building.stage = "written" /\ building.for = NoProvider
    /\ stored < MaxRows
    /\ batch' = Joined([open |-> TRUE, context |-> Built, own |-> {},
                        included |-> {}, dispatch |-> FALSE], building.dispatch)
    /\ Inbound(building.dispatch, place)
    /\ building' = NoBuild
    /\ UNCHANGED <<flagged, summary, sessionVars, jobs, running, forwarded,
                   runs, clears, told, again>>

JoinsBatch(dispatch, place) ==
    /\ batch.open /\ stored < MaxRows
    /\ Resolve
    /\ batch' = Joined(batch, dispatch)
    /\ Inbound(dispatch, place)
    /\ UNCHANGED <<flagged, summary, building, jobs, running, forwarded, runs,
                   clears, told, again>>

Job(b, p) == [stage |-> "queued", provider |-> p, context |-> b.context,
              own |-> b.own, included |-> b.included, native |-> NoNative,
              include |-> FALSE, asked |-> {}, prompt |-> {}]

\* _seal_message_batch: a job, if one was asked for and there is anything to
\* answer.
Seal ==
    /\ batch.open
    /\ batch' = NoBatch
    /\ IF batch.dispatch
       THEN /\ Resolve
            /\ \/ Len(jobs) < MaxJobs /\ jobs' = Append(jobs, Job(batch, provider'))
               \/ UNCHANGED jobs
       ELSE UNCHANGED <<exists, provider, natives, applied, jobs>>
    /\ UNCHANGED <<historyVars, building, running, forwarded, runs, clears,
                   told, again>>

\* /ask p: a job of its own, after the open batch.
Ask(place) ==
    /\ building.stage = "written" /\ building.for # NoProvider
    /\ stored < MaxRows
    /\ jobs' = Append(jobs, Job([context |-> Built, own |-> {stored + 1},
                                 included |-> {}], building.for))
    /\ Inbound(TRUE, place)
    /\ building' = NoBuild
    /\ UNCHANGED <<flagged, summary, sessionVars, batch, running, forwarded,
                   runs, clears, told, again>>

-----------------------------------------------------------------------------
(* _execute_job. *)

\* What it sees before it first waits.
JobStarts ==
    /\ running = NoJob /\ jobs # <<>>
    /\ LET j == Head(jobs)
           n == Active(j.provider)
       IN running' = [j EXCEPT !.stage = "session", !.native = n,
                               !.include = \/ n = NoNative
                                           \/ ~natives[n].initialized]
    /\ jobs' = Tail(jobs)
    /\ UNCHANGED <<historyVars, sessionVars, building, batch, forwarded, runs,
                   clears, told, again>>

\* _unforwarded_context_messages.
NotForwarded(j) == (observed \cap j.context.recent) \ forwarded[j.provider]

\* _agent_prompt and render_request_prompt: the rows the prompt tells.
Prompt(j) ==
    j.own \cup (IF j.include THEN j.context.summary \cup j.context.recent
                ELSE NotForwarded(j))

\* The native session is created or resumed; then the prompt is made.
SessionReady ==
    /\ running.stage = "session"
    /\ IF running.native = NoNative
       THEN /\ Len(natives) < MaxNatives
            /\ natives' = Added(natives, running.provider, FALSE, FALSE)
       ELSE UNCHANGED natives
    /\ running' = [running EXCEPT !.stage = "agent",
                                  !.native = IF @ = NoNative THEN Len(natives')
                                             ELSE @,
                                  !.asked = NotForwarded(running),
                                  !.prompt = Prompt(running)]
    /\ UNCHANGED <<historyVars, exists, provider, applied, building, batch, jobs,
                   forwarded, runs, clears, told, again>>

\* _mark_context_messages_forwarded.
Mark(j) == forwarded' = [forwarded EXCEPT
                            ![j.provider] = @ \cup j.asked \cup j.included]

\* The Agent has answered: the native session is initialized, the reply is
\* stored if it can be parsed, and a new id of the native session is
\* remembered.
JobCompletes ==
    LET p == running.provider
        done == [natives EXCEPT ![running.native].initialized = TRUE]
    IN
    /\ running.stage = "agent"
    /\ Mark(running)
    /\ told' = [told EXCEPT ![p] = @ \cup (running.prompt \cap observed) \X {runs}]
    /\ again' = IF running.include THEN again
                ELSE again \cup {<<t[2], runs>> :
                                    t \in {t \in told[p] : t[1] \in running.prompt}}
    /\ \/ /\ stored < MaxRows
          /\ messages' = Append(messages, stored + 1) /\ stored' = stored + 1
       \/ UNCHANGED <<messages, stored>>
    /\ \/ natives' = done
       \/ /\ RenamesSession /\ Len(natives) < MaxNatives
          /\ natives' = Added(done, p, FALSE, FALSE)
    /\ running' = NoJob
    /\ UNCHANGED <<observed, flagged, summary, exists, provider, applied,
                   building, batch, jobs, runs, clears>>

\* A failure, a timeout or a cancellation.
JobFailsBug ==
    /\ running # NoJob
    /\ running' = NoJob
    /\ IF running.stage = "agent" THEN Mark(running) ELSE UNCHANGED forwarded
    /\ UNCHANGED <<historyVars, sessionVars, building, batch, jobs, runs, clears,
                   told, again>>

JobFails ==
    /\ running # NoJob
    /\ running' = NoJob
    /\ UNCHANGED <<historyVars, sessionVars, building, batch, jobs, forwarded,
                   runs, clears, told, again>>

-----------------------------------------------------------------------------
(* The user, the recovery thread and the life of the bridge. *)

\* /use, /session new and /session bind are handled behind the open batch,
\* but while jobs run.
SetAgent(p) ==
    /\ exists /\ ~batch.open
    /\ provider' = p
    /\ UNCHANGED <<historyVars, exists, natives, applied, workVars, forwarded,
                   runs, clears, told, again>>

SessionCommand(p, bind) ==
    /\ exists /\ ~batch.open /\ Len(natives) < MaxNatives
    /\ natives' = Added(natives, p, bind, FALSE)
    /\ provider' = p
    /\ UNCHANGED <<historyVars, exists, applied, workVars, forwarded, runs,
                   clears, told, again>>

RemoveQueued(k) ==
    /\ k \in DOMAIN jobs
    /\ jobs' = RemoveAt(jobs, k)
    /\ UNCHANGED <<historyVars, sessionVars, building, batch, running, forwarded,
                   runs, clears, told, again>>

\* clear_session_messages.
Clear ==
    /\ exists /\ clears < MaxClears /\ clears' = clears + 1
    /\ messages' = <<>> /\ flagged' = {} /\ summary' = {}
    /\ UNCHANGED <<stored, observed, sessionVars, workVars, forwarded, runs,
                   told, again>>

\* _recover_sent_attachment_history stores an old reply, in a thread.
RecoveredRow(place) ==
    /\ exists /\ stored < MaxRows
    /\ messages' = Stored(place) /\ stored' = stored + 1
    /\ building' = IF building = NoBuild THEN NoBuild
                   ELSE [building EXCEPT !.meanwhile = @ + 1]
    /\ UNCHANGED <<observed, flagged, summary, sessionVars, batch, jobs,
                   running, forwarded, runs, clears, told, again>>

\* The database outlives the run, and so do the native sessions of the Agents;
\* which rows have been forwarded to them does not.
Restart ==
    /\ runs < MaxRuns /\ runs' = runs + 1
    /\ applied' = FALSE
    /\ building' = NoBuild
    /\ batch' = NoBatch /\ jobs' = <<>> /\ running' = NoJob
    /\ forwarded' = [p \in Providers |-> {}]
    /\ UNCHANGED <<historyVars, exists, provider, natives, clears, told, again>>

\* The loop thread does one thing at a time.
LoopStep ==
    \/ \E dispatch \in BOOLEAN :
         \/ Begins(NoProvider, dispatch)
         \/ \E place \in Positions : JoinsBatch(dispatch, place)
    \/ Seal \/ JobStarts \/ SessionReady \/ JobCompletes \/ JobFails
    \/ \E p \in Providers : \/ Begins(p, TRUE)
                           \/ SetAgent(p)
                           \/ \E bind \in BOOLEAN : SessionCommand(p, bind)
    \/ \E k \in DOMAIN jobs : RemoveQueued(k)
    \/ Clear

ContextNext ==
    \/ building = NoBuild /\ LoopStep
    \/ RollUpWrites
    \/ \E place \in Positions :
           OpensBatch(place) \/ Ask(place) \/ RecoveredRow(place)
    \/ Restart

ContextSpec == ContextInit /\ [][ContextNext]_contextVars

-----------------------------------------------------------------------------
(* Properties. *)

\* The contexts that are still to be used.
Contexts == (IF batch.open THEN {batch.context} ELSE {})
            \cup {jobs[k].context : k \in DOMAIN jobs}
            \cup (IF running = NoJob THEN {} ELSE {running.context})

\* A context tells every message of the conversation once, in its summary or
\* among its recent messages, in whatever order messages were created,
\* stored and compacted; only a message the recovery thread stores between
\* the two reads can push another one out.
ContextComplete ==
    \A c \in Contexts :
        Cardinality(c.lost) <= c.meanwhile /\ c.summary \cap c.recent = {}

\* The summary tells of exactly the stored rows that are marked as
\* summarized: what the user has cleared is not told any more.
SummaryExact == summary = flagged

\* What an Agent is told of the past is what there is, once.
ContextIsTrue == ContextComplete /\ SummaryExact

\* What each Agent has been told of since the bridge was last started.
ToldNow == [p \in Providers |-> {m \in 1..stored : <<m, runs>> \in told[p]}]

\* An Agent that keeps its session is told an observed message again only
\* after the bridge has been started again, which forgets what it forwarded:
\* never twice in one run, however the jobs that could tell it overlap, fail or
\* are removed.
ToldOnce == \A a \in again : a[1] < a[2]

\* A message counts as forwarded only when an Agent has got it in this run.
ForwardedWasTold == \A p \in Providers : forwarded[p] \subseteq ToldNow[p]

\* When a job has been answered, its Agent has been told in this run every
\* observed message from before its batch that was recent then, and those of
\* its batch.
NothingWithheld ==
    [][running # NoJob /\ running' = NoJob /\ messages' # messages
       => (observed \cap running.context.recent) \cup running.included
            \subseteq ToldNow'[running.provider]]_contextVars

\* In one run of the bridge each observed message is told exactly once to each
\* Agent that keeps its session and answers; only a restart tells it again.
ToldExactlyOnce == [](ToldOnce /\ ForwardedWasTold) /\ NothingWithheld
=============================================================================
