# Verification of the WeChat agent bridge

The bridge watches the local database of a WeChat client, hands the messages of
selected conversations to a coding agent (Codex or Claude), and types the
agent's replies into WeChat while the user is away. This directory holds TLA+
models of the parts of it that keep state while other things happen, the TLC
configurations that check them, and machine-checked proofs about those where a
small instance is not enough.

Paths below are relative to `src/agent_bridge/`; `README.md:n` with a line is
the repository's own README.

## 1. Inventory

| Component | Files | State | Operations | What makes it correct |
|---|---|---|---|---|
| Reply queue | `runtime/queue.py` | a FIFO queue and a worker task per conversation, the active task, a semaphore, `_closed` | submit, remove, clear, cancel, close, the worker loop | one job per conversation at a time, in order; never more than `max_concurrency`; every caller answered truthfully; nothing runs after close |
| Dispatcher | `runtime/dispatcher.py` | de-duplication marks, pending batches with timers, jobs in the database, the queue | route, batch, seal, execute, commands, split and send with retries | every accepted message ends in exactly one job, jobs end in a final status, replies leave in order and whole |
| Sessions | `sessions/repository.py`, `resolver.py`, `context.py` | sessions, native sessions, messages, rolling summary | create, activate, bind, add message, roll up, clear, recover | an Agent is told every message, and once while the bridge runs; cleared text does not return |
| Outbound deliveries | `sessions/repository.py` (830-1121) | the table `outbound_deliveries` | enqueue, claim, update, retry, resend, cancel, recover, discard | a durable queue: oldest first, nothing too old, final rows stay final |
| Reply sender | `senders/wechat.py` | the worker task, `_stopping`, the claimed delivery | wait for idleness, attempt, verify, fall back, retry, defer, give up | a reply is typed at most once; an unknown result is never repeated; SENT means posted |
| UIA driver | `senders/uia_driver.py` | WeChat's input box | SetValue, Invoke, Enter message, draft read and clear | never overwrites the user's draft, never acts while the user does |
| Foreground drivers | `senders/foreground_process.py`, `foreground_driver.py`, `wechat_mcp_driver.py` | the child process, its guard, WeChat's window, the circuit breaker | one request: activate, search, verify the chat, paste or quote, send, clean up | posts the payload, where it belongs, or nothing; keeps what the user typed |
| Echo confirmation | `channels/wechat.py` (1094-1177, 1990-2130), `companion/controller.py` (140-185, 821-909) | `_pending_outbound`, claimed database rows | record, consume, discard, verify, mark | a reply's own echo is not a new message, and confirms that reply |
| WeChat channel: intake | `channels/wechat.py` (790-1180, 1620-1800) | the account's ids and usernames, learned and saved | normalise a row, decide who wrote it and who gets it, history pages | members are heard, the account and the bridge are not |
| WeChat channel: database | `channels/wechat.py` (30-330) | decrypted snapshots, open handles, the cached shard | the serialized call with its retries | a call fails for a reason, "empty" is true, the listener gets everything |
| Companion controller | `companion/controller.py` | realtime entries, history pages, cards and three maps to them | timeline, pages, clear, retry, resend, cancel | no hole between history and realtime; "sent" means all of it was sent; cleared stays cleared |
| Companion window | `companion/qt_window.py`, `follower.py` | the two faces, remembered geometry and handles, flags | follow, collapse, drag, show and hide | comes to rest beside WeChat |
| Webhooks | `webhooks.py` | a bounded queue and a thread per endpoint, `_seen` | submit, work, start, stop | each new message is submitted once; a slow endpoint delays nobody; threads end |
| Uploads | `webhook_uploads.py`, `evolutionary_uploads.py` | the file, the digest, the parts sent | upload as a whole, at once or in parts | one version of the file arrives, or none |
| Lifecycle | `lifecycle.py`, `cli.py` | the instance lock and its owner file, the endpoint, stages of the start | lock, reclaim, start in stages, shut down | one bridge works; it closes what nobody uses any more; it stops when asked |
| Manager | `manager/process_controller.py`, `manager/qt_window.py` | the process it launched, status queries and operations in threads | start, stop, show, query, close | one workbench; what is pending is shown |
| Activity probe, agents, parsers, command parsers, hook driver, keys, editors, configuration | see `PROJECT.json` | | | vendor SDKs, parsing, I/O or user interface |

How they interact. The database wrapper serialises every read of WeChat's
database by the listener, the companion's pages and the sender's verification.
The listener's rows become messages (intake), which go to the webhooks and the
companion, and to the dispatcher when they call the Agent. The dispatcher
submits a job per batch of messages to the reply queue; the job builds a prompt
from the session store, runs the Agent, splits its answer and hands the parts to
the sender, which writes a row and wakes its worker. The worker claims rows,
runs the drivers in threads (the foreground driver in a child process) and
updates the row. The listener also sees the bridge's own messages come back; the
channel recognises them (`_pending_outbound`), and the companion marks the
matching delivery as sent, in the same table and concurrently with the worker.
The user cancels, retries and resends rows, removes queued jobs and clears
histories from the companion window. The command line starts and stops all of
it, the manager launches the command line and talks to it over a socket.

What is hard. The worker suspends at every driver call, and everything else
runs in between. WeChat does not acknowledge a message: whether a send action
worked can only be inferred from the input box, the database and the echo. The
user types into the same box and moves the same windows. WeChat writes its
database while it is copied. Pages, contexts and summaries are read in one step
and used in a later one. A crash can happen between posting and recording.
Callers are cancelled while they wait, workers wait for a semaphore with an
item that is in no queue, and close runs into all of it. `PROJECT.json` lists
each hazard at its line.

## 2. Modules

| Module | Kind | Contents |
|---|---|---|
| `SerialExecutor` | abstract | a serial executor per conversation with a common bound: accept, begin, end, give up, shut |
| `SessionTaskQueue` | `runtime/queue.py` | the queue, its workers, the semaphore, its callers and the tasks it runs |
| `Dispatcher` | `runtime/dispatcher.py`, `_dispatch_message_in_order` of `channels/wechat.py` | extends the queue: messages and locks, batches, jobs and their rows, commands, removal, close, restart |
| `DispatcherProofs` | proofs | the queue: its invariant, its safety and its refinement; the dispatcher implements the queue's specification; the panel, the rows of the jobs and the order of the messages |
| `MCDispatcher`, `MCChats` | model checking | instances of the dispatcher, alone and beside `ChannelIntake` |
| `SessionContext` | `sessions/*`, prompts of `runtime/dispatcher.py` | history, summary, native sessions, and what each Agent is told |
| `ContextProofs` | proofs | a context has no gap, and Agents are told each message once in a run |
| `ReplyParts` | `runtime/dispatcher.py`, `image_directives.py` | how an answer becomes messages |
| `ReplyOutbox` | abstract | an outbox: replies are taken oldest first, one at a time, posted at most once, never after they were given up |
| `OutboundDeliveries` | `sessions/repository.py` | the table, one step per transaction |
| `IdleUiaSender` | `senders/*`, with the parts of the channel and the companion that touch the table | the sender worker, both drivers, echoes, the user, the life of the process |
| `SenderProofs` | proofs | the safety properties of the sender, and that it implements `ReplyOutbox` |
| `MCIdleUiaSender`, `MCConversation` | model checking | instances of the sender, alone and beside `SessionContext` |
| `ForegroundSend` | `foreground_process.py`, `foreground_driver.py`, `wechat_mcp_driver.py` | one request of the child process, step by step |
| `ForegroundProofs` | proofs | a request posts the payload, once and where it belongs, and keeps the user's text that it has read; the parts of a reply are its text, whole and in order |
| `ChannelIntake` | `channels/wechat.py`, `companion/controller.py` | who wrote a row, and who gets it |
| `DatabaseAccess` | `channels/wechat.py` | one call of the database under its lock |
| `ChannelProofs` | proofs | the answers of the database wrapper are true; authors and replies are known |
| `CompanionHistory`, `CompanionEntries` | `companion/controller.py` | pages of history; cards of replies |
| `CompanionProofs` | proofs | the pages of history have no hole; the cards tell the truth |
| `CompanionFollow` | `companion/qt_window.py`, `follower.py` | the window beside WeChat's |
| `WebhookDelivery`, `MediaUpload` | `webhooks.py`, `*_uploads.py` | workers of endpoints; one upload |
| `ServiceProofs` | proofs | one version of a file arrives; each message is submitted once |
| `Workbench`, `Manager` | `cli.py`, `lifecycle.py`; `manager/*` | processes; the manager extends them |
| `WorkbenchProofs` | proofs | one bridge works and leaves in order, alone and under the manager; the manager's operations |
| `MCRestarts` | model checking | what goes beyond one run of the bridge: the sender's rows, the manager and the bridges it launches |
| `MCQueues`, `MCServices`, `MCRecords` | model checking | the modules that run on their own, several to a run |

A definition whose name ends in `Bug` is a plausible mistake of the definition
after it. No specification uses it; it is kept to show that the property of the
same run notices the mistake.

Components that share no state are checked side by side in one run: the
variable `part` says, from the first state on, which of them moves. Nothing is
assumed about the others, they are only held still.

### SessionTaskQueue

| Code | Model |
|---|---|
| `_closed`; return of `close()` | `closed`; `joined` |
| an item in a queue, held by a worker, active, gone | `place`, with `ticket` for the order of the queue |
| the future `submit` awaits | `future` |
| the task of `item.factory()` | `task`; `cancelling` is a task that was cancelled and has not ended |
| the worker task of a conversation | `worker` and `active` |
| `asyncio.Semaphore` | `permits`; the order of its waiters is left open |

Each synchronous stretch of code between two awaits is one action, as on the
event loop. A conversation's queue is the set of its items in place `queue`
ordered by ticket; taking items out and putting the rest back, as
`remove_queued` does, leaves the tickets alone. A cancelled task may end in any
way, because the job handles the cancellation itself.

### Dispatcher

| Code | Model |
|---|---|
| messages the listener reported, waiting for `_message_dispatch_locks` | `inbox`, a sequence per chat |
| the holder of the lock and where it is suspended | `turn`: decoding an image, waiting for the job of a batch it sealed (`flush`), or for its own job (`submit`) |
| `inbound_dedup`; the history | `seen`; `stored` |
| `_pending_batches` | `batch`, the messages; the timer may fire whenever no image of the chat is pending (`PendingMedia`) |
| a row of `jobs` | `status[i]`, with `contents[i]` for the messages it answers |
| the task that awaits `submit` | `caller[i]`: the timer's task or the holder of the lock |
| `_queued_jobs` | `listed` |
| where `_execute_job` is suspended | `stage[i]`: the Agent, sending, or `adapter.cancel` after a time-out, a cancellation, or a second cancellation |
| parts of the reply handed to the channel | `replies[i]` |

The module extends `SessionTaskQueue`, and a job is an item of it: `CreateJob`
submits, `JobStep` replaces the arbitrary `TaskEnds`, `QueueStep` is a worker.
That the dispatcher uses the queue in no other way is not assumed but checked
and proved (`QueueContract`).

A message is a text, an image, an observed context message, `/ask` or `/cancel`,
which kind it is being found out when it arrives. The other commands and builtin
actions seal a batch as `/ask` does and end without a job. `asyncio.wait_for`
may prefer a result or a failure of the Agent to a cancellation, as it does up
to Python 3.11. `AdapterFails` lets `agents.get` and `adapter.cancel` raise,
`SendFails` lets the channel refuse a part. The texts, prompts, sessions, the
context given to the Agent and the sending of error texts are left out. One
restart ends a behaviour: what matters is what it leaves in the database.

### OutboundDeliveries and IdleUiaSender

| Code | Model |
|---|---|
| a row: status, attempts, error code | `row[d]`, numbered in claim order; only the error codes that are read again are told apart |
| `expires_at`, `next_attempt_at` | the booleans `old`, `deferred`, changed by `Expires`, `FallsDue` |
| where `_run` is suspended | `pc`, and `cur` for the delivery in hand |
| the activity snapshot and its guards | `touched`: input since the snapshot |
| WeChat's input box | `box`: empty, the user's draft, or a text of the bridge |
| `_pending_outbound` | `pending`, a count per message |
| echoes the listener will deliver | `echoes` |
| rows of the WeChat database a verification may claim | `rows` |
| the child process | places `fg`, `fg_done`, `quote`, `quote_done`; `answer`; `cooling` is the circuit breaker |
| restart and `run_bridge`'s discard | `Start`, with `boot` for the rows older than the last discarding start |

One target conversation is modelled. A message stands for its text: replies with
equal texts are the same message, because echoes and verification only compare
texts. What the drivers look up in the window is abstracted to whether the
lookup fails; every point where they read or write the box, check the guard or
press the send key is a step. The foreground child is over-approximated between
its start and its send key: it may be interrupted, fail or be lost at any
moment, with or without its text left in the box. Its answer does not depend on
whether the message was posted, which covers every guess it makes.

Left out: another member of the chat, or the user himself, sending exactly the
text of a reply; the user sending a draft the bridge left in the box; a second
request with the idempotency key of a row, which changes nothing. The deferral
of a quoted reply in the middle of an attempt because the circuit breaker
opened cannot happen, as the breaker is checked before and used by one worker.

Three constants switch behaviours of the environment on: `TypesAfterSend`, the
user types within the 0.2 s between Invoke and the next look at the box;
`MovesAfterSend`, the mouse moves between the child's send key and the parent's
check; `RepeatsText`, equal texts are sent again, by a retry, a resend or an
equal reply. `StartupDiscards` holds TRUE for the start of `run_bridge`; FALSE
is a sender started alone, which recovers interrupted rows instead.

### SessionContext

| Code | Model |
|---|---|
| `messages`, ordered by `created_at` and rowid | `messages`; a row is its rowid, stored at any place of the order |
| `summarized`, `unified_sessions.summary` | `flagged`; `summary`, the rows it tells of |
| `native_sessions` | `natives`, each with its provider, active, initialized and configured or not |
| `_pending_batches`, waiting jobs, the running job | `batch`, `jobs`, `running`, each with the context it was opened with |
| `_forwarded_context_messages` | `forwarded`, per provider |
| what the Agents have been told | the histories `told`, pairs of a row and the run of the bridge it was told in, and `again` |
| the two reads of a context and the write of the summary between them | `building`; the recovery thread may store a row in between |

The text of a summary, its limit of 12000 characters and the limits of prompts
are left out: a summary is the set of rows it tells of. One conversation, two
Agents, one of them configured by a binding of the settings. A restart keeps the
rows and the native sessions, which are in the database, and loses `forwarded`,
the batch and the jobs: what is recent is then told to the same session once
more, and `ToldOnce` is about one run.

### ReplyParts

An answer is a sequence of lines, a line a length and whether it begins with a
code fence; a character is its line and place, so the property can tell which
characters arrive: those of the answer, in the order of the lines, from the
first one on. Which images are accepted, and how many notices follow the text,
is said with the places of the directives that are looked at. The limit is six
characters, lines are shorter, as long, or longer, and the directives of images
succeed, are refused or are too many.

### ForegroundSend

| Code | Model |
|---|---|
| the chat in front, the composers, quote banners, the focus | `chat`, `draft`, `banner`, `focus` |
| what changed since the guard's snapshot | `touched`; `acted` if it was the user |
| `accept_synthetic_input` | `accepts` are due, and happen in a step of their own |
| the driver's place in its procedure | `driver`, `step`, `left`; `selected`, `wrote`, `triggered` are its flags |
| WeChatMCP's retry and the UIA fallback | `retried`, `driver` |

A check of the guard and the call behind it are one step; between any two such
steps the user may type, click, or change the chat (`MaxInputs` times). When the
driver accepts its own input while the user acts at the same time, the guard
cannot tell the two apart: `mistaken` notes it, and the properties are about
runs without that. WeChatMCP may also read less than the composer holds: a value
it cannot get, for whatever exception, is "" (`_control_value`,
`wechat_mcp_driver.py:331`), and the clipboard brings only what is text, and
that if it comes in time. It then takes the box for empty, pastes onto the draft
or, if that is still selected, in its place, and sends both. `misread` notes it:
the payload still goes whole, once and where it belongs, but that it goes alone
and that the user's words stay is said of the other runs only. Restoring the
clipboard and the windows, and finding controls, are abstracted to whether they
fail.

### ChannelIntake

| Code | Model |
|---|---|
| a row of the database | author, numeric id, username or none, what stands before the text, text, kind |
| `_self_sender_ids`, `_self_sender_usernames`, their channel state | `selfIds`, `selfNames`; `savedIds`, `savedNames` |
| `_pending_outbound` | `pending`, the parts of replies, a part its text or its image; those in `old` are older than a minute |
| rows of replies the listener has not reported | `onWay` |
| the companion's entries that may take an echo | `onTimeline` |
| the reply whose send is under way | `sending` |

Assumed of the rows: the numeric id of a member is nobody else's, only rows of
the account carry its usernames, WeChat puts the username of a member in front
of a text in a group. Identities are learned from the echoes of replies
(`_consume_local_outbound_echo`) and from the rows that verify one
(`_delivery_matches_rows`, `wechat.py:2029`, `2056`), where a text is verified
by any row that equals it as the database has it: in a group, where the username
stands in front of a member's text, only one of the account; elsewhere also a
member's, even one from shortly before the attempt. The history `mimics` holds
the members whose row equalled a reply on its way or verified one, others who
was mistaken for whom.

### DatabaseAccess

| Code | Model |
|---|---|
| the decrypted files of the work directory | `snapshots`: missing, clean, with unused pages, corrupt; what they hold |
| open connections; `_agent_bridge_msg_conn_cache` | `handles`; `cached` |
| the call under the `RLock`, with its attempts | `call` |
| the watermark of the listener | `watermark` |

The wxcli library that finds keys and decrypts is modelled from how it is used:
a shard is copied when it is newer than its snapshot, and a copy made while
WeChat writes may be corrupt. One chat is modelled; it moves to another shard
only between calls, and only with all its messages.

### CompanionHistory, CompanionEntries, CompanionFollow

| Code | Model |
|---|---|
| `_local_history`, `_wechat_history`, `_realtime` of a conversation | `local`, `wechat`, `realtime`, sets of numbered messages |
| cursors, offsets, `_more`, generations | `cursor`, `offset`, `localMore`, `wechatMore`, `generation` |
| pages of WeChat dropped by `update_preferences`, with the offset kept | `dropped`, until the first page has come again |
| a page that is read in a thread | `localTask`, `wechatTask`, with what it has read so far |
| `_realtime`'s cards; `_agent_entries`, `_source_entries`, `_delivery_entries` | `cards`; positions, 0 for none |
| rows of `outbound_deliveries`; what `handle_sender_update` was told last | `outbox`; `toldCards` |
| WeChat's main window; the handles remembered in three places | `wechat`; `finder` |
| the companion, its launcher and their flags and remembered geometries | `face`; `drag` while the user moves both windows |

An echo is a message of the account that equals a delivery: one that was posted,
or, for a delivery that is on a card and still waits, the user's own equal words
(`_suppress_unmarked_delivery_echo` takes both, `controller.py:874`).

`update_preferences` drops the pages of WeChat when they are switched off, and
keeps their offset. When they are switched on again the first page is asked for
anew; an older page the user asks for before that one has come begins at the
kept offset, and for a while the window shows it without the newer ones. That is
how the code behaves; `WechatNoHole` is stated for the rest of the time
(`dropped` is a history variable that no action reads).

In `CompanionFollow` every handler runs to its end on the Qt thread, a place
stands for a geometry, the zero timer of `_collapse_minimized_to_launcher` fires
before the next second, and a search overlooks a shown window at most
`MaxMisses` times. Independent mode, saved geometry, image viewers that a
search may find instead, and what Windows itself does to owned windows are left
out.

### WebhookDelivery, MediaUpload

| Code | Model |
|---|---|
| `_workers` of a generation | `Workers`, an endpoint and a start; `queue`, `stopped`, `pc`, `item`, `attempt` |
| `stop()`, endpoint by endpoint under `_lock` | `stopPc`, `stopAt` |
| `_seen`; messages written before `_started_at`, also those the listener reports only later | `seen`; `old` |
| the answer of the endpoint to the item in hand | the history `accepted` |
| the file | `version` at any read, `shorter` when it was cut |
| digest; body of the request; parts of the service | `hashed`; `body`; `remote`, each block as its version |

Any write to a file changes its size or its time stamp, as `_unchanged`
supposes. An endpoint may have received a post whose answer is lost or late:
`posting` ends with or without `accepted`, whatever arrived.

### Workbench, Manager

| Code | Model |
|---|---|
| the place of `run_bridge_with_qt` and of `run_bridge` in it | `doing` |
| `_BridgeInstanceLock`; the process named in its file | `lock`; `ownerFile` |
| the start of the channel in a thread, the threads and the listener it has | `init`; `parts`; `listener` |
| `request_shutdown`; a cancellation not yet delivered | `asked`; `cancel` |
| the stop event of the lifecycle server | `stopEvent` |
| `_process`, `_stop_requested`, `_last_status` | `proc`, `stopReq`, `shown` |
| the threads of the operation and of the status query | `op`, `query` |

`Manager` extends `Workbench`: its launches, shutdown requests and probes of the
lock are steps of the processes. A process is killed only by the reclaiming of
an older one. Ctrl+C may come before there is a task to cancel; then it is only
noted (`asked` without `cancel`).

## 3. Runs

| Run | Instance | Shows |
|---|---|---|
| `queues` | queue: 3 items, 2 conversations, 1 permit; database: 2 shards, 2 messages, 1 move, 2 damaged and 3 broken snapshots; fairness | callers are answered truthfully, the queue refines `SerialExecutor` and every call returns; calls of the database answer truly and the listener gets every message |
| `dispatcher` | 3 messages of one chat, of every kind but `/cancel`, replies that may fail to be sent, fairness | jobs run in the order of the messages, every message that asks for an answer is settled |
| `chats` | dispatcher: 3 messages of 2 chats, one reported up to twice, 1 permit, no batch window, `/cancel`, removal, close, failing adapters, replies of 2 parts that may fail; intake: 2 replies, 1 member, three kinds of chat | one job per message, no job left behind as queued or running, the list of waiting jobs is right but for one job that is just being taken, and a removed one never runs, silence after close, the queue is used as its specification allows; authors and replies are known |
| `conversation` | sender: a text and a quoting reply, no repeated text, one start; context: 3 rows, 2 Agents, 2 jobs waiting, 2 runs | SENT was posted, cancelled is not posted, the sender is an outbox; Agents are told what there is, once in a run |
| `restarts` | sender: 2 image replies that may be copies, 2 starts, each with a discard or a recovery; manager: 2 processes, one of them launched by somebody else, 3 operations | at most once across restarts, nothing of the first run or of unknown result is posted again; one workbench, and pending operations are shown |
| `sender_live` | 2 text replies that may be equal, fairness | every reply settles, stop returns |
| `records` | history: pages of 1, 3 messages of which 2 are old, 2 changes; cards: 2 replies of up to 2 parts; window: 2 inputs of the user; answers of up to 3 lines | pages have no hole and cards tell the truth; the payload is posted whole or nothing, and the user's words are kept unless they could not be read; replies are kept whole |
| `services` | webhooks: 1 endpoint, 2 generations, 2 messages reported 3 times; upload: 3 blocks, 2 changes; processes: 2; window: 2 windows of WeChat, 2 places, 3 moves of the user; fairness | each new message is submitted once, its image uploaded once and nothing posted after a success, work ends; one version of a file arrives; one bridge works, leaves in order, and ends when its window is closed or its task cancelled; the window comes back |

Some properties are conjunctions of named parts that are about one matter and
are checked together: `AnswersAreTrue`, `CallersAnswered`, `PanelIsTrue`,
`NeverRepeated`, `SenderSettles`, `ContextIsTrue`, `ToldExactlyOnce`,
`PagesAreTrue`, `CardsAreTrue`, `PostsThePayload`, `AuthorsAreKnown`,
`RepliesAreKnown`, `ForwardedOnce`, `OneVersion`, `WorkEnds`, `LeavesInOrder`,
`ComesBack`. Each part is stated and commented where it is defined.

Bounds. Two items of one conversation let one run or wait with the worker and
one wait in the queue, and a second conversation competes for the permit; one
permit makes the semaphore always contended; the safety properties are also
proved for every number of items. Three messages are a running job, a batch
behind it and a command that overtakes the batch's timer; there is a job
identifier for each message of a chat, which is enough because no message gets
two (`OneJobPerMessage`). `Repeated` are the messages that may be reported a
second time, `MaxReplies` bounds the parts of a reply. Two deliveries are one in
hand and one behind it or, with equal texts, the one an echo may be confused
with; two attempts are a first and a last one; two posts are one too many. Two
starts are a run and its successor. Two shards are where a chat is and where it
moves to; two rewrites and a retry need three broken snapshots and two damages.
Three rows with one retained make the summary grow twice. Pages of one message
make every message a page boundary; two old messages and two changes are what
switching WeChat's pages off and on between two of them takes. Two inputs of the
user disturb a run and its retry; a run in which the user's input can no longer
be told from the driver's (`mistaken`) is not followed further (`NotMistaken`, a
constraint of `records`). One member suffices for being mistaken for the
account, two replies for being mistaken for each other; a reply is a text that
may begin with a word and colon, an image, or both. Room for one event in a
queue and in `_seen` makes both overflow. Parts of two blocks out of three leave
a short last part. Two processes are a bridge and the one launched beside it.
`services` gives the window three moves of the user and two windows of WeChat;
alone it was also checked with five moves.

Deadlock is not checked: closed queues, stopped bridges, finished uploads and
used-up bounds have no next step.

### Disagreements between the code and what it says

Four runs end in a violation, each of a property that the code's own documents
state:

* `sender_moved_after_send`: the parent's guard is checked before the child's
  answer (`senders/foreground_process.py:270`); a mouse movement after the send
  key makes the sender post the reply again.
* `dispatcher_cancel`: `/cancel` behind a message of an open batch first waits
  for the job of that batch, and so for the running job it was meant to cancel
  (`runtime/dispatcher.py:265`).
* `foreground_quoted_image`: a quote with an image pastes by a key of its own
  and does not renew the guard's snapshot (`senders/foreground_driver.py:346`):
  the run always ends as interrupted by the user.
* `interrupted_early`: Ctrl+C before `bridge_task` exists, while the process
  takes or reclaims the lock or starts its lifecycle server, is noted as
  requested and never acted on, nor is any later one (`cli.py:631-639`, `661`);
  `README.md:208` and `cli.py:402` promise that it stops. `StopsWhenAsked` of
  `services` is therefore about closed windows and tasks that were cancelled.

More of the same kind can be seen by changing a constant of these runs or the
property they check:

* `MCSenderMovedAfterSend.cfg` with `TypesAfterSend` in place of
  `MovesAfterSend`: `AtMostOnce` is violated by the background driver, which
  reports a busy input box after its click has posted the message
  (`senders/uia_driver.py:140`), and the sender puts the reply back.
* `MCConversation.cfg` with `RepeatsText` TRUE: the echo of a reply is matched
  by its text with the newest delivery, whatever its status
  (`companion/controller.py:826`). `SentWasPosted` fails, as a queued reply with
  the same text becomes SENT without being posted, and so does
  `CancelledNeverPosted`, as the worker no longer sees the cancellation.
* WeChatMCP takes a draft it cannot read for an empty one, and pastes onto it or in
  its place (`wechat_mcp_driver.py:182`, `331`): the user's words are posted with
  the reply, or lost, though `README.md:204` says that the draft is confirmed
  before. `PostsThePayload` and `UserTextKept` exempt it by `misread`.
* A message is marked as processed before its job is done, `/ask` behind an open
  batch even before it is stored; a restart in between loses it
  (`runtime/dispatcher.py:243`, `265`; `README.md:366`).
* A handler that waits for a flush when the queue closes goes on, creates the
  row of `/ask`, and `submit` raises: the row stays QUEUED
  (`runtime/dispatcher.py:391`, where the comment at 393 wants no such row).
  `NoGhostJob` therefore exempts a row that is queued while the queue is closed.
* A reply posted just before a restart is read by the next run as a message of
  the user, in the file helper as a call of the Agent, though `README.md:200`
  says that there is no loop. `NoReplyLoop` exempts replies that come after a
  restart.
* A chunk of code that is cut gets a closing fence on top of the limit
  (`runtime/dispatcher.py:1138`), though `tests/test_reply_split.py` names its
  test for chunks within the limit. `ReplyKept` allows for the fence.

The passing runs show, within their instances, that there are no other ways but
those a property exempts by name.

### Noticed while modelling

Visible in the models, contradicting no text, most of it exempted by name in the
property concerned.

* Dispatcher: when `adapter.cancel` or `agents.get` raises, the job's row stays
  RUNNING or QUEUED until the next start, and a command that waits for the flush
  of such a job is lost; the reason `queue_removed` is overwritten by
  `queue_closed`; a COMPLETED job becomes CANCELLED or FAILED when that happens
  while its reply is handed over; `StrEnum` needs Python 3.11, the repository's
  README asks for 3.10.
* Replies: when a cut falls on a fence line, fences are closed and opened
  wrongly; a line whose length leaves only its break after a hard cut becomes an
  empty message; a last part that begins with "[图片]" and carries an image is not
  sent as text (`senders/wechat.py:868`).
* Context: what was forwarded is remembered per provider, so a native session
  bound by `/session bind` is told nothing of before; it is remembered in memory
  only (`runtime/dispatcher.py:148`), so after a restart the recent observed
  messages are told again to a session that has them.
* Queue panel: the job a worker has just taken is listed until its first step
  (for as long as it waits for a permit), though it cannot be removed any more.
* Sender: one that recovers rows instead of discarding them posts a text again
  when its first post cannot be found in the database; a retry or resend has no
  guard against being pressed twice; a row expires without a message
  (`README.md:202`, `repository.py:895`).
* Drivers: WeChatMCP goes on when the title of the chat cannot be read
  (`wechat_mcp_driver.py:169`); cleaning up a quote erases what
  the user typed meanwhile; the clipboard stays changed when a run is
  interrupted; a plain send does not look for a banner of the user; the k-th
  latest equal message may shift.
* Intake: a member who sends the text of a reply on its way, or any image while
  an image is on its way, is taken for the account from then on; so is one,
  outside groups, whose text verifies a reply, even a text from just before the
  attempt (`channels/wechat.py:2029`); a group reply that begins with a
  lowercase word and a colon is cut before it is compared, so its echo is
  missed; a stale username overrides the authoritative prefix; in the file
  helper a user's message equal to a reply on the timeline never reaches the
  Agent.
* Companion: local rows leap over unread pages of WeChat when history loading is
  switched on later; a changed limit discards the page being read; cleared image
  replies come back at the next start; a reply's stored row and its realtime
  entry are both shown; with WeChat hidden neither face of the collapsed docked
  companion is visible, though `README.md:100` says that the entry stays; a show
  request queued behind the close shows a closed window.
* Processes: two bridges that start together may both reclaim each other; a
  shutdown request during the final clean-up cancels it; the manager's probe of
  the lock may make a starting bridge fail; the endpoint file may be removed for
  a successor; `_stop_requested` stays set after a failed stop.
* Webhooks: an image is submitted when it is decrypted, so later texts overtake
  it; a retry after a time-out brings a message again that the endpoint had
  already received (`webhooks.py:286`), and a full queue drops one (`226`).
* Database: the cached shard pins the first of several that hold a chat; delays
  are slept under the lock.

## 4. Fairness

`queues`: while a worker, an operation that is running, the return of close, the
thread that makes a call or the listener's poll may go on, one of them does: the
event loop resumes what is ready, jobs end or time out, the listener polls. The
semaphore wakes its waiters in turn. Nothing makes users submit, remove or
cancel, or WeChat write. One weak fairness for all of them is weaker than one
for each, and enough here.

`dispatcher`: weak fairness of whatever the event loop can resume, and of
every job's own steps: Agents answer, fail or time out. The time-out covers the
run of the Agent; that `create_session`, `resume_session` and `adapter.cancel`
return is assumed. The timer of a batch fires.

`sender_live`: weak fairness of the worker's step (the event loop, the driver
threads and the time-outs of the child process), of its end after `stop`, and of
time for each row. The user is not assumed ever to be idle, WeChat not to work.

`services`: the threads of workers and of `stop()`, whose requests time out; the
main task and the initialization of a bridge that was launched; the timer that
follows WeChat and its zero timer. Users, WeChat and endpoints owe nothing.

## 5. Proofs

`DispatcherProofs` proves of the queue, for any finite set of items and
conversations and any positive number of permits, that the queue keeps its types
(`TypeCorrect`), runs one job per conversation (`Serial`), never more than the
limit (`Bounded`), keeps its callers and tells them the truth
(`CallersHearTheTruth`), is quiet after close (`QuiescentWhenClosed`), starts
jobs in order (`InOrder`), and implements `SerialExecutor` (`Refinement`). The
assumption is `QueueAssumption` of `SessionTaskQueue`.

None of these is inductive alone. The invariant `IInv` relates an item's place
to the state of its future and task (`PlaceOK`), a worker's state to the item it
holds (`WorkerOK`), says that a held item is older than the queued ones of its
conversation (`HeldIsOldest`), that no ticket is ahead of the counter
(`TicketsOK`), and that permits and holders add up to the limit
(`PermitsBalance`), the part that needs cardinalities. `RestStep` and
`BalanceStep` show the two halves preserved, one step per action.

It proves of the dispatcher, for any chats, messages, jobs and bounds, that each
step of the dispatcher is a step of the queue or leaves it alone
(`KeepsContract`), so that the queue's theorems hold of the composition
(`DispatcherIsSerial`), and of the dispatcher itself that types are kept
(`DispatcherTypes`) and nothing is sent after close (`SilentAfterClose`, by
`QuiescentWhenClosed`). The invariant `DispatcherIInv` adds to `IInv` that only
a cancelled task gives up its Agent (`StageOK`, without which the way it ends
would not be one the queue knows), that a job that has not begun sent nothing
(`QuietOK`), that a removed job is out of the queue with its future cancelled
(`RemovedOK`), that what is queued is listed and still awaited (`QueuedOK`, by
which clearing the listed jobs clears the queue), and that a lock is held for a
message (`TurnOK`). There is a lemma for each part of a step that several
actions share (`CreateJobOK`, `CancelJobOK`, `RouteOK`, `JobStepOK`), and
`DispatcherStepOK` puts them together, one step per action.

The second invariant of the dispatcher, `OrderIInv`, is proved on top of the
first. `Rows` says of every job what its row, caller, future and task know of
each other (`RowOK`), and that the jobs of a chat are used and submitted one
after the other (`UsedOK`). `Messages` follows a message from the inbox of its
chat over the lock and the batch to its job: what a job answers was seen, is in
order, and is older than what a later job of the chat answers (`ContentsOK`);
the batch comes after it (`BatchOK`), the command that sealed the batch after
that (`CommandOK`); and what is older than a message was seen, is being decoded
or stands in front of it (`SeenOK`, `LineOK`). From it follow
`MessagesHaveOneJob` (`OneJobPerMessage`), `JobsKeepTheOrder` (`OrderKept`) and
`RowsAreSettled` (`NoGhostJob`). `PanelShowsTheQueue` (`PanelIsTrue`) needs both
invariants: every job that waits is listed and a removed one never runs
(`QueuedOK`, `RemovedOK`), and what is listed waits in the queue, is the one job
of its chat a worker has taken and not begun, older than those that wait, or was
cancelled by `close()` and its caller has yet to resume (`Listing`).

`SenderProofs` proves the sender for any number of deliveries, any set of
messages and any bounds of attempts, posts and starts. `SenderIInv`
(`SenderInvariance`) says that rows are filled in order (`TableOK`), that
nothing older than the reply in hand waits and that SENDING is the status of the
reply in hand or of one a crash has left (`HandOK`), and that what a start has
discarded is over (`BootOK`). With it, and with no further hypothesis, a
discarded reply is never posted again (`NothingStale`) and a failed one is never
taken up again (`UnknownStaysFinal`). The other theorems have hypotheses, which
are named in the module:

| Hypothesis | Says | Why |
|---|---|---|
| `Undisturbed` | the user leaves WeChat alone in the instant after the send action | the drivers look at the user's activity before it, and cannot see what is done after; the finding of `sender_moved_after_send` is what happens without it |
| `FreshStarts` | a start discards what the run before left | `run_bridge` calls `discard_pending_outbound_deliveries` before the sender starts |
| `Repeatless` | `FreshStarts`, or every reply goes through the foreground driver, which marks its row first | recovery posts an unmarked reply again, as the code means it to |
| `VerifySends` | sends are confirmed against the database | without it SENT means that the driver was content |
| `DistinctReplies` | no two replies look the same | an echo is matched by what it says: one reply can be confirmed by the echo of another that reads the same |

`PostedOnce` and `NothingRepeated` (`NeverRepeated`, under the hypotheses run
`restarts` satisfies) rest on `PostIInv`: what was posted was posted once, is in
hand only where its result is looked for, and otherwise waits only with the mark
of a recovery (`PostedOK`, `MarkOK`), and the box of WeChat holds no text of it
that could be sent once more (`BoxOK`). `SentIsPosted` (`SentWasPosted`) rests
on `ProofOK`, that whatever a delivery is confirmed by, a pending echo or a row
of the database, is its own. `CancelledStays` (`CancelledNeverPosted`) rests on
`CancelledOK`, that a cancelled delivery has the status of one, where no retry
finds it, and `SenderRefinement` shows every action to be a step of
`ReplyOutbox` or a stutter, one step per action. (Its `Post` may end a reply at
once: with sends not verified, a post is all there is.)

`WorkbenchProofs` proves, for any set of processes, that one bridge works at a
time (`OneBridgeWorks`) and that each leaves in order (`TakenDownInOrder`). The
invariant has three parts for each process: it holds the lock just in the stages
`Holding` (`LockOK`); what is built at each stage of the start (`BuiltOK`); what
is gone at each stage of the end, also when it was cut short (`TakenDownOK`).
The same holds of bridges the manager starts and stops (`ManagedBridges`), since
what it does to a process is a step of `Workbench`. Of the manager itself,
`ManagerTypes` says that its variables keep their types and that it holds the
lock just while a thread of its own is about to release it; `OperationIsShown`
(`PendingIsShown`) and `OneOwnProcess` (`OneProcess`) need that its two threads
do not meet (`ThreadsOK`: a status query that began before an operation is
dropped), that its probe of the lock ends in the thread that began it
(`ProbeOK`), and that what a thread has found out is still so when it acts on it
(`FoundOK`).

`ServiceProofs` proves of uploads, for files of any number of blocks, parts of
any size and any number of writes, that what arrives is one version of the file
or the upload fails (`FileArrivesWhole`). The invariant knows at each stage
which versions were hashed, read and sent (`VersionsOK`), and how many blocks
(`LengthsOK`). `remote` is one sequence, the parts put together, so that no
induction over the parts is needed. Of the Webhooks it proves `ForwardsOnce`
(`ForwardedOnce`), for any endpoints, messages, generations and limits: that
each message is submitted once and none from before the start, its media are
uploaded once, and it is not posted again after a success. Nothing is said of
arrival, which the code does not promise. The invariant says that `_seen` holds
the latest of all events taken, up to its limit, so that an event which is not
in it is no repeat of these (`TakenOK`, `OneMore`); nobody but `stop()` fills a
queue between its being emptied and its thread being woken, so that the waking
is never refused (`StopOK`); a generation starts with empty queues (`FreshOK`);
and a worker uploads only what it has not uploaded, and has nothing in hand that
was accepted (`UploadsOK`).

`ContextProofs` proves, for any number of Agents, messages, jobs, runs and
clearings and any size of the recent part, that a context has no gap and the
summary tells of the rows marked so (`ContextIsTrueHolds`, of `ContextIsTrue`),
and that in one run of the bridge every observed message is told once to an
Agent that keeps its session, a row being told again only after a restart, and
none is withheld (`ToldExactlyOnceHolds`, of `ToldExactlyOnce`). The invariant
`ContextInv` says that summarized rows lie before the newest `Retain` ones
(`HistoryInv`), also while the loop thread has read them and not yet written the
summary, though rows are stored meanwhile, each of which may push one row out of
the recent part (`BuildingInv`); that the running job, the waiting ones and the
batch stand in the order of the rows they tell (`OrderInv`), and that what they
bring of their own is new to every Agent (`FreshInv`). The argument that a row
is not told twice is `ToldInv`: a row an Agent was told in this run (`ToldNow`)
and that is not marked as forwarded to it was summarized, so that no later
context has it among its recent rows.

`ChannelProofs` proves, for any set of shards and any number of messages and
faults, that the answers of the database wrapper are true
(`DatabaseAnswersAreTrue`). `AnswersAreTrue` looks at the places where a call
ends; the invariant `DatabaseInv` says how it got there: handles are open only
while a call searches and reads, so the retry deletes every snapshot
(`HandlesInUse`); a call that was retried meets a corrupt snapshot only when one
was damaged again (`CorruptAgain`); and a chat that was there when the call
began is in one of the snapshots once all of them are open (`ChatIsThere`).
`OpensFacts` is the lemma about the opening of shards all of this rests on.

Of what the channel receives it proves, for any members, replies and texts,
`AuthorsAlwaysKnown` and `RepliesAlwaysKnown` (of `AuthorsAreKnown` and
`RepliesAreKnown`). The invariant `IntakeInv` has an equation in its middle:
what the channel waits for and is younger than a minute is exactly what it owes
itself (`Young = owed` in `OwedInv`), which needs that the first of the matching
parts is taken out on both sides. `IdentityInv` says that all that was learned
is saved, that a member is taken for the account only if its row equalled a
reply on its way or, outside groups, verified one (`VerifyingFacts`,
`SucceedKeeps`), and that the username of a member is learned only with its id;
the last is why a page of history cannot take a member for the account that a
message would not (`HistoryAgrees`).

`CompanionProofs` proves `PagesAlwaysTrue` (`PagesAreTrue`) for any page size,
limits and numbers of messages. Its invariant `HistoryInv` says where the next
page begins. For local pages (`LocalPages`, `LocalTaskTrue`): the cursor is the
oldest of the rows shown, all rows from there on are shown, and a page that is
loaded holds the newest of the rows below it, or, if it is a first page that met
new rows, those are shown as they came. For the pages of WeChat (`WechatPages`,
`WechatTaskTrue`): as many of the newest messages as the offset counts are
known, so that a page read at that offset when there were fewer messages ends no
later than the known ones begin. The lemmas on `Newest` say what a page of a set
of numbers holds; that such a set has a least element, which `Min` chooses, is
taken from the well-foundedness of the natural numbers.

Of the cards it proves `CardsAlwaysTrue` (`CardsAreTrue`) for any number of
replies, parts, deliveries and clearings. The invariant `EntriesInv` says what
the three maps of positions are good for: what a job, a part or a delivery leads
to is its own card (`PositionsOK`), also after the conversation was cleared
while the job went on; a card holds what was told last of each of its deliveries
(`CardOK`), and the card of a job holds the rows of the parts it has sent, in
their order, and expects as many as the reply has (`ReplyCardOK`), so that a
card whose states are all "sent" lacks none. Two facts are needed besides: a row
differs from what was told of it only when it expired unnoticed, and a part
whose delivery has no card cannot find the card of its reply either (`RowOK`).
`AggregateFacts` says when the aggregate is "sent". There is a lemma for each
way a step touches the cards: a delivery that is told anew (`Retold`), one that
gets a card of its own (`Apart`), one that joins the card of its reply
(`Joined`), and a job that moves on (`JobStep`).

`ForegroundProofs` proves of one request to the child process, for any number of
names to search for and of inputs of the user, that it posts the payload where
it belongs, whole, at most once and only if it ends as sent or unknown
(`PayloadIsPosted`, of `PostsThePayload`), and that a plain send takes nothing
of the user's away (`UserTextIsKept`, of `UserTextKept`); both as long as the
guard took no input of the user's for the driver's own (`mistaken`). The chat is
the right one if WeChatMCP could read its title (`blind`); that the payload goes
alone and the user's words stay holds if it could read the draft (`misread`,
which `ReadsFacts` is about). The invariant `ForegroundIInv` has two halves.
What the guard does holds always: it has seen what the user did, or is still to
see it (`GuardOK`), and after the send action only the end of the run is left
(`TriggerOK`). What the window holds is known only until the user acts
(`Alone`): the chat in front (`InFront`), the focus and the composer at each
step, which holds what the step counts on, and that alone if the draft was read
(`Composer`), the banner of a quote (`QuoteOK`). The send action asks the guard
first, so that it meets the second half. There is one lemma for each part of the
invariant.

The same module proves of `ReplyParts`, for answers of any number of lines and
of any length, and for any limit, that what WeChat is given is the answer from
its beginning, no character lost, doubled or out of order, the images after the
last of the text, and all of it when the job ends without an error
(`ReplyAlwaysKept`, of `ReplyKept`). `TellLines(texts, n)` says that some texts
tell the lines before n, each character once and in order. The invariant
`ReplyInv` says it of the chunks and of what is kept for the next one at every
line (`SplitInv`), and, once the split is over, that what was given and what is
to be sent are together the messages of all of it (`SendInv`). There is a lemma
for each thing the split does to a text: a line is put to the current one
(`Extended`), the current one is stripped or closed with a fence (`Replaced`,
`ClosedText`), a long text is cut at multiples of the limit (`CutToMessages`,
which takes each place in a piece to its place in the text). That the whole
answer in one text tells every line needs the function by which `FlattenSeq` is
defined; that there is one, and what its values are, is shown with the least
number for which it would fail (`LeastNumber`, from the well-foundedness of
`<`).

Every invariant was checked with TLC on small instances before it was proved.
The proofs use the assumptions of the modules (`QueueAssumption`,
`DispatcherAssumption`, `DeliveriesAssumption`, `WorkbenchAssumption`,
`UploadAssumption`, `WebhookAssumption`, ...), which TLC evaluates on the runs.

Model-checked only: every liveness property and every fairness (out of the
prover's reach), among them all that is said of the window beside WeChat's
(`ComesBack` of `CompanionFollow`). The type invariants of the runs that put
several modules side by side (`QueuesTypeOK`, `ConversationTypeOK`,
`ServicesTypeOK`, `RecordsTypeOK`) are checked as they stand; the types of each
proved component are part of its invariant. Every other safety invariant and
every action property of the passing runs is a theorem.

## 6. Not modelled

* Calls into vendor SDKs and their parsers (`agents/*`): the dispatcher sees a
  result, an error or a cancellation of a job.
* Finding controls in WeChat's windows, by UIA or from pixels: a step that
  finds, does not find, or finds a wrong chat. The hook driver and the
  clipboard: one request at a time, no state of their own.
* The keys of WeChat's database: reading a process's memory, and cryptography.
* Parsers of commands and of quoted messages, payloads and signatures of
  webhooks, formatting of prompts: strings without state. `ReplyParts` models
  the splitting of a reply, where the text is what matters.
* Drawing and layout of the windows, the floating companion, editors,
  diagnostics, the debugging panel; configuration, paths, logging, packaging.
* The idle time: two calls of Windows and one difference of ticks modulo 2^32,
  right for every idle time below the wrap.

One hazard has no property: the loss of a message that was marked as processed
before its job was done, which the code does not try to prevent (see above).
