# imcodex: specifications, model checks and proofs

imcodex is a bridge between instant-messaging conversations (Telegram, Feishu,
QQ, Weixin, a webhook) and a native `codex app-server`. A user binds a
conversation to a native thread; what he writes starts or steers turns of that
thread, and what the thread says is shown in the conversation. The bridge is one
Python process with one asyncio event loop, a few worker threads for files, and
one JSON state file. Everything that is hard about it follows from that: tasks
interleave at every `await`, both ends (the platforms and the app-server) come
and go on their own, and the process may die between any two steps and must go
on from the file.

This directory holds the TLA+ modules that model it, the TLC configurations that
check them on small instances, and the proofs that TLAPS checks. Paths below are
relative to the package `src/src/imcodex/`.

## 1. The system

### Parts, state and interaction

| Part | State it keeps | Operations that change it | Talks to |
|---|---|---|---|
| **Conversation store** (`store.py`) | bindings, inbound markers and cached responses, outbox, active turns; the file, revisions, a one-place write queue, remembered write failures | every mutator ends in `_save`; `commit_inbound_message_processed`, `ensure_inbound_message_durable`, `flush_pending_writes`, `_load` | everybody; worker threads |
| **Terminal outbox** (`store_terminal_deliveries.py`, `bridge/terminal_delivery.py`, `bridge/terminal_identity.py`) | watches of turns, staged messages with a sequence per route, receipts, a retry task | watch, stage, complete, discard; `_deliver_terminal_message`, `_deliver_pending_terminal_once`, the retry loop | store, sink |
| **Live projection** (`bridge/core.py`, `bridge/projection.py`, `bridge/message_pump.py`) | a buffer per turn, recently completed and delivered sets | `_process_notification`, `_process_server_request` | outbox, sink, store |
| **Recovery** (`bridge/core.py`, `appserver/thread_backend.py`) | pending recovered turns | `handle_connection_ready`, `rehydrate_bound_threads`, `project_recovered_turn` | app-server, outbox |
| **Thread handoff** (`bridge/thread_handoff.py`) | a gate per thread, admission sequence, retry tasks | begin, seal, buffer, drain, discard, reset, close | live projection, middleware |
| **App-server connection** (`appserver/client.py`, `retry.py`, `supervisor.py`) | connection epoch, pending futures, receive sequence, two dispatch queues, reconnect task | connect, handshake, call, dispatch, reset, reconnect, close | recovery, handoff, projection |
| **Pending native requests** (`store_pending_requests.py`, `bridge/server_requests.py`) | requests by id and epoch, selection per conversation | register, reply, submit, resolve, invalidate | connection, commands |
| **Channel middleware** (`channels/middleware.py`, `channels/base.py`) | a lock per conversation, in-flight messages, deduplication through the store | handle, deliver, replay | channels, service, store |
| **Commands** (`bridge/commands.py`, `inbound.py`, `settings.py`, views and rendering) | none of its own | parse, dispatch to the backend, render | backend, store, handoff |
| **Outbound artifacts, inbound media** (`bridge/outbound_artifacts.py`, `channels/media.py`, `qq_media.py`) | spools with leases and quotas | stage, lease, release, clean | outbox, channels |
| **Channels** (`telegram.py`, `feishu.py`, `qq.py`, `weixin*.py`, `outbound.py`) | poll cursors, tokens | poll, send | middleware, sink |
| **Delivery API, admin console, core manager, runtime** (`delivery_api.py`, `admin/`, `core_manager.py`, `runtime.py`) | delivery outcomes, a revisioned configuration, the ownership of the process | submit, save, restart, start and stop in order | all of the above |

An inbound message takes this path: channel → middleware (serialized per
conversation, deduplicated) → `BridgeService.handle_inbound` → command or turn →
app-server; the answer goes back through the sink and is acknowledged to the
handoff gate. A native message takes this path: receive loop (gets a sequence
number) → notification or request queue → handoff gate (buffer or pass) →
projection → for a final answer the outbox (stage, flush, hand over, receipt),
for anything else the sink directly.

### What makes each part correct, and what is hard about it

* **Store**: what was reported as written survives a crash; the file never goes
  back; no save is forgotten. Hard: two kinds of writers race in threads; writes
  fail and are superseded; a task is cancelled while its write runs.
* **Outbox and recovery**: an answer that is owed is delivered at least once, in
  order, and again only while it is unsettled; a turn that ends while nobody
  listens is not forgotten. Hard: three users of one lock, each interrupted by
  failed flushes, refusing sinks, time-outs, lost connections and crashes.
* **Handoff**: the answer of a switching command comes first, then every message
  of the thread once and in wire order. Hard: two lanes that present side by side
  what no gate holds back, bounded buffers, failed sends, cancellation, reset.
* **Connection**: a response or request belongs to the connection it came from;
  every call is answered. Hard: reset, reconnect, call and retry race.
* **Pending requests**: a reply goes to the request the user saw, once. Hard: the
  same id on a new connection, a reply racing a resolution, a handoff gate that
  carries a request over the reset of its connection.
* **Middleware**: a message is handled once however often the platform sends it,
  and acknowledged only when its marker is durable. Hard: crash between handling,
  marker, answer and acknowledgement; bounded memory of processed ids.
* **Turn projection**: the buffer, commentary and system events of a turn appear
  in order and end with the turn. Hard: replays, reopened turns, status events.
* **Runtime and core manager**: a stop ends, a restart leaves one owner. Hard:
  parts stop in an order and may wait for each other, and nothing keeps starts and
  restarts from running side by side.

`PROJECT.json` lists all of the parts with their status, and the hazards at the
line where each one bites, with the property that would catch it or the reason
why none does yet.

## 2. The modules

```
DurableStore  <== StatePersistence <-- StatePersistenceProofs
ReliableDelivery <== TerminalOutbox <-- MCTerminalOutbox     (<== implements,
                     TerminalOutbox <-- TerminalOutboxProofs  <-- extended by,
                     TerminalOutbox --> OutboxStore           --- instance of)
                     ThreadOutputGate <-- MCThreadOutputGate
                     ThreadOutputGate <-- ThreadOutputGateProofs
                     AppServerConnection <-- MCAppServerConnection
                     AppServerConnection <-- AppServerConnectionProofs

ChannelMiddleware <-- ChannelAdapters <-- MCSurroundings
                      ChannelAdapters <-- ChannelsProofs
                      PendingRequests <-- MCSurroundings
                      PendingRequests <-- PendingRequestsProofs
BridgeProcesses, CoreProcess,
NativeSettings, EnvFile   <-- Host    <-- MCSurroundings
                              Host    <-- HostProofs
OutboundSpool, InboundMedia <-- MessageFiles <-- MCSurroundings
                                MessageFiles <-- MessageFilesProofs
```

In all of them an action is what runs on the event loop (or in a worker thread)
between two awaits. Variables carry the names of the code's attributes where
they have one; `map` in `PROJECT.json` gives the lines of every definition.

### DurableStore, StatePersistence, StatePersistenceProofs

`DurableStore` is the contract of the state file: memory changes, the file moves
forward to some state memory has had, a caller may be told that the file holds
at least some state, and a restart goes on from the file.

`StatePersistence` is `store.py` without the data. A state is its *stamp*, the
number of mutations in it; a snapshot also has a *revision*, the number the code
gives it (it starts again at zero with every process, which is why the two are
distinct). `Save` stands for every mutator; `WriterBegins` and `WriterResumes`
for the background writer between its awaits; `WriteLands` and `WriteFails` for
a worker thread in `_write_serialized_state`; `CommitBegins`, `EnsureBegins`,
`CommitEnds`, `CommitCancelled` for the task of an inbound message under
`_async_persistence_lock`; `FlushBegins` and `FlushReturns` for
`flush_pending_writes`; `Crash` for the death of the process and `_load`. What
the mutators do to the data is the business of the other modules.

### OutboxStore, ReliableDelivery, TerminalOutbox

`OutboxStore` has the data: one record of bindings, watches, outbox, sequence and
receipts, and one operator per mutator. `TerminalOutbox` keeps two of them, `mem`
and `disk`. It takes over from `StatePersistence` what that module establishes: a
flush that returns has written the whole state (`Flushed`), and the background
writer may do so at any time (`Persist`).

`svc` has the in-memory sets of `BridgeService`, `MessagePump` and the store;
`lane` is the holder of `_terminal_projection_lock` with its program counter:
the live handler, the delivery of a recovered turn, the drain of the ready
handler or that of the retry task. The actions are grouped as in the code: the
user (`StartTurn`, `Stop`, `Select`, `Detach`), live projection (`LiveItemStarted`,
`LiveItemCompleted`, `LiveTurnCompleted`), `_deliver_terminal_message` (`Staged...`,
`Receipt...`), `_deliver_pending_terminal_once` (`Drain...`), the retry task, the
connection (`Connect`, `LoseConnection`), `rehydrate_bound_threads` (`SkipUnbound`,
`ReplayThread`, `ResumeReturns`, `ResumeFails`, `RehydrateEnds`), recovered turns
(`RecoverTurn`, `RecoverTimesOut`, `ReadyDrains`) and `Crash`. Answers and turns are
model values; a delivery id is an answer or, for the fallback of a completed
turn, the turn itself (`terminal_identity.py`).

`ReliableDelivery` is what an observer of the file and the sinks may rely on:
an entry leaves the file only after its own sink took it, and a sink takes an
entry only while it is in the file and after everything earlier of its route.

### ThreadOutputGate

A native message is its receive sequence, an index of `wire`. `lanes` and `busy`
are the two dispatch queues and what their dispatchers do; `next` and `admitted`
the sequence counters of the gate; `gates` one record per thread with the fields
of `_ThreadOutputGate`; `cmd` the progress of each inbound message. `Offer` is one
round of `_buffer_thread_output_unordered`, `Admit` and `Wakes` its two callers
(the ordered admission, and the loop after `capacity_available`); `Begin`,
`Attached`, `HistoryRead`, `Responds`, `ResponseFails`, `Redelivered` follow a
command; `DrainTakes`, `DrainSends`, `DrainRejects`, `DrainSendFails`, `DrainFinishes`
the drain and its retry; `Discard`, `DiscardStep`, `DiscardFails`, `DiscardCancelled`,
`CommandCancelled`, `DrainCancelled` the ways out; `Reset` and `Close` the rest.

A message that no gate holds back passes (`GoesLive`) and is not shown by that: its
lane waits for the projection lock, the outbox and the sink, and the other lane goes
on meanwhile. The presentation ends (`LiveEnds`), raises into `_dispatch_one`
(`LiveFails`) or is cancelled with its connection (`Reset`). Some requests the bridge
answers by itself (`own`: `currentTime/read`, or no route); of a lost connection
such a request cannot be answered any more (`Expired`): a drain raises and puts it
back, a discard goes on without it. `failed` is the history of what was given up
because its send failed and the code does not repeat it.

### AppServerConnection

`conn` is the client: its fields under their own names, the reset under way
(`reset`), the receive loop (`listener`) and one record per task that uses it. The
tasks are the callers, the background reconnect loop, the cleanup task of a reset
(whose handlers call the client again) and whoever calls `close`. A connection is
its epoch. Four fields are history: `open`, `hellos`, `restored`, `notified`.

In this client a task passes through several methods before it waits again:
`_ensure_connected` may return to a call, to `initialize`, to the sending of a
request or to that of a reply, and each of them goes on differently. So the
module is written as functions from `conn` to `conn`, one per method or part of
one (`Ensure`, `Loop`, `Connects`, `Initializes`, `Hello`, `Send`, `Fails`, ...);
`place` says to which caller a wait returns, and an action is an event that wakes
a task, followed by these functions. The phases of `reset` are the awaits of
`_reset_connection_impl`: tasks are stopped (`stop`), the transport is dropped
(`drop`) and closed (`close`), the handlers run (`notify`, `interrupt`), and the task
that began it resumes (`over`).

Abstractions: whoever waits for a lock may get it (asyncio serves them in order,
which is one of the orders checked); sending `initialized` is part of the step that
receives the answer to `initialize`; the ready handlers make at most one request of
their own; a connection that was never ready has no turns to interrupt; only a
child process is found closed by `is_closed()` (connections of a current
`websockets` have no attribute `closed`, for which `client.py:137` then reads false),
a websocket's end is seen by the receive loop; the start-up of the runtime is an
ordinary call.

### MCSurroundings

The second half of the diagram models the parts around the core. They share no
state below the level of these modules: what one does to another is an input
there (a message arrives, a turn produces a picture, a process dies). So each
behaviour of `MCSurroundings` is about one of them, which the variable `part`
says, and the others keep their initial state; one run checks them all. The
initial states of a part are scenarios (`SomeSpool`, `SomeMedia`, ...): which of
its requests, calls or edits take part, and how many faults there may be.
`IdleSpool` and its like are the parts a behaviour is not about.

### ChannelMiddleware, ChannelAdapters

`ChannelMiddleware` is `UnifiedChannelMiddleware`: a caller is a task inside
`handle_inbound`, a message waits for the lock of its conversation (`lockQueue`),
is found to be a duplicate (`FindDuplicate`, `Replay`) or staged, executed,
marked and answered (`Begin`, `Preflight`, `Prepared`, `Answered`, `Commit`,
`Send`), and every one of these may fail. `markers` and `disk` are the recent ids
and answers with the two limits of `store.py`; `kept` is what a handoff gate
answers with. `ChannelAdapters` adds the five ways messages come: the offset of
Telegram, the buffer of Weixin, the gateway sessions of QQ with sequence and
epoch, the bounded queue of Feishu, the webhook with its upload slots and
deadlines. A behaviour has one channel. `Crash` starts the process again from the
saved cursor and markers. `executed`, `forgotten`, `told` and `lost` are history.

### OutboundSpool

Files on their way out: requests of the delivery API (`PostFiles`,
`StageUpload`, `Submit`, `Leave` and their failures), native turns that produce pictures
(`TurnItem` ... `TurnRecovered`), the outbox that sends a message file by file and
checkpoints what is left (`SendFile`, `FileSendFails`, `SentAll`), the retry task, and the
cleanup, which collects references on the loop (`CleanupBegins`) and deletes in
a thread (`CleanupEnds`). `TerminalOutbox` has the delivery of answers; here a
message is its files, and what matters is who still refers to them: the outbox
in memory and on disk, uploads in progress (`uploading`), recoveries (`recovering`),
buffers, leases. `doubts`, `pruned` and `unleased` record the exceptions below.

### InboundMedia, MessageFiles

The materializers for images and files of one channel, which share a directory.
Child processes (`worker`) look, stage and clean under a file lock (`flock`); a
call (`fetch`) waits for its child, and gives up at a deadline or when it is
cancelled (`CallGivesUp`), killing the child or, if that fails, leaving an orphan. A
materializer that is not sure what is in the directory is `tainted` and refuses.
`MessageFiles` puts this module beside `OutboundSpool` and states what both promise of
the files (`FilesAreAccountedFor`).

### PendingRequests

Requests of the app-server: the dispatcher of the request lane (`handler`), the
routes keyed by request id, the command of the user under way (`command`) with
its `/approve` of one or all, the delegated tasks of dynamic tools with their
grace period (`task`) and the bounded memory of completions, the reset handlers.
An id means one request per connection; two of the requests have the same id on
different connections, and one id is a prefix of another, because replies are
looked up by prefix. `answers` records on which connection a response was written.

`gate` is the gate of `ThreadOutputGate` as far as requests see it: while it stands
for the turns it is `of`, requests and resolutions are set aside (`SetsAside`) and
handled by its drain, a second handler beside the dispatcher of the lane
(`handler["gate"]`), which no reset cancels. So `GateHolds`, `GateOpens`, `Emptied`,
`DrainCancelled`, `DiscardCancelled`, `HandlerExpires` and `NoticeFails` are there,
and two histories: `late` are requests the gate had when their connection was reset,
`cut` those whose handling by the gate was cut short. Simplifications: one gate at a
time, of all bound or all unbound turns, and `handoffs` of them; how the drain goes
on after an ordinary message has failed is in `ThreadOutputGate`.

### BridgeProcesses, CoreProcess

`BridgeProcesses` is the life of a bridge: preflight, the parts in `StartOrder`,
the port, the parts in `StopOrder` with whatever fails remembered (`failed`), and
`imcodex restart` step by step (`ReadsSnapshot` ... `AwaitsHealth`). The operator may
start a bridge at any time, and restart commands, each asked for once, run one beside
the other. `current` is the run directory with the launch snapshot and the delivery
credential; making it anew is one step. `dirty` says that something changed the store
after its last save. Two histories: `overlap`, a start or restart was begun beside
another bridge or restart, and `crossed`, the bridges that found the port free while
another one that did not hold it (not yet, or no more) was there. `CoreProcess` is the
dedicated Codex core: launcher scripts and stop commands that find each other
only through `core.json` and the owner of a port, and process ids that the system
gives to strangers.

### NativeSettings, EnvFile, Host

`NativeSettings` is the user configuration the app-server keeps: edits read
(`Reads`), are checked against the catalog of models (`Allowed`) and written
(`Writes`), with the version that was read or, for chat commands, without. An edit
may unset the model; then the default of the catalog counts (`ModelOf`).
`EnvFile` is `.env` under `admin/config_store.py`: a save takes two locks, compares
revisions, validates, prepares, looks again and replaces; a person edits the file
beside it. `Host` puts these two beside the two of processes and states what they
promise together (`SettingsStayUsable`, `OthersAreRespected`).

## 3. The runs

| Run | Question | Instance |
|---|---|---|
| `persistence` | Does the file keep what callers were told, never go back, and does every save and every flush get an answer? | 2 messages, 1 flusher, 3 mutations, 4 snapshots, 1 crash, 1 cancellation per message |
| `outbox` | Do all answers reach the file or the sink, in order, and stay settled? | 1 conversation, 1 thread, 2 turns (one answers, then reopens; one is silent and fails), any 3 disturbances of 7 kinds |
| `outbox_live` | Is what is staged delivered, although another conversation is dead for ever? | 2 conversations and threads, native replays ended turns, 1 crash or lost connection |
| `gate` | Is native output shown once, in wire order, after the answer? | 1 conversation, 2 threads, 1 switching and 1 plain command, 3 messages, gate limit 1, any 2 disturbances |
| `gate_live` | Is everything received shown in the end? | 2 conversations that want the same thread, 2 messages, gate limit 1, any 1 disturbance, cancellation and shutdown included |
| `connection` | One transport and one handshake at a time, no early "ready", nobody waits in vain, every call ends, the connection comes back? | 2 callers, the reconnect loop, the reset and a closer; a persistent or a spawned server, any 2 disturbances |
| `surroundings` | Are messages handled once, do deliveries keep their word, are files, requests, processes and settings accounted for, and does everything that was begun end? | 33 scenarios of 8 parts, see below |
| `persistence_twice_cancelled`, `outbox_two_answers`, `gate_failed_attach`, `gate_stale_request`, `connection_stdio` | the five disagreements of section 5 | smaller than the above |

**Bounds.** `MaxStamp`, `MaxRevision`, `MaxCrashes`, `MaxCancels` bound mutations,
snapshots of one life, crashes and cancellations: three mutations are a snapshot
being written, one in the queue and one in memory, and a fourth revision is the
second write of a dirty marker. `MaxWire` bounds native messages: three are a
message in the gate, one waiting for capacity on its lane and one on the other
lane. `Limit = 1` makes a full gate common (the code has 1024). `Own` lets requests be
the bridge's own in `gate_live` only: they differ from others in how a drain ends. `Budget` bounds
each kind of disturbance and `Trouble` all of them together; the worst cases we
know (section 5) need two or three, and each takes at most one of a kind. The
number of turns, answers and messages is bounded by the constant sets. In
`AppServerConnection` the disturbances are a peer that goes, a failed receive,
connect, send or ready handler, a time-out, a refusal, an overload, a cancelled
call and the close; `Trouble` bounds them, and with them the connections: `MaxEpoch`
is never reached. The invariants also hold with three disturbances for both kinds
of server (1.7 million states, too long for a regular run). `Attempts = 2` is one
retry, `MaxTurns` the turns that one reset handler interrupts.
`TerminalOutbox`, `ThreadOutputGate` and `AppServerConnection` may stop (nobody needs
to do anything more), so deadlock is not an error there; in `StatePersistence` a caller
can always flush again, so it is checked.

In `surroundings` every part has a budget of faults (the last argument of its
`...Init`), 0 to 2, and scenarios that are larger have fewer. Channels: 4 messages
of 2 conversations on the channels that poll, 3 on QQ, 2 on the webhook with 2
clients; message 3 is denied, 2 has media, 1 opens a gate. `RecentLimit = 2`,
`ReplyLimit = 1`, `QueueLimit = 1`, `UploadLimit = 1` make pruning, expired
answers, a full queue and a wait for a slot happen with so few messages (the code has
1024 and 32 for the middleware, 64 for the queues). Outbound: 3 requests of which one repeats and one
contradicts another, or two turns that make the same picture; `AckLimit = 1`,
`SpoolLimit = 3`. Inbound: `Quota = 2` files and `BatchLimit = 2` for two
materializers, so that each finds room alone and both together do not; a corrupt
and an unavailable file. Requests: 7, of all sorts, 2 connections, at most one gate;
the scenarios with a gate have one or two requests and at most one fault. Processes:
two starts with a fault, a start and a restart with a fault, a start and two
restarts of 3 bridges (larger ones, 2.5 million states for a start and a restart
or two of 3 bridges with a fault, were checked once for safety and are too long for a
regular run); the ids that the restarts to come may need are kept for them. 2 cores
for 2 scripts and a stop. The manifest, the listener and `/readyz` are looked at in one
step (`VerifiesCore`), and nobody dies between the last look of a stop and its
signal. Settings: 7 edits of three origins, in scenarios of at most 3; the
app-server always says which version the user's layer has (`Versioned`); `.env`: 2 pages of one process or of two. With more of
anything the states multiply but no new kind of encounter appears: each hazard
of `PROJECT.json` needs two actors and a fault, most of them two actors alone.

**Fairness.** The event loop is fair: a task that can run does (weak fairness of
every handler, drain and writer). A disk operation, a request and a send end one
way or the other, which is the disjunction of both outcomes under one `WF`: no
run assumes that an operation succeeds. A lost connection is opened again, as the
background reconnect does without giving up. `gate_live` also assumes that the
platform sends a message again whose handling failed, as all polling channels do;
without it a gate stays shut (a hazard in `PROJECT.json`). `AppServerConnection` needs
only `WF_vars(Progress)`: as long as something can go on by itself, something does;
that includes an answer of the native server and the end of a socket that is gone,
and no fault, call or close. `MCSurroundings` has a weak fairness condition for each
task of each part: a gateway, the loop of an adapter, every webhook client, a
cleanup, the holder of the projection lock, child processes that can still be
killed, each call, each lane of native requests, each bridge, the restart command.
Only the retry task of the outbox has strong fairness, because others take the
lock it waits for again and again and asyncio serves them in order. Weixin and
Telegram poll for ever, a webhook client posts until it is answered. Nothing obliges the
user or native to act, and no fault has to stop: only its number is bounded.

**What is external.** The app-server and the platforms are modelled from how
the code uses them. Native numbers nothing; a resume may replay items (`Replays`):
of a running turn to a connection that was not subscribed, or of an ended turn
too. A sink accepts or fails; `DeadRoutes` are conversations that never accept.
The answer of `turn/start` precedes the notifications of that turn.

## 4. What the properties say

*StatePersistence.* `ReportedIsDurable`: what a flush or a commit reported is in
the file, also after a crash. `CleanMarkersAreDurable`: a processed marker that
does not count as dirty is in the file, because a duplicate of that message is
acknowledged without another write. `DiskNeverRegresses`, `SaveSettles`,
`FlushAnswers`, `RefinesDurableStore` as their names say; `DurabilityInv` is the
inductive invariant of the proof.

*TerminalOutbox.* `AnswersNotForgotten`: from the moment the watch of a turn is on
disk there is always somebody who owes its answers: the watch or, once it is
gone, the outbox or the sink that took them. `SettledStaysSettled`: what a sink
took and the file no longer owes is not owed again, across restarts and
replays. `NoEmptyNoticeAfterReceipt`: nobody is told that a turn gave no answer
when a receipt shows that it did. `RefinesReliableDelivery`: staged before sent,
kept until taken, in order. `StagedIsDelivered`: a dead conversation does not
block the others. `OutboxInv` has what these rest on: the lane holds nothing that
is not on disk, and nothing earlier of its route is left behind.

*ThreadOutputGate.* `NothingLost`: what has been admitted is shown once, or is being
presented, or waits, or was lost for a reason the code has: with its connection or
with the bridge (`dropped`), or because its send failed and nobody repeats it
(`failed`), which happens to live messages, rejected requests and what a discarded
gate had held, but never to a notification in its gate. `InWireOrder`: the order of
the wire, except that a live message may be overtaken by the other lane, and by that
only, while it is being presented (`Overtaken`). `AnswerComesFirst`: nothing passes a
gate that stands, and before the answer only what had passed earlier is still shown.
`ProjectedOnce`; `HandoffIsComplete`: a gate that is not discarded stays until all
that native had sent when it answered has been handed over. `EverythingIsShown`: in
the end every message is shown or lost for one of the reasons above, unless a drain
is stuck (section 5). `GateInv` relates gates, buffers and counters. Messages of a
gate that was discarded (`strays`) are exempt from order and from the answer: that is
what a discard means in the code, and section 5 says what the docs make of it. Without
any one of these exceptions TLC finds a violation.

*AppServerConnection.* `ReadyMeansRestored`: "ready" stands for the present
connection, after its handshake and its ready handlers, and somebody still reads
from it. `OneConnectionOpen`: one transport at a time and
one handshake per epoch, whoever races for the next. `LossIsHandledFirst`: the reset
handlers ran exactly once for every connection before the next is there, which
is what the gates and the pending requests rely on. `StaysOnItsConnection`: no
retry and no reply moves to another connection. `NobodyWaitsInVain`,
`EveryCallEnds`: a future is either on the present connection or about to be failed,
and neither locks nor resets nor cancellations keep a call for ever.
`CloseIsFinal`, `RestoredInBackground`: the two ends of the reconnect loop. Those that
speak of `External` are false of a spawned child, for the reasons of section 5.

*MCSurroundings.* Each property joins what the parts promise, under their names
there; the mutants break each of them in the part where it is hardest to keep.

* `MessagesAreHandledOnce`: `ExecutedOnce`, a message is executed once, and again
  only when its marker was never on disk or has been pushed out by newer ones
  (`forgotten`); `NoticeOnlyWhenOld`, "this reply has expired" is said only of a
  message after which `ReplyLimit` others were answered; `CursorFollowsAnswers`,
  no cursor of a platform passes a message that was not answered.
* `DeliveryKeepsItsWord`: `AcceptedIsKept`, what a client was told is "queued" or
  "delivered" is on disk or sent; `SentAgainOnlyInDoubt`, nothing is sent twice
  unless the first sending was not confirmed or not recorded (`doubts`);
  `OneContentPerId`, until the receipt is pruned (`pruned`).
* `FilesAreAccountedFor`: `FilesOutlastTheirUse`, what somebody refers to is in the
  spool, with the exceptions `unleased` (equal pictures share one uncounted lease;
  the preflight of a restart cleans the spool of the bridge that still runs);
  `SpoolMatchesResults` and `QuotaHolds` for inbound files.
* `AnswersGoHome`, `RequestsAreAnsweredOnce`: a decision goes to the request it was
  made for, on its connection, once; a tool call a peer has completed is not
  answered by the bridge as well. No route and no task outlives the reset of its
  connection, except those of a request a gate had set aside (`late`); and a request
  may be answered twice only if the gate handled it twice or kept a request of the
  same id over a reset (`Hindered`). Both exceptions are behaviours of the code.
* `BridgesTakeTurns`: `OneOwner`, a restart never has its replacement beside the bridge
  it replaces, whatever else is started, and bridges that do not overlap (`overlap`)
  are one at a time; `RunDirectoryIsOurs`, who serves has the port, and its own
  snapshot and credential in `run/current` although others are started beside it,
  unless it is one of `crossed`; `LeavesNothingBehind`, who exits has undone all it did, and has no
  unsaved change unless something could not be stopped or saved.
* `SettingsStayUsable`: `ModelSupportsSettings`, effort, speed and personality fit
  the model unless a write without version met what it had not read
  (`overtaken`); `ChannelStaysUsable`, `.env` does not enable a channel without its
  secret.
* `OthersAreRespected`: `HealthyIsTheNewOne`, `CoresAreIdentified`,
  `ChoiceIsNeverOverridden`, `NoEditIsLost` (but for an edit that slips in between
  the last look and the replacement, `slipped`).
* `EverythingEnds`: every message is answered unless it is `lost` (a crash or a full
  queue of Feishu, an invalidated session of QQ), what was queued is
  delivered, fetches return although a process cannot be killed, what is old is swept, no
  native request is left without an answer or a question to the user unless a gate
  is stuck or gave it up (`GateIsStuck`, `Hindered`), and who was told to stop stops.

## 5. Where the code does something else than its words

Each of these is a run that TLC must find violated.

1. `persistence_twice_cancelled`: a second cancellation of the task that commits
   an inbound message hits an unshielded await. The marker then counts as clean,
   although the write is pending and may fail; the comment at `store.py:391` says
   that this cannot happen. `MarkersAreDurable` proves the property for at most
   one cancellation.
2. `outbox_two_answers`: the retry drain releases the watch and the receipts of a
   completed turn while the turn still waits for its recovery. The recovery goes
   on, and after a crash in between an acknowledged answer is staged again.
3. `gate_failed_attach`: a gate is removed before its buffer is processed, and
   live messages of the thread overtake the buffered ones.
4. `gate_stale_request`: a server request that a gate buffered survives the loss
   of its connection and is shown afterwards.
5. `connection_stdio`: the handlers of a reset of a spawned server interrupt its
   turns through the same client, which spawns the next child for that. If that
   child ends too, the loop of `_ensure_connected` calls `_reset_connection`, which
   returns at once in the cleanup task, and starts again: no await in it suspends,
   and the event loop of the whole bridge stands still. `test_appserver_stdio.py:866`
   expects the next call to respawn the server.

Three more observations from the same models, by changing constants, are
hazards rather than findings because they hang on what native does:
with `Replays = {}` (native replays nothing of a running turn)
`AnswersNotForgotten` fails for an answer produced while disconnected by a turn
that is still running at the resume; with `Replays = {"running", "done"}` a
replayed completion discards the watch of a turn that is about to be recovered;
and an answer that is staged but not yet acknowledged does not keep a reopened
turn from the notice that it gave no answer, which is why
`NoEmptyNoticeAfterReceipt` speaks of receipts.

Observations about handoff gates. They stand behind the exceptions of the properties,
and each is a behaviour TLC shows when its exception is dropped:

* A live message is shown several awaits after it was admitted (`core.py:746-831`), so
  the other lane may overtake it, without any gate; and an exception of the sink ends
  in `_dispatch_one` (`client.py:1172-1186`) and takes the message with it.
* A discard goes on after what it cannot send (`thread_handoff.py:691-714`), and a
  discard that is cancelled gives up the rest. Cancelling a command while the retry
  task of its gate holds a message loses that message.
* A gated request of a lost connection that the bridge would answer by itself raises
  at every attempt of the drain (`client.py:727-740`): the gate is never emptied, and
  the thread says nothing any more until it is discarded. The product specification
  says that a transient outage cannot strand a gate
  (`docs/product-behavior-spec.md:426-428`).
* A gated request that needs the user makes a route after the reset of its
  connection, the same as finding 4: his answer is refused ("try again"), and the route
  stays until its turn stops. Its resolution, or its rejection, which the gate may
  hold as well, removes a route *by id*, and on the new connection the id may mean
  another request: `AnswersGoHome` and `AnsweredOnce` except these.
* A drain that is cancelled, or whose notice fails, puts a request back it has already
  shown or refused, and it is shown or refused again.

Three observations about the connection. Of a spawned server `AtMostOneHandshake`
fails: when the handshake that a reset handler made fails, nothing resets that
connection, and the next call makes a second one on it. A reset handler may also
leave a child running that it spawned while `close` was under way. And, for both
kinds of server, a task that waits for the initialize lock may find `initialized`
still set for a connection whose reset has begun; it then waits for the reset and
sends its request on the next connection before anybody has initialized it. No
document speaks of it; the model follows the code there, and `StaysOnItsConnection`
speaks of retries and replies only.

Observations from `surroundings`, where the code and its documents differ or where a
property needs the exception named above. They have no run of their own because
the document leaves the case open or the exception is meant:

* **QQ sessions.** `docs/system-constraints-spec.md:50-53` lets a cursor pass a
  message only when it was handled. After an invalidated session the READY of
  the next one sets the sequence (`qq.py:671-676`) while messages of the old one
  are still in work; `SequenceFollowsAnswers` fails then, and
  `CursorFollowsAnswers` asks for it only before the first invalidation.
* **Preflight of a restart.** It builds a runtime, which loads the state file and
  cleans the spool (`composition.py:105`), although
  `docs/system-constraints-spec.md:333` wants nothing touched: uploads and
  buffered pictures of the running bridge go (`OutboundSpool.PreflightCleans`).
* **Run directory.** `docs/startup.md:288-291` says that a second launch fails without
  replacing `run/current`. That holds for a bridge that has its port. The preflight
  only tries whether the port is free: a launch while the first has not bound it yet, or
  has given it back and is still on its way down, or the launches of two restarts
  at once, pass it, and `observability/runtime.py:149-155` makes `run/current` anew. The
  bridge that then serves has neither launch record nor delivery token there, and
  `imcodex restart` does not find it. `docs/system-constraints-spec.md:495` calls
  overlapping bridges unsupported; the model has them, and the properties name them
  (`crossed`).
* **Core manifest.** `start` overwrites the manifest of a core that may still live
  (`core_manager.py:80-107`), and `stop` marks what it had read (line 203): a core
  becomes an orphan that no command finds. `CoresAreIdentified` holds all the same.
* **Chat settings** name no version (`settings_backend.py:545-834`): one that
  overtakes another edit may leave a combination the catalog does not offer.
* **`.env`.** `restart_required` compares with the file as it was when the store of
  this process was created (`admin/config_store.py:125`), and an edit between the
  last look and `os.replace` is lost (lines 166-172).

## 6. What is proved

`StatePersistenceProofs` proves, for any number of messages, callers, mutations,
crashes and (unless said) cancellations:

* `TypeCorrect`, `DurabilityCorrect`: the inductive invariant holds;
* `ReportedIsAlwaysDurable`: what was reported as written is in the file;
* `DiskIsMonotone`: the file never goes back to an older state;
* `ImplementsDurableStore`: the store implements `DurableStore`;
* `MarkersAreDurable`: clean markers are durable if a message is cancelled once at
  most, which by finding 1 is the best one can have.

`ReportedIsDurable` is not inductive: a flush reports the last save when it sees
no writer and no remembered failure, and why then that save is in the file is
the whole story of the queue. `DurabilityInv` tells it: revisions and stamps order
all snapshots alike (`VersionsOrdered`), none is newer than the last revision
(`VersionsBounded`), the last save is in the file, queued, being written or
remembered as failed (`SaveAccounted`), and without a writer task nothing is
queued or being written (`WriterConsistent`). So when a flush finds neither, the
last save is in the file. `WriteLands` needs the order to conclude that a larger
revision is a newer state, and that gives `DiskIsMonotone` and the refinement.
`MarkersAreDurable` adds `MarkersFollowed`: the job of a message writes a state that
contains its marker. The proofs assume `BackgroundAssumption` and
`BoundsAssumption` of `StatePersistence` and nothing else.

`TerminalOutboxProofs` proves, for any conversations, threads, turns, answers,
bindings at the start, dead routes and any number of disturbances:

* `OutboxIsSound` (`OutboxInv`) and `OutboxImplementsDelivery`: the outbox with its
  live handler, recovery, two drains, background writer and crashes implements
  `ReliableDelivery`;
* `AnswersAreNotForgotten` (`AnswersNotForgotten`), where native repeats to a resumed
  thread what its running turn has said and nothing of turns that are over
  (`Replays = {"running"}`). With any other value TLC shows the counterexamples of
  section 5, so this is what the bridge asks of native, not a convenience;
* `NoNoticeAfterReceipt` (`NoEmptyNoticeAfterReceipt`), `OneMessageStaysSettled` and
  `SettledForGood` (`SettledStaysSettled`), under the same assumption: no turn is said to
  have given no answer when a receipt on disk shows that it did, and what is settled is
  not staged again. The second is about the turns that have one message to give
  (`Single`), in any instance; the third is the property of the run, for instances in
  which every turn is such a turn. The hypothesis is as weak as the code allows: with
  one more answer the property is false (finding 2, `outbox_two_answers`).

The first two rest on `DeliveryInv`: `OutboxInv` and what the types leave open, above
all that every set of staged entries has a last one (`Bounded`; `Loaded` takes up the
sequence from it, and the order of a route would start over otherwise) and that
a thread is bound to one conversation (`BoundOnce`). Each step is shown to keep the
part of it that the lane owns (`Delivery`) apart from the rest (`Surroundings`), and a
step of the abstract outbox is found where `disk` or `accepted` change:
`FlushCommits`, `SinkDelivers`, or a stutter.

That nothing is forgotten is a statement about turns, and its invariant,
`TurnBooks`, says why a watch may be given up at the end of a turn although messages
of the turn are still under way somewhere: when the completion is at the head of
the queue, every answer of the turn is staged or taken, because each one was
queued ahead of it and handled (`AnswersComing`); it was handled because its
thread is bound (`QueueInv`) and the turn is not suppressed, since a suppressed
turn is over and has nothing in the queue; "known" means that a sink took it
(`ReceiptsTrue`, which is why a receipt is written after the sink returns); and a
turn that needs no notice has an answer in hand (`OwesNothing`). A crash falls back
on what is on disk, so the books are kept twice, for `mem` and for `disk`
(`CompletedSettled`). `NativeInv` has what native guarantees: one turn of a thread
at a time, and a turn that is over stays over. Most steps have nothing to do with
native; they are covered by one statement of what such a step may do to the
books (`Quiet`, `QuietKeeps`), and those of native by what the queue gains
(`Says`, `AnswersGrow`) or loses (`AnswersTaken`).

That nothing is said twice is harder, because the bridge forgets on purpose: with the
watch of a turn its receipts go. `MemoryBooks` adds to `TurnBooks`, for each turn the
user has not dismissed, where the memory of an accepted message is (`Remembered`): a
receipt next to a watch, an entry still to be struck off, or a watch given up for good
(`Gone`), and then the process knows the message or nobody will ask (`Due`). It is
kept for `mem` and for `disk`, since a crash makes one of the other. Why nobody asks
after a watch that is gone is `Followed`: a turn that native may still speak of
(`Heard`) or that is to be recovered is watched, and never both at once. `NoticeLast`
has that the end of a turn is the last that native says of it, so its notice comes
after all its answers; `Working` what the handler on the lane may still count on after
each await, and `ReceiptsApart` that a receipt is of nothing staged. One statement of
what a harmless step does to a turn (`Gentle`, `GentleKeeps`) covers most actions, and
three lemmas the others: a message is staged, one is taken, a watch is given up
(`StageMemory`, `AcceptMemory`, `DiscardMemory`). TLC has checked
`MemoryBooks` on five instances (one or two turns of a thread with two, one or no
answers, failing and reopening turns, up to six disturbances; the largest has 5 million
states) before it was proved.
The two theorems then ask where a step can take a message from: the file is only ever
rewritten from memory (`StepDisk`), and a notice enters the outbox from the handler of
`turn_completed`, from the recovery, or from the file after a crash (`NoticeStaged`).

`ThreadOutputGateProofs` proves, for any conversations, threads, commands, messages,
gate limits and any faults:

* `GateInvariant`: the inductive invariant `IInv`; from it `GatesAreInOrder` (`GateInv`),
  `ShownInWireOrder` (`InWireOrder`), `EventsProjectedOnce` (`ProjectedOnce`) and
  `AnswersComeFirst` (`AnswerComesFirst`);
* `NoMessageIsLost` (`NothingLost`) and `HandoffsAreComplete` (`HandoffIsComplete`),
  without any hypothesis: `AllAccounted` says that an admitted message is at one of the
  places it can be or in one of the histories of loss, and `FailedInv` what may be in
  `failed`.

`GateInv` is not inductive: that a drained buffer is in wire order hangs on the
order of the lanes, on the ordered admission (`next = admitted + 1`), and on who may
hold a message that has left the buffer. `IInv` follows a message from the wire
through lane, admission, buffer, drain and output, each place in order and before
the next, and a gate through the command that owns it; the messages of a
discarded gate are followed until they are handed over or given up. What passes is
followed to the end of its presentation (`LiveInv`): it is the newest its lane has
admitted, and older than all that a gate of its thread holds, which is why only the
other lane can overtake it.

`AppServerConnectionProofs` proves, for any callers, targets, retry attempts, number of
interrupted turns, connections and disturbances:

* `SoundAlways`: the inductive invariant `SoundConnection`; from it every invariant of
  `connection` but the liveness: `Typed` (`TypeOK`), `ReadyAfterRestore`
  (`ReadyMeansRestored`), `OneOpenConnection` (`OneConnectionOpen`), `LossHandledFirst`
  (`LossIsHandledFirst`), `SentOnOneConnection` (`StaysOnItsConnection`), `NoVainWait`
  (`NobodyWaitsInVain`) and `ClosedForGood` (`CloseIsFinal`).

None of the seven is inductive, and they need each other: that a loss is told once
hangs on one connection being open at a time, that on who holds the connect lock,
and that on where every task waits. `Sound` has two parts. `Whole` is about the
connection: which fields a phase of the reset has already changed, that there is a
listener as long as there is a transport, that the handshake of a connection was
sent once (`Clean`), and that each earlier epoch has been told. `Fine` is about a task
that waits: the locks it holds (`LocksOK`), what it holds at this place of the code
(`PlaceOK`), its part in a reset (`RoleOK`), and why its answer comes or its future
fails (`WaitOK`).

The proof follows the code. A task that runs between two awaits is not fine: it may
hold the lock of a place it has left. So each of the functions from `conn` to `conn`
has a lemma of the form "if everything else is fine and task t holds what it should
(`Runs`, `Tidy`, `Rightly`), the state in which t waits again is sound" (`EnsureSound`,
`InitializesSound`, `ErrorSound`, ...), and each action a lemma that finds `Runs` where
the task wakes. To the cleanup task a reset is a no-op, and over stdio its loop may
then spin for ever (finding 3): from then on nothing is claimed of the tasks, and
`Sound` says that this happens to no persistent connection. The proofs assume
`ConnectionAssumption`, which says that names are different and bounds are numbers.

Four modules prove safety of the parts of `surroundings`, for the next-state relation
and the initial states of the part, any number of actors and any budget of faults.
What they assume of constants is an `ASSUME` of the module that declares the constants,
which TLC evaluates in `surroundings`; what they assume of the initial state stands in the
theorems.

`ChannelsProofs` proves `ChannelsStayConsistent` (the inductive invariant `ChannelsInv`) and
from it `MessagesAreHandledOnceAlways` (`MessagesAreHandledOnce`), for any messages, callers,
conversations, limits, channels and faults:

* In the middleware, "executed once and again for each time the marker was lost" is a
  statement about three places: the marker, the caller between execution and marker,
  and the count. `ExecutionsCounted` says that an execution too many is one that is marked
  or in the hands of a caller, `LockIsHeld` that there is one such caller per conversation
  from the second look for a duplicate to the answer, and `NotYetMarked` that what that
  caller has seen stays true: only itself could have added the marker. A crash drops
  callers and markers at once, and `forgotten` grows by what was lost.
  `NoticeOnlyWhenOld` rests on `RepliesAreNewest`: the kept replies are those of the
  newest ids, so an id without reply has `ReplyLimit` newer ones.
* The adapters are proved on top of that, and only through `Done`: a message is denied or
  told, which no step takes back. `PollInv` (Telegram, Weixin) says that a batch is what
  comes after the messages that are done. `GatewayInv` (QQ) says of every frame the client
  has received of its session that it is done or in the queue before what came after it,
  as long as no session had to be given up (`epoch = 0`), which is also what the property
  says: a new session numbers from the start and repeats nothing.
* It assumes that there are finitely many messages, and that a channel brings messages
  there are, numbered from 1 (`LoadAssumption`).

`PendingRequestsProofs` proves, for any requests, ids, turns, faults and hand-offs,
`AnswersGoHomeAlways` (`AnswersGoHome`), `AnsweredOnceAlways` (`AnsweredOnce`),
`PeerKeepsItsCallAlways` (`PeerKeepsItsCall`) and, of the last two,
`RequestsAreAnsweredOnceAlways`. `RequestsInv` follows a request from the lane, or
from the gate that has set it aside, to whoever decides: while it is in the lane or in
the gate nobody knows of it (`LaneInv`, `HeldInv`), a route and a waiting task have no
answer yet and are of the connection that is up or being reset, or of a request the
gate carried over a reset (`RoutesInv`, `TasksInv`, with `Standing`), and the three that
answer, the dispatcher, the drain and the command, hold a request that may still be
answered (`HandlerInv`, `CommandInv`). That an id names one request of a connection
(`AskedOnce`) is what native guarantees; the id comes back on the next connection,
and the routes are clean by then but for those of a gate. The reset and the stop of a
turn take many requests in one step, which the proof covers by what such a step does
to any one of them. It assumes finitely many requests and that at least one
completion is remembered (`RequestsAssumption`).

`HostProofs` is about the four parts of `Host`, one after the other, and at the end about all
of them (`SettingsAlwaysUsable`, `OthersAlwaysRespected`: `SettingsStayUsable` and
`OthersAreRespected` hold of any behaviour that is one of each part):

* `DataHasOneOwner` (`OneOwner`), `BridgesAlwaysTakeTurns` (`BridgesTakeTurns`) and
  `HealthyIsAlwaysTheNewOne` (`HealthyIsTheNewOne`), for any starts and restarts, also
  such as run side by side. `RunInv` holds whatever overlaps: who has the port is up and
  must give it back (`PortIsHeld`); two bridges that are past the preflight at the same
  time are of `crossed` (`Apart`), so that whoever makes `run/current` anew does so to
  nobody else's harm (`InCurrent`); what a process still has to take down follows from
  how far it has come (`ToUndo`), what changes the store going before the store is
  flushed, whatever fails in between, so that a process that ended by itself has
  left nothing; and of every restart command, that the replaced process has ended
  before the launch and that there is an unused id for each command that has yet to
  launch (`RestartInv`). The ids are numbers, finitely many (`IdsAreNumbers`), and at the
  start there are as many as restarts asked for.
* `TurnInv` adds what holds as long as nothing overlapped (`overlap \/ InTurn`). "At most
  one is alive" is not inductive there: `Launches` looks at nobody. From the moment the
  restart command has seen the bridge it replaces on the port, nobody else is alive, and
  nobody at all before the launch (`RestartIsAlone`), and there is one command at work
  (`OneCommand`).
* `CoresStayIdentified` (`CoresAreIdentified`): the listener of ours is a core that listens
  (`CoreInv`), so whatever a stale manifest says, `OwnsListener` finds a core, and the
  manifest that made a script a bridge names it. It assumes that every set of ids has a
  least one (`PidsInOrder`) and that `NoPid` and `Foreign` are no ids (`PidsAssumption`).
* `SettingsFitTheModel`, `ChoiceStays` (`ModelSupportsSettings`, `ChoiceIsNeverOverridden`):
  what an edit has read is what is there if the version has not changed
  (`ReadsAreVersioned`), and `AllowedEditFits`, an edit that is allowed for a configuration
  leaves one that fits, for the default model too when the model is unset. They assume
  that edits set known keys (`EditsAssumption`), as their callers do.
* `EnvStaysUsable`, `EnvLosesNoEdit` (`ChannelStaysUsable`, `NoEditIsLost`): one save at a time
  is past the lock file (`OneWriter`), and what it is about to write was accepted for the
  contents its page has shown, which are those of the file unless somebody slipped in
  (`WritersAreChecked`). They assume that `.env` is usable at the start.

`MessageFilesProofs` is about the two directories of `MessageFiles`:

* `DeliveryAlwaysKeepsItsWord` (`DeliveryKeepsItsWord`), for any deliveries, turns, files,
  limits and faults. The invariant, `SpoolInv`, keeps the outbox twice, in memory and as
  the file has it. Each store has a message once, one content per id, and a receipt only
  of what was sent (`StoreOK`); of the file, `SavedIsBehind` says that what it still lists
  is listed in memory as well or has been sent, which is why a crash may send again
  but forgets nothing, and why "queued" may be said as soon as a flush has returned.
  `CountsOK` says how often a file was sent: a file that a stored message still lists was sent
  as often as it was in doubt, once more only while its message is being sent and the
  sender is past it (`BeingSent`). So whatever ends a sending has to record what is left or
  to count a doubt. `SenderOK` has what the holder of the projection lock may rely on
  although it holds a copy (`left`, `rest`) of what the outbox has: nobody else takes
  files from a message under way.
* `FilesAlwaysAccountedFor` (`FilesAreAccountedFor`), for both directories at once. Of the
  spool, `NeededIsThere` says that what somebody needs is there *and is kept by a
  cleanup that has begun*: the thread works on references of an earlier moment, so a file
  that comes into use later must have been referenced or leased then. That holds because an
  upload is active before the stage lock is given back, because a lease ends only for
  who has handed over or is done, and because a request is never handed a file of
  another (`UploadsOK`).
* `MediaIsAccountedFor` (`SpoolMatchesResults`, `QuotaHolds`) with `MediaInv`: who writes
  has the file lock and has found room for all it will write (`RoomIsLeft`), also after
  its call has given up; what a call has in the directory follows from where it is and
  what its processes do (`CallOK`), except for a materializer that refuses from then on.

`SpoolAssumption` has the assumptions of the first two: an upload is stored under a name of its
own, so files of different requests and pictures of turns are different; a client posts a
file once per request; a turn has a delivery id nobody else uses; at least one receipt
is kept. `MediaAssumption` says that stored files have names of their own and that there are
finitely many. Both are what the token or digest in a file name and `terminal_identity.py`
provide.

Each of the four also proves the types of its parts, together the invariant `TypeOK` of
`surroundings`: `MiddlewareKeepsItsTypes`; `RequestsKeepTheirTypes`; `CoreKeepsItsTypes`,
`BridgesKeepTheirTypes`, `SettingsKeepTheirTypes` and `EnvKeepsItsTypes`;
`SpoolKeepsItsTypes` and `MediaKeepsItsTypes`. Some of these types say more than in which
set a variable is. That the lock queue of a conversation has nobody twice needs that who
waits there is in a call with a message of that conversation (`QueuesOK`), as a caller
at its deadline is taken out of the queue by name. That a bridge takes down only what is
its own, and that a cleanup of the spool keeps only files there are, follows from how far
they have come (`PlacesKnown`, `FilesKnown`). The types of the settings and of `.env`
assume that edits and pages ask for values of the catalog and of the form
(`CatalogAssumption`, `WishesAssumption`), those of the requests that there is a connection
(`ConnectionsAssumption`).

Only model-checked: all liveness (`SaveSettles`, `FlushAnswers`, `StagedIsDelivered`,
`EverythingIsShown`, `EveryCallEnds`, `RestoredInBackground`, `EverythingEnds`), which is
out of the prover's reach; `AnswersNotForgotten` and `SettledStaysSettled` outside the
hypotheses above are false.

## 7. What is left out, and the plan

Left out for good: wording, rendering and parsing of commands, texts and access
lists of channels; HTTP and platform protocols; logging, health, the event journal
and the debug harness; parsing of the configuration; protocol helpers. They change
no state that a property speaks of, or are I/O.

Left out of the modelled parts:

* transports without native recovery (`core.py:1015-1024`), the content of catch-up
  history, progress output of recovered turns;
* malformed frames, the reply bookkeeping of the dispatchers
  (`_answered_server_requests`), the verification of the shared file system; a frame
  that takes a receive sequence number and reaches no handler is a hazard without a
  property;
* the hang of a close that waits for the admission condition
  (`thread_handoff.py:56`): `Close` of the gate has the guard that nobody waits, and
  the stop of `BridgesTakeTurns` takes the stop of a part as a step that ends;
* what a process that dies between `turn/start` and the write of the watch
  (`thread_backend.py:615`) does to the answer of that turn, and that a failed
  background write waits for the next mutation (`store.py:541`): `AnswersNotForgotten`
  begins with the watch on disk, and `SaveSettles` counts a remembered failure as
  settled, because the code does;
* in `TerminalOutbox`: `Stop` interrupts the turn and discards what it owes in one step
  (`thread_backend.py:632-647`), the outcome "unverified" of a resume
  (`thread_backend.py:708-752`, 764-781, 802-820) is left out, and a failed send with the
  flush that follows it is one step (`StagedRefused`,
  `terminal_delivery.py:327-336`);
* in `ChannelAdapters`: a QQ message that waits for its next attempt does not count as
  waiting in the queue (`QueueHasRoom`), and webhook parsing, signatures and the HTTP calls of
  the platforms are inputs;
* conflicts of several conversations in the spool (`TerminalOutbox` has those), retention
  of a day as a clock, sizes of files (each counts one), the QR login of Weixin, edits of
  messages, typing indicators;
* in `BridgeProcesses` the parts of the runtime are steps that work or fail; what they
  do while they stop is in the modules of the parts.

Planned, in this order:

1. `TurnProjection` (`projection.py`, `message_pump.py`): deltas, commentary, tool and
   system events of a turn, reconciliation of the status.
2. A composition of the runtime stop with `ThreadOutputGate`: the bridge can always be
   closed.
3. The supervisor (`appserver/supervisor.py`) and the transports it starts, under
   `AppServerConnection`.
4. A composition of `PendingRequests` with the epochs and resets of
   `AppServerConnection`, of which it has its own short form now.

Proofs planned: the refinement of `ReliableDelivery` by the deliveries of
`OutboundSpool`.
