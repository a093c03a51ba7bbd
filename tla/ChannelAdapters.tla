--------------------------- MODULE ChannelAdapters ---------------------------
(***************************************************************************)
(* The five ways a message reaches the middleware, and what each promises  *)
(* its platform: Telegram and Weixin poll and keep a cursor, QQ listens on *)
(* a gateway that can be resumed at a sequence number, Feishu is pushed    *)
(* into a bounded queue, the webhook answers its caller.  A channel shares *)
(* nothing with another but the store, so a behaviour has one channel.     *)
(***************************************************************************)
EXTENDS ChannelMiddleware, FiniteSetsExt

CONSTANTS
  Load,         \* how many messages come through a channel
  Loop,         \* the task of the adapter: poll loop or queue worker
  Requests,     \* concurrent webhook requests
  Denied,       \* messages whose sender the access policy does not admit
  QueueLimit,   \* INBOUND_QUEUE_LIMIT of QQ and Feishu
  UploadLimit,  \* concurrent multipart requests
  Ready         \* the first event of a QQ gateway session

ASSUME AdapterAssumption ==
  /\ Messages = 1..Cardinality(Messages) /\ Callers = {Loop} \union Requests
  /\ QueueLimit \in Nat \ {0} /\ UploadLimit \in Nat \ {0}
Adapters == {"telegram", "weixin", "qq", "feishu", "web"}
(* A channel brings messages there are; the platforms number from 1. *)
ChannelsAssumed ==
  /\ IsFiniteSet(Messages)
  /\ \A c \in Adapters : Load[c] \in Nat /\ Load[c] <= Cardinality(Messages)
ASSUME LoadAssumption == ChannelsAssumed

VARIABLES
  channel,    \* the channel of this behaviour
  arrived,    \* how many messages the platform has
  forgets,    \* Telegram: the platform drops what an offset has passed
  cursor,     \* Telegram offset, Weixin get_updates_buf: messages passed
  saved,      \* the cursor in its file
  queue,      \* the batch, or the queue with the message in work first
  batchEnd,   \* Weixin: the cursor that came with the batch
  log,        \* QQ: the events of the gateway's session, by sequence
  client,     \* QQ: session, last sequence, epoch, connection
  gateway,    \* how often the QQ gateway may still disturb
  lost        \* messages that no part of the program has any more

adapterVars ==
  <<channel, arrived, forgets, cursor, saved, queue, batchEnd, log, client,
    gateway, lost>>
channelVars == <<middlewareVars, adapterVars>>

Polling == {"telegram", "weixin"}
(* The connection has received log[1..wire]; session is the number of the
   session the client knows, of the gateway's sessions only the last lives. *)
NoClient == [session |-> 0, lastSeq |-> 0, epoch |-> 0, up |-> FALSE,
             wire |-> 0, platform |-> 0]
ChannelsInit(of, faults, disturbances) ==
  /\ MiddlewareInit(faults)
  /\ channel \in of
  /\ arrived = 0 /\ forgets = 0 /\ cursor = 0 /\ saved = 0
  /\ queue = <<>> /\ batchEnd = 0
  /\ log = <<>> /\ client = NoClient /\ gateway = disturbances
  /\ lost = {}

Told(m) == \E kind \in {"answer", "expired"} : <<m, kind>> \in told
Entry(m, seq, epoch) == [msg |-> m, seq |-> seq, epoch |-> epoch]
Current == Head(queue).msg
LoopIdle == At(Loop, "idle")
LoopEnds(end) == At(Loop, end) /\ call' = [call EXCEPT ![Loop] = Idle]
storeVars == <<lockQueue, markers, disk, dirty, kept, held, executed, forgotten,
               told>>
-----------------------------------------------------------------------------
(* The platform: a message arrives. *)
Arrive ==
  /\ channel \notin {"feishu", None}
  /\ arrived < Load[channel] /\ arrived' = arrived + 1
  /\ channel = "qq" => log # <<>>
  /\ log' = IF channel = "qq" THEN Append(log, arrived') ELSE log
  /\ UNCHANGED <<middlewareVars, channel, forgets, cursor, saved, queue,
                 batchEnd, client, gateway, lost>>

(* getUpdates: everything after the cursor.  Telegram forgets for good what
   an offset has passed. *)
BatchAfter(gone) ==
  /\ LoopIdle /\ queue = <<>> /\ gone < arrived
  /\ queue' = [i \in 1..(arrived - gone) |-> Entry(gone + i, gone + i, 0)]
TelegramPoll ==
  /\ channel = "telegram" /\ forgets' = Max({forgets, cursor})
  /\ BatchAfter(forgets')
  /\ UNCHANGED <<middlewareVars, channel, arrived, cursor, saved, batchEnd,
                 log, client, gateway, lost>>
WeixinPoll ==
  /\ channel = "weixin" /\ BatchAfter(cursor) /\ batchEnd' = arrived
  /\ UNCHANGED <<middlewareVars, channel, arrived, forgets, cursor, saved, log,
                 client, gateway, lost>>

(* The first message of the batch or queue goes to dispatch_inbound. *)
Dispatch(of) ==
  /\ channel = of /\ LoopIdle /\ queue # <<>> /\ Current \notin Denied
  /\ Enter(Loop, Current)
  /\ UNCHANGED <<markers, disk, dirty, kept, held, trouble, executed,
                 forgotten, told, adapterVars>>
TelegramDispatch == Dispatch("telegram")
WeixinDispatch == Dispatch("weixin")
QQDispatch == Dispatch("qq")
FeishuDispatch == Dispatch("feishu")

(* A message of the batch is done: answered, or not admitted.  The cursor is
   written to its file, and when that fails the batch is dropped. *)
FirstIsDone ==
  /\ queue # <<>>
  /\ \/ LoopEnds("returned")
     \/ Current \in Denied /\ LoopIdle /\ UNCHANGED call
MoveCursor(position) ==
  /\ cursor' = position
  /\ \/ NoTrouble /\ saved' = position /\ queue' = Tail(queue)
     \/ Troubled /\ position # saved /\ saved' = saved /\ queue' = <<>>
(* Telegram moves its offset after each update. *)
TelegramDone ==
  /\ channel = "telegram" /\ FirstIsDone
  /\ MoveCursor(Max({cursor, Head(queue).seq}))
  /\ UNCHANGED <<storeVars, channel, arrived, forgets, batchEnd, log, client,
                 gateway, lost>>
(* Weixin moves its buffer after the whole batch. *)
WeixinDone ==
  /\ channel = "weixin" /\ FirstIsDone
  /\ IF Len(queue) = 1
       THEN MoveCursor(batchEnd)
       ELSE NoTrouble /\ queue' = Tail(queue) /\ UNCHANGED <<cursor, saved>>
  /\ UNCHANGED <<storeVars, channel, arrived, forgets, batchEnd, log, client,
                 gateway, lost>>
(* The handling fails: the rest of the batch is dropped and polled again. *)
PollFails(of) ==
  /\ channel = of /\ LoopEnds("raised") /\ queue' = <<>>
  /\ UNCHANGED <<storeVars, trouble, channel, arrived, forgets, cursor, saved,
                 batchEnd, log, client, gateway, lost>>
TelegramFails == PollFails("telegram")
WeixinFails == PollFails("weixin")
(* _probe_bot, _poll_once: another bot, or an offset that is too old.  When the
   file cannot be written the old offset stays in it; it is not used again. *)
OffsetReset ==
  /\ channel = "telegram" /\ LoopIdle /\ queue = <<>> /\ cursor > 0 /\ Troubled
  /\ cursor' = 0 /\ saved' \in {0, saved}
  /\ UNCHANGED <<call, storeVars, channel, arrived, forgets, queue, batchEnd,
                 log, client, gateway, lost>>
-----------------------------------------------------------------------------
(* QQ: the gateway. *)
Advanced(c, seq, epoch) ==
  IF epoch # c.epoch THEN c ELSE [c EXCEPT !.lastSeq = Max({@, seq})]
AdvancedIfIdle(c, seq) == IF queue = <<>> THEN Advanced(c, seq, c.epoch) ELSE c
MayResume == client.session # 0 /\ client.lastSeq # 0
(* OP_HELLO: resume after the last sequence, or identify. *)
Resume ==
  /\ channel = "qq" /\ ~client.up /\ MayResume
  /\ client' = [client EXCEPT !.up = TRUE, !.wire = client.lastSeq]
  /\ UNCHANGED <<middlewareVars, channel, arrived, forgets, cursor, saved,
                 queue, batchEnd, log, gateway, lost>>
(* A new session: what the old one had not sent is lost with it. *)
Identify ==
  /\ channel = "qq" /\ ~client.up /\ ~MayResume
  /\ client' = [client EXCEPT !.up = TRUE, !.wire = 0, !.platform = @ + 1]
  /\ log' = <<Ready>>
  /\ lost' = lost \union {m \in 1..arrived : ~Told(m)
                            /\ m \notin {queue[i].msg : i \in 1..Len(queue)}}
  /\ UNCHANGED <<middlewareVars, channel, arrived, forgets, cursor, saved,
                 queue, batchEnd, gateway>>

Received == [client EXCEPT !.wire = @ + 1]
IsReady(c) ==
  [c EXCEPT !.session = c.platform,
            !.epoch = IF c.session \notin {0, c.platform} THEN @ + 1 ELSE @]
InWork == IF LoopIdle THEN 0 ELSE 1
QueueFull == Len(queue) - InWork >= QueueLimit
(* The worker keeps the first message while it waits to try it again. *)
QueueHasRoom == Len(queue) <= QueueLimit
(* A dispatch event; a full queue closes the connection unacknowledged. *)
Receive ==
  LET seq == client.wire + 1
      event == log[seq]
      queued == \E i \in 1..Len(queue) : queue[i].msg = event
  IN /\ channel = "qq" /\ client.up /\ client.wire < Len(log)
     /\ \/ /\ event = Ready
           /\ client' = AdvancedIfIdle(IsReady(Received), seq)
           /\ UNCHANGED queue
        \/ /\ event # Ready /\ event \in Denied
           /\ client' = AdvancedIfIdle(Received, seq)
           /\ UNCHANGED queue
        \/ /\ event # Ready /\ event \notin Denied /\ queued
           /\ client' = Received /\ UNCHANGED queue
        \/ /\ event # Ready /\ event \notin Denied /\ ~queued /\ QueueHasRoom
           /\ client' = Received
           /\ queue' = Append(queue, Entry(event, seq, client.epoch))
        \/ /\ event # Ready /\ event \notin Denied /\ ~queued /\ QueueFull
           /\ client' = [client EXCEPT !.up = FALSE] /\ UNCHANGED queue
     /\ UNCHANGED <<middlewareVars, channel, arrived, forgets, cursor, saved,
                    batchEnd, log, gateway, lost>>
Disturbed == gateway > 0 /\ gateway' = gateway - 1
Disconnect ==
  /\ channel = "qq" /\ client.up /\ Disturbed
  /\ client' = [client EXCEPT !.up = FALSE]
  /\ UNCHANGED <<middlewareVars, channel, arrived, forgets, cursor, saved,
                 queue, batchEnd, log, lost>>
(* OP_INVALID_SESSION *)
InvalidSession ==
  /\ channel = "qq" /\ client.up /\ Disturbed
  /\ client' = [client EXCEPT !.up = FALSE, !.session = 0, !.lastSeq = 0,
                              !.epoch = @ + 1]
  /\ UNCHANGED <<middlewareVars, channel, arrived, forgets, cursor, saved,
                 queue, batchEnd, log, lost>>
(* The worker: a message counts once it is done, a failure is tried again. *)
QQDone ==
  /\ channel = "qq" /\ LoopEnds("returned")
  /\ client' = Advanced(client, Head(queue).seq, Head(queue).epoch)
  /\ queue' = Tail(queue)
  /\ UNCHANGED <<storeVars, trouble, channel, arrived, forgets, cursor, saved,
                 batchEnd, log, gateway, lost>>
QQRetry ==
  /\ channel = "qq" /\ LoopEnds("raised")
  /\ UNCHANGED <<storeVars, trouble, adapterVars>>
-----------------------------------------------------------------------------
(* Feishu: the SDK's thread takes a slot and posts the message to the loop;
   without a slot the message is counted and dropped. *)
FeishuPush ==
  /\ channel = "feishu" /\ arrived < Load[channel]
  /\ arrived' = arrived + 1
  /\ \/ arrived' \in Denied /\ UNCHANGED <<queue, lost>>
     \/ /\ arrived' \notin Denied /\ Len(queue) < QueueLimit
        /\ queue' = Append(queue, Entry(arrived', arrived', 0)) /\ UNCHANGED lost
     \/ /\ arrived' \notin Denied /\ Len(queue) >= QueueLimit
        /\ lost' = lost \union {arrived'} /\ UNCHANGED queue
  /\ UNCHANGED <<middlewareVars, channel, forgets, cursor, saved, batchEnd,
                 log, client, gateway>>
(* The worker logs a failure and goes on: nothing is tried again. *)
FeishuDone ==
  /\ channel = "feishu"
  /\ \/ LoopEnds("returned") /\ UNCHANGED lost
     \/ LoopEnds("raised") /\ lost' = lost \union {Current}
  /\ queue' = Tail(queue)
  /\ UNCHANGED <<storeVars, trouble, channel, arrived, forgets, cursor, saved,
                 batchEnd, log, client, gateway>>
-----------------------------------------------------------------------------
(* The webhook: a multipart request waits for an upload slot first. *)
Post(w, m) ==
  /\ channel = "web" /\ At(w, "idle") /\ m <= arrived
  /\ \/ ~Told(m) /\ NoTrouble
     \/ Told(m) /\ Troubled
  /\ \/ m \notin Media /\ Enter(w, m)
     \/ /\ m \in Media /\ UNCHANGED lockQueue
        /\ call' = [call EXCEPT ![w] = [Idle EXCEPT !.msg = m, !.at = "admission"]]
  /\ UNCHANGED <<markers, disk, dirty, kept, held, executed, forgotten, told,
                 adapterVars>>
TakeSlot(w) ==
  /\ At(w, "admission") /\ Cardinality(held) < UploadLimit
  /\ held' = held \union {w} /\ Enter(w, call[w].msg)
  /\ UNCHANGED <<markers, disk, dirty, kept, trouble, executed, forgotten, told,
                 adapterVars>>
(* 408: the deadline covers the wait, the parse and the staging. *)
Deadline(w) ==
  /\ At(w, "admission") \/ w \in held
  /\ Troubled /\ Leaves(w, "raised")
  /\ UNCHANGED <<markers, disk, dirty, kept, executed, forgotten, told,
                 adapterVars>>
Respond(w) ==
  /\ call[w].at \in Ends /\ call' = [call EXCEPT ![w] = Idle]
  /\ UNCHANGED <<storeVars, trouble, adapterVars>>
-----------------------------------------------------------------------------
(* The process dies and starts again: memory queues and sessions are gone. *)
Crash ==
  /\ channel # None /\ Troubled /\ Died
  /\ queue' = <<>> /\ cursor' = saved
  /\ client' = [NoClient EXCEPT !.platform = client.platform]
  /\ lost' = IF channel = "feishu"
               THEN lost \union {queue[i].msg : i \in 1..Len(queue)} ELSE lost
  /\ UNCHANGED <<channel, arrived, forgets, saved, batchEnd, log, gateway>>

Middleware ==
  /\ \E w \in Callers : Work(w) \/ Fault(w)
  /\ UNCHANGED adapterVars
(* One step of the task of the adapter outside of handle_inbound. *)
LoopStep ==
  \/ TelegramPoll \/ TelegramDispatch \/ TelegramDone \/ TelegramFails
  \/ WeixinPoll \/ WeixinDispatch \/ WeixinDone \/ WeixinFails
  \/ QQDispatch \/ QQDone \/ QQRetry
  \/ FeishuDispatch \/ FeishuDone
GatewayStep == Resume \/ Identify \/ Receive
RequestStep(w) == TakeSlot(w) \/ Respond(w) \/ \E m \in Messages : Post(w, m)

ChannelsNext ==
  \/ Arrive \/ FeishuPush \/ LoopStep \/ GatewayStep \/ OffsetReset
  \/ Disconnect \/ InvalidSession \/ Crash
  \/ \E w \in Requests : RequestStep(w) \/ Deadline(w)
  \/ Middleware
  \/ Persist /\ UNCHANGED adapterVars

(* What goes on by itself: the event loop runs every task that can go on,
   clients post until they are told, and gateways (GatewayStep) send what they
   have. *)
LoopRuns == LoopStep \/ (Work(Loop) /\ UNCHANGED adapterVars)
ClientRuns(w) ==
  \/ TakeSlot(w) \/ Respond(w) \/ \E m \in Messages : Post(w, m) /\ ~Told(m)
  \/ Work(w) /\ UNCHANGED adapterVars
-----------------------------------------------------------------------------
(* The sequence number at which a QQ session would be resumed passes a
   message only when its conversation has been told (qq.py:856-863). *)
SequenceFollowsAnswers ==
  channel = "qq" /\ client.session = client.platform =>
    \A p \in 1..Min({client.lastSeq, Len(log)}) :
      log[p] = Ready \/ log[p] \in Denied \/ Told(log[p])
(* The Telegram offset and the Weixin buffer, in memory and on disk, pass a
   message only when its conversation has been told; so does the sequence of
   a QQ client none of whose sessions has been invalidated
   (system-constraints-spec.md:50-53; telegram.py:534-539, weixin.py:417-424). *)
CursorFollowsAnswers ==
  /\ channel \in Polling =>
       \A m \in 1..Max({cursor, saved}) : m \in Denied \/ Told(m)
  /\ client.epoch = 0 => SequenceFollowsAnswers

(* No message is executed twice or passed over without an answer
   (middleware.py, the cursors of telegram.py, weixin.py and qq.py). *)
MessagesAreHandledOnce == ExecutedOnce /\ NoticeOnlyWhenOld /\ CursorFollowsAnswers

(* Every message is answered in the end, unless a crash, a full Feishu queue
   or a lost gateway session took it (middleware.py, the adapters' loops). *)
EveryMessageAnswered ==
  []<>(\A m \in Messages \ Denied : m <= arrived => Told(m) \/ m \in lost)
=============================================================================
