---------------------------- MODULE TerminalOutbox ----------------------------
(***************************************************************************)
(* How final answers of native turns reach IM conversations: live          *)
(* projection of native notifications (BridgeService._process_notification *)
(* of bridge/core.py), recovery of turns that ended while the bridge could *)
(* not listen (handle_connection_ready and rehydrate_bound_threads), and   *)
(* the durable outbox with its retry task (bridge/terminal_delivery.py).   *)
(*                                                                         *)
(* Everything runs on one event loop; an action is what runs between two   *)
(* awaits.  The three users of _terminal_projection_lock share `lane'.     *)
(* The disk keeps the contract of DurableStore: a flush that returns has   *)
(* written the whole state, and the background writer may do so any time.  *)
(***************************************************************************)
EXTENDS OutboxStore

CONSTANTS
  Failing,     \* turns whose native status ends as failed
  Reopening,   \* turns that start one more item after their last answer
  Replays,     \* what a resume replays as notifications (external)
  DeadRoutes,  \* conversations whose sink refuses everything
  Start,       \* the bindings in the state file at the start
  Budget,      \* bounds: how often each kind of disturbance happens
  Trouble      \* bound: how many disturbances happen in all

Disturbances == {"crash", "reset", "disk", "sink", "resume", "timeout", "user"}

ASSUME OutboxAssumption ==
  /\ Failing \subseteq Turns /\ Reopening \subseteq Turns
  /\ Replays \subseteq {"running", "done"}
  /\ DeadRoutes \subseteq Routes
  /\ Start \in [Routes -> Threads \cup {None}]
  /\ \A r, q \in Routes : Start[r] = Start[q] => r = q \/ Start[r] = None
  /\ Budget \in [Disturbances -> Nat] /\ Trouble \in Nat

VARIABLES
  mem,        \* the store in memory
  disk,       \* the store in the state file
  svc,        \* in-memory sets of BridgeService, MessagePump and the store
  lane,       \* the holder of _terminal_projection_lock
  retry,      \* _terminal_delivery_retry_task
  ready,      \* progress of handle_connection_ready
  events,     \* _dispatch_queue of the connection: notifications
  native,     \* the app-server: connection, subscriptions, turns
  accepted,   \* history: entries an IM sink has accepted
  promised,   \* history: turns whose watch has been on disk
  dismissed,  \* history: turns the user stopped or detached
  spent       \* how often each disturbance has happened

vars == <<mem, disk, svc, lane, retry, ready, events, native, accepted,
          promised, dismissed, spent>>

Service ==
  [known : SUBSET Ids,          \* _recent_terminal_deliveries
   completed : SUBSET Turns,    \* _recent_completed_turns
   suppressed : SUBSET Turns,   \* store._suppressed_turns
   visible : SUBSET Turns,      \* TurnBuffer.final_visible
   active : SUBSET Turns,       \* store._active_turns
   recovered : SUBSET Turns,    \* _pending_recovered_turns
   ackPending : BOOLEAN]        \* _terminal_delivery_ack_persistence_pending

FreshService ==
  [known |-> {}, completed |-> {}, suppressed |-> {}, visible |-> {},
   active |-> {}, recovered |-> {}, ackPending |-> FALSE]

Lane ==
  [who : {"free", "live", "recover", "ready", "retry"},
   step : {"none", "flush", "emit", "receipt"},
   id : Ids \cup {None},        \* the delivery of live and recover
   route : Routes \cup {None},  \* the route a recovered turn was projected to
   rest : SUBSET Entry,         \* the snapshot a drain has still to work off
   ok : BOOLEAN]                \* all_accounted_for of a recovered turn

Free == [who |-> "free", step |-> "none", id |-> None, route |-> None,
         rest |-> {}, ok |-> TRUE]

Idle == [phase |-> "idle", routes |-> {}, found |-> {}, dropped |-> {},
         turns |-> {}]

Event == [kind : {"item_completed", "item_started", "turn_completed"},
          id : Ids]

TypeOK ==
  /\ mem \in Store /\ disk \in Store
  /\ svc \in Service
  /\ lane \in Lane
  /\ retry \in {"off", "on", "receipt"}
  /\ ready \in [phase : {"idle", "resume", "recover", "drain"},
                routes : SUBSET Routes, found : SUBSET Turns,
                dropped : SUBSET Turns, turns : SUBSET Turns]
  /\ events \in Seq(Event)
  /\ native \in [conn : BOOLEAN, subscribed : SUBSET Threads,
                 status : [Turns -> {"new", "starting", "running", "done"}],
                 produced : [Turns -> Nat]]
  /\ accepted \in SUBSET Entry
  /\ promised \in SUBSET Turns /\ dismissed \in SUBSET Turns
  /\ spent \in [Disturbances -> Nat]

Init ==
  /\ mem = [EmptyStore EXCEPT !.binding = Start] /\ disk = mem
  /\ svc = FreshService
  /\ lane = Free /\ retry = "off" /\ ready = Idle
  /\ events = <<>>
  /\ native = [conn |-> FALSE, subscribed |-> {},
               status |-> [t \in Turns |-> "new"],
               produced |-> [t \in Turns |-> 0]]
  /\ accepted = {} /\ promised = {} /\ dismissed = {}
  /\ spent = [d \in Disturbances |-> 0]

Spending == MapThenSumSet(LAMBDA x : spent[x], Disturbances)
Spend(d) == /\ spent[d] < Budget[d] /\ Spending < Trouble
            /\ spent' = [spent EXCEPT ![d] = @ + 1]

-----------------------------------------------------------------------------
(* Helpers. *)

(* _terminal_delivery_is_known *)
Known(s, b, id) ==
  id \in b.known \/ id \in s.acks \/ id \in IdsIn(s.outbox)

EntryOf(s, id) == CHOOSE e \in s.outbox : e.id = id

(* note_active_turn *)
NoteActive(b, t) ==
  [b EXCEPT !.active = {u \in @ : ThreadOf[u] # ThreadOf[t]} \cup {t},
            !.suppressed = @ \ {t}]

(* complete_turn, and the buffer of the turn is gone *)
Close(b, t) ==
  [b EXCEPT !.active = @ \ {t}, !.suppressed = @ \ {t}, !.visible = @ \ {t}]

(* _schedule_terminal_delivery_retry *)
Schedule == retry' = IF retry = "off" THEN "on" ELSE retry

(* A flush that returns: everything in s is on disk. *)
Flushed(s) == disk' = s /\ promised' = promised \cup s.watches

(* _release_completed_turn_watch_if_settled *)
Released(s, b, t) ==
  IF t \in b.completed /\ ~PendingTurn(s, t) THEN Discard(s, t) ELSE s

(* The end of the handler of turn_completed. *)
CompletionHandled(s, b, t, durable) ==
  /\ svc' = [b EXCEPT !.completed = @ \cup {t}]
  /\ mem' = IF durable \/ ~PendingTurn(s, t) THEN Discard(s, t) ELSE s
  /\ lane' = Free

(* Mutant: a recovered turn is only told to be over. *)
FallbackOnly(t) == <<t>>

(* recovered_turn_identities: every answer of the turn, or its fallback. *)
RecoveredIds(t) ==
  IF AnswersOf[t] = <<>> THEN <<t>> ELSE AnswersOf[t]

(* The loop over the messages of a recovered turn: stage the first one     *)
(* that is not known, or account for the turn.                             *)
KnownOf(s, b, ids) == {i \in DOMAIN ids : Known(s, b, ids[i])}

RecoverOn(s, b, t, route, ok) ==
  LET ids == RecoveredIds(t)
      known == KnownOf(s, b, ids)
  IN  \/ \E i \in DOMAIN ids \ known :
           /\ \A j \in DOMAIN ids : j < i => j \in known
           /\ mem' = Stage(s, ids[i], route)
           /\ svc' = b
           /\ lane' = [Free EXCEPT !.who = "recover", !.step = "flush",
                                   !.id = ids[i], !.route = route, !.ok = ok]
      \/ /\ known = DOMAIN ids
         /\ mem' = IF ok THEN Discard(s, t) ELSE s
         /\ svc' = IF ok THEN [b EXCEPT !.recovered = @ \ {t}] ELSE b
         /\ lane' = Free

(* _deliver_terminal_message returns to the live handler or the recovery. *)
Returns(s, delivered, durable) ==
  LET b == IF delivered THEN [svc EXCEPT !.known = @ \cup {lane.id}] ELSE svc
      t == TurnOf(lane.id)
  IN  IF lane.who = "recover" THEN RecoverOn(s, b, t, lane.route,
                                             lane.ok /\ durable)
      ELSE IF lane.id \in Turns THEN CompletionHandled(s, b, t, durable)
      ELSE mem' = s /\ svc' = b /\ lane' = Free

-----------------------------------------------------------------------------
(* The native app-server (external). *)

Send(es, th) ==
  events' = IF th \in native.subscribed THEN events \o es ELSE events

Running(th) == {t \in Turns : ThreadOf[t] = th /\ native.status[t] = "running"}

Items(t, n) == [i \in 1..n |-> [kind |-> "item_completed",
                                id |-> AnswersOf[t][i]]]
Completion(t) == <<[kind |-> "turn_completed", id |-> t]>>

Produce(t) ==
  /\ native.status[t] = "running"
  /\ native.produced[t] < Len(AnswersOf[t])
  /\ native' = [native EXCEPT !.produced[t] = @ + 1]
  /\ Send(<<[kind |-> "item_completed",
             id |-> AnswersOf[t][native.produced[t] + 1]]>>, ThreadOf[t])
  /\ UNCHANGED <<mem, disk, svc, lane, retry, ready, accepted, promised,
                 dismissed, spent>>

EndTurn(t) ==
  /\ native.status[t] = "running"
  /\ native.produced[t] = Len(AnswersOf[t])
  /\ native' = [native EXCEPT !.status[t] = "done"]
  /\ Send((IF t \in Reopening THEN <<[kind |-> "item_started", id |-> t]>>
           ELSE <<>>) \o Completion(t), ThreadOf[t])
  /\ UNCHANGED <<mem, disk, svc, lane, retry, ready, accepted, promised,
                 dismissed, spent>>

(* What a resume of th replays of its running turn, unless the connection  *)
(* is subscribed to it already.                                            *)
ReplaysRunning(th) ==
  IF Running(th) # {} /\ th \notin native.subscribed /\ "running" \in Replays
    THEN LET t == CHOOSE t \in Running(th) : TRUE
         IN  events' = events \o Items(t, native.produced[t])
    ELSE UNCHANGED events

(* A resume under way: the thread is subscribed and its past is replayed. *)
ReplayThread(r) ==
  LET th == mem.binding[r]
      past(t) == Items(t, native.produced[t]) \o
                 (IF native.status[t] = "done" THEN Completion(t) ELSE <<>>)
  IN  /\ "done" \in Replays
      /\ ready.phase = "resume" /\ r \in ready.routes /\ native.conn
      /\ th \notin native.subscribed \cup {None}
      /\ native' = [native EXCEPT !.subscribed = @ \cup {th}]
      /\ \/ UNCHANGED events /\ ("running" \in Replays => Running(th) = {})
         \/ \E t \in Turns :
              /\ ThreadOf[t] = th /\ native.status[t] \in {"running", "done"}
              /\ events' = events \o past(t)
      /\ UNCHANGED <<mem, disk, svc, lane, retry, ready, accepted, promised,
                     dismissed, spent>>

-----------------------------------------------------------------------------
(* The user: a first message, /threads, /new, /stop. *)

CommandsRun == native.conn /\ ready.phase = "idle"

(* submit_input: native starts a turn on the thread bound to the route. *)
StartTurn(t) ==
  /\ CommandsRun
  /\ Bound(mem, ThreadOf[t])
  /\ native.status[t] = "new"
  /\ \A u \in Turns :
       ThreadOf[u] = ThreadOf[t] => native.status[u] \notin {"starting", "running"}
  /\ native' = [native EXCEPT !.status[t] = "starting",
                              !.subscribed = @ \cup {ThreadOf[t]}]
  /\ UNCHANGED <<mem, disk, svc, lane, retry, ready, events, accepted,
                 promised, dismissed, spent>>

(* The response of turn/start, ahead of every notification of the turn. *)
Started(t) ==
  /\ native.status[t] = "starting"
  /\ native' = [native EXCEPT !.status[t] = "running"]
  /\ svc' = NoteActive(svc, t)
  /\ mem' = Watch(mem, t)
  /\ UNCHANGED <<disk, lane, retry, ready, events, accepted, promised,
                 dismissed, spent>>

(* interrupt_turn *)
Stop(t) ==
  /\ CommandsRun /\ Spend("user")
  /\ t \in svc.active
  /\ svc' = [svc EXCEPT !.suppressed = @ \cup {t}, !.active = @ \ {t}]
  /\ mem' = Discard(mem, t)
  /\ dismissed' = dismissed \cup {t}
  /\ native' = [native EXCEPT !.status[t] = "done"]
  /\ IF native.status[t] = "running" THEN Send(Completion(t), ThreadOf[t])
                                     ELSE UNCHANGED events
  /\ UNCHANGED <<disk, lane, retry, ready, accepted, promised>>

TurnsOf(th) == {t \in Turns : ThreadOf[t] = th}

(* attach_thread, create_new_thread *)
Select(r, th) ==
  /\ CommandsRun /\ Spend("user")
  /\ mem.binding[r] # th
  /\ \A t \in TurnsOf(th) : native.status[t] # "starting"
  /\ native' = [native EXCEPT !.subscribed = @ \cup {th}]
  /\ dismissed' = dismissed \cup TurnsOf(mem.binding[r])
  /\ IF Running(th) = {}
       THEN /\ mem' = Bind(mem, r, th)
            /\ svc' = [svc EXCEPT !.active = @ \ TurnsOf(th)]
       ELSE \E t \in Running(th) :
              /\ mem' = Watch(Bind(mem, r, th), t)
              /\ svc' = NoteActive(svc, t)
  /\ ReplaysRunning(th)
  /\ UNCHANGED <<disk, lane, retry, ready, accepted, promised>>

(* clear_thread_binding: /new, or a thread that native has lost *)
Forgotten(b, th) == [b EXCEPT !.active = @ \ TurnsOf(th),
                              !.suppressed = @ \ TurnsOf(th)]
Detach(r) ==
  /\ Spend("user")
  /\ mem.binding[r] # None
  /\ mem' = Unbind(mem, r)
  /\ svc' = Forgotten(svc, mem.binding[r])
  /\ dismissed' = dismissed \cup TurnsOf(mem.binding[r])
  /\ UNCHANGED <<disk, lane, retry, ready, events, native, accepted, promised>>

-----------------------------------------------------------------------------
(* Live projection: _process_notification for the head of the queue. *)

HeadIs(kind) ==
  /\ events # <<>> /\ lane = Free
  /\ Head(events).kind = kind
  /\ events' = Tail(events)

(* resume_turn_output *)
LiveItemStarted ==
  /\ HeadIs("item_started")
  /\ LET t == Head(events).id
     IN  IF t \in svc.visible \ svc.suppressed
           THEN /\ svc' = [NoteActive(svc, t) EXCEPT !.visible = @ \ {t}]
                /\ mem' = Watch(mem, t)
           ELSE UNCHANGED <<svc, mem>>
  /\ UNCHANGED <<disk, lane, retry, ready, native, accepted, promised,
                 dismissed, spent>>

LiveItemCompleted ==
  /\ HeadIs("item_completed")
  /\ LET id == Head(events).id
         t == TurnOf(id)
         hidden == Known(mem, svc, id) \/ t \in svc.suppressed
     IN  /\ svc' = IF hidden THEN svc
                   ELSE [svc EXCEPT !.visible = @ \cup {t}]
         /\ IF hidden \/ ~Bound(mem, ThreadOf[t])
              THEN UNCHANGED <<mem, lane>>
              ELSE /\ mem' = Stage(mem, id, RouteOf(mem, ThreadOf[t]))
                   /\ lane' = [Free EXCEPT !.who = "live", !.step = "flush",
                                           !.id = id]
  /\ UNCHANGED <<disk, retry, ready, native, accepted, promised, dismissed,
                 spent>>

(* Mutant: has_acknowledged_terminal_delivery is not asked. *)
OwesFallbackWithoutReceipts(t) ==
  /\ t \notin svc.suppressed
  /\ Bound(mem, ThreadOf[t])
  /\ t \in Failing \/ t \notin svc.visible
  /\ ~Known(mem, svc, t)

(* A completed turn that has shown an answer needs no message of its own;  *)
(* any other gets one, unless it would only say that there was nothing     *)
(* and a receipt shows that there was.                                     *)
OwesFallback(t) ==
  /\ t \notin svc.suppressed
  /\ Bound(mem, ThreadOf[t])
  /\ t \in Failing \/ (t \notin svc.visible /\ Receipts(mem, t) = {})
  /\ ~Known(mem, svc, t)

LiveTurnCompleted ==
  /\ HeadIs("turn_completed")
  /\ LET t == Head(events).id
     IN  IF t \in svc.completed THEN UNCHANGED <<mem, svc, lane>>
         ELSE IF OwesFallback(t)
           THEN /\ mem' = Stage(mem, t, RouteOf(mem, ThreadOf[t]))
                /\ svc' = Close(svc, t)
                /\ lane' = [Free EXCEPT !.who = "live", !.step = "flush",
                                        !.id = t]
           ELSE CompletionHandled(mem, Close(svc, t), t, FALSE)
  /\ UNCHANGED <<disk, retry, ready, native, accepted, promised, dismissed,
                 spent>>

-----------------------------------------------------------------------------
(* _deliver_terminal_message, for the live handler and the recovery. *)

Delivering(step) == lane.who \in {"live", "recover"} /\ lane.step = step

(* The staged message is on disk: hand it over if it is the first of its   *)
(* route, leave it to the retry task otherwise.                            *)
StagedFlushed ==
  /\ Delivering("flush")
  /\ Flushed(mem)
  /\ IF IsRouteHead(mem, lane.id)
       THEN lane' = [lane EXCEPT !.step = "emit"] /\ UNCHANGED <<mem, svc, retry>>
       ELSE Returns(mem, FALSE, TRUE) /\ Schedule
  /\ UNCHANGED <<ready, events, native, accepted, dismissed, spent>>

(* The flush fails; a second one may succeed. *)
StagedNotFlushed ==
  /\ Delivering("flush") /\ Spend("disk")
  /\ \E durable \in BOOLEAN :
       /\ IF durable THEN Flushed(mem) ELSE UNCHANGED <<disk, promised>>
       /\ Returns(mem, FALSE, durable)
  /\ Schedule
  /\ UNCHANGED <<ready, events, native, accepted, dismissed>>

SinkTakes(e) == e.route \notin DeadRoutes /\ accepted' = accepted \cup {e}

(* The sink fails: a transient fault, or a route that is dead. *)
SinkFails(route) == IF route \in DeadRoutes THEN UNCHANGED spent ELSE Spend("sink")

StagedAccepted ==
  /\ Delivering("emit")
  /\ SinkTakes(EntryOf(mem, lane.id))
  /\ mem' = Complete(mem, lane.id)
  /\ lane' = [lane EXCEPT !.step = "receipt"]
  /\ UNCHANGED <<disk, svc, retry, ready, events, native, promised, dismissed,
                 spent>>

StagedRefused ==
  /\ Delivering("emit")
  /\ SinkFails(EntryOf(mem, lane.id).route)
  /\ Returns(mem, FALSE, TRUE)
  /\ Schedule
  /\ UNCHANGED <<disk, ready, events, native, accepted, promised, dismissed>>

(* _flush_terminal_delivery_ack *)
ReceiptFlushed ==
  /\ Delivering("receipt")
  /\ Flushed(mem)
  /\ Returns(mem, TRUE, TRUE)
  /\ UNCHANGED <<retry, ready, events, native, accepted, dismissed, spent>>

ReceiptNotFlushed ==
  /\ Delivering("receipt") /\ Spend("disk")
  /\ LET b == [svc EXCEPT !.ackPending = TRUE, !.known = @ \cup {lane.id}]
         t == TurnOf(lane.id)
     IN  IF lane.who = "recover" THEN RecoverOn(mem, b, t, lane.route, lane.ok)
         ELSE IF lane.id \in Turns THEN CompletionHandled(mem, b, t, TRUE)
         ELSE mem' = mem /\ svc' = b /\ lane' = Free
  /\ Schedule
  /\ UNCHANGED <<disk, ready, events, native, accepted, promised, dismissed>>

-----------------------------------------------------------------------------
(* _deliver_pending_terminal_once: a drain of the outbox. *)

Draining(step) == lane.who \in {"ready", "retry"} /\ lane.step = step

(* A pass of the ready handler ends by scheduling what is left; the retry  *)
(* task goes on to the receipts.                                           *)
DrainEnds(s) ==
  /\ lane' = Free
  /\ IF lane.who = "ready"
       THEN /\ ready' = Idle
            /\ IF s.outbox # {} THEN Schedule ELSE UNCHANGED retry
       ELSE retry' = "receipt" /\ UNCHANGED ready

DrainFlushed ==
  /\ Draining("flush")
  /\ Flushed(mem)
  /\ IF mem.outbox = {} THEN DrainEnds(mem)
     ELSE /\ lane' = [lane EXCEPT !.step = "emit", !.rest = mem.outbox]
          /\ UNCHANGED <<retry, ready>>
  /\ UNCHANGED <<mem, svc, events, native, accepted, dismissed, spent>>

DrainNotFlushed ==
  /\ Draining("flush") /\ Spend("disk")
  /\ DrainEnds(mem)
  /\ UNCHANGED <<mem, disk, svc, events, native, accepted, promised, dismissed>>

NextInDrain(e) == e \in lane.rest /\ \A d \in lane.rest : e.seq <= d.seq

DrainStep(rest) ==
  lane' = [lane EXCEPT !.rest = rest,
                       !.step = IF rest = {} THEN "receipt" ELSE "emit"]

DrainAccepted ==
  /\ Draining("emit")
  /\ \E e \in lane.rest :
       /\ NextInDrain(e) /\ SinkTakes(e)
       /\ mem' = Released(Complete(mem, e.id), svc, TurnOf(e.id))
       /\ svc' = [svc EXCEPT !.known = @ \cup {e.id}]
       /\ DrainStep(lane.rest \ {e})
  /\ UNCHANGED <<disk, retry, ready, events, native, promised, dismissed,
                 spent>>

(* Mutant: the pass is given up at the first message refused. *)
DrainRefusedStops ==
  /\ Draining("emit")
  /\ \E e \in lane.rest : NextInDrain(e) /\ SinkFails(e.route)
  /\ DrainStep({})
  /\ UNCHANGED <<mem, disk, svc, retry, ready, events, native, accepted,
                 promised, dismissed>>

(* The route of a refused message is blocked for the rest of the pass. *)
DrainRefused ==
  /\ Draining("emit")
  /\ \E e \in lane.rest :
       /\ NextInDrain(e) /\ SinkFails(e.route)
       /\ DrainStep({d \in lane.rest : d.route # e.route})
  /\ UNCHANGED <<mem, disk, svc, retry, ready, events, native, accepted,
                 promised, dismissed>>

DrainReceipts ==
  /\ Draining("receipt")
  /\ Flushed(mem)
  /\ DrainEnds(mem)
  /\ UNCHANGED <<mem, svc, events, native, accepted, dismissed, spent>>

DrainReceiptsNotFlushed ==
  /\ Draining("receipt") /\ Spend("disk")
  /\ svc' = [svc EXCEPT !.ackPending = TRUE]
  /\ lane' = Free
  /\ IF lane.who = "ready" THEN ready' = Idle /\ Schedule
     ELSE retry' = "receipt" /\ UNCHANGED ready
  /\ UNCHANGED <<mem, disk, events, native, accepted, promised, dismissed>>

-----------------------------------------------------------------------------
(* _retry_pending_terminal_deliveries *)

RetryPass ==
  /\ retry = "on"
  /\ IF mem.outbox = {} /\ ~svc.ackPending
       THEN retry' = "off" /\ UNCHANGED lane
       ELSE /\ lane = Free
            /\ lane' = [Free EXCEPT !.who = "retry", !.step = "flush"]
            /\ retry' = "on"
  /\ UNCHANGED <<mem, disk, svc, ready, events, native, accepted, promised,
                 dismissed, spent>>

(* _retry_terminal_delivery_ack_persistence *)
RetryReceipts ==
  /\ retry = "receipt"
  /\ retry' = "on"
  /\ \/ svc.ackPending /\ Flushed(mem)
        /\ svc' = [svc EXCEPT !.ackPending = FALSE] /\ UNCHANGED spent
     \/ svc.ackPending /\ Spend("disk") /\ UNCHANGED <<disk, promised, svc>>
     \/ ~svc.ackPending /\ UNCHANGED <<disk, promised, svc, spent>>
  /\ UNCHANGED <<mem, lane, ready, events, native, accepted, dismissed>>

-----------------------------------------------------------------------------
(* The connection: handle_connection_ready. *)

Connect ==
  /\ ~native.conn /\ ready.phase = "idle"
  /\ native' = [native EXCEPT !.conn = TRUE]
  /\ ready' = [Idle EXCEPT !.phase = "resume", !.routes = Routes]
  /\ UNCHANGED <<mem, disk, svc, lane, retry, events, accepted, promised,
                 dismissed, spent>>

(* The dispatcher is cancelled with its queue, wherever it is; a start     *)
(* whose response is lost runs on without a watch.                         *)
LoseConnection ==
  /\ native.conn /\ Spend("reset")
  /\ native' = [native EXCEPT !.conn = FALSE, !.subscribed = {},
       !.status = [t \in Turns |-> IF @[t] = "starting" THEN "running" ELSE @[t]]]
  /\ events' = <<>>
  /\ lane' = IF lane.who = "live" THEN Free ELSE lane
  /\ UNCHANGED <<mem, disk, svc, retry, ready, accepted, promised, dismissed>>

(* rehydrate_bound_threads, one binding. *)
SkipUnbound(r) ==
  /\ ready.phase = "resume" /\ r \in ready.routes
  /\ mem.binding[r] = None
  /\ ready' = [ready EXCEPT !.routes = @ \ {r}]
  /\ UNCHANGED <<mem, disk, svc, lane, retry, events, native, accepted,
                 promised, dismissed, spent>>

(* The snapshot names the running turn, which is noted as active, and the  *)
(* watched turns that have ended, which are to be recovered.  A turn that  *)
(* was active here (the code clears it ahead of the request) and gave way  *)
(* to another is suppressed, and its buffer dropped at the end.            *)
ResumeReturns(r) ==
  LET th == mem.binding[r]
      running == Running(th)
      cleared == [svc EXCEPT !.active = @ \ TurnsOf(th)]
      s == IF running = {} THEN mem ELSE Watch(mem, CHOOSE t \in running : TRUE)
      b == IF running = {} THEN cleared
           ELSE NoteActive(cleared, CHOOSE t \in running : TRUE)
      ended == (s.watches \cap TurnsOf(th)) \ running
      displaced == IF running = {} THEN {}
                   ELSE (svc.active \cap TurnsOf(th)) \ running
  IN  /\ ready.phase = "resume" /\ r \in ready.routes
      /\ th # None /\ native.conn
      /\ \A t \in TurnsOf(th) : native.status[t] # "starting"
      /\ "done" \in Replays => th \in native.subscribed
      /\ mem' = s
      /\ svc' = [b EXCEPT !.suppressed = @ \cup ended \cup displaced]
      /\ ready' = [ready EXCEPT !.routes = @ \ {r}, !.found = @ \cup ended,
                                !.dropped = @ \cup displaced]
      /\ native' = [native EXCEPT !.subscribed = @ \cup {th}]
      /\ ReplaysRunning(th)
      /\ UNCHANGED <<disk, lane, retry, accepted, promised, dismissed, spent>>

(* The request fails, always so when the connection is lost meanwhile; a   *)
(* thread that native no longer knows loses its binding.                   *)
ResumeFails(r) ==
  LET th == mem.binding[r]
      cleared == [svc EXCEPT !.active = @ \ TurnsOf(th)]
  IN  /\ ready.phase = "resume" /\ r \in ready.routes
      /\ th # None
      /\ IF native.conn THEN Spend("resume") ELSE UNCHANGED spent
      /\ ready' = [ready EXCEPT !.routes = @ \ {r},
                     !.dropped = @ \cup (svc.active \cap TurnsOf(th))]
      /\ \E stale \in {FALSE, native.conn} :
           /\ mem' = IF stale THEN Unbind(mem, r) ELSE mem
           /\ svc' = IF stale THEN Forgotten(cleared, th) ELSE cleared
           /\ dismissed' = dismissed \cup (IF stale THEN TurnsOf(th) ELSE {})
      /\ UNCHANGED <<disk, lane, retry, events, native, accepted, promised>>

RehydrateEnds ==
  /\ ready.phase = "resume" /\ ready.routes = {}
  /\ svc' = [svc EXCEPT !.visible = @ \ ready.dropped,
                        !.recovered = @ \cup ready.found]
  /\ ready' = [Idle EXCEPT !.phase = "recover", !.turns = svc'.recovered]
  /\ UNCHANGED <<mem, disk, lane, retry, events, native, accepted, promised,
                 dismissed, spent>>

(* project_recovered_turn and the delivery of its messages. *)
RecoverTurn(t) ==
  LET b == [svc EXCEPT !.visible = @ \ {t}]
  IN  /\ ready.phase = "recover" /\ t \in ready.turns
      /\ lane = Free
      /\ ready' = [ready EXCEPT !.turns = @ \ {t}]
      /\ IF Bound(mem, ThreadOf[t])
           THEN RecoverOn(mem, b, t, RouteOf(mem, ThreadOf[t]), TRUE)
           ELSE /\ svc' = [b EXCEPT !.recovered = @ \ {t}]
                /\ UNCHANGED <<mem, lane>>
      /\ UNCHANGED <<disk, retry, events, native, accepted, promised,
                     dismissed, spent>>

(* wait_for cancels the delivery: the turn waits for the next connection. *)
RecoverTimesOut ==
  /\ lane.who = "recover" /\ Spend("timeout")
  /\ lane' = Free
  /\ UNCHANGED <<mem, disk, svc, retry, ready, events, native, accepted,
                 promised, dismissed>>

ReadyDrains ==
  /\ ready.phase = "recover" /\ ready.turns = {}
  /\ lane = Free
  /\ ready' = [Idle EXCEPT !.phase = "drain"]
  /\ lane' = [Free EXCEPT !.who = "ready", !.step = "flush"]
  /\ UNCHANGED <<mem, disk, svc, retry, events, native, accepted, promised,
                 dismissed, spent>>

-----------------------------------------------------------------------------
(* The background writer, and the death of the process. *)

Persist ==
  /\ disk # mem
  /\ Flushed(mem)
  /\ UNCHANGED <<mem, svc, lane, retry, ready, events, native, accepted,
                 dismissed, spent>>

Crash ==
  /\ Spend("crash")
  /\ mem' = Loaded(disk)
  /\ svc' = FreshService
  /\ lane' = Free /\ retry' = "off" /\ ready' = Idle
  /\ events' = <<>>
  /\ native' = [native EXCEPT !.conn = FALSE, !.subscribed = {},
       !.status = [t \in Turns |-> IF @[t] = "starting" THEN "running" ELSE @[t]]]
  /\ UNCHANGED <<disk, accepted, promised, dismissed>>

-----------------------------------------------------------------------------
Native == \E t \in Turns : Produce(t) \/ EndTurn(t)

User ==
  \/ \E t \in Turns : StartTurn(t) \/ Stop(t)
  \/ \E r \in Routes : Detach(r) \/ \E th \in Threads : Select(r, th)

Live == LiveItemStarted \/ LiveItemCompleted \/ LiveTurnCompleted

Deliver ==
  \/ StagedFlushed \/ StagedNotFlushed
  \/ StagedAccepted \/ StagedRefused
  \/ ReceiptFlushed \/ ReceiptNotFlushed

Drain ==
  \/ DrainFlushed \/ DrainNotFlushed
  \/ DrainAccepted \/ DrainRefused
  \/ DrainReceipts \/ DrainReceiptsNotFlushed

Retry == RetryPass \/ RetryReceipts

Rehydrate ==
  \/ \E r \in Routes :
       SkipUnbound(r) \/ ReplayThread(r) \/ ResumeReturns(r) \/ ResumeFails(r)
  \/ RehydrateEnds

Recover == (\E t \in Turns : RecoverTurn(t)) \/ ReadyDrains

Next ==
  \/ Native \/ User
  \/ \E t \in Turns : Started(t)
  \/ Live \/ Deliver \/ Drain \/ Retry
  \/ Connect \/ LoseConnection
  \/ Rehydrate \/ Recover \/ RecoverTimesOut
  \/ Persist \/ Crash

(* The event loop runs what is ready; writes, sends and requests end one   *)
(* way or the other; a lost connection is opened again.  Nothing obliges   *)
(* native or the user to do anything.                                      *)
Fairness ==
  /\ WF_vars(Live) /\ WF_vars(Deliver) /\ WF_vars(Drain) /\ WF_vars(Retry)
  /\ WF_vars(Connect) /\ WF_vars(Rehydrate) /\ WF_vars(Recover)

Spec == Init /\ [][Next]_vars /\ Fairness

-----------------------------------------------------------------------------
(* The file and the sinks behave as the outbox promises: what is staged on *)
(* disk leaves it only after its own route took it, whatever the user, the *)
(* connection and crashes do, is never handed over before it is on disk,   *)
(* and never before an older message of its route.                         *)
Contract == INSTANCE ReliableDelivery WITH owed <- disk.outbox
RefinesReliableDelivery == Contract!Spec

(* A turn whose watch has been on disk stays watched until every answer of *)
(* it, or its fallback, is staged on disk or accepted: no crash, failed    *)
(* flush, lost connection or time-out makes the bridge forget it.          *)
OwedIds(t) == IF AnswersOf[t] = <<>> THEN {t} ELSE Range(AnswersOf[t])
AnswersNotForgotten ==
  \A t \in promised \ dismissed :
    \/ t \in disk.watches
    \/ /\ native.status[t] = "done"
       /\ OwedIds(t) \subseteq IdsIn(accepted \cup disk.outbox)

(* What a sink has taken and the disk no longer owes is not staged again:  *)
(* receipts and consumed watches outlive restarts and reconnections.  A    *)
(* thread that the user detaches gives its receipts up.                    *)
SettledStaysSettled ==
  [][\A id \in IdsIn(accepted) \ IdsIn(disk.outbox) :
       id \in IdsIn(disk'.outbox) => TurnOf(id) \in dismissed]_vars

(* The notice that a turn gave no answer is not sent for a turn that has a *)
(* receipt on disk (has_acknowledged_terminal_delivery).                   *)
NoEmptyNoticeAfterReceipt ==
  [][\A t \in Turns \ (Failing \cup dismissed) :
       t \in IdsIn(mem'.outbox) \ IdsIn(mem.outbox \cup disk.outbox)
         => Receipts(disk, t) = {}]_vars

(* What is staged on disk reaches its conversation, whatever becomes of    *)
(* other conversations.                                                    *)
StagedIsDelivered ==
  \A r \in Routes \ DeadRoutes, id \in Ids :
    (\E e \in disk.outbox : e.id = id /\ e.route = r)
      ~> (\E e \in accepted : e.id = id /\ e.route = r)

-----------------------------------------------------------------------------
(* What RefinesReliableDelivery rests on. *)

Ordered(s) ==
  /\ \A d, e \in s.outbox : d.id = e.id \/ d.seq = e.seq => d = e
  /\ \A e \in s.outbox : e.seq <= s.next

(* Only an accepted entry may be on disk and no longer in memory. *)
DiskCovered == disk.outbox \ mem.outbox \subseteq accepted

(* Whoever is about to hand a message over holds one that is on disk, and  *)
(* nothing earlier of its route is left in memory.                         *)
LaneHoldsStaged ==
  /\ lane.who \in {"live", "recover"} /\ lane.step \in {"flush", "emit"}
       => \E e \in mem.outbox :
            /\ e.id = lane.id
            /\ lane.step = "emit" => /\ e \in disk.outbox
                                    /\ \A d \in mem.outbox : ~Earlier(d, e)
  /\ lane.who \in {"ready", "retry"} /\ lane.step = "emit"
       => /\ lane.rest # {}
          /\ lane.rest \subseteq mem.outbox \cap disk.outbox
          /\ \A e \in lane.rest, d \in mem.outbox : Earlier(d, e) => d \in lane.rest

(* The bookkeeping of the outbox: types, one entry per message and place,  *)
(* and the two facts above, over every interleaving of the three users of  *)
(* the lane with the background writer and crashes.                        *)
OutboxInv ==
  /\ TypeOK
  /\ Ordered(mem) /\ Ordered(disk)
  /\ DiskCovered
  /\ LaneHoldsStaged
=============================================================================
