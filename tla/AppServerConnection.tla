------------------------- MODULE AppServerConnection -------------------------
(***************************************************************************)
(* The connection to the native app-server (appserver/client.py): opening  *)
(* it, the `initialize' handshake and the ready handlers, requests and     *)
(* replies, its loss, and how it is restored or closed.  A connection is   *)
(* known by its epoch; 0 stands for "no transport".                        *)
(*                                                                         *)
(* The client's tasks share one event loop.  What a task does between two  *)
(* awaits is atomic, and is written here as a function from the state      *)
(* `conn' to the state in which the task waits again.                      *)
(***************************************************************************)
EXTENDS Integers, FiniteSets, SequencesExt

CONSTANTS
  Callers,   \* tasks that make a request, or answer a server request, once
  Targets,   \* "external": persistent App Server; "stdio": spawned child
  Attempts,  \* request_retry_policy.attempts
  MaxTurns,  \* bound: turns a reset handler interrupts (stdio only)
  MaxEpoch,  \* bound on connections
  Trouble    \* bound: how many disturbances happen

None == "none"
Tasks == Callers \cup {"reconnect", "cleanup", "closer"}

ASSUME ConnectionAssumption ==
  /\ {None, "listener", "reconnect", "cleanup", "closer"} \cap Callers = {}
  /\ Targets # {} /\ Targets \subseteq {"external", "stdio"}
  /\ Attempts \in Nat \ {0} /\ MaxTurns \in Nat /\ MaxEpoch \in Nat \ {0}
  /\ Trouble \in Nat

VARIABLES
  conn,      \* the client, its tasks and what became of its connections
  spent      \* how many disturbances have happened

vars == <<conn, spent>>

Epoch == 0..MaxEpoch

(* What an awaiting task does when it goes on: the place in the code to    *)
(* which _ensure_connected, a request or a reset returns.                  *)
Places == {"call", "init", "hello", "send", "reply", "rehydrate", "first",
           "again", "out"}

Fresh == [pc |-> "idle", place |-> "call", then |-> "raise", epoch |-> 0,
          init |-> 0, future |-> "none", attempt |-> 1, cancelled |-> FALSE,
          sent |-> {}]
Task ==
  [pc : {"idle", "await_reset", "connect_lock", "locked", "opening",
         "initialize_lock", "handlers", "request", "replying", "overloaded",
         "reset", "rewait", "backoff", "joining", "done", "failed"},
   place : Places,
   then : {"raise", "retry", "backoff", "closed"}, \* after a reset
   epoch : Epoch,      \* request_epoch; for a reply, the expected one
   init : Epoch,       \* initialize_epoch
   future : {"none", "waits", "answered", "refused", "overload", "lost"},
   attempt : 1..Attempts,
   cancelled : BOOLEAN,
   sent : SUBSET Epoch] \* history: connections on which it was sent

NoReset == [phase |-> "none", by |-> None, epoch |-> 0, notify |-> FALSE,
            reconnect |-> FALSE, turns |-> 0]
Reset ==
  [phase : {"none", "stop", "drop", "close", "notify", "interrupt", "over"},
   by : Tasks \cup {"listener", None}, \* initiating_task
   epoch : Epoch, notify : BOOLEAN,
   reconnect : BOOLEAN,                \* should_reconnect
   turns : 0..MaxTurns]                \* left to interrupt

Connection ==
  [target : Targets,
   epoch : Epoch,                      \* connection_epoch
   transport : Epoch,                  \* _transport
   peer : {"up", "down", "reaped"},    \* its other end; is_closed() if reaped
   listener : {"none", "running", "resetting", "done"}, \* _listener_task
   connecting : Tasks \cup {None},     \* holder of _connect_lock
   handshaker : Tasks \cup {None},     \* holder of _initialize_lock
   owner : Tasks \cup {None},          \* _initialize_owner_task
   protocol : BOOLEAN,                 \* _protocol_initialized
   initialized : BOOLEAN, beenReady : BOOLEAN, closing : BOOLEAN,
   reset : Reset,                      \* _resetting and the cleanup task
   task : [Tasks -> Task],
   frozen : BOOLEAN,                   \* the event loop spins for ever
   open : SUBSET Epoch,                \* history: transports not yet closed
   hellos : Seq(Epoch),                \* history: `initialize' sent
   restored : SUBSET Epoch,            \* history: ready handlers completed
   notified : Seq(Epoch)]              \* history: reset handlers ran

TypeOK == conn \in Connection /\ spent \in Nat

Init ==
  /\ \E g \in Targets :
       conn = [target |-> g, epoch |-> 0, transport |-> 0, peer |-> "up",
               listener |-> "none", connecting |-> None, handshaker |-> None,
               owner |-> None, protocol |-> FALSE, initialized |-> FALSE,
               beenReady |-> FALSE, closing |-> FALSE, reset |-> NoReset,
               task |-> [t \in Tasks |-> Fresh], frozen |-> FALSE,
               open |-> {}, hellos |-> <<>>, restored |-> {},
               notified |-> <<>>]
  /\ spent = 0

Disturb == spent < Trouble /\ spent' = spent + 1

-----------------------------------------------------------------------------
(* Helpers.  x is a state of the connection and t the task that runs.      *)

At(x, t, pc, place) ==
  [x EXCEPT !.task[t].pc = pc, !.task[t].place = place]
Ends(x, t, pc) == [x EXCEPT !.task[t] = [Fresh EXCEPT !.pc = pc]]

Resetting(x) == x.reset.phase # "none"
(* The cleanup task, and what the reset handlers call in it. *)
OwnsReset(x, t) == Resetting(x) /\ t = "cleanup"

(* Mutant: nobody waits for a reset. *)
NotBlocked(x, t) == FALSE

(* _wait_for_connection_reset does not return. *)
Blocked(x, t) == Resetting(x) /\ t # "cleanup"

IsCurrent(x, e) == x.epoch = e /\ x.transport = e
IsClosed(x) == x.transport # 0 /\ x.peer = "reaped"
Somebody(x, pc) == \E u \in Tasks : x.task[u].pc = pc

(* connection_facts: `ready' *)
ConnectionReady ==
  conn.transport # 0 /\ ~IsClosed(conn) /\ conn.initialized

(* First check of _ensure_connected. *)
MayReenter(x, t) ==
  OwnsReset(x, t) => x.handshaker \in {None, t}

(* Mutant: a handler that failed because of a reset completes all the same. *)
RequiredEpoch(x, t) == ~x.closing /\ x.epoch = x.task[t].init

(* _require_initializing_connection *)
Required(x, t) ==
  ~x.closing /\ ~Blocked(x, t) /\ IsCurrent(x, x.task[t].init) /\ x.protocol

(* should_reconnect *)
WantsReconnect(x, notify) ==
  notify /\ x.target = "external" /\ x.beenReady /\ ~x.closing

(* _reset_connection, for a task that is not the cleanup task: it begins a *)
(* reset, or waits for the one that is under way.                          *)
StartReset(x, t, then, place, notify) ==
  IF Resetting(x)
    THEN [At(x, t, "rewait", place) EXCEPT !.task[t].then = then]
    ELSE [At(x, t, "reset", place) EXCEPT
            !.task[t].then = then,
            !.reset = [phase |-> "stop", by |-> t, epoch |-> x.epoch,
                       notify |-> notify, turns |-> 0,
                       reconnect |-> WantsReconnect(x, notify)]]

(* Mutant: the reconnect loop ends with the first failure. *)
FailsForGood(x, t) ==
  IF t \in {"cleanup", "reconnect"} THEN Ends(x, t, "idle")
  ELSE Ends(x, t, "failed")

(* Exceptions.  A failed call ends; the reconnect loop resets a connection *)
(* that is only half ready and backs off; a reset handler goes on.         *)
Fails(x, t) ==
  CASE t = "cleanup" -> Ends(x, t, "idle")
    [] t = "reconnect" /\ x.task[t].cancelled -> Ends(x, t, "idle")
    [] t = "reconnect" /\ ~x.task[t].cancelled ->
         IF x.transport # 0 THEN StartReset(x, t, "backoff", "out", TRUE)
         ELSE Ends(x, t, "backoff")
    [] OTHER -> Ends(x, t, "failed")

(* Mutant: a failed `initialize' keeps its lock. *)
LeavesLocked(x, t) == Fails(x, t)

(* An exception leaves initialize, or what called _ensure_connected. *)
Leaves(x, t) ==
  Fails(IF x.handshaker = t THEN [x EXCEPT !.handshaker = None] ELSE x, t)

NotReady(x) == [x EXCEPT !.owner = None, !.initialized = FALSE]

(* A ready handler sees the exception of its own request; its cancellation *)
(* resets the connection that is half ready.                               *)
Raises(x, t) ==
  CASE x.owner # t -> Leaves(x, t)
    [] x.owner = t /\ ~x.task[t].cancelled -> At(x, t, "handlers", "again")
    [] OTHER -> LET y == NotReady(x) IN
         IF IsCurrent(y, y.task[t].init)
           THEN StartReset(y, t, "raise", "out", TRUE)
           ELSE Leaves(y, t)

(* `await self._reset_connection(); raise'.  In the cleanup task the reset *)
(* is a no-op.                                                             *)
ResetsAndRaises(x, t, place) ==
  IF OwnsReset(x, t) THEN Raises(x, t)
  ELSE StartReset(x, t, "raise", place, TRUE)

(* Mutant: a failed handshake leaves its connection open. *)
ErrorKeepsConnection(x, t, place) == Raises(x, t)

(* An exception at a place: a failed handshake resets its connection. *)
Error(x, t, place) ==
  IF place = "hello" /\ IsCurrent(x, x.task[t].init)
    THEN ResetsAndRaises(x, t, "out") ELSE Raises(x, t)

-----------------------------------------------------------------------------
(* What a task does until it waits again. *)

(* _connect_lock is free, and nobody waits for it, or it is waited for. *)
Connecting(x, t, place) ==
  CASE x.connecting # None \/ Somebody(x, "connect_lock") ->
         At(x, t, "connect_lock", place)
    [] OTHER -> IF x.closing THEN Error(x, t, place)
                ELSE [At(x, t, "opening", place) EXCEPT !.connecting = t]

(* _listener_task is dropped when it is done. *)
Joined(x) == [x EXCEPT !.listener = IF @ = "done" THEN "none" ELSE @]

(* The loop of _ensure_connected, once no reset is under way; `found' is   *)
(* what follows when a transport is there.  To the cleanup task            *)
(* _reset_connection is a no-op: when it finds the transport closed, the   *)
(* loop never reaches an await again.                                      *)
Look(x, t, place, found) ==
  CASE (x.listener = "done" \/ IsClosed(x)) /\ ~OwnsReset(x, t) ->
         StartReset(Joined(x), t, "retry", place, TRUE)
    [] IsClosed(x) /\ OwnsReset(x, t) -> [x EXCEPT !.frozen = TRUE]
    [] OTHER -> IF x.transport # 0 THEN found ELSE Connecting(Joined(x), t, place)

Loop(x, t, place, found) ==
  CASE x.closing -> Error(x, t, place)
    [] ~x.closing /\ Blocked(x, t) -> At(x, t, "await_reset", place)
    [] OTHER -> Look(x, t, place, found)

(* _ensure_connected, of a task that is not running the ready handlers. *)
Ensure(x, t, place, found) ==
  IF MayReenter(x, t) THEN Loop(x, t, place, found) ELSE Error(x, t, place)

(* _request_once_without_initialize, up to the response. *)
SendsOnce(x, t, place) ==
  LET c == x.task[t]
      out == IF place = "send" THEN {x.transport} ELSE {}
  IN  [x EXCEPT !.task[t] =
         [c EXCEPT !.pc = "request", !.place = place, !.epoch = x.epoch,
                   !.future = "waits", !.sent = c.sent \cup out]]

(* _request_without_initialize: the first attempt. *)
Send(x, t, place) ==
  [SendsOnce(x, t, place) EXCEPT
     !.task[t].attempt = 1,
     !.hellos = IF place = "hello" THEN Append(@, x.transport) ELSE @]

(* _ensure_ready has returned: the request, or the end of the reconnect    *)
(* loop.                                                                   *)
Ready(x, t) ==
  IF t = "reconnect" THEN Ends(x, t, "idle")
  ELSE Ensure(x, t, "send", Send(Joined(x), t, "send"))

RunsHandlers(x, t) ==
  [At(x, t, "handlers", "first") EXCEPT !.owner = t, !.task[t].init = x.epoch]

(* The handshake, unless this connection has had it. *)
Hello(x, t) ==
  IF x.protocol THEN RunsHandlers(x, t)
  ELSE LET y == [x EXCEPT !.task[t].init = x.epoch]
       IN  Ensure(y, t, "hello", Send(Joined(y), t, "hello"))

(* initialize, with its lock. *)
Initializes(x, t) ==
  LET y == [x EXCEPT !.handshaker = t]
  IN  CASE x.closing -> Leaves(y, t)
        [] ~x.closing /\ x.initialized -> Ready(x, t)
        [] OTHER -> Ensure(y, t, "init", Hello(Joined(y), t))

(* reply_to_transport_request: _reply_transport, then the send. *)
Replies(x, t) ==
  IF x.task[t].epoch # x.epoch THEN Raises(x, t)
  ELSE [At(x, t, "replying", "reply") EXCEPT !.task[t].sent = {x.transport}]

(* _ensure_connected returns to its caller. *)
Returns(x, t, place) ==
  CASE place = "call" ->
         IF x.initialized THEN Ready(x, t)
         ELSE IF x.handshaker = None /\ ~Somebody(x, "initialize_lock")
           THEN Initializes(x, t) ELSE At(x, t, "initialize_lock", "call")
    [] place = "init" -> Hello(x, t)
    [] place = "reply" -> Replies(x, t)
    [] OTHER -> Send(x, t, place)

Begins(x, t, place) == Ensure(x, t, place, Returns(Joined(x), t, place))
GoesOn(x, t, place) == Loop(x, t, place, Returns(Joined(x), t, place))

Unlocked(x) == [x EXCEPT !.connecting = None]

(* Mutant: a connection is opened whatever another task did meanwhile. *)
ConnectsAnyway(x, t, place) ==
  IF x.closing THEN Error(Unlocked(x), t, place) ELSE At(x, t, "opening", place)

(* _ensure_connected, with _connect_lock, when no reset is under way. *)
Connects(x, t, place) ==
  CASE x.closing -> Error(Unlocked(x), t, place)
    [] ~x.closing /\ x.transport = 0 -> At(x, t, "opening", place)
    [] OTHER -> IF IsClosed(x) THEN GoesOn(Unlocked(x), t, place)
                ELSE Returns(Unlocked(x), t, place)

-----------------------------------------------------------------------------
(* Requests and connections, as seen by a task. *)

Alive == ~conn.frozen
Is(t, pc) == Alive /\ conn.task[t].pc = pc
Place(t) == conn.task[t].place
Becomes(x) == conn' = x /\ UNCHANGED spent

(* call and the methods like it; a reply to a server request that came     *)
(* over any connection so far.                                             *)
CallStarts(t) ==
  /\ t \in Callers /\ Is(t, "idle")
  /\ \/ Becomes(Begins(conn, t, "call"))
     \/ \E e \in 1..conn.epoch :
          Becomes(Begins([conn EXCEPT !.task[t].epoch = e], t, "reply"))

(* _wait_for_connection_reset, in _ensure_connected. *)
ResetAwaited(t) ==
  /\ Is(t, "await_reset") /\ ~Blocked(conn, t)
  /\ Becomes(Look(conn, t, Place(t), Returns(Joined(conn), t, Place(t))))

(* The lock is held while a reset goes on. *)
ConnectLockTaken(t) ==
  LET x == [conn EXCEPT !.connecting = t]
  IN  /\ t # "closer" /\ Is(t, "connect_lock") /\ conn.connecting = None
      /\ Becomes(IF Blocked(x, t) THEN At(x, t, "locked", Place(t))
                 ELSE Connects(x, t, Place(t)))

ResetAwaitedInLock(t) ==
  /\ Is(t, "locked") /\ ~Blocked(conn, t)
  /\ Becomes(Connects(conn, t, Place(t)))

(* _open_connection: connect_external, or start of the child. *)
Opened(t) ==
  LET x == Unlocked(conn)
      e == conn.epoch + 1
  IN  /\ Is(t, "opening") /\ conn.epoch < MaxEpoch
      /\ Becomes(
           IF x.closing THEN Error(x, t, Place(t))
           ELSE Returns([x EXCEPT
                  !.epoch = e, !.transport = e, !.open = @ \cup {e},
                  !.peer = "up", !.listener = "running",
                  !.protocol = FALSE, !.initialized = FALSE], t, Place(t)))

OpenFails(t) ==
  /\ Is(t, "opening") /\ Disturb
  /\ conn' = Error(Unlocked(conn), t, Place(t))

InitializeLockTaken(t) ==
  /\ Is(t, "initialize_lock") /\ conn.handshaker = None
  /\ Becomes(Initializes(conn, t))

(* The receive loop dispatches the response of a pending request. *)
Responds(t) ==
  /\ Is(t, "request") /\ conn.task[t].future = "waits"
  /\ conn.listener = "running" /\ conn.peer = "up"
  /\ IsCurrent(conn, conn.task[t].epoch)
  /\ \/ conn' = [conn EXCEPT !.task[t].future = "answered"] /\ UNCHANGED spent
     \/ /\ Disturb
        /\ \E a \in {"refused", "overload"} :
             conn' = [conn EXCEPT !.task[t].future = a]

(* The request cannot be sent, its future failed, or it timed out: the     *)
(* connection it was sent on is reset, if it is still there.               *)
Lost(x, t) ==
  LET place == x.task[t].place
  IN  IF IsCurrent(x, x.task[t].epoch) /\ ~OwnsReset(x, t)
        THEN StartReset(x, t, "raise", place, TRUE) ELSE Error(x, t, place)

(* The result of a request; after `initialize' the client sends            *)
(* `initialized' and checks that the connection is still the same.         *)
Answered(x, t) ==
  CASE x.task[t].place = "send" ->
         Ends(x, t, IF t = "cleanup" THEN "idle" ELSE "done")
    [] x.task[t].place = "rehydrate" -> At(x, t, "handlers", "again")
    [] OTHER ->
         IF Required([x EXCEPT !.protocol = TRUE], t)
           THEN RunsHandlers([x EXCEPT !.protocol = TRUE], t)
           ELSE Error(x, t, "hello")

(* Mutant: one attempt too many. *)
MayRetryOnceMore(c) == c.attempt <= Attempts

MayRetry(c) == c.attempt < Attempts

(* The task resumes with what its future holds. *)
RequestResumes(t) ==
  LET c == conn.task[t]
      x == [conn EXCEPT !.task[t].future = "none"]
  IN  /\ Is(t, "request") /\ c.future # "waits"
      /\ Becomes(
           CASE c.future = "answered" -> Answered(x, t)
             [] c.future = "lost" -> Lost(x, t)
             [] c.future = "overload" /\ MayRetry(c) ->
                  [At(x, t, "overloaded", c.place) EXCEPT
                     !.task[t].attempt = @ + 1]
             [] OTHER -> Error(x, t, c.place))

RequestTimesOut(t) ==
  /\ Is(t, "request") /\ conn.task[t].future = "waits" /\ Disturb
  /\ conn' = Lost([conn EXCEPT !.task[t].future = "none"], t)

(* Mutant: the retry is sent on the connection there is now. *)
RetryAnywhere(x, t) ==
  IF x.transport = 0 THEN Error(x, t, x.task[t].place)
  ELSE SendsOnce(x, t, x.task[t].place)

(* After the delay: not on another connection. *)
Retry(x, t) ==
  IF IsCurrent(x, x.task[t].epoch) THEN SendsOnce(x, t, x.task[t].place)
  ELSE Error(x, t, x.task[t].place)

RetryWakes(t) == Is(t, "overloaded") /\ Becomes(Retry(conn, t))

(* The send of a reply returns, or raises: then the connection is reset.   *)
ReplySent(t) ==
  /\ Is(t, "replying") /\ Becomes(Ends(conn, t, "done"))

ReplyFails(t) ==
  /\ Is(t, "replying") /\ Disturb
  /\ conn' = IF IsCurrent(conn, conn.task[t].epoch)
               THEN ResetsAndRaises(conn, t, "reply") ELSE Raises(conn, t)

(* A ready handler makes a request of its own: for the owner of the        *)
(* handshake _ensure_ready and _ensure_connected only check the connection. *)
HandlerCalls(t) ==
  /\ Is(t, "handlers") /\ Place(t) = "first"
  /\ Becomes(IF MayReenter(conn, t) /\ Required(conn, t)
               THEN Send(conn, t, "rehydrate") ELSE Raises(conn, t))

HandlersDone(t) ==
  /\ Is(t, "handlers")
  /\ Becomes(
       IF Required(conn, t)
         THEN Ready([conn EXCEPT
                !.owner = None, !.handshaker = None, !.initialized = TRUE,
                !.beenReady = TRUE, !.restored = @ \cup {conn.task[t].init}], t)
         ELSE Leaves(NotReady(conn), t))

HandlerFails(t) ==
  /\ Is(t, "handlers") /\ Disturb
  /\ conn' = Leaves(NotReady(conn), t)

-----------------------------------------------------------------------------
(* The receive loop, and the reset of a connection. *)

(* What waits on a connection fails with it. *)
FailFutures(x, e) ==
  [x EXCEPT !.task = [t \in Tasks |->
     IF x.task[t].future = "waits" /\ x.task[t].epoch = e
       THEN [x.task[t] EXCEPT !.future = "lost"] ELSE x.task[t]]]

NotInitialized(x) == [x EXCEPT !.protocol = FALSE, !.initialized = FALSE]

PeerDies ==
  /\ Alive /\ conn.transport # 0 /\ conn.peer = "up" /\ Disturb
  /\ conn' = [conn EXCEPT !.peer = "down"]

(* The exit of the child is seen; a websocket is never found closed. *)
ChildReaped ==
  /\ Alive /\ conn.target = "stdio" /\ conn.transport # 0
  /\ conn.peer = "down" /\ Becomes([conn EXCEPT !.peer = "reaped"])

(* receive_json raised, or a dispatch queue is full. *)
ReceiveFails(x) ==
  LET y == [NotInitialized(FailFutures(x, x.epoch)) EXCEPT
              !.listener = "resetting"]
  IN  IF Resetting(x) THEN y
      ELSE [y EXCEPT !.reset = [phase |-> "stop", by |-> "listener",
              epoch |-> x.epoch, notify |-> TRUE, turns |-> 0,
              reconnect |-> WantsReconnect(x, TRUE)]]

ListenerFails ==
  /\ Alive /\ conn.listener = "running" /\ conn.transport = conn.epoch
  /\ \/ conn.peer # "up" /\ UNCHANGED spent
     \/ conn.peer = "up" /\ Disturb
  /\ conn' = ReceiveFails(conn)

(* It waited for a reset that another task had begun. *)
ListenerEnds ==
  /\ Alive /\ conn.listener = "resetting" /\ ~Resetting(conn)
  /\ Becomes([conn EXCEPT !.listener = "done"])

InPhase(p) == Alive /\ conn.reset.phase = p

(* _reset_connection_impl: the listener and the dispatchers are cancelled. *)
TasksStopped ==
  /\ InPhase("stop")
  /\ Becomes([(IF conn.listener \in {"running", "resetting"}
                 THEN NotInitialized(conn) ELSE conn) EXCEPT
               !.listener = "none", !.reset.phase = "drop"])

TransportDropped ==
  /\ InPhase("drop")
  /\ Becomes([conn EXCEPT !.transport = 0, !.reset.phase = "close"])

(* Mutant: the futures of the lost connection are forgotten. *)
ClosedKeepsFutures(x) ==
  [NotInitialized(x) EXCEPT
     !.open = @ \ {x.reset.epoch},
     !.reset.phase = IF x.reset.notify /\ x.reset.epoch > 0 THEN "notify"
                     ELSE "interrupt"]

(* transport.close and supervisor.stop have returned. *)
Closed(x) ==
  [NotInitialized(FailFutures(x, x.reset.epoch)) EXCEPT
     !.open = @ \ {x.reset.epoch},
     !.reset.phase = IF x.reset.notify /\ x.reset.epoch > 0 THEN "notify"
                     ELSE "interrupt"]

TransportClosed == InPhase("close") /\ Becomes(Closed(conn))

(* handle_connection_reset.  Only a spawned server loses its turns: those  *)
(* with a pending request are interrupted, through this very client.  A    *)
(* connection that was never ready has none.                               *)
HandlersNotified ==
  /\ InPhase("notify")
  /\ \E n \in 0..MaxTurns :
       /\ n > 0 => conn.target = "stdio" /\ conn.reset.epoch \in conn.restored
       /\ Becomes([conn EXCEPT !.reset.phase = "interrupt", !.reset.turns = n,
                               !.notified = Append(@, conn.reset.epoch)])

TurnInterrupted ==
  /\ InPhase("interrupt") /\ conn.reset.turns > 0 /\ Is("cleanup", "idle")
  /\ Becomes(Begins([conn EXCEPT !.reset.turns = @ - 1], "cleanup", "call"))

(* _schedule_background_reconnect *)
Schedules(x) ==
  IF /\ x.reset.reconnect /\ x.transport = 0 /\ ~x.closing
     /\ x.task["reconnect"].pc = "idle"
    THEN [x EXCEPT !.task["reconnect"] = [Fresh EXCEPT !.pc = "backoff"]]
    ELSE x

CleanupDone ==
  /\ InPhase("interrupt") /\ conn.reset.turns = 0 /\ Is("cleanup", "idle")
  /\ Becomes([Schedules(conn) EXCEPT !.reset.phase = "over"])

(* Where a task goes on after the reset it began or waited for. *)
AfterReset(x, t) ==
  LET c == x.task[t]
  IN  CASE c.then = "closed" -> Unlocked(Ends(x, t, "done"))
        [] c.then = "retry" /\ ~c.cancelled -> GoesOn(x, t, c.place)
        [] c.then = "backoff" /\ ~c.cancelled -> Ends(x, t, "backoff")
        [] OTHER -> Error(x, t, c.place)

(* The task that began the reset resumes. *)
ResetEnds ==
  LET x == [conn EXCEPT !.reset = NoReset]
  IN  /\ InPhase("over")
      /\ Becomes(IF conn.reset.by = "listener" THEN x
                 ELSE AfterReset(x, conn.reset.by))

OtherResetEnds(t) ==
  /\ Is(t, "rewait") /\ ~Blocked(conn, t)
  /\ Becomes(AfterReset(conn, t))

(* _background_reconnect_loop, after its delay. *)
ReconnectTries ==
  /\ Is("reconnect", "backoff")
  /\ Becomes(IF conn.closing THEN Ends(conn, "reconnect", "idle")
             ELSE Begins(conn, "reconnect", "call"))

-----------------------------------------------------------------------------
(* Cancellation and close. *)

(* The task is cancelled where it waits: it leaves the locks it holds.  A  *)
(* reset it began is waited for all the same.                              *)
Cancelled(x, t) ==
  LET y == [x EXCEPT !.task[t].cancelled = TRUE,
              !.connecting = IF @ = t THEN None ELSE @]
  IN  IF x.task[t].pc = "reset" THEN y ELSE Error(y, t, x.task[t].place)

CallerCancelled(t) ==
  /\ t \in Callers /\ Alive
  /\ conn.task[t].pc \notin {"idle", "done", "failed"}
  /\ ~conn.task[t].cancelled /\ Disturb
  /\ conn' = Cancelled(conn, t)

TakesConnectLock(x) ==
  IF x.connecting = None /\ ~Somebody(x, "connect_lock")
    THEN StartReset([x EXCEPT !.connecting = "closer"], "closer", "closed",
                    "out", FALSE)
    ELSE At(x, "closer", "connect_lock", "out")

(* close *)
CloseStarts ==
  /\ Is("closer", "idle") /\ Disturb
  /\ LET x == [conn EXCEPT !.closing = TRUE]
     IN  conn' = IF x.task["reconnect"].pc = "idle" THEN TakesConnectLock(x)
                 ELSE Cancelled(At(x, "closer", "joining", "out"), "reconnect")

ReconnectJoined ==
  /\ Is("closer", "joining") /\ conn.task["reconnect"].pc = "idle"
  /\ Becomes(TakesConnectLock(conn))

CloserLocks ==
  /\ Is("closer", "connect_lock") /\ conn.connecting = None
  /\ Becomes(StartReset([conn EXCEPT !.connecting = "closer"], "closer",
                        "closed", "out", FALSE))

-----------------------------------------------------------------------------

TaskStep(t) ==
  \/ ResetAwaited(t) \/ ConnectLockTaken(t) \/ ResetAwaitedInLock(t)
  \/ Opened(t) \/ InitializeLockTaken(t)
  \/ RequestResumes(t) \/ RetryWakes(t) \/ ReplySent(t)
  \/ HandlerCalls(t) \/ HandlersDone(t) \/ OtherResetEnds(t)

ResetStep ==
  \/ TasksStopped \/ TransportDropped \/ TransportClosed
  \/ HandlersNotified \/ TurnInterrupted \/ CleanupDone \/ ResetEnds

CloserStep == ReconnectJoined \/ CloserLocks

Disturbed(t) ==
  \/ OpenFails(t) \/ RequestTimesOut(t) \/ ReplyFails(t) \/ HandlerFails(t)
  \/ CallerCancelled(t)

Next ==
  \/ \E t \in Tasks : CallStarts(t) \/ TaskStep(t) \/ Responds(t) \/ Disturbed(t)
  \/ PeerDies \/ ChildReaped \/ ListenerFails \/ ListenerEnds
  \/ ResetStep \/ ReconnectTries \/ CloseStarts \/ CloserStep

Spec == Init /\ [][Next]_vars

(* What goes on by itself: the event loop runs what can run, the native    *)
(* server answers, and a socket that is gone is noticed.                   *)
Progress ==
  \/ \E t \in Tasks : TaskStep(t) \/ Responds(t)
  \/ ListenerFails \/ ListenerEnds \/ ResetStep \/ ReconnectTries
  \/ CloserStep

(* Nothing needs to disturb the client, to call it or to close it.  No     *)
(* step of one task can be repeated for ever while another waits, so that  *)
(* fairness between the tasks is not assumed.                              *)
Fairness == WF_vars(Progress)

FairSpec == Spec /\ Fairness

-----------------------------------------------------------------------------
(* Properties. *)

External == conn.target = "external"

(* "Ready" is not reported too early, nor too long: it stands for the      *)
(* present connection, on which the handshake was made and the ready       *)
(* handlers completed, and which is still read from or being reset.        *)
ReadyMeansRestored ==
  ConnectionReady =>
    /\ conn.protocol /\ conn.transport \in conn.restored
    /\ External => conn.listener = "running" \/ Resetting(conn)

(* A transport is closed before the next is opened, and since connect and  *)
(* initialize are serialized each connection epoch has at most one         *)
(* handshake.                                                              *)
AtMostOneHandshake == IsInjective(conn.hellos)
OneConnectionOpen ==
  /\ Cardinality(conn.open) <= 1
  /\ External => AtMostOneHandshake

(* The reset handlers ran once for every lost connection before the next   *)
(* one is there.                                                           *)
LossIsHandledFirst ==
  /\ IsInjective(conn.notified)
  /\ External /\ conn.transport # 0 /\ ~conn.closing =>
       ToSet(conn.notified) = 1..(conn.transport - 1)

(* A request or a reply goes out on one connection, retries included; a    *)
(* reply on the connection of its request.                                 *)
StaysOnItsConnection ==
  \A t \in Tasks :
    LET c == conn.task[t]
    IN  /\ Cardinality(c.sent) <= 1
        /\ c.pc = "replying" => c.sent = {c.epoch}

(* Nobody waits for an answer on a connection that is gone.                *)
NobodyWaitsInVain ==
  External => \A t \in Tasks :
    LET c == conn.task[t]
    IN  c.future = "waits" =>
          \/ /\ IsCurrent(conn, c.epoch)
             /\ conn.listener = "running"
          \/ /\ conn.reset.epoch = c.epoch
             /\ conn.reset.phase \in {"stop", "drop", "close"}

(* After close no transport is left open, and none is opened again.        *)
CloseIsFinal ==
  External /\ conn.task["closer"].pc = "done" =>
    conn.open = {} /\ conn.transport = 0

(* The event loop never spins for ever. *)
NeverFrozen == ~conn.frozen

(* Every call ends, with a result or an error. *)
InCall(t) == conn.task[t].pc \notin {"idle", "done", "failed"}
EveryCallEnds == \A t \in Callers : InCall(t) /\ External ~> ~InCall(t)

(* A persistent connection that was ready is restored without anybody      *)
(* calling, until the client is closed.                                    *)
RestoredInBackground ==
  External /\ conn.beenReady ~> conn.initialized \/ conn.closing
=============================================================================
