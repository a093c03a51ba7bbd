---------------------- MODULE AppServerConnectionProofs ----------------------
(***************************************************************************)
(* Proofs about AppServerConnection.  What a task does between two awaits  *)
(* is a function of the state of the connection; each function has a       *)
(* lemma: from a state in which the task runs (Runs: the invariant of      *)
(* everything else, and what the task holds) it leads to a state in which  *)
(* the invariant holds of every task (Sound).                              *)
(***************************************************************************)
EXTENDS AppServerConnection, FiniteSetTheorems, TLAPS

-----------------------------------------------------------------------------
(* The inductive invariant, as a predicate of a state x of the connection: *)
(* what holds of it whatever its tasks do (Whole), and what holds of every *)
(* task that waits (Fine).                                                 *)

Ext(x) == x.target = "external"
Early == {"stop", "drop", "close"}
Before == Early \cup {"notify"}
Over == {"idle", "done", "failed"}
Entries == {"call", "init", "send", "reply", "hello"}
Handshake == {"init", "hello", "first", "rehydrate", "again"}
Phase(x) == x.reset.phase

(* `initialize' was sent on the transport only if the handshake succeeded  *)
(* or the connection is being reset.                                       *)
Clean(x) ==
  Ext(x) /\ x.transport \in ToSet(x.hellos) => x.protocol \/ Resetting(x)

(* The loss of the present connection has still to be told.                *)
Untold(x) == x.transport # 0 \/ (Phase(x) \in Before /\ x.reset.notify)

TransportOK(x) ==
  /\ x.transport \in {0, x.epoch}
  /\ x.open \subseteq {x.epoch}
  /\ x.transport # 0 => x.open = {x.epoch}
  /\ x.transport = 0 /\ Phase(x) # "close" => x.open = {}

ResetOK(x) ==
  /\ Resetting(x) => x.reset.by # None
  /\ Phase(x) \in Before => x.reset.epoch = x.epoch
  /\ Phase(x) \in {"drop", "close", "notify"} => x.listener = "none"
  /\ Phase(x) \in {"close", "notify"} => x.transport = 0
  /\ Phase(x) = "notify" => x.epoch > 0 /\ x.reset.notify
  /\ Ext(x) => x.reset.turns = 0
  /\ Ext(x) /\ Phase(x) \in {"interrupt", "over"} => x.transport = 0

ListenerOK(x) ==
  /\ x.listener # "none" => x.transport # 0
  /\ Ext(x) => /\ x.listener # "done" /\ x.peer # "reaped"
               /\ x.listener = "resetting" => Phase(x) = "stop"
               /\ x.transport # 0 /\ Phase(x) = "none" => x.listener = "running"

ReadyOK(x) == x.initialized => x.protocol /\ x.epoch \in x.restored

NotifiedOK(x) ==
  /\ IsInjective(x.notified) /\ ToSet(x.notified) \subseteq 1..x.epoch
  /\ Untold(x) => x.epoch \notin ToSet(x.notified)
  /\ ~x.closing =>
       /\ 1..(x.epoch - 1) \subseteq ToSet(x.notified)
       /\ Phase(x) \in Before => x.reset.notify
       /\ ~Untold(x) /\ x.epoch # 0 => x.epoch \in ToSet(x.notified)

HellosOK(x) ==
  /\ Ext(x) => IsInjective(x.hellos)
  /\ ToSet(x.hellos) \subseteq 1..x.epoch
  /\ x.handshaker = None => Clean(x)

Whole(x) ==
  /\ x \in Connection
  /\ TransportOK(x) /\ ResetOK(x) /\ ListenerOK(x) /\ ReadyOK(x)
  /\ NotifiedOK(x) /\ HellosOK(x)

(* A task that waits holds its locks. *)
LocksOK(x, u) ==
  LET c == x.task[u]
  IN  /\ c.pc \in {"locked", "opening"} => x.connecting = u
      /\ x.connecting = u => \/ c.pc \in {"locked", "opening"}
                             \/ u = "closer" /\ c.pc \in {"reset", "rewait"}
      /\ c.pc = "opening" =>
           /\ x.transport = 0
           /\ Phase(x) = "none" \/ (u = "cleanup" /\ Phase(x) = "interrupt")
      /\ c.pc \notin Over /\ c.place \in Handshake => x.handshaker = u
      /\ x.owner = u =>
           /\ x.handshaker = u /\ c.place \in {"first", "rehydrate", "again"}
           /\ c.pc \in {"handlers", "request", "overloaded", "reset", "rewait"}
           /\ c.sent = {}
      /\ x.handshaker = u /\ ~Clean(x) =>
           /\ c.pc \in {"request", "overloaded"} /\ c.place = "hello"
           /\ IsCurrent(x, c.init)

(* What a task waits with: its place, its connection and what it sent. *)
PlaceOK(x, u) ==
  LET c == x.task[u]
  IN  /\ c.pc \notin Over /\ c.place \in Handshake \ {"init"} => c.init > 0
      /\ c.pc \notin Over /\ c.place = "reply" => c.epoch > 0
      /\ c.pc = "handlers" => c.place \in {"first", "again"}
      /\ c.pc \in {"request", "overloaded"} => c.epoch > 0
      /\ c.pc \in {"request", "overloaded"} => c.place \in {"send", "rehydrate", "hello"}
      /\ c.pc = "replying" => c.place = "reply" /\ c.sent = {c.epoch}
      /\ c.pc = "initialize_lock" => c.place = "call"
      /\ c.pc \in Over => c.place = "call"
      /\ c.pc = "idle" => c.future = "none"
      /\ c.sent # {} =>
           /\ c.sent = {c.epoch}
           /\ \/ c.pc \in {"request", "overloaded"} /\ c.place = "send"
              \/ c.pc = "replying"
              \/ c.pc \in {"reset", "rewait"} /\ c.then # "retry"
      /\ c.pc \in {"await_reset", "connect_lock", "locked", "opening"} /\ u # "closer" =>
           c.place \in Entries /\ (Ext(x) => c.place # "hello")

(* A task that waits for a reset, and the tasks with a part of their own.  *)
RoleOK(x, u) ==
  LET c == x.task[u]
  IN  /\ Resetting(x) /\ x.reset.by = u => c.pc = "reset"
      /\ c.pc \in {"reset", "rewait"} =>
           /\ c.then = "closed" <=> u = "closer"
           /\ c.then = "retry" => c.place \in Entries /\ ~Ext(x)
           /\ c.then = "backoff" => c.place = "out"
      /\ u = "cleanup" =>
           /\ ~c.cancelled /\ c.pc \notin {"reset", "rewait", "backoff", "joining"}
           /\ c.pc # "idle" => Phase(x) = "interrupt" /\ ~Ext(x)
      /\ u = "closer" =>
           /\ c.pc \in {"idle", "joining", "connect_lock", "reset", "rewait", "done"}
           /\ c.pc # "idle" => x.closing /\ c.place \notin Handshake
           /\ c.pc \in {"reset", "rewait"} =>
                /\ x.connecting = u
                /\ Ext(x) => x.transport = 0 \/ Phase(x) \in {"stop", "drop"}
           /\ c.pc = "done" /\ Ext(x) => x.transport = 0 /\ Phase(x) \notin Early

(* The answer a task waits for can still come, or its future will fail.    *)
WaitOK(x, u) ==
  LET c == x.task[u]
  IN  Ext(x) /\ c.future = "waits" =>
        \/ IsCurrent(x, c.epoch) /\ x.listener = "running"
        \/ x.reset.epoch = c.epoch /\ Phase(x) \in Early

(* It was sent on one connection, the one it waits on.                     *)
SentOK(x, u) ==
  LET c == x.task[u]
  IN  c.sent \subseteq {c.epoch} /\ (c.pc = "replying" => c.sent = {c.epoch})

Fine(x, u) == LocksOK(x, u) /\ PlaceOK(x, u) /\ RoleOK(x, u) /\ WaitOK(x, u)

(* A loop that spins for ever lets no task wait.                           *)
Sound(x) ==
  /\ Whole(x) /\ \A u \in Tasks : SentOK(x, u)
  /\ IF x.frozen THEN ~Ext(x) ELSE \A u \in Tasks : Fine(x, u)

SoundConnection == Sound(conn)
-----------------------------------------------------------------------------
(* A task t that runs: the others are fine, and it begins no wait yet.     *)
Runs(x, t) ==
  /\ Whole(x) /\ ~x.frozen /\ t # "closer"
  /\ \A u \in Tasks \ {t} : Fine(x, u) /\ SentOK(x, u)
  /\ x.connecting # t
  /\ Resetting(x) => x.reset.by # t
  /\ t = "cleanup" => ~x.task[t].cancelled /\ Phase(x) = "interrupt" /\ ~Ext(x)
  /\ WaitOK(x, t) /\ x.task[t].sent \subseteq {x.task[t].epoch}
  /\ x.owner = t => x.handshaker = t /\ x.task[t].init > 0 /\ x.task[t].sent = {}

(* Its part of the handshake is in order. *)
Tidy(x, t) == x.handshaker = t => Clean(x)

(* It has sent nothing, and runs no ready handlers. *)
Free(x, t) ==
  /\ Runs(x, t) /\ Tidy(x, t) /\ x.owner # t
  /\ x.task[t].sent = {} /\ x.task[t].pc # "replying"

(* It may wait at this place of the code. *)
Rightly(x, t, place) ==
  /\ place \in Entries
  /\ place \in {"init", "hello"} => x.handshaker = t
  /\ place = "hello" => x.task[t].init > 0
  /\ place = "reply" => x.task[t].epoch > 0

(* Everything but the tasks is the same; or but the tasks and a lock.      *)
Alike(x, y) ==
  /\ y.target = x.target /\ y.epoch = x.epoch /\ y.transport = x.transport
  /\ y.peer = x.peer /\ y.listener = x.listener
  /\ y.handshaker = x.handshaker /\ y.owner = x.owner /\ y.protocol = x.protocol
  /\ y.initialized = x.initialized /\ y.beenReady = x.beenReady
  /\ y.closing = x.closing /\ y.reset = x.reset /\ y.frozen = x.frozen
  /\ y.open = x.open /\ y.hellos = x.hellos /\ y.restored = x.restored
  /\ y.notified = x.notified

Same(x, y) == Alike(x, y) /\ y.connecting = x.connecting

(* Only task t has moved. *)
Others(x, y, t) == \A u \in Tasks \ {t} : y.task[u] = x.task[u]
Moved(x, y, t) == y \in Connection /\ Same(x, y) /\ Others(x, y, t)

Pcs == {"idle", "await_reset", "connect_lock", "locked", "opening",
        "initialize_lock", "handlers", "request", "replying", "overloaded",
        "reset", "rewait", "backoff", "joining", "done", "failed"}

LEMMA TasksTyped ==
  ASSUME NEW x \in Connection, NEW t \in Tasks
  PROVE  x.task[t] \in Task
  BY DEF Connection

LEMMA FreshTyped == Fresh \in Task
  BY ConnectionAssumption DEF Fresh, Task, Places, Epoch

(* c is b but for the place where it waits. *)
Kept(b, c) ==
  /\ c.epoch = b.epoch /\ c.init = b.init /\ c.future = b.future
  /\ c.attempt = b.attempt /\ c.cancelled = b.cancelled /\ c.sent = b.sent

LEMMA TaskAt ==
  ASSUME NEW c \in Task, NEW pc \in Pcs, NEW place \in Places
  PROVE  /\ [c EXCEPT !.pc = pc, !.place = place] \in Task
         /\ [c EXCEPT !.pc = pc] \in Task
<1> USE DEF Task
<1>1. [c EXCEPT !.pc = pc] \in Task
  BY DEF Pcs
<1> QED BY <1>1

LEMMA AtFacts ==
  ASSUME NEW x \in Connection, NEW t \in Tasks, NEW pc \in Pcs, NEW place \in Places,
         NEW y, y = At(x, t, pc, place)
  PROVE  /\ Moved(x, y, t) /\ Kept(x.task[t], y.task[t])
         /\ y.task[t].pc = pc /\ y.task[t].place = place
         /\ y.task[t].then = x.task[t].then
<1>1. x.task[t] \in Task /\ x.task \in [Tasks -> Task]
  BY DEF Connection
<1> DEFINE c == [x.task[t] EXCEPT !.pc = pc, !.place = place]
<1>2. c \in Task
  BY <1>1 DEF Task, Pcs
<1>3. y = [x EXCEPT !.task = [x.task EXCEPT ![t] = c]]
  BY <1>1 DEF At, Connection, Task
<1> HIDE DEF c
<1>4. [x.task EXCEPT ![t] = c] \in [Tasks -> Task]
  BY <1>1, <1>2
<1>5. y \in Connection
  BY <1>3, <1>4 DEF Connection
<1>6. Same(x, y) /\ Others(x, y, t) /\ y.task[t] = c
  BY <1>1, <1>3 DEF Connection, Same, Alike, Others
<1>7. /\ Kept(x.task[t], c) /\ c.pc = pc /\ c.place = place
      /\ c.then = x.task[t].then
  BY <1>1 DEF Task, Kept, c
<1> QED BY <1>5, <1>6, <1>7 DEF Moved

LEMMA EndsFacts ==
  ASSUME NEW x \in Connection, NEW t \in Tasks, NEW pc \in Pcs,
         NEW y, y = Ends(x, t, pc)
  PROVE  Moved(x, y, t) /\ y.task[t] = [Fresh EXCEPT !.pc = pc]
<1>1. x.task \in [Tasks -> Task]
  BY DEF Connection
<1> DEFINE c == [Fresh EXCEPT !.pc = pc]
<1>2. c \in Task
  BY FreshTyped DEF Task, Pcs
<1>3. y = [x EXCEPT !.task = [x.task EXCEPT ![t] = c]]
  BY <1>1 DEF Ends, Connection
<1> HIDE DEF c
<1>4. [x.task EXCEPT ![t] = c] \in [Tasks -> Task]
  BY <1>1, <1>2
<1>5. y \in Connection
  BY <1>3, <1>4 DEF Connection
<1>6. Same(x, y) /\ Others(x, y, t) /\ y.task[t] = c
  BY <1>1, <1>3 DEF Connection, Same, Alike, Others
<1> QED BY <1>5, <1>6 DEF Moved, c

LEMMA SameWhole ==
  ASSUME NEW x, NEW y, Whole(x), y \in Connection, Same(x, y)
  PROVE  Whole(y) /\ (Clean(y) <=> Clean(x))
  BY DEF Whole, Same, Alike, TransportOK, ResetOK, ListenerOK, ReadyOK, NotifiedOK, HellosOK,
         Clean, Untold, Phase, Resetting, Ext

LEMMA SameFine ==
  ASSUME NEW x, NEW y, Same(x, y), NEW u \in Tasks, y.task[u] = x.task[u]
  PROVE  /\ Fine(x, u) => Fine(y, u)
         /\ SentOK(x, u) => SentOK(y, u)
<1>1. LocksOK(x, u) => LocksOK(y, u)
  BY DEF Same, Alike, LocksOK, Clean, Phase, Resetting, Ext, IsCurrent
<1>2. PlaceOK(x, u) => PlaceOK(y, u)
  BY DEF Same, Alike, PlaceOK, Ext
<1>3. RoleOK(x, u) => RoleOK(y, u)
  BY DEF Same, Alike, RoleOK, Ext, Resetting, Phase
<1>4. WaitOK(x, u) => WaitOK(y, u)
  BY DEF Same, Alike, WaitOK, Ext, IsCurrent, Phase
<1> QED BY <1>1, <1>2, <1>3, <1>4 DEF Fine, SentOK

(* A running task begins to wait. *)
LEMMA Rests ==
  ASSUME NEW x, NEW t \in Tasks, NEW y, Runs(x, t), Moved(x, y, t),
         Fine(y, t), SentOK(y, t)
  PROVE  Sound(y)
<1>1. Whole(y)
  BY SameWhole DEF Runs, Moved
<1>2. ~y.frozen
  BY DEF Runs, Moved, Same, Alike
<1>3. ASSUME NEW u \in Tasks, u # t PROVE Fine(y, u) /\ SentOK(y, u)
  BY <1>3, SameFine DEF Runs, Moved, Others
<1> QED BY <1>1, <1>2, <1>3 DEF Sound

LEMMA EndsSound ==
  ASSUME NEW x, NEW t \in Tasks, NEW pc \in {"idle", "done", "failed", "backoff"},
         Runs(x, t), Tidy(x, t), x.owner # t, t = "cleanup" => pc # "backoff"
  PROVE  Sound(Ends(x, t, pc))
<1> DEFINE y == Ends(x, t, pc)
<1>1. x \in Connection /\ pc \in Pcs
  BY DEF Runs, Whole, Pcs
<1>2. Moved(x, y, t) /\ y.task[t] = [Fresh EXCEPT !.pc = pc]
  BY <1>1, EndsFacts
<1> HIDE DEF y
<1>3. LocksOK(y, t)
  BY <1>2, SameWhole DEF LocksOK, Fresh, Handshake, Over, Runs, Moved, Same, Alike, Tidy
<1>4. PlaceOK(y, t)
  BY <1>2 DEF PlaceOK, Fresh, Handshake, Over
<1>5. RoleOK(y, t)
  BY <1>2 DEF RoleOK, Fresh, Runs, Moved, Same, Alike, Resetting, Phase, Ext
<1>6. WaitOK(y, t) /\ SentOK(y, t)
  BY <1>2 DEF WaitOK, SentOK, Fresh
<1> QED BY <1>2, <1>3, <1>4, <1>5, <1>6, Rests DEF Fine, y

LEMMA WaitOKKept ==
  ASSUME NEW x, NEW y, Same(x, y), NEW t, WaitOK(x, t),
         y.task[t].future = x.task[t].future, y.task[t].epoch = x.task[t].epoch
  PROVE  WaitOK(y, t)
  BY DEF WaitOK, Same, Alike, Ext, Phase, IsCurrent

(* It waits before it has sent anything. *)
LEMMA Queues ==
  ASSUME NEW x, NEW t \in Tasks, NEW place, Free(x, t), Rightly(x, t, place),
         NEW pc \in {"await_reset", "connect_lock", "initialize_lock"},
         IF pc = "initialize_lock" THEN place = "call" ELSE place = "hello" => ~Ext(x)
  PROVE  Sound(At(x, t, pc, place))
<1> DEFINE y == At(x, t, pc, place)
           c == x.task[t]
<1>1. x \in Connection /\ pc \in Pcs /\ place \in Places
  BY DEF Runs, Free, Whole, Pcs, Rightly, Entries, Places
<1>2. Moved(x, y, t) /\ Kept(c, y.task[t]) /\ y.task[t].pc = pc /\ y.task[t].place = place
  BY <1>1, AtFacts
<1>3. /\ y.task[t].sent = {}
      /\ y.task[t].init = c.init /\ y.task[t].epoch = c.epoch
      /\ y.task[t].future = c.future /\ y.task[t].cancelled = c.cancelled
  BY <1>2 DEF Free, Kept
<1> HIDE DEF y, c
<1>4. LocksOK(y, t)
  BY <1>2, <1>3, SameWhole
     DEF LocksOK, Over, Runs, Moved, Same, Alike, Tidy, Free, Rightly, Handshake, Entries
<1>5. PlaceOK(y, t)
  BY <1>2, <1>3 DEF PlaceOK, Over, Handshake, Rightly, Entries, Moved, Same, Alike, Ext, c
<1>6. RoleOK(y, t)
  BY <1>2, <1>3 DEF RoleOK, Runs, Moved, Same, Alike, Resetting, Phase, Ext, Free, c
<1>7. WaitOK(y, t)
  BY <1>2, <1>3, WaitOKKept DEF Free, Runs, Moved, c
<1>8. SentOK(y, t)
  BY <1>2, <1>3 DEF SentOK
<1> QED BY <1>2, <1>4, <1>5, <1>6, <1>7, <1>8, Rests DEF Fine, y, Free

(* A running task takes the lock of _ensure_connected. *)
Holds(x, y, t) ==
  /\ y \in Connection /\ Alike(x, y) /\ Others(x, y, t)
  /\ x.connecting = None /\ y.connecting = t

LEMMA LockWhole ==
  ASSUME NEW x, NEW y, Whole(x), y \in Connection, Alike(x, y)
  PROVE  Whole(y) /\ (Clean(y) <=> Clean(x))
  BY DEF Whole, Alike, TransportOK, ResetOK, ListenerOK, ReadyOK, NotifiedOK,
         HellosOK, Clean, Untold, Phase, Resetting, Ext

LEMMA LockRests ==
  ASSUME NEW x, NEW t \in Tasks, NEW y, Runs(x, t), Holds(x, y, t),
         Fine(y, t), SentOK(y, t)
  PROVE  Sound(y)
<1>1. Whole(y) /\ (Clean(y) <=> Clean(x))
  BY LockWhole DEF Runs, Holds
<1>2. ~y.frozen
  BY DEF Runs, Holds, Alike
<1>3. ASSUME NEW u \in Tasks, u # t PROVE Fine(y, u) /\ SentOK(y, u)
  <2>1. y.task[u] = x.task[u] /\ Fine(x, u) /\ SentOK(x, u)
    BY <1>3 DEF Runs, Holds, Others
  <2>2. x.connecting # u /\ y.connecting # u
    BY <1>3, ConnectionAssumption DEF Holds, Tasks, None
  <2>3. LocksOK(y, u)
    BY <1>1, <2>1, <2>2 DEF Fine, LocksOK, Holds, Alike, Phase, Resetting, Ext, IsCurrent
  <2>4. PlaceOK(y, u)
    BY <2>1 DEF Fine, PlaceOK, Holds, Alike, Ext
  <2>5. RoleOK(y, u)
    BY <2>1, <2>2 DEF Fine, RoleOK, Holds, Alike, Ext, Resetting, Phase
  <2>6. WaitOK(y, u)
    BY <2>1 DEF Fine, WaitOK, Holds, Alike, Ext, IsCurrent, Phase
  <2> QED BY <2>1, <2>3, <2>4, <2>5, <2>6 DEF Fine, SentOK
<1> QED BY <1>1, <1>2, <1>3 DEF Sound

LEMMA LockWaits ==
  ASSUME NEW x, NEW t \in Tasks, NEW place, Free(x, t), Rightly(x, t, place),
         place = "hello" => ~Ext(x), NEW y, Holds(x, y, t),
         NEW pc \in {"locked", "opening"},
         y.task[t].pc = pc, y.task[t].place = place, Kept(x.task[t], y.task[t]),
         pc = "opening" => x.transport = 0 /\ ~Blocked(x, t)
  PROVE  Sound(y)
<1>1. Clean(y) <=> Clean(x)
  BY LockWhole DEF Free, Runs, Holds
<1>2. LocksOK(y, t)
  <2>1. pc = "opening" => \/ Phase(x) = "none"
                          \/ t = "cleanup" /\ Phase(x) = "interrupt"
    BY DEF Blocked, Resetting, Free, Runs, Phase
  <2> QED BY <1>1, <2>1
          DEF LocksOK, Holds, Alike, Free, Runs, Tidy, Kept, Rightly, Over, Handshake,
              Entries, Phase
<1>3. PlaceOK(y, t)
  BY DEF PlaceOK, Over, Handshake, Rightly, Entries, Holds, Alike, Ext, Kept, Free
<1>4. RoleOK(y, t)
  BY DEF RoleOK, Runs, Holds, Alike, Resetting, Phase, Ext, Free, Kept
<1>5. WaitOK(y, t) /\ SentOK(y, t)
  BY DEF WaitOK, SentOK, Free, Runs, Holds, Alike, Ext, IsCurrent, Phase, Kept
<1> QED BY <1>2, <1>3, <1>4, <1>5, LockRests DEF Fine, Free

-----------------------------------------------------------------------------
(* Beginning a reset, or waiting for the one that is under way.            *)

Thens == {"raise", "retry", "backoff", "closed"}

AtWith(x, t, pc, place, then) ==
  [At(x, t, pc, place) EXCEPT !.task[t].then = then]

LEMMA AtThen ==
  ASSUME NEW x \in Connection, NEW t \in Tasks, NEW pc \in Pcs, NEW place \in Places,
         NEW then \in Thens,
         NEW y, y = AtWith(x, t, pc, place, then)
  PROVE  /\ Moved(x, y, t) /\ Kept(x.task[t], y.task[t])
         /\ y.task[t].pc = pc /\ y.task[t].place = place /\ y.task[t].then = then
<1> DEFINE a == At(x, t, pc, place)
<1>1. /\ Moved(x, a, t) /\ Kept(x.task[t], a.task[t])
      /\ a.task[t].pc = pc /\ a.task[t].place = place
  BY AtFacts
<1>2. y = [a EXCEPT !.task[t].then = then]
  BY DEF AtWith
<1> HIDE DEF a
<1>3. a \in Connection /\ a.task[t] \in Task /\ a.task \in [Tasks -> Task]
  BY <1>1 DEF Moved, Connection
<1> DEFINE c == [a.task[t] EXCEPT !.then = then]
<1>4. /\ c \in Task /\ Kept(x.task[t], c) /\ c.pc = pc /\ c.place = place
      /\ c.then = then
  BY <1>1, <1>3 DEF Task, Thens, Kept
<1>5. y = [a EXCEPT !.task = [a.task EXCEPT ![t] = c]]
  BY <1>2, <1>3 DEF Connection
<1> HIDE DEF c
<1>6. [a.task EXCEPT ![t] = c] \in [Tasks -> Task]
  BY <1>3, <1>4
<1>7. y \in Connection
  BY <1>3, <1>5, <1>6 DEF Connection
<1>8. Same(x, y) /\ Others(x, y, t) /\ y.task[t] = c
  BY <1>1, <1>3, <1>5 DEF Connection, Same, Alike, Others, Moved
<1> QED BY <1>4, <1>7, <1>8 DEF Moved

(* Everything but the tasks and the reset is the same. *)
Steady(x, y) ==
  /\ y.target = x.target /\ y.epoch = x.epoch /\ y.transport = x.transport
  /\ y.peer = x.peer /\ y.listener = x.listener
  /\ y.connecting = x.connecting /\ y.handshaker = x.handshaker
  /\ y.owner = x.owner /\ y.protocol = x.protocol
  /\ y.initialized = x.initialized /\ y.beenReady = x.beenReady
  /\ y.closing = x.closing /\ y.frozen = x.frozen
  /\ y.open = x.open /\ y.hellos = x.hellos /\ y.restored = x.restored
  /\ y.notified = x.notified

(* Task t begins a reset of the present connection. *)
BeginsReset(x, y, t) ==
  /\ y \in Connection /\ Steady(x, y) /\ Others(x, y, t)
  /\ y.reset.phase = "stop" /\ y.reset.by = t /\ y.reset.epoch = x.epoch
  /\ y.reset.turns = 0

LEMMA StartResetFacts ==
  ASSUME NEW x \in Connection, NEW t \in Tasks, NEW then \in Thens, NEW place \in Places,
         NEW notify \in BOOLEAN,
         NEW y, y = StartReset(x, t, then, place, notify)
  PROVE  /\ Kept(x.task[t], y.task[t])
         /\ y.task[t].place = place /\ y.task[t].then = then
         /\ Resetting(x) => Moved(x, y, t) /\ y.task[t].pc = "rewait"
         /\ ~Resetting(x) => /\ BeginsReset(x, y, t) /\ y.task[t].pc = "reset"
                             /\ y.reset.notify = notify
<1>1. CASE Resetting(x)
  <2>1. y = AtWith(x, t, "rewait", place, then)
    BY <1>1 DEF StartReset, AtWith
  <2> QED BY <1>1, <2>1, AtThen DEF Pcs
<1>2. CASE ~Resetting(x)
  <2> DEFINE a == AtWith(x, t, "reset", place, then)
             rs == [phase |-> "stop", by |-> t, epoch |-> x.epoch,
                    notify |-> notify, turns |-> 0,
                    reconnect |-> WantsReconnect(x, notify)]
  <2>1. /\ Moved(x, a, t) /\ Kept(x.task[t], a.task[t])
        /\ a.task[t].pc = "reset" /\ a.task[t].place = place
        /\ a.task[t].then = then
    BY AtThen DEF Pcs
  <2>2. y = [a EXCEPT !.reset = rs]
    BY <1>2 DEF StartReset, AtWith
  <2> HIDE DEF a
  <2>3. rs \in Reset
    <3>1. WantsReconnect(x, notify) \in BOOLEAN
      BY DEF WantsReconnect
    <3> QED BY <3>1, ConnectionAssumption DEF Reset, Connection, Epoch
  <2>4. /\ rs.phase = "stop" /\ rs.by = t /\ rs.epoch = x.epoch
        /\ rs.notify = notify /\ rs.turns = 0
    OBVIOUS
  <2> HIDE DEF rs
  <2>5. y \in Connection
    BY <2>1, <2>2, <2>3 DEF Moved, Connection
  <2>6. Steady(x, y) /\ Others(x, y, t) /\ y.reset = rs /\ y.task[t] = a.task[t]
    BY <2>1, <2>2 DEF Moved, Connection, Steady, Others, Same, Alike
  <2> QED BY <1>2, <2>1, <2>4, <2>5, <2>6 DEF BeginsReset
<1> QED BY <1>1, <1>2

(* It may wait for a reset here. *)
Resettable(x, t, then, place) ==
  /\ then \in Thens \ {"closed"} /\ place \in Places
  /\ then = "retry" => place \in Entries /\ ~Ext(x) /\ x.task[t].sent = {}
  /\ then = "backoff" => place = "out"
  /\ place \in Handshake => x.handshaker = t
  /\ place \in Handshake \ {"init"} => x.task[t].init > 0
  /\ place = "reply" => x.task[t].epoch > 0
  /\ x.owner = t => place \in {"first", "rehydrate", "again"}

LEMMA StartResetWhole ==
  ASSUME NEW x, NEW t \in Tasks, NEW y, Whole(x), ~Resetting(x), BeginsReset(x, y, t),
         IF y.reset.notify THEN x.transport # 0 ELSE x.closing
  PROVE  Whole(y) /\ Clean(y)
<1>1. x \in Connection /\ y \in Connection
  BY DEF Whole, BeginsReset
<1>2. TransportOK(y)
  BY DEF Whole, TransportOK, BeginsReset, Steady, Phase, Resetting
<1>3. ResetOK(y)
  BY ConnectionAssumption
     DEF Whole, ResetOK, BeginsReset, Steady, Phase, Resetting, Early, Before, Ext,
         Tasks, None
<1>4. ListenerOK(y) /\ ReadyOK(y)
  BY DEF Whole, ListenerOK, ReadyOK, BeginsReset, Steady, Phase, Resetting, Ext
<1>5. NotifiedOK(y)
  <2>1. /\ Untold(y) <=> x.transport # 0
        /\ Untold(x) <=> x.transport # 0
    BY DEF Untold, BeginsReset, Steady, Before, Early, Phase, Resetting
  <2> QED BY <1>1, <2>1
          DEF Whole, NotifiedOK, BeginsReset, Steady, Phase, Resetting, Early, Before,
              Untold
<1>6. Clean(y)
  BY DEF Clean, Resetting, BeginsReset
<1>7. HellosOK(y)
  BY <1>6 DEF Whole, HellosOK, BeginsReset, Steady, Ext
<1> QED BY <1>1, <1>2, <1>3, <1>4, <1>5, <1>6, <1>7 DEF Whole

LEMMA ResetOthers ==
  ASSUME NEW x, NEW t \in Tasks, NEW y, Whole(x), Whole(y),
         ~Resetting(x), BeginsReset(x, y, t),
         NEW u \in Tasks, u # t, Fine(x, u), SentOK(x, u),
         x.transport # 0 \/ (t = "closer" /\ x.connecting = t)
  PROVE  Fine(y, u) /\ SentOK(y, u)
<1>1. y.task[u] = x.task[u]
  BY DEF BeginsReset, Others
<1>2. Clean(y)
  BY DEF Clean, BeginsReset, Resetting
<1>3. LocksOK(y, u)
  <2>1. y.task[u].pc # "opening"
    BY <1>1 DEF Fine, LocksOK
  <2> QED BY <1>1, <1>2, <2>1 DEF Fine, LocksOK, BeginsReset, Steady
<1>4. PlaceOK(y, u)
  BY <1>1 DEF Fine, PlaceOK, BeginsReset, Steady, Ext
<1>5. RoleOK(y, u)
  BY <1>1 DEF Fine, RoleOK, BeginsReset, Steady, Ext, Resetting, Phase
<1>6. WaitOK(y, u)
  BY <1>1 DEF Fine, WaitOK, BeginsReset, Steady, Ext, IsCurrent, Phase, Resetting, Early
<1> QED BY <1>1, <1>3, <1>4, <1>5, <1>6 DEF Fine, SentOK

(* A task that runs begins a reset, or waits for one. *)
LEMMA StartResetSound ==
  ASSUME NEW x, NEW t \in Tasks, NEW then, NEW place, Runs(x, t),
         Resettable(x, t, then, place), t # "cleanup",
         ~Resetting(x) => x.transport # 0
  PROVE  Sound(StartReset(x, t, then, place, TRUE))
<1> DEFINE y == StartReset(x, t, then, place, TRUE)
           c == x.task[t]
           d == y.task[t]
<1>1. x \in Connection /\ then \in Thens /\ place \in Places /\ then # "closed"
  BY DEF Runs, Whole, Resettable
<1>2. /\ Kept(c, d) /\ d.place = place /\ d.then = then
      /\ Resetting(x) => Moved(x, y, t) /\ d.pc = "rewait"
      /\ ~Resetting(x) => BeginsReset(x, y, t) /\ d.pc = "reset" /\ y.reset.notify
  <2>1. ASSUME NEW n \in BOOLEAN, NEW z, z = StartReset(x, t, then, place, n)
        PROVE  /\ Kept(c, z.task[t])
               /\ z.task[t].place = place /\ z.task[t].then = then
               /\ Resetting(x) => Moved(x, z, t) /\ z.task[t].pc = "rewait"
               /\ ~Resetting(x) => /\ BeginsReset(x, z, t) /\ z.task[t].pc = "reset"
                                    /\ z.reset.notify = n
    BY <1>1, <2>1, StartResetFacts
  <2>2. TRUE \in BOOLEAN
    OBVIOUS
  <2> QED BY <2>1, <2>2, Zenon
<1>3. /\ d.pc \in {"reset", "rewait"} /\ d.sent = c.sent /\ d.epoch = c.epoch
      /\ d.init = c.init /\ d.future = c.future /\ d.cancelled = c.cancelled
  BY <1>2 DEF Kept
<1>4. /\ Steady(x, y) /\ Others(x, y, t) /\ Resetting(y) /\ y \in Connection
      /\ Clean(y)
  BY <1>2 DEF Moved, Same, Alike, Steady, BeginsReset, Resetting, Clean
<1> HIDE DEF d
<1>5. PlaceOK(y, t)
  <2>1. /\ c.sent \subseteq {c.epoch}
        /\ then = "retry" => c.sent = {}
        /\ place \in Handshake \ {"init"} => c.init > 0
        /\ place = "reply" => c.epoch > 0
    BY DEF Resettable, Runs
  <2> QED BY <1>2, <1>3, <2>1 DEF PlaceOK, Over, d
<1>6. LocksOK(y, t)
  BY <1>2, <1>3, <1>4 DEF LocksOK, Over, Resettable, Runs, Steady, d, c
<1>7. RoleOK(y, t)
  <2>1. Resetting(x) => y.reset = x.reset
    BY <1>2 DEF Moved, Same, Alike
  <2> QED BY <1>2, <1>3, <1>4, <2>1
          DEF RoleOK, Runs, Steady, Ext, Phase, Resettable, d, Resetting
<1>8. SentOK(y, t)
  BY <1>3 DEF SentOK, Runs, d
<1>9. CASE Resetting(x)
  <2>1. WaitOK(y, t)
    BY <1>2, <1>3, <1>9, WaitOKKept DEF Runs, Moved, d
  <2> QED BY <1>2, <1>5, <1>6, <1>7, <1>8, <1>9, <2>1, Rests DEF Fine, y
<1>10. CASE ~Resetting(x)
  <2>1. Whole(y)
    BY <1>2, <1>10, StartResetWhole DEF Runs
  <2>2. WaitOK(y, t)
    BY <1>2, <1>3, <1>4, <1>10
       DEF Runs, WaitOK, BeginsReset, Steady, Ext, IsCurrent, Phase, Resetting, Early, d
  <2>3. ASSUME NEW u \in Tasks, u # t PROVE Fine(y, u) /\ SentOK(y, u)
    <3>1. Fine(x, u) /\ SentOK(x, u) /\ Whole(x) /\ x.transport # 0
      BY <1>10, <2>3 DEF Runs
    <3> QED BY <1>2, <1>10, <2>1, <2>3, <3>1, ResetOthers
  <2>4. ~y.frozen
    BY <1>4 DEF Steady, Runs
  <2> QED BY <1>5, <1>6, <1>7, <1>8, <2>1, <2>2, <2>3, <2>4 DEF Fine, Sound, y
<1> QED BY <1>9, <1>10

-----------------------------------------------------------------------------
(* What a running task gives up.                                           *)

LEMMA HandshakerFree ==
  ASSUME NEW x, NEW t \in Tasks, Runs(x, t), Tidy(x, t), x.handshaker = t, x.owner # t,
         NEW y, y = [x EXCEPT !.handshaker = None]
  PROVE  Runs(y, t) /\ y.handshaker # t /\ y.owner # t /\ y.task = x.task
         /\ y.transport = x.transport /\ y.reset = x.reset /\ y.target = x.target
<1>1. x \in Connection
  BY DEF Runs, Whole
<1>2. /\ y \in Connection /\ y.handshaker = None
      /\ y.target = x.target /\ y.epoch = x.epoch /\ y.transport = x.transport
      /\ y.peer = x.peer /\ y.listener = x.listener /\ y.task = x.task
      /\ y.connecting = x.connecting
      /\ y.owner = x.owner /\ y.protocol = x.protocol
      /\ y.initialized = x.initialized /\ y.beenReady = x.beenReady
      /\ y.closing = x.closing /\ y.reset = x.reset /\ y.frozen = x.frozen
      /\ y.open = x.open /\ y.hellos = x.hellos /\ y.restored = x.restored
      /\ y.notified = x.notified
  BY <1>1 DEF Connection
<1>3. t # None
  BY ConnectionAssumption DEF Tasks, None
<1>4. Clean(y) /\ Clean(x)
  BY <1>2 DEF Tidy, Clean, Ext, Resetting
<1>5. Whole(y)
  BY <1>2, <1>4 DEF Runs, Whole, TransportOK, ResetOK, ListenerOK, ReadyOK, NotifiedOK,
                    HellosOK, Untold, Phase, Resetting, Ext
<1>6. ASSUME NEW u \in Tasks, u # t PROVE Fine(y, u) /\ SentOK(y, u)
  <2>1. Fine(x, u) /\ SentOK(x, u) /\ u # None
    BY <1>6, ConnectionAssumption DEF Runs, Tasks, None
  <2>2. LocksOK(y, u)
    BY <1>2, <1>4, <1>6, <2>1 DEF Fine, LocksOK, Phase, IsCurrent
  <2>3. PlaceOK(y, u)
    BY <1>2, <2>1 DEF Fine, PlaceOK, Ext
  <2>4. RoleOK(y, u)
    BY <1>2, <2>1 DEF Fine, RoleOK, Ext, Resetting, Phase
  <2>5. WaitOK(y, u) /\ SentOK(y, u)
    BY <1>2, <2>1 DEF Fine, WaitOK, SentOK, Ext, IsCurrent, Phase
  <2> QED BY <2>2, <2>3, <2>4, <2>5 DEF Fine
<1>7. WaitOK(y, t)
  BY <1>2 DEF Runs, WaitOK, Ext, IsCurrent, Phase
<1> QED BY <1>2, <1>3, <1>5, <1>6, <1>7 DEF Runs, Resetting, Phase, Ext

LEMMA NotReadyRuns ==
  ASSUME NEW x, NEW t \in Tasks, Runs(x, t), x.owner \in {t, None},
         NEW y, y = NotReady(x)
  PROVE  /\ Runs(y, t) /\ y.owner # t /\ y.task = x.task /\ y.handshaker = x.handshaker
         /\ y.transport = x.transport /\ y.epoch = x.epoch /\ y.reset = x.reset
         /\ y.target = x.target /\ (Clean(y) <=> Clean(x))
<1>1. x \in Connection
  BY DEF Runs, Whole
<1>2. /\ y \in Connection /\ y.owner = None /\ y.initialized = FALSE
      /\ y.target = x.target /\ y.epoch = x.epoch /\ y.transport = x.transport
      /\ y.peer = x.peer /\ y.listener = x.listener /\ y.task = x.task
      /\ y.connecting = x.connecting
      /\ y.handshaker = x.handshaker /\ y.protocol = x.protocol
      /\ y.beenReady = x.beenReady
      /\ y.closing = x.closing /\ y.reset = x.reset /\ y.frozen = x.frozen
      /\ y.open = x.open /\ y.hellos = x.hellos /\ y.restored = x.restored
      /\ y.notified = x.notified
  BY <1>1 DEF Connection, NotReady
<1>3. t # None
  BY ConnectionAssumption DEF Tasks, None
<1>4. Clean(y) <=> Clean(x)
  BY <1>2 DEF Clean, Ext, Resetting
<1>5. Whole(y)
  BY <1>2, <1>4 DEF Runs, Whole, TransportOK, ResetOK, ListenerOK, ReadyOK, NotifiedOK,
                    HellosOK, Untold, Phase, Resetting, Ext
<1>6. ASSUME NEW u \in Tasks, u # t PROVE Fine(y, u) /\ SentOK(y, u)
  <2>1. Fine(x, u) /\ SentOK(x, u) /\ u # None
    BY <1>6, ConnectionAssumption DEF Runs, Tasks, None
  <2>2. LocksOK(y, u)
    BY <1>2, <1>4, <1>6, <2>1 DEF Fine, LocksOK, Phase, IsCurrent
  <2>3. PlaceOK(y, u)
    BY <1>2, <2>1 DEF Fine, PlaceOK, Ext
  <2>4. RoleOK(y, u)
    BY <1>2, <2>1 DEF Fine, RoleOK, Ext, Resetting, Phase
  <2>5. WaitOK(y, u) /\ SentOK(y, u)
    BY <1>2, <2>1 DEF Fine, WaitOK, SentOK, Ext, IsCurrent, Phase
  <2> QED BY <2>2, <2>3, <2>4, <2>5 DEF Fine
<1>7. WaitOK(y, t)
  BY <1>2 DEF Runs, WaitOK, Ext, IsCurrent, Phase
<1> QED BY <1>2, <1>3, <1>4, <1>5, <1>6, <1>7 DEF Runs, Resetting, Phase, Ext

-----------------------------------------------------------------------------
(* Exceptions.                                                             *)

LEMMA TransportEpoch ==
  ASSUME NEW x, Whole(x)
  PROVE  /\ x.epoch \in Nat /\ x.transport \in Nat
         /\ x.transport # 0 <=> x.transport = x.epoch /\ x.epoch > 0
  BY ConnectionAssumption DEF Whole, TransportOK, Connection, Epoch

LEMMA FailsSound ==
  ASSUME NEW x, NEW t \in Tasks, Runs(x, t), Tidy(x, t), x.owner # t
  PROVE  Sound(Fails(x, t))
<1>1. CASE t = "cleanup"
  BY <1>1, EndsSound DEF Fails
<1>2. CASE t = "reconnect" /\ x.task[t].cancelled
  BY <1>2, EndsSound DEF Fails
<1>3. CASE t = "reconnect" /\ ~x.task[t].cancelled
  <2>1. CASE x.transport # 0
    <3>1. Resettable(x, t, "backoff", "out")
      BY DEF Resettable, Thens, Places, Handshake
    <3>2. Sound(StartReset(x, t, "backoff", "out", TRUE))
      BY <1>3, <2>1, <3>1, StartResetSound
    <3> QED BY <1>3, <2>1, <3>2 DEF Fails
  <2>2. CASE x.transport = 0
    BY <1>3, <2>2, EndsSound DEF Fails
  <2> QED BY <2>1, <2>2
<1>4. CASE t \notin {"cleanup", "reconnect"}
  <2>1. Fails(x, t) = Ends(x, t, "failed")
    BY <1>4 DEF Fails
  <2> QED BY <1>4, <2>1, EndsSound
<1> QED BY <1>1, <1>2, <1>3, <1>4 DEF Runs, Whole, Connection, Task

LEMMA LeavesSound ==
  ASSUME NEW x, NEW t \in Tasks, Runs(x, t), Tidy(x, t), x.owner # t
  PROVE  Sound(Leaves(x, t))
<1>1. CASE x.handshaker = t
  <2> DEFINE y == [x EXCEPT !.handshaker = None]
  <2>1. Runs(y, t) /\ y.handshaker # t /\ y.owner # t
    BY <1>1, HandshakerFree
  <2>2. Leaves(x, t) = Fails(y, t)
    BY <1>1 DEF Leaves
  <2> HIDE DEF y
  <2> QED BY <2>1, <2>2, FailsSound DEF Tidy
<1>2. CASE x.handshaker # t
  BY <1>2, FailsSound DEF Leaves
<1> QED BY <1>1, <1>2

LEMMA AgainSound ==
  ASSUME NEW x, NEW t \in Tasks, Runs(x, t), Tidy(x, t), x.handshaker = t,
         x.task[t].init > 0, x.task[t].sent = {}
  PROVE  Sound(At(x, t, "handlers", "again"))
<1> DEFINE y == At(x, t, "handlers", "again")
           c == x.task[t]
<1>1. x \in Connection /\ "handlers" \in Pcs /\ "again" \in Places
  BY DEF Runs, Whole, Pcs, Places
<1>2. /\ Moved(x, y, t) /\ Kept(c, y.task[t]) /\ y.task[t].pc = "handlers"
      /\ y.task[t].place = "again"
  BY <1>1, AtFacts
<1> HIDE DEF y
<1>3. /\ y.task[t].sent = {} /\ y.task[t].init = c.init /\ y.task[t].init > 0
      /\ y.task[t].epoch = c.epoch
      /\ y.task[t].future = c.future /\ y.task[t].cancelled = c.cancelled
  BY <1>2 DEF Runs, Kept
<1>4. LocksOK(y, t)
  BY <1>2, <1>3, SameWhole DEF LocksOK, Over, Runs, Moved, Same, Alike, Tidy, Handshake
<1>5. PlaceOK(y, t)
  BY <1>2, <1>3 DEF PlaceOK, Over, Handshake
<1>6. RoleOK(y, t)
  BY <1>2, <1>3 DEF RoleOK, Runs, Moved, Same, Alike, Resetting, Phase, Ext
<1>7. WaitOK(y, t)
  BY <1>2, <1>3, WaitOKKept DEF Runs, Moved
<1>8. SentOK(y, t)
  BY <1>2, <1>3 DEF SentOK
<1> QED BY <1>2, <1>4, <1>5, <1>6, <1>7, <1>8, Rests DEF Fine, y

LEMMA RaisesSound ==
  ASSUME NEW x, NEW t \in Tasks, Runs(x, t), Tidy(x, t)
  PROVE  Sound(Raises(x, t))
<1>1. CASE x.owner # t
  BY <1>1, LeavesSound DEF Raises
<1>2. CASE x.owner = t /\ ~x.task[t].cancelled
  <2>1. Raises(x, t) = At(x, t, "handlers", "again")
    BY <1>2 DEF Raises
  <2> QED BY <1>2, <2>1, AgainSound DEF Runs
<1>3. CASE x.owner = t /\ x.task[t].cancelled
  <2> DEFINE y == NotReady(x)
  <2>1. /\ Runs(y, t) /\ y.owner # t /\ y.task = x.task
        /\ y.handshaker = x.handshaker /\ (Clean(y) <=> Clean(x))
    BY <1>3, NotReadyRuns
  <2>2. Raises(x, t) = IF IsCurrent(y, y.task[t].init)
                         THEN StartReset(y, t, "raise", "out", TRUE)
                         ELSE Leaves(y, t)
    BY <1>3 DEF Raises
  <2> HIDE DEF y
  <2>3. Tidy(y, t) /\ t # "cleanup"
    BY <1>3, <2>1 DEF Tidy, Runs
  <2>4. CASE IsCurrent(y, y.task[t].init)
    <3>1. y.transport # 0
      BY <1>3, <2>1, <2>4 DEF Runs, IsCurrent
    <3>2. Resettable(y, t, "raise", "out")
      BY <2>1 DEF Resettable, Thens, Places, Handshake
    <3>3. Sound(StartReset(y, t, "raise", "out", TRUE))
      BY <2>1, <2>3, <3>1, <3>2, StartResetSound
    <3> QED BY <2>2, <2>4, <3>3
  <2>5. CASE ~IsCurrent(y, y.task[t].init)
    <3>1. Sound(Leaves(y, t))
      BY <2>1, <2>3, LeavesSound
    <3> QED BY <2>2, <2>5, <3>1
  <2> QED BY <2>4, <2>5
<1> QED BY <1>1, <1>2, <1>3

LEMMA ResetsAndRaisesSound ==
  ASSUME NEW x, NEW t \in Tasks, NEW place, Runs(x, t),
         Resettable(x, t, "raise", place), x.transport # 0
  PROVE  Sound(ResetsAndRaises(x, t, place))
<1>1. CASE OwnsReset(x, t)
  <2>1. Tidy(x, t)
    BY <1>1 DEF OwnsReset, Tidy, Runs, Clean
  <2> QED BY <1>1, <2>1, RaisesSound DEF ResetsAndRaises
<1>2. CASE ~OwnsReset(x, t)
  <2>1. t # "cleanup"
    BY <1>2 DEF OwnsReset, Resetting, Runs, Phase
  <2>2. Sound(StartReset(x, t, "raise", place, TRUE))
    BY <2>1, StartResetSound
  <2> QED BY <1>2, <2>2 DEF ResetsAndRaises
<1> QED BY <1>1, <1>2

LEMMA ErrorSound ==
  ASSUME NEW x, NEW t \in Tasks, NEW place, Runs(x, t),
         place = "hello" => x.task[t].init > 0 /\ x.owner # t,
         Tidy(x, t) \/ (place = "hello" /\ IsCurrent(x, x.task[t].init))
  PROVE  Sound(Error(x, t, place))
<1>1. CASE place = "hello" /\ IsCurrent(x, x.task[t].init)
  <2>1. Resettable(x, t, "raise", "out") /\ x.transport # 0
    BY <1>1 DEF Resettable, Thens, Places, Handshake, IsCurrent
  <2>2. Sound(ResetsAndRaises(x, t, "out"))
    BY <2>1, ResetsAndRaisesSound
  <2> QED BY <1>1, <2>2 DEF Error
<1>2. CASE ~(place = "hello" /\ IsCurrent(x, x.task[t].init))
  BY <1>2, RaisesSound DEF Error
<1> QED BY <1>1, <1>2

-----------------------------------------------------------------------------
(* A request goes out.                                                     *)

(* Task t has sent a request and waits for its answer. *)
Asks(x, y, t, place) ==
  LET c == x.task[t]
      d == y.task[t]
  IN  /\ Moved(x, y, t)
      /\ d.pc = "request" /\ d.place = place /\ d.epoch = x.epoch
      /\ d.future = "waits" /\ d.init = c.init /\ d.cancelled = c.cancelled
      /\ d.sent = IF place = "send" THEN c.sent \cup {x.transport} ELSE c.sent

(* It may send it now. *)
Sendable(x, t, place) ==
  /\ place \in {"send", "rehydrate", "hello"}
  /\ x.transport # 0
  /\ x.task[t].sent = {} \/ (place = "send" /\ x.task[t].sent = {x.epoch})
  /\ place # "send" => x.handshaker = t /\ x.task[t].init > 0
  /\ x.owner = t => place = "rehydrate"
  /\ Tidy(x, t) \/ (place = "hello" /\ IsCurrent(x, x.task[t].init))
  /\ Ext(x) => x.listener = "running" \/ Phase(x) \in Early

LEMMA AsksSound ==
  ASSUME NEW x, NEW t \in Tasks, NEW place, NEW y, Runs(x, t), Sendable(x, t, place),
         Asks(x, y, t, place)
  PROVE  Sound(y)
<1> DEFINE c == x.task[t]
           d == y.task[t]
<1>1. /\ Moved(x, y, t) /\ d.pc = "request" /\ d.place = place /\ d.epoch = x.epoch
      /\ d.future = "waits" /\ d.init = c.init /\ d.cancelled = c.cancelled
      /\ d.sent = IF place = "send" THEN c.sent \cup {x.transport} ELSE c.sent
  BY DEF Asks
<1>2. /\ x.epoch \in Nat /\ x.transport = x.epoch /\ x.epoch > 0
      /\ y.epoch = x.epoch /\ y.transport = x.transport
  BY <1>1, TransportEpoch DEF Runs, Sendable, Moved, Same, Alike
<1>3. /\ d.sent = IF place = "send" THEN {x.epoch} ELSE {}
      /\ c.sent # {} => place = "send"
  BY <1>1, <1>2 DEF Sendable
<1> HIDE DEF d
<1>4. LocksOK(y, t)
  BY <1>1, <1>2, <1>3, SameWhole
     DEF LocksOK, Over, Runs, Moved, Same, Alike, Tidy, Handshake, Sendable, IsCurrent, d
<1>5. PlaceOK(y, t)
  BY <1>1, <1>2, <1>3 DEF PlaceOK, Over, Handshake, Sendable, d
<1>6. RoleOK(y, t)
  BY <1>1, <1>2 DEF RoleOK, Runs, Moved, Same, Alike, Resetting, Phase, Ext, d
<1>7. WaitOK(y, t)
  BY <1>1, <1>2
     DEF Runs, Whole, ResetOK, WaitOK, Moved, Same, Alike, Sendable, Early, Before, Phase,
         IsCurrent, Ext, d
<1>8. SentOK(y, t)
  BY <1>1, <1>3 DEF SentOK, d
<1> QED BY <1>1, <1>4, <1>5, <1>6, <1>7, <1>8, Rests DEF Fine

LEMMA SendsOnceAsks ==
  ASSUME NEW x \in Connection, NEW t \in Tasks, NEW place \in Places, NEW y,
         x.transport \in {0, x.epoch}, y = SendsOnce(x, t, place)
  PROVE  Asks(x, y, t, place) /\ y.task[t].attempt = x.task[t].attempt
<1> DEFINE c == x.task[t]
           out == IF place = "send" THEN {x.transport} ELSE {}
           d == [c EXCEPT !.pc = "request", !.place = place, !.epoch = x.epoch,
                          !.future = "waits", !.sent = c.sent \cup out]
<1>1. y = [x EXCEPT !.task[t] = d]
  BY Zenon DEF SendsOnce
<1>2. /\ c \in Task /\ x.task \in [Tasks -> Task] /\ out \subseteq Epoch
      /\ x.epoch \in Epoch
  BY DEF Connection
<1> HIDE DEF out
<1>3. /\ d \in Task /\ d.pc = "request" /\ d.place = place /\ d.epoch = x.epoch
      /\ d.future = "waits" /\ d.init = c.init /\ d.cancelled = c.cancelled
      /\ d.sent = c.sent \cup out /\ d.attempt = c.attempt
  BY <1>2 DEF Task
<1> HIDE DEF d
<1>4. y = [x EXCEPT !.task = [x.task EXCEPT ![t] = d]]
  BY <1>1, <1>2 DEF Connection
<1>5. [x.task EXCEPT ![t] = d] \in [Tasks -> Task]
  BY <1>2, <1>3
<1>6. y \in Connection
  BY <1>4, <1>5 DEF Connection
<1>7. Same(x, y) /\ Others(x, y, t) /\ y.task[t] = d
  BY <1>2, <1>4 DEF Connection, Same, Alike, Others
<1>8. d.sent = IF place = "send" THEN c.sent \cup {x.transport} ELSE c.sent
  BY <1>3 DEF out
<1> QED BY <1>3, <1>6, <1>7, <1>8 DEF Asks, Moved

(* The history of handshakes. *)
Said(x, place) ==
  [x EXCEPT !.hellos = IF place = "hello" THEN Append(@, x.transport) ELSE @]

LEMMA SendAsks ==
  ASSUME NEW x \in Connection, NEW t \in Tasks, NEW place \in Places,
         x.transport \in {0, x.epoch}
  PROVE  /\ Said(x, place) \in Connection
         /\ Asks(Said(x, place), Send(x, t, place), t, place)
<1> DEFINE a == SendsOnce(x, t, place)
           z == Said(x, place)
           y == Send(x, t, place)
           d == [a.task[t] EXCEPT !.attempt = 1]
<1>1. Asks(x, a, t, place)
  BY SendsOnceAsks
<1>2. y = [a EXCEPT !.task[t].attempt = 1,
             !.hellos = IF place = "hello" THEN Append(@, x.transport) ELSE @]
  BY DEF Send
<1> HIDE DEF a
<1>3. /\ a \in Connection /\ a.task[t] \in Task /\ a.task \in [Tasks -> Task]
      /\ x.transport \in Epoch /\ x.hellos \in Seq(Epoch) /\ a.hellos = x.hellos
      /\ Append(x.hellos, x.transport) \in Seq(Epoch)
  BY <1>1 DEF Asks, Moved, Connection, Same, Alike
<1> DEFINE h == IF place = "hello" THEN Append(x.hellos, x.transport) ELSE x.hellos
<1>4. h \in Seq(Epoch)
  BY <1>3
<1>5. y = [a EXCEPT !.task = [a.task EXCEPT ![t] = d], !.hellos = h]
  BY <1>2, <1>3 DEF Connection
<1>6. z = [x EXCEPT !.hellos = h]
  BY DEF Said
<1>7. /\ d \in Task /\ d.pc = a.task[t].pc /\ d.place = a.task[t].place
      /\ d.epoch = a.task[t].epoch /\ d.future = a.task[t].future
      /\ d.init = a.task[t].init /\ d.cancelled = a.task[t].cancelled
      /\ d.sent = a.task[t].sent
  BY <1>3, ConnectionAssumption DEF Task
<1> HIDE DEF d, h, z, y
<1>8. [a.task EXCEPT ![t] = d] \in [Tasks -> Task]
  BY <1>3, <1>7
<1>9. y \in Connection
  BY <1>3, <1>4, <1>5, <1>8 DEF Connection
<1>10. z \in Connection
  BY <1>4, <1>6 DEF Connection
<1>11. Same(z, y) /\ Others(z, y, t) /\ y.task[t] = d /\ z.task = x.task
       /\ z.epoch = x.epoch /\ z.transport = x.transport
  BY <1>1, <1>3, <1>5, <1>6 DEF Connection, Same, Alike, Others, Moved, Asks
<1> QED BY <1>1, <1>7, <1>9, <1>10, <1>11 DEF Asks, Moved, z, y

LEMMA Appended ==
  ASSUME NEW s \in Seq(Epoch), NEW e \in Epoch
  PROVE  /\ ToSet(Append(s, e)) = ToSet(s) \cup {e}
         /\ IsInjective(s) /\ e \notin ToSet(s) => IsInjective(Append(s, e))
<1>1. /\ DOMAIN Append(s, e) = DOMAIN s \cup {Len(s) + 1}
      /\ \A i \in DOMAIN s : Append(s, e)[i] = s[i]
      /\ Append(s, e)[Len(s) + 1] = e /\ Len(s) + 1 \notin DOMAIN s
  OBVIOUS
<1>2. ToSet(Append(s, e)) = ToSet(s) \cup {e}
  BY <1>1 DEF ToSet
<1>3. ASSUME IsInjective(s), e \notin ToSet(s) PROVE IsInjective(Append(s, e))
  BY <1>1, <1>3 DEF IsInjective, ToSet
<1> QED BY <1>2, <1>3

(* The handshake may begin on this transport. *)
Unsaid(x, t) ==
  /\ x.handshaker = t /\ Tidy(x, t)
  /\ Ext(x) => ~x.protocol /\ ~Resetting(x) /\ IsCurrent(x, x.task[t].init)

LEMMA SaidRuns ==
  ASSUME NEW x, NEW t \in Tasks, NEW place, Runs(x, t), x.transport # 0,
         place = "hello" => Unsaid(x, t),
         NEW y, y = Said(x, place)
  PROVE  /\ Runs(y, t) /\ y.task = x.task /\ y.handshaker = x.handshaker
         /\ y.owner = x.owner /\ y.target = x.target /\ y.reset = x.reset
         /\ y.epoch = x.epoch /\ y.transport = x.transport /\ y.listener = x.listener
         /\ place # "hello" \/ ~Ext(x) => (Clean(y) <=> Clean(x))
<1>1. x \in Connection /\ x.transport \in Epoch /\ x.hellos \in Seq(Epoch)
  BY DEF Runs, Whole, Connection
<1> DEFINE h == IF place = "hello" THEN Append(x.hellos, x.transport) ELSE x.hellos
<1>2. y = [x EXCEPT !.hellos = h]
  BY DEF Said
<1>3. h \in Seq(Epoch)
  BY <1>1
<1>4. /\ y \in Connection /\ y.hellos = h
      /\ y.target = x.target /\ y.epoch = x.epoch /\ y.transport = x.transport
      /\ y.peer = x.peer /\ y.listener = x.listener /\ y.task = x.task
      /\ y.connecting = x.connecting /\ y.owner = x.owner
      /\ y.handshaker = x.handshaker /\ y.protocol = x.protocol
      /\ y.initialized = x.initialized /\ y.beenReady = x.beenReady
      /\ y.closing = x.closing /\ y.reset = x.reset /\ y.frozen = x.frozen
      /\ y.open = x.open /\ y.restored = x.restored /\ y.notified = x.notified
  <2> HIDE DEF h
  <2> QED BY <1>1, <1>2, <1>3 DEF Connection
<1>5. place # "hello" \/ ~Ext(x) => (Clean(y) <=> Clean(x))
  BY <1>4 DEF Clean, Ext, Resetting
<1>6. HellosOK(y)
  <2>1. CASE place # "hello"
    BY <1>4, <1>5, <2>1 DEF Runs, Whole, HellosOK, Ext
  <2>2. CASE place = "hello"
    <3>1. Ext(x) => x.transport \notin ToSet(x.hellos)
      BY <2>2 DEF Unsaid, Tidy, Clean
    <3>2. /\ ToSet(h) = ToSet(x.hellos) \cup {x.transport}
          /\ Ext(x) => IsInjective(h)
      BY <1>1, <2>2, <3>1, Appended DEF Runs, Whole, HellosOK
    <3>3. x.transport \in 1..x.epoch
      BY TransportEpoch DEF Runs
    <3>4. y.handshaker # None
      BY <1>4, <2>2, ConnectionAssumption DEF Unsaid, Tasks, None
    <3> QED BY <1>4, <3>2, <3>3, <3>4 DEF Runs, Whole, HellosOK, Ext
  <2> QED BY <2>1, <2>2
<1> HIDE DEF h
<1>7. Whole(y)
  BY <1>4, <1>6
     DEF Runs, Whole, TransportOK, ResetOK, ListenerOK, ReadyOK, NotifiedOK, Untold, Phase,
         Resetting, Ext
<1>8. ASSUME NEW u \in Tasks, u # t PROVE Fine(y, u) /\ SentOK(y, u)
  <2>1. Fine(x, u) /\ SentOK(x, u)
    BY <1>8 DEF Runs
  <2>2. y.handshaker = u => (Clean(y) <=> Clean(x))
    BY <1>4, <1>5, <1>8 DEF Unsaid
  <2>3. LocksOK(y, u)
    BY <1>4, <2>1, <2>2 DEF Fine, LocksOK, Phase, IsCurrent
  <2>4. PlaceOK(y, u)
    BY <1>4, <2>1 DEF Fine, PlaceOK, Ext
  <2>5. RoleOK(y, u)
    BY <1>4, <2>1 DEF Fine, RoleOK, Ext, Resetting, Phase
  <2>6. WaitOK(y, u) /\ SentOK(y, u)
    BY <1>4, <2>1 DEF Fine, WaitOK, SentOK, Ext, IsCurrent, Phase
  <2> QED BY <2>3, <2>4, <2>5, <2>6 DEF Fine
<1>9. WaitOK(y, t)
  BY <1>4 DEF Runs, WaitOK, Ext, IsCurrent, Phase
<1> QED BY <1>4, <1>5, <1>7, <1>8, <1>9 DEF Runs, Resetting, Phase, Ext

(* It has begun the handshake, or may send the request, where it is. *)
LEMMA SendSound ==
  ASSUME NEW x, NEW t \in Tasks, NEW place, Runs(x, t), Tidy(x, t),
         place = "hello" => Unsaid(x, t), Sendable(x, t, place)
  PROVE  Sound(Send(x, t, place))
<1> DEFINE z == Said(x, place)
<1>1. /\ Runs(z, t) /\ z.task = x.task /\ z.handshaker = x.handshaker
      /\ z.owner = x.owner /\ z.target = x.target /\ z.reset = x.reset
      /\ z.epoch = x.epoch /\ z.transport = x.transport /\ z.listener = x.listener
      /\ place # "hello" \/ ~Ext(x) => (Clean(z) <=> Clean(x))
  BY SaidRuns DEF Sendable
<1>2. x \in Connection /\ place \in Places /\ x.transport \in {0, x.epoch}
  BY DEF Runs, Whole, TransportOK, Sendable, Places
<1>3. Asks(z, Send(x, t, place), t, place)
  BY <1>2, SendAsks
<1> HIDE DEF z
<1>4. Sendable(z, t, place)
  BY <1>1 DEF Sendable, Tidy, Unsaid, IsCurrent, Ext, Phase
<1> QED BY <1>1, <1>3, <1>4, AsksSound

-----------------------------------------------------------------------------
(* What a task does until it waits again.                                  *)

LEMMA RunsHandlersSound ==
  ASSUME NEW x, NEW t \in Tasks, Runs(x, t), Tidy(x, t), x.handshaker = t,
         x.transport # 0, x.task[t].sent = {}
  PROVE  Sound(RunsHandlers(x, t))
<1> DEFINE y == RunsHandlers(x, t)
           a == At(x, t, "handlers", "first")
           c == x.task[t]
           d == [a.task[t] EXCEPT !.init = x.epoch]
<1>1. /\ x \in Connection /\ "handlers" \in Pcs /\ "first" \in Places /\ x.epoch \in Epoch
      /\ x.epoch > 0
  BY TransportEpoch DEF Runs, Whole, Pcs, Places, Connection
<1>2. /\ Moved(x, a, t) /\ Kept(c, a.task[t]) /\ a.task[t].pc = "handlers"
      /\ a.task[t].place = "first"
  BY <1>1, AtFacts
<1>3. y = [a EXCEPT !.owner = t, !.task[t].init = x.epoch]
  BY DEF RunsHandlers
<1> HIDE DEF a
<1>4. a \in Connection /\ a.task[t] \in Task /\ a.task \in [Tasks -> Task]
  BY <1>2 DEF Moved, Connection
<1>5. y = [a EXCEPT !.owner = t, !.task = [a.task EXCEPT ![t] = d]]
  BY <1>3, <1>4 DEF Connection
<1>6. /\ d \in Task /\ d.pc = "handlers" /\ d.place = "first" /\ d.init = x.epoch
      /\ d.sent = {} /\ d.epoch = c.epoch /\ d.future = c.future
      /\ d.cancelled = c.cancelled
  BY <1>1, <1>2, <1>4 DEF Task, Kept
<1> HIDE DEF d, y
<1>7. [a.task EXCEPT ![t] = d] \in [Tasks -> Task]
  BY <1>4, <1>6
<1>8. y \in Connection
  BY <1>4, <1>5, <1>7 DEF Connection
<1>9. /\ y.task[t] = d /\ \A u \in Tasks \ {t} : y.task[u] = x.task[u]
      /\ y.owner = t /\ y.target = x.target /\ y.epoch = x.epoch
      /\ y.transport = x.transport
      /\ y.peer = x.peer /\ y.listener = x.listener
      /\ y.connecting = x.connecting
      /\ y.handshaker = x.handshaker /\ y.protocol = x.protocol
      /\ y.initialized = x.initialized /\ y.beenReady = x.beenReady
      /\ y.closing = x.closing /\ y.reset = x.reset /\ y.frozen = x.frozen
      /\ y.open = x.open /\ y.hellos = x.hellos /\ y.restored = x.restored
      /\ y.notified = x.notified
  BY <1>2, <1>4, <1>5 DEF Connection, Moved, Same, Alike, Others
<1>10. Clean(y) /\ Clean(x)
  BY <1>9 DEF Tidy, Clean, Ext, Resetting
<1>11. Whole(y) /\ ~y.frozen
  BY <1>8, <1>9, <1>10
     DEF Runs, Whole, TransportOK, ResetOK, ListenerOK, ReadyOK, NotifiedOK, HellosOK,
         Untold, Phase, Resetting, Ext
<1>12. ASSUME NEW u \in Tasks, u # t PROVE Fine(y, u) /\ SentOK(y, u)
  <2>1. Fine(x, u) /\ SentOK(x, u) /\ y.task[u] = x.task[u]
    BY <1>9, <1>12 DEF Runs
  <2>2. LocksOK(y, u)
    BY <1>9, <1>10, <1>12, <2>1 DEF Fine, LocksOK, Phase
  <2>3. PlaceOK(y, u)
    BY <1>9, <2>1 DEF Fine, PlaceOK, Ext
  <2>4. RoleOK(y, u)
    BY <1>9, <2>1 DEF Fine, RoleOK, Ext, Resetting, Phase
  <2>5. WaitOK(y, u) /\ SentOK(y, u)
    BY <1>9, <2>1 DEF Fine, WaitOK, SentOK, Ext, IsCurrent, Phase
  <2> QED BY <2>2, <2>3, <2>4, <2>5 DEF Fine
<1>13. LocksOK(y, t)
  BY <1>6, <1>9, <1>10 DEF LocksOK, Over, Runs, Handshake
<1>14. PlaceOK(y, t)
  BY <1>1, <1>6, <1>9 DEF PlaceOK, Over, Handshake
<1>15. RoleOK(y, t)
  BY <1>6, <1>9 DEF RoleOK, Runs, Resetting, Phase, Ext
<1>16. WaitOK(y, t) /\ SentOK(y, t)
  BY <1>6, <1>9 DEF Runs, WaitOK, SentOK, Ext, IsCurrent, Phase
<1> QED BY <1>11, <1>12, <1>13, <1>14, <1>15, <1>16 DEF Sound, Fine, y

(* Everything but the listener is the same. *)
LEMMA JoinedFree ==
  ASSUME NEW x, NEW t \in Tasks, Runs(x, t), NEW y, y = Joined(x)
  PROVE  /\ Runs(y, t) /\ y.task = x.task /\ (Tidy(x, t) => Tidy(y, t))
         /\ Free(x, t) => Free(y, t)
         /\ \A place : Rightly(x, t, place) => Rightly(y, t, place)
         /\ y.transport = x.transport /\ y.epoch = x.epoch /\ y.reset = x.reset
         /\ y.closing = x.closing /\ y.target = x.target /\ y.handshaker = x.handshaker
         /\ y.protocol = x.protocol /\ y.initialized = x.initialized /\ y.peer = x.peer
         /\ y.connecting = x.connecting /\ y.owner = x.owner
         /\ x.listener # "done" => y.listener = x.listener
<1>1. x \in Connection
  BY DEF Runs, Whole
<1> DEFINE l == IF x.listener = "done" THEN "none" ELSE x.listener
<1>2. y = [x EXCEPT !.listener = l]
  BY DEF Joined
<1>3. l \in {"none", "running", "resetting", "done"}
  BY <1>1 DEF Connection
<1>4. /\ l # "none" => x.transport # 0
      /\ l = "none" \/ l = x.listener
      /\ Ext(x) => l = x.listener
      /\ x.listener # "done" => l = x.listener
  BY <1>1 DEF Runs, Whole, ListenerOK
<1> HIDE DEF l
<1>5. /\ y \in Connection /\ y.hellos = x.hellos /\ y.listener = l
      /\ y.target = x.target /\ y.epoch = x.epoch /\ y.transport = x.transport
      /\ y.peer = x.peer /\ y.task = x.task
      /\ y.connecting = x.connecting /\ y.owner = x.owner
      /\ y.handshaker = x.handshaker /\ y.protocol = x.protocol
      /\ y.initialized = x.initialized /\ y.beenReady = x.beenReady
      /\ y.closing = x.closing /\ y.reset = x.reset /\ y.frozen = x.frozen
      /\ y.open = x.open /\ y.restored = x.restored /\ y.notified = x.notified
  BY <1>1, <1>2, <1>3 DEF Connection
<1>6. Clean(y) <=> Clean(x)
  BY <1>5 DEF Clean, Ext, Resetting
<1>7. Whole(y)
  <2>1. ResetOK(y) /\ ListenerOK(y)
    BY <1>4, <1>5 DEF Runs, Whole, ResetOK, ListenerOK, Phase, Resetting, Ext
  <2> QED BY <1>5, <1>6, <2>1
          DEF Runs, Whole, TransportOK, ReadyOK, NotifiedOK, HellosOK, Untold, Phase, Ext
<1>8. ASSUME NEW u \in Tasks, u # t PROVE Fine(y, u) /\ SentOK(y, u)
  <2>1. Fine(x, u) /\ SentOK(x, u)
    BY <1>8 DEF Runs
  <2>2. LocksOK(y, u)
    BY <1>5, <1>6, <2>1 DEF Fine, LocksOK, Phase, IsCurrent
  <2>3. PlaceOK(y, u)
    BY <1>5, <2>1 DEF Fine, PlaceOK, Ext
  <2>4. RoleOK(y, u)
    BY <1>5, <2>1 DEF Fine, RoleOK, Ext, Resetting, Phase
  <2>5. WaitOK(y, u) /\ SentOK(y, u)
    BY <1>4, <1>5, <2>1 DEF Fine, WaitOK, SentOK, Ext, IsCurrent, Phase
  <2> QED BY <2>2, <2>3, <2>4, <2>5 DEF Fine
<1>9. WaitOK(y, t)
  BY <1>4, <1>5 DEF Runs, WaitOK, Ext, IsCurrent, Phase
<1>10. Runs(y, t)
  BY <1>5, <1>7, <1>8, <1>9 DEF Runs, Resetting, Phase, Ext
<1>11. Tidy(x, t) => Tidy(y, t)
  BY <1>5, <1>6 DEF Tidy
<1> QED BY <1>4, <1>5, <1>10, <1>11 DEF Free, Rightly

LEMMA FrozenSound ==
  ASSUME NEW x, NEW t \in Tasks, Free(x, t), t = "cleanup",
         NEW y, y = [x EXCEPT !.frozen = TRUE]
  PROVE  Sound(y)
<1>1. x \in Connection
  BY DEF Free, Runs, Whole
<1>2. /\ y \in Connection /\ y.hellos = x.hellos /\ y.listener = x.listener
      /\ y.target = x.target /\ y.epoch = x.epoch /\ y.transport = x.transport
      /\ y.peer = x.peer /\ y.task = x.task
      /\ y.connecting = x.connecting /\ y.owner = x.owner
      /\ y.handshaker = x.handshaker /\ y.protocol = x.protocol
      /\ y.initialized = x.initialized /\ y.beenReady = x.beenReady
      /\ y.closing = x.closing /\ y.reset = x.reset /\ y.frozen
      /\ y.open = x.open /\ y.restored = x.restored /\ y.notified = x.notified
  BY <1>1 DEF Connection
<1>3. Whole(y)
  BY <1>2 DEF Free, Runs, Whole, TransportOK, ResetOK, ListenerOK, ReadyOK, NotifiedOK,
              HellosOK, Untold, Phase, Resetting, Ext, Clean
<1>4. ~Ext(y)
  BY <1>2 DEF Free, Runs, Ext
<1>5. ASSUME NEW u \in Tasks PROVE SentOK(y, u)
  BY <1>2 DEF Free, Runs, SentOK
<1> QED BY <1>2, <1>3, <1>4, <1>5 DEF Sound

LEMMA ConnectingSound ==
  ASSUME NEW x, NEW t \in Tasks, NEW place, Free(x, t), Rightly(x, t, place),
         place = "hello" => ~Ext(x), x.transport = 0, ~Blocked(x, t)
  PROVE  Sound(Connecting(x, t, place))
<1>1. CASE x.connecting # None \/ Somebody(x, "connect_lock")
  <2>1. Sound(At(x, t, "connect_lock", place))
    BY Queues
  <2> QED BY <1>1, <2>1 DEF Connecting
<1>2. CASE ~(x.connecting # None \/ Somebody(x, "connect_lock")) /\ x.closing
  <2>1. Sound(Error(x, t, place))
    BY ErrorSound DEF Free, Rightly
  <2> QED BY <1>2, <2>1 DEF Connecting
<1>3. CASE ~(x.connecting # None \/ Somebody(x, "connect_lock")) /\ ~x.closing
  <2> DEFINE a == At(x, t, "opening", place)
             y == [a EXCEPT !.connecting = t]
  <2>1. x \in Connection /\ "opening" \in Pcs /\ place \in Places
    BY DEF Free, Runs, Whole, Pcs, Rightly, Entries, Places
  <2>2. /\ Moved(x, a, t) /\ Kept(x.task[t], a.task[t])
        /\ a.task[t].pc = "opening" /\ a.task[t].place = place
    BY <2>1, AtFacts
  <2>3. Connecting(x, t, place) = y
    BY <1>3 DEF Connecting
  <2> HIDE DEF a
  <2>4. /\ Holds(x, y, t) /\ y.task[t] = a.task[t]
    BY <1>3, <2>2 DEF Holds, Moved, Same, Alike, Others, Connection
  <2> HIDE DEF y
  <2>5. Sound(y)
    BY <2>2, <2>4, LockWaits
  <2> QED BY <2>3, <2>5
<1> QED BY <1>1, <1>2, <1>3

(* At `hello' a persistent connection is there, and stays for the moment.  *)
Settled(x, place) == place = "hello" /\ Ext(x) => x.transport # 0 /\ ~Resetting(x)

LEMMA LookSound ==
  ASSUME NEW x, NEW t \in Tasks, NEW place, NEW found,
         Free(x, t), Rightly(x, t, place), Settled(x, place), ~Blocked(x, t),
         x.transport # 0 => Sound(found)
  PROVE  Sound(Look(x, t, place, found))
<1> DEFINE y == Joined(x)
<1>0. /\ Free(y, t) /\ Rightly(y, t, place) /\ y.transport = x.transport
      /\ y.reset = x.reset /\ y.target = x.target /\ Runs(y, t) /\ y.owner # t
      /\ y.task = x.task /\ y.handshaker = x.handshaker
  BY JoinedFree DEF Free
<1> HIDE DEF y
<1>1. CASE (x.listener = "done" \/ IsClosed(x)) /\ ~OwnsReset(x, t)
  <2>1. Look(x, t, place, found) = StartReset(y, t, "retry", place, TRUE)
    BY <1>1 DEF Look, y
  <2>2. ~Ext(x) /\ x.transport # 0
    BY <1>1 DEF Free, Runs, Whole, ListenerOK, IsClosed
  <2>3. t # "cleanup" /\ ~Resetting(x)
    BY <1>1 DEF Free, Runs, OwnsReset, Resetting, Phase, Blocked
  <2>4. Resettable(y, t, "retry", place)
    BY <1>0, <2>2
       DEF Resettable, Rightly, Free, Thens, Entries, Places, Ext, Handshake
  <2>5. Sound(StartReset(y, t, "retry", place, TRUE))
    BY <1>0, <2>2, <2>3, <2>4, StartResetSound DEF Resetting
  <2> QED BY <2>1, <2>5
<1>2. CASE IsClosed(x) /\ OwnsReset(x, t)
  <2>1. Look(x, t, place, found) = [x EXCEPT !.frozen = TRUE]
    BY <1>2 DEF Look
  <2> QED BY <1>2, <2>1, FrozenSound DEF OwnsReset
<1>3. CASE /\ ~((x.listener = "done" \/ IsClosed(x)) /\ ~OwnsReset(x, t))
           /\ ~(IsClosed(x) /\ OwnsReset(x, t))
  <2>1. Look(x, t, place, found) =
          IF x.transport # 0 THEN found ELSE Connecting(y, t, place)
    BY <1>3 DEF Look, y
  <2>2. CASE x.transport # 0
    BY <2>1, <2>2
  <2>3. CASE x.transport = 0
    <3>1. Sound(Connecting(y, t, place))
      BY <1>0, <2>3, ConnectingSound DEF Settled, Ext, Blocked, Resetting
    <3> QED BY <2>1, <2>3, <3>1
  <2> QED BY <2>2, <2>3
<1> QED BY <1>1, <1>2, <1>3

LEMMA LoopSound ==
  ASSUME NEW x, NEW t \in Tasks, NEW place, NEW found,
         Free(x, t), Rightly(x, t, place), Settled(x, place),
         ~Blocked(x, t) /\ x.transport # 0 => Sound(found)
  PROVE  Sound(Loop(x, t, place, found))
<1>1. CASE x.closing
  <2>1. Sound(Error(x, t, place))
    BY ErrorSound DEF Free, Rightly
  <2> QED BY <1>1, <2>1 DEF Loop
<1>2. CASE ~x.closing /\ Blocked(x, t)
  <2>1. Sound(At(x, t, "await_reset", place))
    BY <1>2, Queues DEF Settled, Blocked
  <2> QED BY <1>2, <2>1 DEF Loop
<1>3. CASE ~x.closing /\ ~Blocked(x, t)
  <2>1. Sound(Look(x, t, place, found))
    BY <1>3, LookSound
  <2> QED BY <1>3, <2>1 DEF Loop
<1> QED BY <1>1, <1>2, <1>3

LEMMA EnsureSound ==
  ASSUME NEW x, NEW t \in Tasks, NEW place, NEW found,
         Free(x, t), Rightly(x, t, place), Settled(x, place),
         ~Blocked(x, t) /\ x.transport # 0 => Sound(found)
  PROVE  Sound(Ensure(x, t, place, found))
<1>1. Sound(Error(x, t, place))
  BY ErrorSound DEF Free, Rightly
<1> QED BY <1>1, LoopSound DEF Ensure

(* A persistent connection that is found is read from. *)
LEMMA FoundListening ==
  ASSUME NEW x, NEW t \in Tasks, Runs(x, t), ~Blocked(x, t), x.transport # 0
  PROVE  Ext(x) => x.listener = "running" /\ ~Resetting(x)
  BY DEF Runs, Whole, ListenerOK, Blocked, Resetting, Phase

LEMMA SendsWell ==
  ASSUME NEW x, NEW t \in Tasks, Free(x, t), ~Blocked(x, t), x.transport # 0,
         NEW place \in {"send", "hello"}, place = "hello" => Unsaid(x, t) /\ x.task[t].init > 0
  PROVE  Sound(Send(Joined(x), t, place))
<1> DEFINE y == Joined(x)
<1>1. /\ Free(y, t) /\ y.transport = x.transport /\ y.reset = x.reset
      /\ y.target = x.target /\ y.task = x.task /\ y.handshaker = x.handshaker
      /\ y.protocol = x.protocol /\ y.epoch = x.epoch
      /\ x.listener # "done" => y.listener = x.listener
  BY JoinedFree DEF Free
<1> HIDE DEF y
<1>2. Ext(y) => y.listener = "running"
  <2>1. Ext(y) => x.listener = "running"
    BY <1>1, FoundListening DEF Free, Ext
  <2> QED BY <1>1, <2>1
<1>3. place = "hello" => Unsaid(y, t)
  BY <1>1 DEF Unsaid, Free, Ext, Resetting, IsCurrent
<1>4. Sendable(y, t, place)
  BY <1>1, <1>2, <1>3 DEF Sendable, Free, Unsaid
<1> QED BY <1>1, <1>3, <1>4, SendSound DEF Free, y

LEMMA ReadySound ==
  ASSUME NEW x, NEW t \in Tasks, Free(x, t)
  PROVE  Sound(Ready(x, t))
<1>1. CASE t = "reconnect"
  BY <1>1, EndsSound DEF Ready, Free
<1>2. CASE t # "reconnect"
  <2>1. ~Blocked(x, t) /\ x.transport # 0 => Sound(Send(Joined(x), t, "send"))
    BY SendsWell
  <2>2. Sound(Ensure(x, t, "send", Send(Joined(x), t, "send")))
    BY <2>1, EnsureSound DEF Rightly, Entries, Settled
  <2> QED BY <1>2, <2>2 DEF Ready
<1> QED BY <1>1, <1>2

(* A running task goes on with another record of its own. *)
LEMMA MovedRuns ==
  ASSUME NEW x, NEW t \in Tasks, NEW y, Runs(x, t), Moved(x, y, t), WaitOK(y, t),
         t = "cleanup" => ~y.task[t].cancelled,
         y.task[t].sent \subseteq {y.task[t].epoch},
         x.owner = t => y.task[t].init > 0 /\ y.task[t].sent = {}
  PROVE  /\ Runs(y, t) /\ (Clean(y) <=> Clean(x)) /\ (Tidy(y, t) <=> Tidy(x, t))
<1>1. Whole(y) /\ (Clean(y) <=> Clean(x))
  BY SameWhole DEF Runs, Moved
<1>2. ASSUME NEW u \in Tasks, u # t PROVE Fine(y, u) /\ SentOK(y, u)
  BY <1>2, SameFine DEF Runs, Moved, Others
<1> QED BY <1>1, <1>2 DEF Runs, Tidy, Moved, Same, Alike, Resetting, Phase, Ext

LEMMA InitFacts ==
  ASSUME NEW x, NEW t \in Tasks, Free(x, t), x.transport # 0, x.handshaker = t
  PROVE  LET y == [x EXCEPT !.task[t].init = x.epoch]
         IN  Free(y, t) /\ Moved(x, y, t) /\ y.task[t].init = x.epoch /\ x.epoch > 0
<1> DEFINE y == [x EXCEPT !.task[t].init = x.epoch]
           c == x.task[t]
           d == [c EXCEPT !.init = x.epoch]
<1>1. /\ x \in Connection /\ x.task \in [Tasks -> Task] /\ c \in Task
      /\ x.epoch \in Epoch /\ x.epoch > 0
  BY TransportEpoch DEF Free, Runs, Whole, Connection
<1>2. y = [x EXCEPT !.task = [x.task EXCEPT ![t] = d]]
  BY <1>1 DEF Connection
<1>3. /\ d \in Task /\ d.init = x.epoch /\ d.sent = c.sent /\ d.epoch = c.epoch
      /\ d.future = c.future /\ d.cancelled = c.cancelled /\ d.pc = c.pc
  BY <1>1 DEF Task
<1> HIDE DEF d, y
<1>4. [x.task EXCEPT ![t] = d] \in [Tasks -> Task]
  BY <1>1, <1>3
<1>5. y \in Connection /\ y.task[t] = d
  BY <1>1, <1>2, <1>4 DEF Connection
<1>6. Same(x, y) /\ Others(x, y, t)
  BY <1>1, <1>2 DEF Connection, Same, Alike, Others
<1>7. Moved(x, y, t)
  BY <1>5, <1>6 DEF Moved
<1>8. WaitOK(y, t)
  BY <1>3, <1>5, <1>6, WaitOKKept DEF Free, Runs
<1>9. Runs(y, t) /\ (Tidy(y, t) <=> Tidy(x, t))
  BY <1>3, <1>5, <1>7, <1>8, MovedRuns DEF Free, Runs
<1>10. Free(y, t)
  BY <1>3, <1>5, <1>6, <1>9 DEF Free, Same, Alike
<1> QED BY <1>1, <1>3, <1>5, <1>7, <1>10 DEF y

LEMMA HelloSound ==
  ASSUME NEW x, NEW t \in Tasks, Free(x, t), x.handshaker = t, x.transport # 0,
         ~Blocked(x, t)
  PROVE  Sound(Hello(x, t))
<1>1. CASE x.protocol
  BY <1>1, RunsHandlersSound DEF Hello, Free
<1>2. CASE ~x.protocol
  <2> DEFINE y == [x EXCEPT !.task[t].init = x.epoch]
  <2>1. Hello(x, t) = Ensure(y, t, "hello", Send(Joined(y), t, "hello"))
    BY <1>2 DEF Hello
  <2>2. Free(y, t) /\ Moved(x, y, t) /\ y.task[t].init = x.epoch /\ x.epoch > 0
    BY InitFacts
  <2> HIDE DEF y
  <2>3. /\ Rightly(y, t, "hello") /\ y.transport # 0 /\ ~Blocked(y, t)
        /\ y.task[t].init > 0
    BY <2>2 DEF Rightly, Entries, Moved, Same, Alike, Blocked, Resetting
  <2>4. Ext(y) => ~Resetting(y)
    BY <2>2, <2>3, FoundListening DEF Free
  <2>5. x.transport = x.epoch
    BY TransportEpoch DEF Free, Runs
  <2>6. Unsaid(y, t)
    BY <1>2, <2>2, <2>4, <2>5 DEF Unsaid, Moved, Same, Alike, Free, IsCurrent
  <2>7. Sound(Send(Joined(y), t, "hello"))
    BY <2>2, <2>3, <2>6, SendsWell
  <2>8. Settled(y, "hello")
    BY <2>3, <2>4 DEF Settled
  <2>9. Sound(Ensure(y, t, "hello", Send(Joined(y), t, "hello")))
    BY <2>2, <2>3, <2>7, <2>8, EnsureSound
  <2> QED BY <2>1, <2>9
<1> QED BY <1>1, <1>2 DEF Free, Runs, Whole, Connection

LEMMA HandshakerTaken ==
  ASSUME NEW x, NEW t \in Tasks, Free(x, t), x.handshaker = None,
         NEW y, y = [x EXCEPT !.handshaker = t]
  PROVE  Free(y, t) /\ y.handshaker = t
<1>1. x \in Connection
  BY DEF Free, Runs, Whole
<1>2. /\ y \in Connection /\ y.hellos = x.hellos /\ y.listener = x.listener
      /\ y.target = x.target /\ y.epoch = x.epoch /\ y.transport = x.transport
      /\ y.peer = x.peer /\ y.task = x.task
      /\ y.connecting = x.connecting /\ y.owner = x.owner
      /\ y.handshaker = t /\ y.protocol = x.protocol
      /\ y.initialized = x.initialized /\ y.beenReady = x.beenReady
      /\ y.closing = x.closing /\ y.reset = x.reset /\ y.frozen = x.frozen
      /\ y.open = x.open /\ y.restored = x.restored /\ y.notified = x.notified
  BY <1>1 DEF Connection
<1>3. Clean(x) /\ Clean(y)
  BY <1>2 DEF Free, Runs, Whole, HellosOK, Clean, Ext, Resetting
<1>4. Whole(y)
  BY <1>2, <1>3
     DEF Free, Runs, Whole, TransportOK, ResetOK, ListenerOK, ReadyOK, NotifiedOK,
         HellosOK, Untold, Phase, Resetting, Ext
<1>5. ASSUME NEW u \in Tasks, u # t PROVE Fine(y, u) /\ SentOK(y, u)
  <2>1. Fine(x, u) /\ SentOK(x, u) /\ u # None
    BY <1>5, ConnectionAssumption DEF Free, Runs, Tasks, None
  <2>2. LocksOK(y, u)
    BY <1>2, <1>3, <1>5, <2>1 DEF Fine, LocksOK, Phase, IsCurrent
  <2>3. PlaceOK(y, u)
    BY <1>2, <2>1 DEF Fine, PlaceOK, Ext
  <2>4. RoleOK(y, u)
    BY <1>2, <2>1 DEF Fine, RoleOK, Ext, Resetting, Phase
  <2>5. WaitOK(y, u) /\ SentOK(y, u)
    BY <1>2, <2>1 DEF Fine, WaitOK, SentOK, Ext, IsCurrent, Phase
  <2> QED BY <2>2, <2>3, <2>4, <2>5 DEF Fine
<1>6. WaitOK(y, t)
  BY <1>2 DEF Free, Runs, WaitOK, Ext, IsCurrent, Phase
<1> QED BY <1>2, <1>3, <1>4, <1>5, <1>6 DEF Free, Runs, Tidy, Resetting, Phase, Ext

LEMMA InitializesSound ==
  ASSUME NEW x, NEW t \in Tasks, Free(x, t), x.handshaker = None
  PROVE  Sound(Initializes(x, t))
<1> DEFINE y == [x EXCEPT !.handshaker = t]
           z == Joined(y)
<1>1. Free(y, t) /\ y.handshaker = t
  BY HandshakerTaken
<1>2. Initializes(x, t) =
        CASE x.closing -> Leaves(y, t)
          [] ~x.closing /\ x.initialized -> Ready(x, t)
          [] OTHER -> Ensure(y, t, "init", Hello(z, t))
  BY DEF Initializes
<1> HIDE DEF y
<1>3. Runs(y, t)
  BY <1>1 DEF Free
<1>4. /\ Free(z, t) /\ z.handshaker = t /\ z.transport = y.transport
      /\ z.reset = y.reset
  BY <1>1, <1>3, JoinedFree
<1> HIDE DEF z
<1>5. Sound(Leaves(y, t))
  BY <1>1, LeavesSound DEF Free
<1>6. Sound(Ready(x, t))
  BY ReadySound
<1>7. ~Blocked(y, t) /\ y.transport # 0 => Sound(Hello(z, t))
  BY <1>4, HelloSound DEF Blocked, Resetting
<1>8. Sound(Ensure(y, t, "init", Hello(z, t)))
  BY <1>1, <1>7, EnsureSound DEF Rightly, Entries, Settled
<1> QED BY <1>2, <1>5, <1>6, <1>8

LEMMA ReplyingSound ==
  ASSUME NEW x, NEW t \in Tasks, Free(x, t), x.transport # 0,
         x.task[t].epoch = x.epoch
  PROVE  Sound([At(x, t, "replying", "reply") EXCEPT !.task[t].sent = {x.transport}])
<1> DEFINE a == At(x, t, "replying", "reply")
           y == [a EXCEPT !.task[t].sent = {x.transport}]
           c == x.task[t]
           d == [a.task[t] EXCEPT !.sent = {x.transport}]
<1>1. /\ x \in Connection /\ "replying" \in Pcs /\ "reply" \in Places
      /\ x.transport \in Epoch /\ x.epoch > 0 /\ x.transport = x.epoch
  BY TransportEpoch DEF Free, Runs, Whole, Pcs, Places, Connection
<1>2. /\ Moved(x, a, t) /\ Kept(c, a.task[t]) /\ a.task[t].pc = "replying"
      /\ a.task[t].place = "reply"
  BY <1>1, AtFacts
<1> HIDE DEF a
<1>3. a \in Connection /\ a.task[t] \in Task /\ a.task \in [Tasks -> Task]
  BY <1>2 DEF Moved, Connection
<1>4. y = [a EXCEPT !.task = [a.task EXCEPT ![t] = d]]
  BY <1>3 DEF Connection
<1>5. /\ d \in Task /\ d.pc = "replying" /\ d.place = "reply" /\ d.init = c.init
      /\ d.sent = {x.transport} /\ d.epoch = c.epoch /\ d.future = c.future
      /\ d.cancelled = c.cancelled
  BY <1>1, <1>2, <1>3 DEF Task, Kept
<1> HIDE DEF d, y
<1>6. [a.task EXCEPT ![t] = d] \in [Tasks -> Task]
  BY <1>3, <1>5
<1>7. y \in Connection /\ y.task[t] = d
  BY <1>3, <1>4, <1>6 DEF Connection
<1>8. Same(x, y) /\ Others(x, y, t)
  BY <1>2, <1>3, <1>4 DEF Connection, Moved, Same, Alike, Others
<1>9. Moved(x, y, t)
  BY <1>7, <1>8 DEF Moved
<1>10. LocksOK(y, t)
  BY <1>5, <1>7, <1>9, SameWhole
     DEF LocksOK, Over, Free, Runs, Tidy, Moved, Same, Alike, Handshake
<1>11. PlaceOK(y, t)
  BY <1>1, <1>5, <1>7 DEF PlaceOK, Over, Handshake
<1>12. RoleOK(y, t)
  BY <1>5, <1>7, <1>8 DEF RoleOK, Free, Runs, Same, Alike, Resetting, Phase, Ext
<1>13. WaitOK(y, t)
  BY <1>5, <1>7, <1>8, WaitOKKept DEF Free, Runs
<1>14. SentOK(y, t)
  BY <1>1, <1>5, <1>7 DEF SentOK
<1>15. Sound(y)
  BY <1>9, <1>10, <1>11, <1>12, <1>13, <1>14, Rests DEF Fine, Free
<1> QED BY <1>15 DEF y, a

LEMMA RepliesSound ==
  ASSUME NEW x, NEW t \in Tasks, Free(x, t), x.transport # 0
  PROVE  Sound(Replies(x, t))
<1>1. Sound(Raises(x, t))
  BY RaisesSound DEF Free
<1> QED BY <1>1, ReplyingSound DEF Replies

LEMMA ReturnsSound ==
  ASSUME NEW x, NEW t \in Tasks, NEW place, Free(x, t), Rightly(x, t, place),
         x.transport # 0, ~Blocked(x, t), place = "hello" => ~Ext(x)
  PROVE  Sound(Returns(x, t, place))
<1>1. CASE place = "call"
  <2>1. Sound(Ready(x, t))
    BY ReadySound
  <2>2. x.handshaker = None => Sound(Initializes(x, t))
    BY InitializesSound
  <2>3. Sound(At(x, t, "initialize_lock", "call"))
    BY <1>1, Queues
  <2> QED BY <1>1, <2>1, <2>2, <2>3 DEF Returns
<1>2. CASE place = "init"
  BY <1>2, HelloSound DEF Returns, Rightly
<1>3. CASE place = "reply"
  BY <1>3, RepliesSound DEF Returns
<1>4. CASE place \in {"send", "hello"}
  <2>1. place = "hello" => Unsaid(x, t)
    BY DEF Unsaid, Free, Rightly
  <2>2. Ext(x) => x.listener = "running"
    BY FoundListening DEF Free
  <2>3. Sendable(x, t, place)
    BY <1>4, <2>2 DEF Sendable, Free, Rightly
  <2>4. Sound(Send(x, t, place))
    BY <1>4, <2>1, <2>3, SendSound DEF Free
  <2> QED BY <1>4, <2>4 DEF Returns
<1> QED BY <1>1, <1>2, <1>3, <1>4 DEF Rightly, Entries

LEMMA ReturnsJoined ==
  ASSUME NEW x, NEW t \in Tasks, NEW place, Free(x, t), Rightly(x, t, place),
         place = "hello" => ~Ext(x), ~Blocked(x, t), x.transport # 0
  PROVE  Sound(Returns(Joined(x), t, place))
<1> DEFINE y == Joined(x)
<1>1. Runs(x, t)
  BY DEF Free
<1>2. /\ Free(y, t) /\ y.transport = x.transport /\ y.reset = x.reset
      /\ y.target = x.target /\ Rightly(y, t, place)
  BY <1>1, JoinedFree
<1> HIDE DEF y
<1>3. Sound(Returns(y, t, place))
  BY <1>2, ReturnsSound DEF Blocked, Resetting, Ext
<1> QED BY <1>3 DEF y

LEMMA BeginsSound ==
  ASSUME NEW x, NEW t \in Tasks, NEW place, Free(x, t), Rightly(x, t, place),
         place = "hello" => ~Ext(x)
  PROVE  Sound(Begins(x, t, place)) /\ Sound(GoesOn(x, t, place))
<1>1. ~Blocked(x, t) /\ x.transport # 0 => Sound(Returns(Joined(x), t, place))
  BY ReturnsJoined
<1>2. Settled(x, place)
  BY DEF Settled
<1> QED BY <1>1, <1>2, EnsureSound, LoopSound DEF Begins, GoesOn

(* From the lock of _ensure_connected. *)
LEMMA ConnectsSound ==
  ASSUME NEW x, NEW t \in Tasks, NEW place, Free(Unlocked(x), t),
         Rightly(Unlocked(x), t, place), place = "hello" => ~Ext(x),
         x \in Connection, x.connecting = t, ~Blocked(x, t)
  PROVE  Sound(Connects(x, t, place))
<1> DEFINE y == Unlocked(x)
<1>1. y = [x EXCEPT !.connecting = None]
  BY DEF Unlocked
<1>2. /\ Alike(y, x) /\ y.connecting = None /\ y.task = x.task /\ y.transport = x.transport
      /\ y.reset = x.reset /\ y.target = x.target
  BY <1>1 DEF Connection, Alike
<1>3. Free(y, t) /\ Rightly(y, t, place) /\ (place = "hello" => ~Ext(y)) /\ ~Blocked(y, t)
  BY <1>2 DEF Ext, Blocked, Resetting
<1> HIDE DEF y
<1>4. CASE x.closing
  <2>1. Sound(Error(y, t, place))
    BY <1>3, ErrorSound DEF Free, Rightly
  <2> QED BY <1>4, <2>1 DEF Connects, y
<1>5. CASE ~x.closing /\ x.transport = 0
  <2> DEFINE a == At(x, t, "opening", place)
  <2>1. "opening" \in Pcs /\ place \in Places
    BY <1>3 DEF Pcs, Rightly, Entries, Places
  <2>2. /\ Moved(x, a, t) /\ Kept(x.task[t], a.task[t])
        /\ a.task[t].pc = "opening" /\ a.task[t].place = place
    BY <2>1, AtFacts
  <2> HIDE DEF a
  <2>3. Holds(y, a, t) /\ Kept(y.task[t], a.task[t])
    BY <1>2, <2>2 DEF Holds, Moved, Same, Alike, Others
  <2>4. Sound(a)
    BY <1>2, <1>3, <1>5, <2>2, <2>3, LockWaits
  <2> QED BY <1>5, <2>4 DEF Connects, a
<1>6. CASE ~x.closing /\ x.transport # 0
  <2>1. Sound(GoesOn(y, t, place))
    BY <1>3, BeginsSound
  <2>2. Sound(Returns(y, t, place))
    BY <1>2, <1>3, <1>6, ReturnsSound
  <2> QED BY <1>6, <2>1, <2>2 DEF Connects, y
<1> QED BY <1>4, <1>5, <1>6 DEF Connection

-----------------------------------------------------------------------------
(* A task that waited runs again.                                          *)

(* It waits for a reset, or for something that is not a lock. *)
Woken(x, t) ==
  /\ Sound(x) /\ ~x.frozen /\ t \in Tasks \ {"closer"}
  /\ x.task[t].pc \notin {"locked", "opening"}

LEMMA WokenRuns ==
  ASSUME NEW x, NEW t, Woken(x, t), x.task[t].pc # "reset",
         t = "cleanup" => x.task[t].pc # "idle"
  PROVE  /\ Runs(x, t) /\ Fine(x, t)
         /\ Tidy(x, t) \/ (/\ x.task[t].pc \in {"request", "overloaded"}
                           /\ x.task[t].place = "hello"
                           /\ IsCurrent(x, x.task[t].init))
<1>1. /\ Whole(x) /\ ~x.frozen /\ t \in Tasks /\ t # "closer"
      /\ \A u \in Tasks : Fine(x, u) /\ SentOK(x, u)
  BY DEF Woken, Sound
<1>2. LocksOK(x, t) /\ PlaceOK(x, t) /\ RoleOK(x, t) /\ WaitOK(x, t)
  BY <1>1 DEF Fine
<1>3. x.connecting # t
  BY <1>1, <1>2 DEF LocksOK, Woken
<1>4. Resetting(x) => x.reset.by # t
  BY <1>2 DEF RoleOK
<1>5. t = "cleanup" => ~x.task[t].cancelled /\ Phase(x) = "interrupt" /\ ~Ext(x)
  BY <1>2 DEF RoleOK
<1>6. x.owner = t => x.handshaker = t /\ x.task[t].init > 0 /\ x.task[t].sent = {}
  BY <1>2 DEF LocksOK, PlaceOK, Over, Handshake
<1>7. Runs(x, t)
  BY <1>1, <1>2, <1>3, <1>4, <1>5, <1>6 DEF Runs, SentOK
<1> QED BY <1>1, <1>2, <1>7 DEF LocksOK, Tidy

LEMMA WokenFree ==
  ASSUME NEW x, NEW t, Woken(x, t), t = "cleanup" => x.task[t].pc # "idle",
         x.task[t].pc \in {"idle", "await_reset", "connect_lock", "initialize_lock",
                           "backoff"}
  PROVE  Free(x, t)
<1>1. Runs(x, t) /\ Tidy(x, t) /\ LocksOK(x, t) /\ PlaceOK(x, t)
  BY WokenRuns DEF Fine
<1> QED BY <1>1 DEF Free, LocksOK, PlaceOK

(* Where it waited before it had sent anything. *)
LEMMA WokenRightly ==
  ASSUME NEW x, NEW t, Woken(x, t), x.task[t].pc \in {"await_reset", "connect_lock"}
  PROVE  /\ Rightly(x, t, x.task[t].place)
         /\ x.task[t].place = "hello" => ~Ext(x)
<1>1. LocksOK(x, t) /\ PlaceOK(x, t)
  BY DEF Woken, Sound, Fine
<1> QED BY <1>1 DEF Rightly, LocksOK, PlaceOK, Over, Handshake, Woken

(* With the lock of _ensure_connected: as if it had left it. *)
LEMMA UnlocksFree ==
  ASSUME NEW x, NEW t \in Tasks \ {"closer"}, Sound(x), ~x.frozen,
         x.task[t].pc \in {"locked", "opening"}
  PROVE  /\ Free(Unlocked(x), t) /\ Rightly(Unlocked(x), t, x.task[t].place)
         /\ x.task[t].place = "hello" => ~Ext(x)
         /\ x.connecting = t /\ x \in Connection
<1> DEFINE y == Unlocked(x)
<1>1. /\ Whole(x) /\ \A u \in Tasks : Fine(x, u) /\ SentOK(x, u)
      /\ LocksOK(x, t) /\ PlaceOK(x, t) /\ RoleOK(x, t) /\ WaitOK(x, t)
  BY DEF Sound, Fine
<1>2. x \in Connection /\ x.connecting = t
  BY <1>1 DEF Whole, LocksOK
<1>3. y = [x EXCEPT !.connecting = None]
  BY DEF Unlocked
<1>4. /\ y \in Connection /\ Alike(x, y) /\ y.connecting = None /\ y.task = x.task
  BY <1>2, <1>3 DEF Connection, Alike
<1> HIDE DEF y
<1>5. Whole(y) /\ (Clean(y) <=> Clean(x))
  BY <1>1, <1>4, LockWhole
<1>6. ASSUME NEW u \in Tasks, u # t PROVE Fine(y, u) /\ SentOK(y, u)
  <2>1. Fine(x, u) /\ SentOK(x, u) /\ u # None /\ x.connecting # u /\ y.task[u] = x.task[u]
    BY <1>1, <1>2, <1>4, <1>6, ConnectionAssumption DEF Tasks, None
  <2>2. LocksOK(y, u)
    BY <1>4, <1>5, <2>1 DEF Fine, LocksOK, Alike, Phase, Resetting, Ext, IsCurrent
  <2>3. PlaceOK(y, u)
    BY <1>4, <2>1 DEF Fine, PlaceOK, Alike, Ext
  <2>4. RoleOK(y, u)
    BY <1>4, <2>1 DEF Fine, RoleOK, Alike, Ext, Resetting, Phase
  <2>5. WaitOK(y, u)
    BY <1>4, <2>1 DEF Fine, WaitOK, Alike, Ext, IsCurrent, Phase
  <2> QED BY <2>1, <2>2, <2>3, <2>4, <2>5 DEF Fine, SentOK
<1>7. t # None
  BY ConnectionAssumption DEF Tasks, None
<1>8. x.task[t].sent = {} /\ x.owner # t /\ x.task[t].pc # "replying"
  BY <1>1 DEF PlaceOK, LocksOK
<1>9. Tidy(y, t)
  BY <1>1, <1>4, <1>5 DEF LocksOK, Tidy, Alike
<1>10. WaitOK(y, t)
  BY <1>1, <1>4 DEF WaitOK, Alike, Ext, IsCurrent, Phase
<1>11. /\ Resetting(y) => y.reset.by # t
       /\ t = "cleanup" => ~y.task[t].cancelled /\ Phase(y) = "interrupt" /\ ~Ext(y)
  BY <1>1, <1>4 DEF RoleOK, Alike, Resetting, Phase, Ext
<1>12. Runs(y, t)
  BY <1>4, <1>5, <1>6, <1>7, <1>8, <1>10, <1>11 DEF Runs, Alike
<1>13. Free(y, t)
  BY <1>4, <1>8, <1>9, <1>12 DEF Free, Alike
<1>14. Rightly(y, t, x.task[t].place) /\ (x.task[t].place = "hello" => ~Ext(x))
  BY <1>1, <1>4 DEF Rightly, LocksOK, PlaceOK, Over, Handshake, Alike, Ext
<1> QED BY <1>2, <1>13, <1>14 DEF y

-----------------------------------------------------------------------------
(* The steps of the tasks.                                                 *)

LEMMA EpochFacts ==
  ASSUME NEW x, NEW t \in Tasks, Free(x, t), x.task[t].future = "none",
         NEW e \in Epoch
  PROVE  LET y == [x EXCEPT !.task[t].epoch = e]
         IN  Free(y, t) /\ y.task[t].epoch = e
<1> DEFINE y == [x EXCEPT !.task[t].epoch = e]
           c == x.task[t]
           d == [c EXCEPT !.epoch = e]
<1>1. /\ x \in Connection /\ x.task \in [Tasks -> Task] /\ c \in Task
  BY DEF Free, Runs, Whole, Connection
<1>2. y = [x EXCEPT !.task = [x.task EXCEPT ![t] = d]]
  BY <1>1 DEF Connection
<1>3. /\ d \in Task /\ d.init = c.init /\ d.sent = c.sent /\ d.epoch = e
      /\ d.future = c.future /\ d.cancelled = c.cancelled /\ d.pc = c.pc
  BY <1>1 DEF Task
<1> HIDE DEF d, y
<1>4. [x.task EXCEPT ![t] = d] \in [Tasks -> Task]
  BY <1>1, <1>3
<1>5. y \in Connection /\ y.task[t] = d
  BY <1>1, <1>2, <1>4 DEF Connection
<1>6. Same(x, y) /\ Others(x, y, t)
  BY <1>1, <1>2 DEF Connection, Same, Alike, Others
<1>7. Moved(x, y, t)
  BY <1>5, <1>6 DEF Moved
<1>8. WaitOK(y, t)
  BY <1>3, <1>5 DEF WaitOK
<1>9. Runs(y, t) /\ (Tidy(y, t) <=> Tidy(x, t))
  BY <1>3, <1>5, <1>7, <1>8, MovedRuns DEF Free, Runs
<1>10. Free(y, t)
  BY <1>3, <1>5, <1>6, <1>9 DEF Free, Same, Alike
<1> QED BY <1>3, <1>5, <1>10 DEF y

LEMMA CallStartsSound ==
  ASSUME Sound(conn), NEW t \in Tasks, CallStarts(t)
  PROVE  Sound(conn')
<1>1. /\ t \in Callers /\ ~conn.frozen /\ conn.task[t].pc = "idle"
  BY DEF CallStarts, Is, Alive
<1>2. Woken(conn, t) /\ t # "cleanup"
  BY <1>1, ConnectionAssumption DEF Woken
<1>3. Free(conn, t)
  BY <1>1, <1>2, WokenFree
<1>4. conn.task[t].future = "none"
  BY <1>1 DEF Sound, Fine, PlaceOK
<1>5. Sound(Begins(conn, t, "call"))
  BY <1>3, BeginsSound DEF Rightly, Entries
<1>6. ASSUME NEW e \in 1..conn.epoch
      PROVE  Sound(Begins([conn EXCEPT !.task[t].epoch = e], t, "reply"))
  <2> DEFINE y == [conn EXCEPT !.task[t].epoch = e]
  <2>1. e \in Epoch /\ e > 0
    BY <1>3, ConnectionAssumption DEF Free, Runs, Whole, Connection, Epoch
  <2>2. Free(y, t) /\ y.task[t].epoch = e
    BY <1>3, <1>4, <2>1, EpochFacts
  <2> HIDE DEF y
  <2>3. Sound(Begins(y, t, "reply"))
    BY <2>1, <2>2, BeginsSound DEF Rightly, Entries
  <2> QED BY <2>3 DEF y
<1> QED BY <1>5, <1>6 DEF CallStarts, Becomes

LEMMA ResetAwaitedSound ==
  ASSUME Sound(conn), NEW t \in Tasks, ResetAwaited(t)
  PROVE  Sound(conn')
<1> DEFINE place == conn.task[t].place
<1>1. /\ ~conn.frozen /\ conn.task[t].pc = "await_reset" /\ ~Blocked(conn, t)
      /\ conn' = Look(conn, t, place, Returns(Joined(conn), t, place))
  BY DEF ResetAwaited, Is, Alive, Becomes, Place
<1>2. t # "closer"
  BY <1>1 DEF Sound, Fine, RoleOK
<1>3. Woken(conn, t)
  BY <1>1, <1>2 DEF Woken
<1>4. Free(conn, t) /\ Rightly(conn, t, place) /\ (place = "hello" => ~Ext(conn))
  BY <1>1, <1>3, WokenFree, WokenRightly
<1> HIDE DEF place
<1>5. conn.transport # 0 => Sound(Returns(Joined(conn), t, place))
  BY <1>1, <1>4, ReturnsJoined
<1>6. Settled(conn, place)
  BY <1>4 DEF Settled
<1> QED BY <1>1, <1>4, <1>5, <1>6, LookSound

LEMMA LockTaken ==
  ASSUME NEW x, NEW t \in Tasks, Free(x, t), x.connecting = None,
         NEW place, Rightly(x, t, place), place = "hello" => ~Ext(x)
  PROVE  LET y == [x EXCEPT !.connecting = t]
         IN  /\ Free(Unlocked(y), t) /\ Rightly(Unlocked(y), t, place)
             /\ place = "hello" => ~Ext(y)
             /\ y \in Connection /\ y.connecting = t
             /\ Blocked(y, t) => Sound(At(y, t, "locked", place))
<1> DEFINE y == [x EXCEPT !.connecting = t]
           z == Unlocked(y)
<1>1. x \in Connection
  BY DEF Free, Runs, Whole
<1>2. /\ y \in Connection /\ y.connecting = t /\ Alike(x, y) /\ y.task = x.task
      /\ z = x
  BY <1>1 DEF Connection, Alike, Unlocked
<1>3. ASSUME Blocked(y, t) PROVE Sound(At(y, t, "locked", place))
  <2> DEFINE a == At(y, t, "locked", place)
  <2>1. "locked" \in Pcs /\ place \in Places
    BY DEF Pcs, Rightly, Entries, Places
  <2> HIDE DEF y
  <2>2. /\ Moved(y, a, t) /\ Kept(y.task[t], a.task[t])
        /\ a.task[t].pc = "locked" /\ a.task[t].place = place
    BY <1>2, <2>1, AtFacts
  <2> HIDE DEF a
  <2>3. Holds(x, a, t) /\ Kept(x.task[t], a.task[t])
    BY <1>2, <2>2 DEF Holds, Moved, Same, Alike, Others
  <2>4. Sound(a)
    BY <2>2, <2>3, LockWaits
  <2> QED BY <2>4 DEF a
<1> HIDE DEF z
<1>4. Free(z, t) /\ Rightly(z, t, place)
  BY <1>2
<1> QED BY <1>2, <1>3, <1>4 DEF z, Alike, Ext

LEMMA ConnectLockTakenSound ==
  ASSUME Sound(conn), NEW t \in Tasks, ConnectLockTaken(t)
  PROVE  Sound(conn')
<1> DEFINE place == conn.task[t].place
           y == [conn EXCEPT !.connecting = t]
<1>1. /\ ~conn.frozen /\ conn.task[t].pc = "connect_lock" /\ t # "closer"
      /\ conn.connecting = None
      /\ conn' = IF Blocked(y, t) THEN At(y, t, "locked", place)
                 ELSE Connects(y, t, place)
  BY Zenon DEF ConnectLockTaken, Is, Alive, Becomes, Place
<1>2. Woken(conn, t)
  BY <1>1 DEF Woken
<1>3. Free(conn, t) /\ Rightly(conn, t, place) /\ (place = "hello" => ~Ext(conn))
  BY <1>1, <1>2, WokenFree, WokenRightly
<1> HIDE DEF place
<1>4. /\ Free(Unlocked(y), t) /\ Rightly(Unlocked(y), t, place)
      /\ place = "hello" => ~Ext(y)
      /\ y \in Connection /\ y.connecting = t
      /\ Blocked(y, t) => Sound(At(y, t, "locked", place))
  BY <1>1, <1>3, LockTaken
<1> HIDE DEF y
<1>5. ~Blocked(y, t) => Sound(Connects(y, t, place))
  BY <1>4, ConnectsSound
<1> QED BY <1>1, <1>4, <1>5

LEMMA ResetAwaitedInLockSound ==
  ASSUME Sound(conn), NEW t \in Tasks, ResetAwaitedInLock(t)
  PROVE  Sound(conn')
<1> DEFINE place == conn.task[t].place
<1>1. /\ ~conn.frozen /\ conn.task[t].pc = "locked" /\ ~Blocked(conn, t)
      /\ conn' = Connects(conn, t, place)
  BY DEF ResetAwaitedInLock, Is, Alive, Becomes, Place
<1>2. t # "closer"
  BY <1>1 DEF Sound, Fine, RoleOK
<1> QED BY <1>1, <1>2, UnlocksFree, ConnectsSound

(* Connection e is there. *)
Connected(x, e) ==
  [x EXCEPT !.epoch = e, !.transport = e, !.open = @ \cup {e}, !.peer = "up",
            !.listener = "running", !.protocol = FALSE, !.initialized = FALSE]

LEMMA ConnectedFacts ==
  ASSUME NEW x \in Connection, NEW e \in Epoch, NEW y, y = Connected(x, e)
  PROVE  /\ y \in Connection /\ y.epoch = e /\ y.transport = e
         /\ y.open = x.open \cup {e}
         /\ y.peer = "up" /\ y.listener = "running" /\ ~y.protocol /\ ~y.initialized
         /\ y.target = x.target /\ y.task = x.task
         /\ y.connecting = x.connecting /\ y.owner = x.owner
         /\ y.handshaker = x.handshaker /\ y.beenReady = x.beenReady
         /\ y.closing = x.closing /\ y.reset = x.reset /\ y.frozen = x.frozen
         /\ y.restored = x.restored /\ y.notified = x.notified
         /\ y.hellos = x.hellos
<1> DEFINE o == x.open \cup {e}
<1>1. y = [x EXCEPT !.epoch = e, !.transport = e, !.open = o, !.peer = "up",
                    !.listener = "running", !.protocol = FALSE, !.initialized = FALSE]
  BY DEF Connected
<1>2. o \subseteq Epoch
  BY DEF Connection
<1>3. /\ "up" \in {"up", "down", "reaped"} /\ FALSE \in BOOLEAN
      /\ "running" \in {"none", "running", "resetting", "done"}
  OBVIOUS
<1> HIDE DEF o
<1>4. y \in Connection
  <2> DEFINE a == [x EXCEPT !.epoch = e, !.transport = e, !.open = o]
  <2>1. a \in Connection
    BY <1>2 DEF Connection
  <2>2. y = [a EXCEPT !.peer = "up", !.listener = "running", !.protocol = FALSE,
                      !.initialized = FALSE]
    BY <1>1
  <2> HIDE DEF a
  <2> QED BY <1>3, <2>1, <2>2 DEF Connection
<1>5. /\ y.epoch = e /\ y.transport = e /\ y.open = o
      /\ y.peer = "up" /\ y.listener = "running" /\ ~y.protocol /\ ~y.initialized
      /\ y.target = x.target /\ y.task = x.task
      /\ y.connecting = x.connecting /\ y.owner = x.owner
  BY <1>1 DEF Connection
<1>6. /\ y.handshaker = x.handshaker /\ y.beenReady = x.beenReady
      /\ y.closing = x.closing /\ y.reset = x.reset /\ y.frozen = x.frozen
      /\ y.restored = x.restored /\ y.notified = x.notified
      /\ y.hellos = x.hellos
  BY <1>1 DEF Connection
<1> QED BY <1>4, <1>5, <1>6 DEF o

LEMMA OpenedFree ==
  ASSUME Sound(conn), NEW t \in Tasks, Is(t, "opening"), conn.epoch < MaxEpoch,
         ~conn.closing
  PROVE  LET y == Connected(Unlocked(conn), conn.epoch + 1)
         IN  /\ Free(y, t) /\ Rightly(y, t, conn.task[t].place)
             /\ y.transport # 0 /\ ~Blocked(y, t)
             /\ conn.task[t].place = "hello" => ~Ext(y)
<1> DEFINE x == Unlocked(conn)
           e == conn.epoch + 1
           y == Connected(x, e)
<1>1. ~conn.frozen /\ conn.task[t].pc = "opening"
  BY DEF Is, Alive
<1>2. /\ Whole(conn) /\ Fine(conn, t) /\ t # "closer"
      /\ \A u \in Tasks : Fine(conn, u) /\ SentOK(conn, u)
  BY <1>1 DEF Sound, Fine, RoleOK
<1>3. /\ Free(x, t) /\ Rightly(x, t, conn.task[t].place)
      /\ conn.task[t].place = "hello" => ~Ext(conn)
      /\ conn.connecting = t /\ conn \in Connection
  BY <1>1, <1>2, UnlocksFree
<1>4. /\ conn.transport = 0
      /\ \/ Phase(conn) = "none"
         \/ t = "cleanup" /\ Phase(conn) = "interrupt" /\ ~Ext(conn)
  BY <1>1, <1>2 DEF Fine, LocksOK, RoleOK
<1>5. conn.epoch \in Nat /\ e \in Epoch /\ e > 0 /\ e # conn.epoch
  BY <1>3, ConnectionAssumption DEF Connection, Epoch
<1>6. conn.open = {}
  BY <1>2, <1>4 DEF Whole, TransportOK
<1>7. /\ x \in Connection /\ Alike(conn, x) /\ x.connecting = None
      /\ x.task = conn.task
  BY <1>3 DEF Unlocked, Connection, Alike
<1>8. /\ y \in Connection /\ y.epoch = e /\ y.transport = e /\ y.open = {e}
      /\ y.peer = "up" /\ y.listener = "running" /\ ~y.protocol /\ ~y.initialized
      /\ y.target = conn.target /\ y.task = conn.task
      /\ y.connecting = None /\ y.owner = conn.owner
      /\ y.handshaker = conn.handshaker /\ y.beenReady = conn.beenReady
      /\ y.closing = conn.closing /\ y.reset = conn.reset /\ y.frozen = conn.frozen
      /\ y.restored = conn.restored /\ y.notified = conn.notified
      /\ y.hellos = conn.hellos
  <2> HIDE DEF x, e
  <2>1. x.open \cup {e} = {e}
    BY <1>6, <1>7 DEF Alike
  <2> QED BY <1>5, <1>7, <2>1, ConnectedFacts DEF Alike
<1> HIDE DEF x, y
<1>9. Clean(y)
  BY <1>2, <1>5, <1>8 DEF Whole, HellosOK, Clean
<1>10. Whole(y)
  <2>1. TransportOK(y) /\ ReadyOK(y)
    BY <1>5, <1>8 DEF TransportOK, ReadyOK
  <2>2. ResetOK(y) /\ ListenerOK(y)
    BY <1>2, <1>4, <1>5, <1>8
       DEF Whole, ResetOK, ListenerOK, Phase, Resetting, Ext, Before, Early
  <2>3. NotifiedOK(y)
    <3>1. ~Untold(conn)
      BY <1>4 DEF Untold, Before, Early
    <3>2. 1..(e - 1) = 1..conn.epoch /\ ToSet(conn.notified) \subseteq 1..e
          /\ e \notin ToSet(conn.notified)
      BY <1>2, <1>5 DEF Whole, NotifiedOK
    <3>3. 1..conn.epoch \subseteq ToSet(conn.notified)
      <4> SUFFICES ASSUME NEW k \in 1..conn.epoch PROVE k \in ToSet(conn.notified)
        OBVIOUS
      <4>1. k = conn.epoch \/ k \in 1..(conn.epoch - 1)
        BY <1>5
      <4> QED BY <1>2, <1>5, <3>1, <4>1 DEF Whole, NotifiedOK
    <3>4. Phase(y) \notin Before
      BY <1>4, <1>8 DEF Phase, Before, Early
    <3> QED BY <1>2, <1>5, <1>8, <3>2, <3>3, <3>4 DEF Whole, NotifiedOK, Untold
  <2>4. HellosOK(y)
    BY <1>2, <1>5, <1>8, <1>9 DEF Whole, HellosOK, Ext
  <2> QED BY <1>8, <2>1, <2>2, <2>3, <2>4 DEF Whole
<1>11. ASSUME NEW u \in Tasks PROVE WaitOK(y, u)
  <2>1. WaitOK(conn, u) /\ y.task[u] = conn.task[u]
    BY <1>2, <1>8 DEF Fine
  <2>2. conn.listener = "none"
    BY <1>2, <1>4 DEF Whole, ListenerOK
  <2>3. Phase(conn) \notin Early
    BY <1>4 DEF Early
  <2> QED BY <1>8, <2>1, <2>2, <2>3 DEF WaitOK, Ext
<1>12. ASSUME NEW u \in Tasks, u # t PROVE Fine(y, u) /\ SentOK(y, u)
  <2>1. Fine(conn, u) /\ SentOK(conn, u) /\ u # None /\ conn.connecting # u
        /\ y.task[u] = conn.task[u]
    BY <1>2, <1>3, <1>8, <1>12, ConnectionAssumption DEF Tasks, None
  <2>2. LocksOK(y, u)
    BY <1>8, <1>9, <2>1 DEF Fine, LocksOK
  <2>3. PlaceOK(y, u)
    BY <1>8, <2>1 DEF Fine, PlaceOK, Ext
  <2>4. RoleOK(y, u)
    BY <1>8, <2>1 DEF Fine, RoleOK, Ext, Resetting, Phase
  <2> QED BY <1>11, <2>1, <2>2, <2>3, <2>4 DEF Fine, SentOK
<1>13. /\ x.task[t].sent = {} /\ x.task[t].pc # "replying" /\ x.owner # t
       /\ Resetting(x) => x.reset.by # t
       /\ t = "cleanup" => ~x.task[t].cancelled /\ Phase(x) = "interrupt" /\ ~Ext(x)
  BY <1>3 DEF Free, Runs
<1>14. t # None
  BY ConnectionAssumption DEF Tasks, None
<1>15. Runs(y, t)
  BY <1>1, <1>2, <1>7, <1>8, <1>10, <1>11, <1>12, <1>13, <1>14
     DEF Runs, Alike, Resetting, Phase, Ext
<1>16. Free(y, t)
  BY <1>7, <1>8, <1>9, <1>13, <1>15 DEF Free, Alike, Tidy
<1>17. ~Blocked(y, t)
  BY <1>4, <1>8 DEF Blocked, Resetting, Phase
<1> QED BY <1>3, <1>5, <1>7, <1>8, <1>16, <1>17 DEF Rightly, Alike, Ext, x, y

LEMMA OpenedSound ==
  ASSUME Sound(conn), NEW t \in Tasks, Opened(t)
  PROVE  Sound(conn')
<1> DEFINE x == Unlocked(conn)
           e == conn.epoch + 1
           place == conn.task[t].place
           y == Connected(x, e)
<1>1. /\ Is(t, "opening") /\ conn.epoch < MaxEpoch
      /\ conn' = IF x.closing THEN Error(x, t, place) ELSE Returns(y, t, place)
  BY Zenon DEF Opened, Becomes, Place, Connected
<1>2. ~conn.frozen /\ conn.task[t].pc = "opening" /\ t # "closer"
  BY <1>1 DEF Is, Alive, Sound, Fine, RoleOK
<1>3. Free(x, t) /\ Rightly(x, t, place) /\ conn \in Connection
  BY <1>2, UnlocksFree
<1>4. x.closing = conn.closing
  BY <1>3 DEF Unlocked, Connection
<1>5. ~conn.closing => /\ Free(y, t) /\ Rightly(y, t, place)
                       /\ y.transport # 0 /\ ~Blocked(y, t)
                       /\ place = "hello" => ~Ext(y)
  BY <1>1, OpenedFree
<1> HIDE DEF x, y, place
<1>6. ~conn.closing => Sound(Returns(y, t, place))
  BY <1>5, ReturnsSound
<1>7. Sound(Error(x, t, place))
  BY <1>3, ErrorSound DEF Free, Rightly
<1> QED BY <1>1, <1>4, <1>6, <1>7

LEMMA OpenFailsSound ==
  ASSUME Sound(conn), NEW t \in Tasks, OpenFails(t)
  PROVE  Sound(conn')
<1> DEFINE x == Unlocked(conn)
           place == conn.task[t].place
<1>1. /\ ~conn.frozen /\ conn.task[t].pc = "opening"
      /\ conn' = Error(x, t, place)
  BY DEF OpenFails, Is, Alive, Place
<1>2. t # "closer"
  BY <1>1 DEF Sound, Fine, RoleOK
<1>3. Free(x, t) /\ Rightly(x, t, place)
  BY <1>1, <1>2, UnlocksFree
<1> HIDE DEF x, place
<1> QED BY <1>1, <1>3, ErrorSound DEF Free, Rightly

LEMMA InitializeLockTakenSound ==
  ASSUME Sound(conn), NEW t \in Tasks, InitializeLockTaken(t)
  PROVE  Sound(conn')
<1>1. /\ ~conn.frozen /\ conn.task[t].pc = "initialize_lock"
      /\ conn.handshaker = None /\ conn' = Initializes(conn, t)
  BY DEF InitializeLockTaken, Is, Alive, Becomes
<1>2. t # "closer"
  BY <1>1 DEF Sound, Fine, RoleOK
<1>3. Woken(conn, t)
  BY <1>1, <1>2 DEF Woken
<1>4. Free(conn, t)
  BY <1>1, <1>3, WokenFree
<1> QED BY <1>1, <1>4, InitializesSound

(* The answer to a request.                                                *)
WithFuture(x, t, a) == [x EXCEPT !.task[t].future = a]

LEMMA FutureFacts ==
  ASSUME NEW x \in Connection, NEW t \in Tasks,
         NEW a \in {"none", "waits", "answered", "refused", "overload", "lost"},
         NEW y, y = WithFuture(x, t, a)
  PROVE  /\ Moved(x, y, t) /\ y.task[t].future = a
         /\ y.task[t].pc = x.task[t].pc /\ y.task[t].place = x.task[t].place
         /\ y.task[t].then = x.task[t].then /\ y.task[t].epoch = x.task[t].epoch
         /\ y.task[t].init = x.task[t].init
         /\ y.task[t].attempt = x.task[t].attempt
         /\ y.task[t].cancelled = x.task[t].cancelled
         /\ y.task[t].sent = x.task[t].sent
<1> DEFINE c == x.task[t]
           d == [c EXCEPT !.future = a]
<1>1. x.task \in [Tasks -> Task] /\ c \in Task
  BY DEF Connection
<1>2. y = [x EXCEPT !.task = [x.task EXCEPT ![t] = d]]
  BY <1>1 DEF WithFuture, Connection
<1>3. /\ d \in Task /\ d.pc = c.pc /\ d.place = c.place /\ d.then = c.then
      /\ d.epoch = c.epoch /\ d.init = c.init /\ d.future = a
      /\ d.attempt = c.attempt /\ d.cancelled = c.cancelled /\ d.sent = c.sent
  BY <1>1 DEF Task
<1> HIDE DEF d
<1>4. [x.task EXCEPT ![t] = d] \in [Tasks -> Task]
  BY <1>1, <1>3
<1>5. y \in Connection /\ y.task[t] = d
  BY <1>1, <1>2, <1>4 DEF Connection
<1>6. Same(x, y) /\ Others(x, y, t)
  BY <1>1, <1>2 DEF Connection, Same, Alike, Others
<1> QED BY <1>3, <1>5, <1>6 DEF Moved

LEMMA RespondsSound ==
  ASSUME Sound(conn), NEW t \in Tasks, Responds(t)
  PROVE  Sound(conn')
<1>1. ~conn.frozen /\ conn.task[t].pc = "request"
  BY DEF Responds, Is, Alive
<1>2. PICK a \in {"answered", "refused", "overload"} : conn' = WithFuture(conn, t, a)
  BY DEF Responds, WithFuture
<1> DEFINE y == WithFuture(conn, t, a)
<1>3. t # "closer"
  BY <1>1 DEF Sound, Fine, RoleOK
<1>4. Woken(conn, t)
  BY <1>1, <1>3 DEF Woken
<1>5. Runs(conn, t) /\ Fine(conn, t) /\ SentOK(conn, t) /\ conn \in Connection
  BY <1>1, <1>4, WokenRuns DEF Runs, Sound, Whole
<1>6. /\ Moved(conn, y, t) /\ y.task[t].future = a
      /\ y.task[t].pc = conn.task[t].pc /\ y.task[t].place = conn.task[t].place
      /\ y.task[t].then = conn.task[t].then
      /\ y.task[t].epoch = conn.task[t].epoch /\ y.task[t].init = conn.task[t].init
      /\ y.task[t].cancelled = conn.task[t].cancelled
      /\ y.task[t].sent = conn.task[t].sent
  BY <1>5, FutureFacts
<1> HIDE DEF y
<1>7. LocksOK(y, t)
  BY <1>5, <1>6, SameWhole
     DEF Fine, LocksOK, Runs, Moved, Same, Alike, Phase, IsCurrent
<1>8. PlaceOK(y, t)
  BY <1>1, <1>5, <1>6 DEF Fine, PlaceOK, Over, Handshake
<1>9. RoleOK(y, t)
  BY <1>1, <1>3, <1>5, <1>6 DEF Fine, RoleOK, Moved, Same, Alike, Phase, Resetting, Ext
<1>10. WaitOK(y, t) /\ SentOK(y, t)
  BY <1>5, <1>6 DEF WaitOK, SentOK
<1>11. Sound(y)
  BY <1>5, <1>6, <1>7, <1>8, <1>9, <1>10, Rests DEF Fine
<1> QED BY <1>2, <1>11 DEF y

(* The task that made a request runs again. *)
Requested(x, t) ==
  LET c == x.task[t]
  IN  /\ Runs(x, t) /\ c.epoch > 0
      /\ c.place \in {"send", "rehydrate", "hello"}
      /\ c.place # "send" => x.handshaker = t /\ c.init > 0
      /\ x.owner = t => c.place = "rehydrate"
      /\ c.sent # {} => c.place = "send" /\ c.sent = {c.epoch}
      /\ Tidy(x, t) \/ (c.place = "hello" /\ IsCurrent(x, c.init))

LEMMA WokenRequested ==
  ASSUME Sound(conn), ~conn.frozen, NEW t \in Tasks,
         conn.task[t].pc \in {"request", "overloaded"}
  PROVE  Requested(conn, t)
<1>1. t # "closer"
  BY DEF Sound, Fine, RoleOK
<1>2. Woken(conn, t)
  BY <1>1 DEF Woken
<1>3. /\ Runs(conn, t) /\ LocksOK(conn, t) /\ PlaceOK(conn, t)
      /\ Tidy(conn, t) \/ (/\ conn.task[t].place = "hello"
                           /\ IsCurrent(conn, conn.task[t].init))
  BY <1>2, WokenRuns DEF Fine
<1> QED BY <1>3 DEF Requested, LocksOK, PlaceOK, Over, Handshake

LEMMA FutureCleared ==
  ASSUME NEW x, NEW t \in Tasks, Requested(x, t)
  PROVE  LET y == WithFuture(x, t, "none")
         IN  /\ Requested(y, t) /\ y.task[t].epoch = x.task[t].epoch
             /\ y.task[t].place = x.task[t].place
             /\ y.task[t].attempt = x.task[t].attempt
<1> DEFINE y == WithFuture(x, t, "none")
           c == x.task[t]
           d == y.task[t]
<1>1. x \in Connection /\ Runs(x, t)
  BY DEF Requested, Runs, Whole
<1>2. \A a \in {"none", "waits", "answered", "refused", "overload", "lost"} :
        LET z == WithFuture(x, t, a)
        IN  /\ Moved(x, z, t) /\ z.task[t].future = a
            /\ z.task[t].place = c.place
            /\ z.task[t].epoch = c.epoch /\ z.task[t].init = c.init
            /\ z.task[t].attempt = c.attempt
            /\ z.task[t].cancelled = c.cancelled /\ z.task[t].sent = c.sent
  BY <1>1, FutureFacts
<1>3. "none" \in {"none", "waits", "answered", "refused", "overload", "lost"}
  OBVIOUS
<1>4. /\ Moved(x, y, t) /\ d.future = "none" /\ d.place = c.place
      /\ d.epoch = c.epoch /\ d.init = c.init /\ d.attempt = c.attempt
      /\ d.cancelled = c.cancelled /\ d.sent = c.sent
  BY <1>2, <1>3
<1> HIDE DEF y
<1>5. WaitOK(y, t)
  BY <1>4 DEF WaitOK
<1>6. Runs(y, t) /\ (Tidy(y, t) <=> Tidy(x, t))
  BY <1>1, <1>4, <1>5, MovedRuns DEF Runs
<1>7. Requested(y, t)
  BY <1>4, <1>6 DEF Requested, Moved, Same, Alike, IsCurrent
<1> QED BY <1>4, <1>7 DEF y

LEMMA RequestErrorSound ==
  ASSUME NEW x, NEW t \in Tasks, Requested(x, t)
  PROVE  Sound(Error(x, t, x.task[t].place))
<1> DEFINE place == x.task[t].place
<1>1. /\ Runs(x, t)
      /\ place = "hello" => x.task[t].init > 0 /\ x.owner # t
      /\ Tidy(x, t) \/ (place = "hello" /\ IsCurrent(x, x.task[t].init))
  BY DEF Requested
<1> HIDE DEF place
<1>2. Sound(Error(x, t, place))
  BY <1>1, ErrorSound
<1> QED BY <1>2 DEF place

LEMMA LostSound ==
  ASSUME NEW x, NEW t \in Tasks, Requested(x, t)
  PROVE  Sound(Lost(x, t))
<1> DEFINE place == x.task[t].place
<1>1. Sound(Error(x, t, place))
  BY RequestErrorSound
<1>2. ASSUME IsCurrent(x, x.task[t].epoch), ~OwnsReset(x, t)
      PROVE  Sound(StartReset(x, t, "raise", place, TRUE))
  <2>1. Runs(x, t)
    BY DEF Requested
  <2>2. t # "cleanup"
    BY <1>2, <2>1 DEF Runs, OwnsReset, Resetting, Phase
  <2>3. x.transport # 0
    BY <1>2 DEF Requested, IsCurrent
  <2>4. Resettable(x, t, "raise", place)
    BY DEF Resettable, Requested, Thens, Places, Handshake
  <2> HIDE DEF place
  <2> QED BY <2>1, <2>2, <2>3, <2>4, StartResetSound
<1>3. Lost(x, t) = IF IsCurrent(x, x.task[t].epoch) /\ ~OwnsReset(x, t)
                     THEN StartReset(x, t, "raise", place, TRUE)
                     ELSE Error(x, t, place)
  BY DEF Lost
<1> HIDE DEF place
<1> QED BY <1>1, <1>2, <1>3

(* The handshake is made. *)
LEMMA ProtocolRuns ==
  ASSUME NEW x, NEW t \in Tasks, Runs(x, t), NEW y, y = [x EXCEPT !.protocol = TRUE]
  PROVE  /\ Runs(y, t) /\ Tidy(y, t) /\ y.task = x.task /\ y.handshaker = x.handshaker
         /\ y.transport = x.transport
<1>1. x \in Connection
  BY DEF Runs, Whole
<1>2. /\ y \in Connection /\ y.hellos = x.hellos /\ y.listener = x.listener
      /\ y.target = x.target /\ y.epoch = x.epoch /\ y.transport = x.transport
      /\ y.peer = x.peer /\ y.task = x.task
      /\ y.connecting = x.connecting /\ y.owner = x.owner
      /\ y.handshaker = x.handshaker /\ y.protocol
      /\ y.initialized = x.initialized /\ y.beenReady = x.beenReady
      /\ y.closing = x.closing /\ y.reset = x.reset /\ y.frozen = x.frozen
      /\ y.open = x.open /\ y.restored = x.restored /\ y.notified = x.notified
  BY <1>1 DEF Connection
<1>3. Clean(y)
  BY <1>2 DEF Clean
<1>4. Whole(y)
  BY <1>2, <1>3
     DEF Runs, Whole, TransportOK, ResetOK, ListenerOK, ReadyOK, NotifiedOK,
         HellosOK, Untold, Phase, Resetting, Ext
<1>5. ASSUME NEW u \in Tasks, u # t PROVE Fine(y, u) /\ SentOK(y, u)
  <2>1. Fine(x, u) /\ SentOK(x, u)
    BY <1>5 DEF Runs
  <2>2. LocksOK(y, u)
    BY <1>2, <1>3, <2>1 DEF Fine, LocksOK, Phase
  <2>3. PlaceOK(y, u)
    BY <1>2, <2>1 DEF Fine, PlaceOK, Ext
  <2>4. RoleOK(y, u)
    BY <1>2, <2>1 DEF Fine, RoleOK, Ext, Resetting, Phase
  <2>5. WaitOK(y, u) /\ SentOK(y, u)
    BY <1>2, <2>1 DEF Fine, WaitOK, SentOK, Ext, IsCurrent, Phase
  <2> QED BY <2>2, <2>3, <2>4, <2>5 DEF Fine
<1>6. WaitOK(y, t)
  BY <1>2 DEF Runs, WaitOK, Ext, IsCurrent, Phase
<1> QED BY <1>2, <1>3, <1>4, <1>5, <1>6 DEF Runs, Tidy, Resetting, Phase, Ext

LEMMA AnsweredSound ==
  ASSUME NEW x, NEW t \in Tasks, Requested(x, t)
  PROVE  Sound(Answered(x, t))
<1> DEFINE c == x.task[t]
<1>0. Runs(x, t)
  BY DEF Requested
<1>1. CASE c.place = "send"
  <2>1. Tidy(x, t) /\ x.owner # t
    BY <1>1 DEF Requested
  <2>2. Sound(Ends(x, t, "idle")) /\ Sound(Ends(x, t, "done"))
    BY <1>0, <2>1, EndsSound
  <2> QED BY <1>1, <2>2 DEF Answered
<1>2. CASE c.place = "rehydrate"
  <2>1. Tidy(x, t) /\ x.handshaker = t /\ c.init > 0 /\ c.sent = {}
    BY <1>2 DEF Requested
  <2>2. Sound(At(x, t, "handlers", "again"))
    BY <1>0, <2>1, AgainSound
  <2> QED BY <1>2, <2>2 DEF Answered
<1>3. CASE c.place = "hello"
  <2> DEFINE y == [x EXCEPT !.protocol = TRUE]
  <2>1. Answered(x, t) = IF Required(y, t) THEN RunsHandlers(y, t)
                         ELSE Error(x, t, "hello")
    BY <1>3 DEF Answered
  <2>2. Sound(Error(x, t, "hello"))
    BY <1>3, RequestErrorSound
  <2>3. /\ Runs(y, t) /\ Tidy(y, t) /\ y.task = x.task /\ y.handshaker = x.handshaker
        /\ y.transport = x.transport
    BY <1>0, ProtocolRuns
  <2> HIDE DEF y
  <2>4. ASSUME Required(y, t) PROVE Sound(RunsHandlers(y, t))
    <3>1. y.handshaker = t /\ y.task[t].init > 0 /\ y.task[t].sent = {}
      BY <1>3, <2>3 DEF Requested
    <3>2. y.transport # 0
      BY <2>4, <3>1 DEF Required, IsCurrent
    <3> QED BY <2>3, <3>1, <3>2, RunsHandlersSound
  <2> QED BY <2>1, <2>2, <2>4
<1> QED BY <1>1, <1>2, <1>3 DEF Requested

(* The attempt after the next delay. *)
Delayed(x, t, place) == [At(x, t, "overloaded", place) EXCEPT !.task[t].attempt = @ + 1]

LEMMA DelayedSound ==
  ASSUME NEW x, NEW t \in Tasks, Requested(x, t), x.task[t].attempt < Attempts
  PROVE  Sound(Delayed(x, t, x.task[t].place))
<1> DEFINE c == x.task[t]
           place == x.task[t].place
           a == At(x, t, "overloaded", place)
           y == Delayed(x, t, place)
           d == [a.task[t] EXCEPT !.attempt = c.attempt + 1]
<1>1. /\ Runs(x, t) /\ Whole(x) /\ x \in Connection /\ c \in Task
      /\ "overloaded" \in Pcs /\ place \in Places
  BY DEF Requested, Runs, Whole, Connection, Task, Pcs
<1> HIDE DEF place
<1>2. /\ Moved(x, a, t) /\ Kept(c, a.task[t]) /\ a.task[t].pc = "overloaded"
      /\ a.task[t].place = place
  BY <1>1, AtFacts
<1>3. y = [a EXCEPT !.task[t].attempt = @ + 1]
  BY DEF Delayed
<1> HIDE DEF a
<1>4. a \in Connection /\ a.task[t] \in Task /\ a.task \in [Tasks -> Task]
  BY <1>2 DEF Moved, Connection
<1>5. a.task[t].attempt = c.attempt /\ c.attempt + 1 \in 1..Attempts
  BY <1>1, <1>2, ConnectionAssumption DEF Kept, Task
<1>6. y = [a EXCEPT !.task = [a.task EXCEPT ![t] = d]]
  BY <1>3, <1>4, <1>5 DEF Connection
<1>7. /\ d \in Task /\ d.pc = "overloaded" /\ d.place = place /\ d.init = c.init
      /\ d.sent = c.sent /\ d.epoch = c.epoch /\ d.future = c.future
      /\ d.cancelled = c.cancelled
  BY <1>2, <1>4, <1>5 DEF Task, Kept
<1> HIDE DEF d, y
<1>8. [a.task EXCEPT ![t] = d] \in [Tasks -> Task]
  BY <1>4, <1>7
<1>9. y \in Connection /\ y.task[t] = d
  BY <1>4, <1>6, <1>8 DEF Connection
<1>10. Same(x, y) /\ Others(x, y, t)
  BY <1>2, <1>4, <1>6 DEF Connection, Moved, Same, Alike, Others
<1>11. Moved(x, y, t)
  BY <1>9, <1>10 DEF Moved
<1>12. Clean(y) <=> Clean(x)
  BY <1>1, <1>9, <1>10, SameWhole
<1>13. LocksOK(y, t)
  BY <1>7, <1>9, <1>10, <1>12
     DEF LocksOK, Over, Requested, Runs, Tidy, Same, Alike, Handshake, IsCurrent, place
<1>14. PlaceOK(y, t)
  BY <1>7, <1>9 DEF PlaceOK, Over, Handshake, Requested, place
<1>15. RoleOK(y, t)
  BY <1>1, <1>7, <1>9, <1>10 DEF RoleOK, Runs, Same, Alike, Resetting, Phase, Ext
<1>16. WaitOK(y, t) /\ SentOK(y, t)
  BY <1>1, <1>7, <1>9, <1>10, WaitOKKept DEF Runs, SentOK
<1>17. Sound(y)
  BY <1>1, <1>11, <1>13, <1>14, <1>15, <1>16, Rests DEF Fine
<1> QED BY <1>17 DEF y, place

LEMMA RequestResumesSound ==
  ASSUME Sound(conn), NEW t \in Tasks, RequestResumes(t)
  PROVE  Sound(conn')
<1> DEFINE c == conn.task[t]
           place == conn.task[t].place
           x == WithFuture(conn, t, "none")
<1>1. ~conn.frozen /\ c.pc = "request"
  BY DEF RequestResumes, Is, Alive
<1>2. conn' = CASE c.future = "answered" -> Answered(x, t)
                [] c.future = "lost" -> Lost(x, t)
                [] c.future = "overload" /\ MayRetry(c) -> Delayed(x, t, place)
                [] OTHER -> Error(x, t, place)
  BY Zenon DEF RequestResumes, WithFuture, Becomes, Delayed
<1>3. Requested(conn, t)
  BY <1>1, WokenRequested
<1>4. /\ Requested(x, t) /\ x.task[t].attempt = c.attempt /\ x.task[t].place = place
  BY <1>3, FutureCleared
<1> HIDE DEF x, place
<1>5. Sound(Answered(x, t)) /\ Sound(Lost(x, t))
  BY <1>4, AnsweredSound, LostSound
<1>6. MayRetry(c) => Sound(Delayed(x, t, place))
  BY <1>4, DelayedSound DEF MayRetry
<1>7. Sound(Error(x, t, place))
  BY <1>4, RequestErrorSound
<1> QED BY <1>2, <1>5, <1>6, <1>7

LEMMA RequestTimesOutSound ==
  ASSUME Sound(conn), NEW t \in Tasks, RequestTimesOut(t)
  PROVE  Sound(conn')
<1> DEFINE x == WithFuture(conn, t, "none")
<1>1. ~conn.frozen /\ conn.task[t].pc = "request" /\ conn' = Lost(x, t)
  BY Zenon DEF RequestTimesOut, Is, Alive, WithFuture
<1>2. Requested(conn, t)
  BY <1>1, WokenRequested
<1>3. Requested(x, t)
  BY <1>2, FutureCleared
<1> HIDE DEF x
<1> QED BY <1>1, <1>3, LostSound

LEMMA RetryWakesSound ==
  ASSUME Sound(conn), NEW t \in Tasks, RetryWakes(t)
  PROVE  Sound(conn')
<1> DEFINE c == conn.task[t]
           place == conn.task[t].place
           y == SendsOnce(conn, t, place)
<1>1. /\ ~conn.frozen /\ c.pc = "overloaded"
      /\ conn' = IF IsCurrent(conn, c.epoch) THEN y ELSE Error(conn, t, place)
  BY DEF RetryWakes, Is, Alive, Becomes, Retry
<1>2. Requested(conn, t)
  BY <1>1, WokenRequested
<1>3. Sound(Error(conn, t, place))
  BY <1>2, RequestErrorSound
<1>4. ASSUME IsCurrent(conn, c.epoch) PROVE Sound(y)
  <2>1. /\ Runs(conn, t) /\ conn \in Connection /\ place \in Places
        /\ conn.transport \in {0, conn.epoch}
    BY <1>2 DEF Requested, Runs, Whole, Connection, Task, TransportOK
  <2>2. conn.transport = c.epoch /\ conn.epoch = c.epoch /\ c.epoch > 0
    BY <1>2, <1>4 DEF Requested, IsCurrent
  <2>3. Ext(conn) => conn.listener = "running" \/ Phase(conn) \in Early
    BY <2>1, <2>2
       DEF Runs, Whole, ListenerOK, ResetOK, Early, Phase, Connection, Reset
  <2>4. Sendable(conn, t, place)
    BY <1>2, <2>2, <2>3 DEF Sendable, Requested
  <2> HIDE DEF y, place
  <2>5. Asks(conn, y, t, place)
    BY <2>1, SendsOnceAsks DEF y
  <2> QED BY <2>1, <2>4, <2>5, AsksSound
<1> HIDE DEF y, place
<1> QED BY <1>1, <1>3, <1>4

LEMMA ReplySentSound ==
  ASSUME Sound(conn), NEW t \in Tasks, ReplySent(t)
  PROVE  Sound(conn')
<1>1. /\ ~conn.frozen /\ conn.task[t].pc = "replying" /\ conn' = Ends(conn, t, "done")
  BY DEF ReplySent, Is, Alive, Becomes
<1>2. t # "closer"
  BY <1>1 DEF Sound, Fine, RoleOK
<1>3. Woken(conn, t)
  BY <1>1, <1>2 DEF Woken
<1>4. Runs(conn, t) /\ Tidy(conn, t) /\ LocksOK(conn, t)
  BY <1>1, <1>3, WokenRuns DEF Fine
<1>5. conn.owner # t
  BY <1>1, <1>4 DEF LocksOK
<1> QED BY <1>1, <1>4, <1>5, EndsSound

LEMMA ReplyFailsSound ==
  ASSUME Sound(conn), NEW t \in Tasks, ReplyFails(t)
  PROVE  Sound(conn')
<1>1. /\ ~conn.frozen /\ conn.task[t].pc = "replying"
      /\ conn' = IF IsCurrent(conn, conn.task[t].epoch)
                   THEN ResetsAndRaises(conn, t, "reply") ELSE Raises(conn, t)
  BY DEF ReplyFails, Is, Alive
<1>2. t # "closer"
  BY <1>1 DEF Sound, Fine, RoleOK
<1>3. Woken(conn, t)
  BY <1>1, <1>2 DEF Woken
<1>4. Runs(conn, t) /\ Tidy(conn, t) /\ LocksOK(conn, t) /\ PlaceOK(conn, t)
  BY <1>1, <1>3, WokenRuns DEF Fine
<1>5. conn.owner # t /\ conn.task[t].epoch > 0
  BY <1>1, <1>4 DEF LocksOK, PlaceOK, Over
<1>6. Resettable(conn, t, "raise", "reply")
  BY <1>5 DEF Resettable, Thens, Places, Handshake
<1>7. IsCurrent(conn, conn.task[t].epoch) => conn.transport # 0
  BY <1>5 DEF IsCurrent
<1>8. IsCurrent(conn, conn.task[t].epoch) => Sound(ResetsAndRaises(conn, t, "reply"))
  BY <1>4, <1>6, <1>7, ResetsAndRaisesSound
<1>9. Sound(Raises(conn, t))
  BY <1>4, RaisesSound
<1> QED BY <1>1, <1>8, <1>9

(* The task that runs the ready handlers. *)
LEMMA Handles ==
  ASSUME Sound(conn), NEW t \in Tasks, Is(t, "handlers")
  PROVE  /\ Runs(conn, t) /\ Tidy(conn, t) /\ t # "closer"
         /\ conn.handshaker = t /\ conn.owner \in {t, None}
         /\ conn.task[t].init > 0 /\ conn.task[t].sent = {}
<1>1. ~conn.frozen /\ conn.task[t].pc = "handlers"
  BY DEF Is, Alive
<1>2. t # "closer"
  BY <1>1 DEF Sound, Fine, RoleOK
<1>3. Woken(conn, t)
  BY <1>1, <1>2 DEF Woken
<1>4. Runs(conn, t) /\ Tidy(conn, t) /\ LocksOK(conn, t) /\ PlaceOK(conn, t)
  BY <1>1, <1>3, WokenRuns DEF Fine
<1>5. conn.handshaker = t /\ conn.task[t].init > 0 /\ conn.task[t].sent = {}
  BY <1>1, <1>4 DEF LocksOK, PlaceOK, Over, Handshake
<1>6. conn.owner \in {t, None}
  <2>1. conn.owner \in Tasks \cup {None}
    BY DEF Sound, Whole, Connection
  <2>2. conn.owner \in Tasks => conn.handshaker = conn.owner
    BY <1>1 DEF Sound, Fine, LocksOK
  <2> QED BY <1>5, <2>1, <2>2
<1> QED BY <1>2, <1>4, <1>5, <1>6

LEMMA HandlerCallsSound ==
  ASSUME Sound(conn), NEW t \in Tasks, HandlerCalls(t)
  PROVE  Sound(conn')
<1>1. /\ Is(t, "handlers")
      /\ conn' = IF MayReenter(conn, t) /\ Required(conn, t)
                   THEN Send(conn, t, "rehydrate") ELSE Raises(conn, t)
  BY DEF HandlerCalls, Becomes
<1>2. /\ Runs(conn, t) /\ Tidy(conn, t) /\ conn.handshaker = t
      /\ conn.task[t].init > 0 /\ conn.task[t].sent = {}
  BY <1>1, Handles
<1>3. Sound(Raises(conn, t))
  BY <1>2, RaisesSound
<1>4. ASSUME Required(conn, t) PROVE Sound(Send(conn, t, "rehydrate"))
  <2>1. ~Blocked(conn, t) /\ conn.transport # 0
    BY <1>2, <1>4 DEF Required, IsCurrent
  <2>2. Ext(conn) => conn.listener = "running"
    BY <1>2, <2>1, FoundListening
  <2>3. Sendable(conn, t, "rehydrate")
    BY <1>2, <2>1, <2>2 DEF Sendable
  <2> QED BY <1>2, <2>3, SendSound
<1> QED BY <1>1, <1>3, <1>4

LEMMA HandlersLeave ==
  ASSUME Sound(conn), NEW t \in Tasks, Is(t, "handlers")
  PROVE  Sound(Leaves(NotReady(conn), t))
<1> DEFINE y == NotReady(conn)
<1>1. Runs(conn, t) /\ Tidy(conn, t) /\ conn.owner \in {t, None}
  BY Handles
<1>2. /\ Runs(y, t) /\ y.owner # t /\ y.handshaker = conn.handshaker
      /\ (Clean(y) <=> Clean(conn))
  BY <1>1, NotReadyRuns
<1> HIDE DEF y
<1>3. Sound(Leaves(y, t))
  BY <1>1, <1>2, LeavesSound DEF Tidy
<1> QED BY <1>3 DEF y

LEMMA HandlerFailsSound ==
  ASSUME Sound(conn), NEW t \in Tasks, HandlerFails(t)
  PROVE  Sound(conn')
  BY HandlersLeave DEF HandlerFails

(* The handshake is over: the connection is ready.                         *)
Restores(x, t) ==
  [x EXCEPT !.owner = None, !.handshaker = None, !.initialized = TRUE,
            !.beenReady = TRUE, !.restored = @ \cup {x.task[t].init}]

LEMMA RestoresFree ==
  ASSUME NEW x, NEW t \in Tasks, Runs(x, t), x.handshaker = t, x.owner \in {t, None},
         x.task[t].sent = {}, Required(x, t), x.task[t].pc = "handlers"
  PROVE  Free(Restores(x, t), t)
<1> DEFINE y == Restores(x, t)
           o == x.restored \cup {x.task[t].init}
<1>1. x \in Connection /\ x.task[t] \in Task
  BY DEF Runs, Whole, Connection
<1>2. o \subseteq Epoch
  BY <1>1 DEF Connection, Task
<1>3. y = [x EXCEPT !.owner = None, !.handshaker = None, !.initialized = TRUE,
                    !.beenReady = TRUE, !.restored = o]
  BY DEF Restores
<1> HIDE DEF o, y
<1>4. /\ y \in Connection /\ y.hellos = x.hellos /\ y.listener = x.listener
      /\ y.target = x.target /\ y.epoch = x.epoch /\ y.transport = x.transport
      /\ y.peer = x.peer /\ y.task = x.task
      /\ y.connecting = x.connecting /\ y.owner = None
      /\ y.handshaker = None /\ y.protocol = x.protocol
      /\ y.initialized /\ y.restored = o
      /\ y.closing = x.closing /\ y.reset = x.reset /\ y.frozen = x.frozen
      /\ y.open = x.open /\ y.notified = x.notified
  BY <1>1, <1>2, <1>3 DEF Connection
<1>5. /\ x.protocol /\ x.epoch \in o
  BY DEF Required, IsCurrent, o
<1>6. Clean(y)
  BY <1>4, <1>5 DEF Clean
<1>7. Whole(y)
  BY <1>4, <1>5, <1>6
     DEF Runs, Whole, TransportOK, ResetOK, ListenerOK, ReadyOK, NotifiedOK,
         HellosOK, Untold, Phase, Resetting, Ext
<1>8. t # None
  BY ConnectionAssumption DEF Tasks, None
<1>9. ASSUME NEW u \in Tasks, u # t PROVE Fine(y, u) /\ SentOK(y, u)
  <2>1. Fine(x, u) /\ SentOK(x, u) /\ u # None
    BY <1>9, ConnectionAssumption DEF Runs, Tasks, None
  <2>2. LocksOK(y, u)
    BY <1>4, <1>6, <1>9, <2>1 DEF Fine, LocksOK, Phase
  <2>3. PlaceOK(y, u)
    BY <1>4, <2>1 DEF Fine, PlaceOK, Ext
  <2>4. RoleOK(y, u)
    BY <1>4, <2>1 DEF Fine, RoleOK, Ext, Resetting, Phase
  <2>5. WaitOK(y, u) /\ SentOK(y, u)
    BY <1>4, <2>1 DEF Fine, WaitOK, SentOK, Ext, IsCurrent, Phase
  <2> QED BY <2>2, <2>3, <2>4, <2>5 DEF Fine
<1>10. WaitOK(y, t)
  BY <1>4 DEF Runs, WaitOK, Ext, IsCurrent, Phase
<1>11. Runs(y, t)
  BY <1>4, <1>7, <1>8, <1>9, <1>10 DEF Runs, Resetting, Phase, Ext
<1>12. Free(y, t)
  BY <1>4, <1>6, <1>8, <1>11 DEF Free, Tidy
<1> QED BY <1>12 DEF y

LEMMA HandlersDoneSound ==
  ASSUME Sound(conn), NEW t \in Tasks, HandlersDone(t)
  PROVE  Sound(conn')
<1>1. /\ Is(t, "handlers")
      /\ conn' = IF Required(conn, t) THEN Ready(Restores(conn, t), t)
                 ELSE Leaves(NotReady(conn), t)
  BY DEF HandlersDone, Becomes, Restores
<1>2. /\ Runs(conn, t) /\ conn.handshaker = t /\ conn.owner \in {t, None}
      /\ conn.task[t].sent = {} /\ conn.task[t].pc = "handlers"
  BY <1>1, Handles DEF Is
<1>3. Required(conn, t) => Free(Restores(conn, t), t)
  BY <1>2, RestoresFree
<1>4. Required(conn, t) => Sound(Ready(Restores(conn, t), t))
  BY <1>3, ReadySound
<1> QED BY <1>1, <1>4, HandlersLeave

-----------------------------------------------------------------------------
(* A reset is over.                                                        *)

(* The task that waited for it goes on. *)
Resumes(x, t) ==
  LET c == x.task[t]
  IN  /\ Runs(x, t) /\ Tidy(x, t) /\ t # "cleanup"
      /\ c.then \in {"raise", "retry", "backoff"}
      /\ c.then = "retry" => /\ Rightly(x, t, c.place) /\ ~Ext(x)
                             /\ c.sent = {} /\ c.pc # "replying"
      /\ c.then = "backoff" => c.place = "out"
      /\ x.owner = t => c.place \in {"first", "rehydrate", "again"}
      /\ c.place = "hello" => c.init > 0

LEMMA AfterResetSound ==
  ASSUME NEW x, NEW t \in Tasks, Resumes(x, t)
  PROVE  Sound(AfterReset(x, t))
<1> DEFINE c == x.task[t]
           place == c.place
<1>1. CASE c.then = "retry" /\ ~c.cancelled
  <2>1. Free(x, t) /\ Rightly(x, t, place) /\ ~Ext(x)
    BY <1>1 DEF Resumes, Free, Rightly, Entries
  <2>2. AfterReset(x, t) = GoesOn(x, t, place)
    BY <1>1 DEF AfterReset
  <2> HIDE DEF place
  <2>3. Sound(GoesOn(x, t, place))
    BY <2>1, BeginsSound
  <2> QED BY <2>2, <2>3
<1>2. CASE c.then = "backoff" /\ ~c.cancelled
  <2>1. AfterReset(x, t) = Ends(x, t, "backoff")
    BY <1>2 DEF AfterReset
  <2>2. Runs(x, t) /\ Tidy(x, t) /\ x.owner # t /\ t # "cleanup"
    BY <1>2 DEF Resumes
  <2> QED BY <2>1, <2>2, EndsSound
<1>3. CASE c.then = "raise" \/ c.cancelled
  <2>1. AfterReset(x, t) = Error(x, t, place)
    BY <1>3 DEF AfterReset, Resumes
  <2>2. /\ Runs(x, t) /\ Tidy(x, t)
        /\ place = "hello" => x.task[t].init > 0 /\ x.owner # t
    BY DEF Resumes
  <2> HIDE DEF place
  <2>3. Sound(Error(x, t, place))
    BY <2>2, ErrorSound
  <2> QED BY <2>1, <2>3
<1>4. c.cancelled \in BOOLEAN
  BY DEF Resumes, Runs, Whole, Connection, Task
<1> QED BY <1>1, <1>2, <1>3, <1>4 DEF Resumes

LEMMA UnlockedFacts ==
  ASSUME NEW x \in Connection
  PROVE  LET y == Unlocked(x)
         IN  y \in Connection /\ Alike(x, y) /\ y.connecting = None /\ y.task = x.task
<1> DEFINE y == Unlocked(x)
<1>1. y = [x EXCEPT !.connecting = None]
  BY DEF Unlocked
<1> HIDE DEF y
<1>2. y \in Connection /\ Alike(x, y) /\ y.connecting = None /\ y.task = x.task
  BY <1>1 DEF Connection, Alike
<1> QED BY <1>2 DEF y

(* Close has reset the connection. *)
LEMMA CloserDone ==
  ASSUME NEW x, Whole(x), ~x.frozen, ~Resetting(x), x.closing,
         \A u \in Tasks \ {"closer"} : Fine(x, u) /\ SentOK(x, u),
         x.connecting = "closer", x.owner # "closer", Tidy(x, "closer"),
         Ext(x) => x.transport = 0
  PROVE  Sound(Unlocked(Ends(x, "closer", "done")))
<1> DEFINE t == "closer"
           a == Ends(x, t, "done")
           y == Unlocked(a)
<1>1. /\ x \in Connection /\ t \in Tasks /\ "done" \in Pcs /\ t # None
  BY ConnectionAssumption DEF Whole, Tasks, Pcs, None
<1> HIDE DEF t
<1>2. Moved(x, a, t) /\ a.task[t] = [Fresh EXCEPT !.pc = "done"]
  BY <1>1, EndsFacts
<1> HIDE DEF a
<1>4. /\ y \in Connection /\ Alike(x, y) /\ y.connecting = None /\ Others(x, y, t)
      /\ y.task[t] = [Fresh EXCEPT !.pc = "done"]
  <2>1. a \in Connection /\ Alike(x, a) /\ Others(x, a, t)
    BY <1>2 DEF Moved, Same
  <2>2. y \in Connection /\ Alike(a, y) /\ y.connecting = None /\ y.task = a.task
    BY <2>1, UnlockedFacts
  <2> QED BY <1>2, <2>1, <2>2 DEF Alike, Others
<1> HIDE DEF y
<1>5. Whole(y) /\ (Clean(y) <=> Clean(x))
  BY <1>4, LockWhole
<1>6. ASSUME NEW u \in Tasks, u # t PROVE Fine(y, u) /\ SentOK(y, u)
  <2>1. /\ Fine(x, u) /\ SentOK(x, u) /\ u # None /\ x.connecting # u
        /\ y.task[u] = x.task[u]
    BY <1>4, <1>6, ConnectionAssumption DEF Tasks, None, Others, t
  <2>2. LocksOK(y, u)
    BY <1>4, <1>5, <2>1 DEF Fine, LocksOK, Alike, Phase, Resetting, Ext, IsCurrent
  <2>3. PlaceOK(y, u)
    BY <1>4, <2>1 DEF Fine, PlaceOK, Alike, Ext
  <2>4. RoleOK(y, u)
    BY <1>4, <2>1 DEF Fine, RoleOK, Alike, Ext, Resetting, Phase
  <2>5. WaitOK(y, u)
    BY <1>4, <2>1 DEF Fine, WaitOK, Alike, Ext, IsCurrent, Phase
  <2> QED BY <2>1, <2>2, <2>3, <2>4, <2>5 DEF Fine, SentOK
<1>7. LocksOK(y, t)
  BY <1>1, <1>4, <1>5 DEF LocksOK, Fresh, Over, Alike, Tidy, t
<1>8. PlaceOK(y, t)
  BY <1>4 DEF PlaceOK, Fresh, Over
<1>9. RoleOK(y, t)
  BY <1>4 DEF RoleOK, Fresh, Alike, Resetting, Phase, Ext, Handshake, Early, t
<1>10. WaitOK(y, t) /\ SentOK(y, t)
  BY <1>4 DEF WaitOK, SentOK, Fresh
<1>11. Sound(y)
  BY <1>4, <1>5, <1>6, <1>7, <1>8, <1>9, <1>10 DEF Sound, Fine, Alike
<1> QED BY <1>11 DEF y, a, t

LEMMA OtherResetEndsSound ==
  ASSUME Sound(conn), NEW t \in Tasks, OtherResetEnds(t)
  PROVE  Sound(conn')
<1>1. /\ ~conn.frozen /\ conn.task[t].pc = "rewait" /\ ~Blocked(conn, t)
      /\ conn' = AfterReset(conn, t)
  BY DEF OtherResetEnds, Is, Alive, Becomes
<1>2. /\ Whole(conn) /\ LocksOK(conn, t) /\ PlaceOK(conn, t) /\ RoleOK(conn, t)
      /\ \A u \in Tasks : Fine(conn, u) /\ SentOK(conn, u)
  BY <1>1 DEF Sound, Fine
<1>3. t # "cleanup" /\ ~Resetting(conn)
  BY <1>1, <1>2 DEF RoleOK, Blocked
<1>4. CASE t = "closer"
  <2>1. conn.task[t].then = "closed"
    BY <1>1, <1>2, <1>4 DEF RoleOK
  <2>2. conn' = Unlocked(Ends(conn, "closer", "done"))
    BY <1>1, <1>4, <2>1 DEF AfterReset
  <2>3. /\ conn.closing /\ conn.connecting = "closer"
        /\ Ext(conn) => conn.transport = 0
    BY <1>1, <1>2, <1>3, <1>4 DEF RoleOK, Resetting, Phase
  <2>4. conn.owner # "closer" /\ Tidy(conn, "closer")
    BY <1>1, <1>2, <1>4 DEF RoleOK, LocksOK, Tidy, Handshake
  <2> QED BY <1>1, <1>2, <1>3, <2>2, <2>3, <2>4, CloserDone
<1>5. CASE t # "closer"
  <2>1. Woken(conn, t)
    BY <1>1, <1>5 DEF Woken
  <2>2. Runs(conn, t) /\ Tidy(conn, t)
    BY <1>1, <2>1, WokenRuns
  <2>3. Resumes(conn, t)
    <3>1. conn.task[t].then \in {"raise", "retry", "backoff"}
      BY <1>1, <1>2, <1>5 DEF RoleOK, Whole, Connection, Task
    <3> QED BY <1>1, <1>2, <1>3, <2>2, <3>1
            DEF Resumes, RoleOK, PlaceOK, LocksOK, Rightly, Over, Handshake, Entries
  <2> QED BY <1>1, <2>3, AfterResetSound
<1> QED BY <1>4, <1>5

LEMMA ResetEndsSound ==
  ASSUME Sound(conn), ResetEnds
  PROVE  Sound(conn')
<1> DEFINE x == [conn EXCEPT !.reset = NoReset]
           t == conn.reset.by
<1>1. /\ ~conn.frozen /\ Phase(conn) = "over"
      /\ conn' = IF t = "listener" THEN x ELSE AfterReset(x, t)
  BY DEF ResetEnds, InPhase, Alive, Becomes, Phase
<1>2. /\ Whole(conn) /\ conn \in Connection
      /\ \A u \in Tasks : Fine(conn, u) /\ SentOK(conn, u)
  BY <1>1 DEF Sound, Whole
<1>3. NoReset \in Reset /\ NoReset.phase = "none"
  BY ConnectionAssumption DEF NoReset, Reset, None, Epoch
<1>4. /\ x \in Connection /\ x.hellos = conn.hellos /\ x.listener = conn.listener
      /\ x.target = conn.target /\ x.epoch = conn.epoch /\ x.transport = conn.transport
      /\ x.peer = conn.peer /\ x.task = conn.task
      /\ x.connecting = conn.connecting /\ x.owner = conn.owner
      /\ x.handshaker = conn.handshaker /\ x.protocol = conn.protocol
      /\ x.initialized = conn.initialized /\ x.beenReady = conn.beenReady
      /\ x.closing = conn.closing /\ x.reset = NoReset /\ x.frozen = conn.frozen
      /\ x.open = conn.open /\ x.restored = conn.restored /\ x.notified = conn.notified
  <2> HIDE DEF NoReset
  <2> QED BY <1>2, <1>3 DEF Connection
<1>5. Ext(x) => x.transport = 0 /\ x.listener = "none"
  BY <1>1, <1>2, <1>4 DEF Whole, ResetOK, ListenerOK, Ext, Connection
<1> HIDE DEF x, t
<1>6. ~Resetting(x) /\ Phase(x) = "none" /\ Resetting(conn)
  BY <1>1, <1>3, <1>4 DEF Resetting, Phase
<1>7. Clean(x)
  BY <1>2, <1>4, <1>5 DEF Clean, Whole, HellosOK, Connection, Epoch
<1>8. Whole(x)
  <2>1. TransportOK(x) /\ ReadyOK(x) /\ HellosOK(x)
    BY <1>1, <1>2, <1>4, <1>6, <1>7
       DEF Whole, TransportOK, ReadyOK, HellosOK, Phase, Resetting, Ext
  <2>2. ResetOK(x) /\ ListenerOK(x)
    BY <1>2, <1>3, <1>4, <1>5, <1>6
       DEF Whole, ResetOK, ListenerOK, Phase, Before, Early, Ext, NoReset
  <2>3. NotifiedOK(x)
    BY <1>1, <1>2, <1>4, <1>6 DEF Whole, NotifiedOK, Untold, Before, Early
  <2> QED BY <1>4, <2>1, <2>2, <2>3 DEF Whole
<1>9. ASSUME NEW u \in Tasks
      PROVE  /\ PlaceOK(x, u) /\ SentOK(x, u) /\ LocksOK(x, u) /\ WaitOK(x, u)
             /\ u # t => Fine(x, u)
  <2>1. Fine(conn, u) /\ SentOK(conn, u)
    BY <1>2
  <2>2. LocksOK(x, u)
    BY <1>1, <1>4, <1>6, <1>7, <2>1 DEF Fine, LocksOK
  <2>3. PlaceOK(x, u) /\ SentOK(x, u)
    BY <1>4, <2>1 DEF Fine, PlaceOK, SentOK, Ext
  <2>4. WaitOK(x, u)
    BY <1>1, <1>4, <2>1 DEF Fine, WaitOK, Ext, IsCurrent, Early
  <2>5. RoleOK(x, u)
    BY <1>1, <1>4, <1>5, <1>6, <2>1
       DEF Fine, RoleOK, Ext, Early
  <2> QED BY <2>2, <2>3, <2>4, <2>5 DEF Fine
<1>10. CASE t = "listener"
  <2>1. "listener" \notin Tasks
    BY ConnectionAssumption DEF Tasks
  <2>2. Sound(x)
    BY <1>1, <1>4, <1>8, <1>9, <1>10, <2>1 DEF Sound
  <2> QED BY <1>1, <1>10, <2>2
<1>11. CASE t # "listener"
  <2>1. t \in Tasks
    BY <1>2, <1>6, <1>11 DEF Whole, ResetOK, Connection, Reset, t
  <2>2. LocksOK(conn, t) /\ PlaceOK(conn, t) /\ RoleOK(conn, t)
    BY <1>2, <2>1 DEF Fine
  <2>3. conn.task[t].pc = "reset" /\ t # "cleanup"
    BY <1>6, <2>2 DEF RoleOK, t
  <2>4. CASE t = "closer"
    <3>1. conn.task[t].then = "closed"
      BY <2>2, <2>3, <2>4 DEF RoleOK
    <3>2. conn' = Unlocked(Ends(x, "closer", "done"))
      BY <1>1, <1>4, <1>11, <2>4, <3>1 DEF AfterReset
    <3>3. x.closing /\ x.connecting = "closer"
      BY <1>4, <2>2, <2>3, <2>4 DEF RoleOK
    <3>4. x.owner # "closer" /\ Tidy(x, "closer")
      BY <1>4, <1>7, <2>2, <2>3, <2>4 DEF RoleOK, LocksOK, Tidy, Handshake
    <3> QED BY <1>1, <1>4, <1>5, <1>6, <1>8, <1>9, <2>4, <3>2, <3>3, <3>4, CloserDone
  <2>5. CASE t # "closer"
    <3>1. Runs(x, t)
      <4>1. x.connecting # t
        BY <1>4, <2>2, <2>3, <2>5 DEF LocksOK
      <4>2. x.owner = t => /\ x.handshaker = t /\ x.task[t].init > 0
                           /\ x.task[t].sent = {}
        BY <1>4, <2>2, <2>3 DEF LocksOK, PlaceOK, Over, Handshake
      <4> QED BY <1>1, <1>4, <1>6, <1>8, <1>9, <2>1, <2>3, <2>5, <4>1, <4>2
              DEF Runs, SentOK
    <3>2. Resumes(x, t)
      <4>1. conn.task[t].then \in {"raise", "retry", "backoff"}
        BY <1>2, <2>1, <2>2, <2>3, <2>5 DEF RoleOK, Connection, Task
      <4> QED BY <1>4, <1>7, <2>2, <2>3, <3>1, <4>1
              DEF Resumes, RoleOK, PlaceOK, LocksOK, Rightly, Over, Handshake, Entries,
                  Tidy, Ext
    <3>3. Sound(AfterReset(x, t))
      BY <2>1, <3>2, AfterResetSound
    <3> QED BY <1>1, <1>11, <3>3
  <2> QED BY <2>4, <2>5
<1> QED BY <1>10, <1>11

-----------------------------------------------------------------------------
(* Cancellation and close.                                                 *)

(* The task has been cancelled. *)
WithCancelled(x, t) == [x EXCEPT !.task[t].cancelled = TRUE]

LEMMA CancelledFacts ==
  ASSUME NEW x \in Connection, NEW t \in Tasks, NEW y, y = WithCancelled(x, t)
  PROVE  /\ Moved(x, y, t) /\ y.task[t].cancelled
         /\ y.task[t].pc = x.task[t].pc /\ y.task[t].place = x.task[t].place
         /\ y.task[t].then = x.task[t].then /\ y.task[t].epoch = x.task[t].epoch
         /\ y.task[t].init = x.task[t].init /\ y.task[t].future = x.task[t].future
         /\ y.task[t].sent = x.task[t].sent
<1> DEFINE c == x.task[t]
           d == [c EXCEPT !.cancelled = TRUE]
<1>1. x.task \in [Tasks -> Task] /\ c \in Task
  BY DEF Connection
<1>2. y = [x EXCEPT !.task = [x.task EXCEPT ![t] = d]]
  BY <1>1 DEF WithCancelled, Connection
<1>3. /\ d \in Task /\ d.pc = c.pc /\ d.place = c.place /\ d.then = c.then
      /\ d.epoch = c.epoch /\ d.init = c.init /\ d.future = c.future
      /\ d.cancelled /\ d.sent = c.sent
  BY <1>1 DEF Task
<1> HIDE DEF d
<1>4. [x.task EXCEPT ![t] = d] \in [Tasks -> Task]
  BY <1>1, <1>3
<1>5. y \in Connection /\ y.task[t] = d
  BY <1>1, <1>2, <1>4 DEF Connection
<1>6. Same(x, y) /\ Others(x, y, t)
  BY <1>1, <1>2 DEF Connection, Same, Alike, Others
<1> QED BY <1>3, <1>5, <1>6 DEF Moved

(* It raises where it waited, without the lock it may have held. *)
LEMMA CancelledRuns ==
  ASSUME NEW x, NEW t \in Tasks \ {"closer", "cleanup"}, NEW place, Runs(x, t),
         place = "hello" => x.task[t].init > 0 /\ x.owner # t,
         Tidy(x, t) \/ (place = "hello" /\ IsCurrent(x, x.task[t].init))
  PROVE  Sound(Error(WithCancelled(x, t), t, place))
<1> DEFINE y == WithCancelled(x, t)
<1>1. x \in Connection
  BY DEF Runs, Whole
<1>2. /\ Moved(x, y, t) /\ y.task[t].epoch = x.task[t].epoch
      /\ y.task[t].init = x.task[t].init /\ y.task[t].future = x.task[t].future
      /\ y.task[t].sent = x.task[t].sent
  BY <1>1, CancelledFacts
<1> HIDE DEF y
<1>3. WaitOK(y, t)
  BY <1>2, WaitOKKept DEF Runs, Moved
<1>4. Runs(y, t) /\ (Tidy(y, t) <=> Tidy(x, t))
  BY <1>2, <1>3, MovedRuns DEF Runs
<1>5. /\ place = "hello" => y.task[t].init > 0 /\ y.owner # t
      /\ Tidy(y, t) \/ (place = "hello" /\ IsCurrent(y, y.task[t].init))
  BY <1>2, <1>4 DEF Moved, Same, Alike, IsCurrent
<1>6. Sound(Error(y, t, place))
  BY <1>4, <1>5, ErrorSound
<1> QED BY <1>6 DEF y

LEMMA CancelledSound ==
  ASSUME NEW x, Sound(x), ~x.frozen, NEW t \in Tasks \ {"closer", "cleanup"}
  PROVE  Sound(Cancelled(x, t))
<1> DEFINE c == x.task[t]
           place == c.place
           l == IF x.connecting = t THEN None ELSE x.connecting
           y == [x EXCEPT !.task[t].cancelled = TRUE, !.connecting = l]
<1>1. Cancelled(x, t) = IF c.pc = "reset" THEN y ELSE Error(y, t, place)
  BY DEF Cancelled
<1>2. /\ Whole(x) /\ x \in Connection /\ LocksOK(x, t) /\ PlaceOK(x, t) /\ RoleOK(x, t)
      /\ Fine(x, t) /\ SentOK(x, t)
      /\ \A u \in Tasks : Fine(x, u) /\ SentOK(x, u)
  BY DEF Sound, Whole, Fine
<1>3. x.connecting # t => y = WithCancelled(x, t)
  <2>1. x.connecting # t => l = x.connecting
    OBVIOUS
  <2> HIDE DEF l
  <2> QED BY <1>2, <2>1 DEF WithCancelled, Connection
<1>4. x.connecting = t => y = WithCancelled(Unlocked(x), t)
  <2>1. x.connecting = t => l = None
    OBVIOUS
  <2> HIDE DEF l
  <2> QED BY <1>2, <2>1 DEF WithCancelled, Unlocked, Connection
<1> HIDE DEF y, place
<1>5. CASE c.pc = "reset"
  <2> DEFINE z == WithCancelled(x, t)
  <2>1. x.connecting # t
    BY <1>2, <1>5 DEF LocksOK
  <2>2. /\ Moved(x, z, t) /\ z.task[t].cancelled
        /\ z.task[t].pc = c.pc /\ z.task[t].place = c.place
        /\ z.task[t].then = c.then /\ z.task[t].epoch = c.epoch
        /\ z.task[t].init = c.init /\ z.task[t].future = c.future
        /\ z.task[t].sent = c.sent
    BY <1>2, CancelledFacts
  <2> HIDE DEF z
  <2>3. Whole(z) /\ (Clean(z) <=> Clean(x))
    BY <1>2, <2>2, SameWhole DEF Moved
  <2>4. LocksOK(z, t)
    BY <1>2, <2>2, <2>3 DEF LocksOK, Moved, Same, Alike, Phase, IsCurrent
  <2>5. PlaceOK(z, t)
    BY <1>2, <1>5, <2>2 DEF PlaceOK, Over, Handshake
  <2>6. RoleOK(z, t)
    BY <1>2, <1>5, <2>2 DEF RoleOK, Moved, Same, Alike, Phase, Resetting, Ext
  <2>7. WaitOK(z, t) /\ SentOK(z, t)
    BY <1>2, <2>2, WaitOKKept DEF Fine, SentOK, Moved
  <2>8. ASSUME NEW u \in Tasks, u # t PROVE Fine(z, u) /\ SentOK(z, u)
    BY <1>2, <2>2, <2>8, SameFine DEF Moved, Others
  <2>9. Sound(z)
    BY <2>2, <2>3, <2>4, <2>5, <2>6, <2>7, <2>8 DEF Sound, Fine, Moved, Same, Alike
  <2> QED BY <1>1, <1>3, <1>5, <2>1, <2>9 DEF z
<1>6. CASE c.pc \in {"locked", "opening"}
  <2> DEFINE z == Unlocked(x)
  <2>1. x.connecting = t /\ Free(z, t) /\ Rightly(z, t, place)
    BY <1>6, UnlocksFree DEF place
  <2> HIDE DEF z
  <2>2. Sound(Error(WithCancelled(z, t), t, place))
    BY <2>1, CancelledRuns DEF Free, Rightly
  <2> QED BY <1>1, <1>4, <1>6, <2>1, <2>2 DEF z
<1>7. CASE c.pc \notin {"reset", "locked", "opening"}
  <2>1. Woken(x, t)
    BY <1>7 DEF Woken
  <2>2. /\ Runs(x, t)
        /\ Tidy(x, t) \/ (place = "hello" /\ IsCurrent(x, x.task[t].init))
    BY <1>7, <2>1, WokenRuns DEF place
  <2>3. place = "hello" => x.task[t].init > 0 /\ x.owner # t
    BY <1>2 DEF PlaceOK, LocksOK, Over, Handshake, place
  <2>4. Sound(Error(WithCancelled(x, t), t, place))
    BY <2>2, <2>3, CancelledRuns
  <2>5. x.connecting # t
    BY <2>2 DEF Runs
  <2> QED BY <1>1, <1>3, <1>7, <2>4, <2>5
<1> QED BY <1>5, <1>6, <1>7

LEMMA CallerCancelledSound ==
  ASSUME Sound(conn), NEW t \in Tasks, CallerCancelled(t)
  PROVE  Sound(conn')
<1>1. t \in Callers /\ ~conn.frozen /\ conn' = Cancelled(conn, t)
  BY DEF CallerCancelled, Alive
<1>2. t \notin {"closer", "cleanup", "reconnect"}
  BY <1>1, ConnectionAssumption
<1> QED BY <1>1, <1>2, CancelledSound

(* Close takes the lock, and begins its reset or waits for another. *)
LEMMA CloserResets ==
  ASSUME NEW x, Sound(x), ~x.frozen, x.closing, x.connecting = None,
         x.task["closer"].pc \in {"idle", "joining", "connect_lock"}
  PROVE  Sound(StartReset([x EXCEPT !.connecting = "closer"], "closer", "closed",
                          "out", FALSE))
<1> DEFINE t == "closer"
           z == [x EXCEPT !.connecting = t]
           y == StartReset(z, t, "closed", "out", FALSE)
           c == x.task[t]
           d == y.task[t]
<1>1. /\ Whole(x) /\ x \in Connection /\ t \in Tasks /\ t # None
      /\ \A u \in Tasks : Fine(x, u) /\ SentOK(x, u)
  BY ConnectionAssumption DEF Sound, Whole, Tasks, None
<1>2. LocksOK(x, t) /\ PlaceOK(x, t) /\ RoleOK(x, t) /\ WaitOK(x, t)
  BY <1>1 DEF Fine
<1>3. /\ z \in Connection /\ Alike(x, z) /\ z.connecting = t /\ z.task = x.task
  <2> HIDE DEF t
  <2> QED BY <1>1 DEF Connection, Alike
<1>4. Whole(z) /\ (Clean(z) <=> Clean(x))
  <2> HIDE DEF z
  <2> QED BY <1>1, <1>3, LockWhole
<1>5. c.sent = {}
  BY <1>2 DEF PlaceOK, t
<1> HIDE DEF z
<1>6. /\ Kept(c, d) /\ d.place = "out" /\ d.then = "closed"
      /\ Resetting(z) => Moved(z, y, t) /\ d.pc = "rewait"
      /\ ~Resetting(z) => BeginsReset(z, y, t) /\ d.pc = "reset" /\ ~y.reset.notify
  <2>1. \A n \in BOOLEAN : LET v == StartReset(z, t, "closed", "out", n) IN
               /\ Kept(z.task[t], v.task[t])
               /\ v.task[t].place = "out" /\ v.task[t].then = "closed"
               /\ Resetting(z) => Moved(z, v, t) /\ v.task[t].pc = "rewait"
               /\ ~Resetting(z) => /\ BeginsReset(z, v, t) /\ v.task[t].pc = "reset"
                                    /\ v.reset.notify = n
    <3>1. "closed" \in Thens /\ "out" \in Places
      BY DEF Thens, Places
    <3> QED BY <1>1, <1>3, <3>1, StartResetFacts
  <2>2. FALSE \in BOOLEAN
    OBVIOUS
  <2> QED BY <1>3, <2>1, <2>2
<1>7. /\ d.pc \in {"reset", "rewait"} /\ d.sent = {} /\ d.epoch = c.epoch
      /\ d.init = c.init /\ d.future = c.future /\ d.cancelled = c.cancelled
  BY <1>5, <1>6 DEF Kept
<1>8. /\ Steady(z, y) /\ Others(z, y, t) /\ Resetting(y) /\ y \in Connection
      /\ Clean(y)
  BY <1>6 DEF Moved, Same, Alike, Steady, BeginsReset, Resetting, Clean
<1> HIDE DEF d, y, t
<1>9. /\ Whole(y) /\ ~y.frozen /\ Phase(y) # "none"
      /\ Ext(y) => y.transport = 0 \/ Phase(y) \in {"stop", "drop"}
  <2>1. CASE Resetting(z)
    <3>1. Whole(y)
      BY <1>4, <1>6, <1>8, <2>1, SameWhole DEF Moved
    <3> QED BY <1>3, <1>6, <1>8, <2>1, <3>1
            DEF Steady, Alike, Whole, ResetOK, Resetting, Phase, Connection, Reset
  <2>2. CASE ~Resetting(z)
    <3>1. Whole(y)
      BY <1>1, <1>3, <1>4, <1>6, <2>2, StartResetWhole DEF Alike
    <3> QED BY <1>3, <1>6, <1>8, <2>2, <3>1 DEF Steady, Alike, BeginsReset, Phase
  <2> QED BY <2>1, <2>2
<1>10. ASSUME NEW u \in Tasks, u # t PROVE Fine(y, u) /\ SentOK(y, u)
  <2>1. Fine(x, u) /\ SentOK(x, u) /\ u # None /\ z.task[u] = x.task[u]
    BY <1>1, <1>3, <1>10, ConnectionAssumption DEF Tasks, None
  <2>2. x.connecting # u /\ z.connecting # u
    BY <1>3, <1>10, <2>1
  <2>3. LocksOK(z, u)
    BY <1>3, <1>4, <2>1, <2>2
       DEF Fine, LocksOK, Alike, Phase, Resetting, Ext, IsCurrent
  <2>4. PlaceOK(z, u)
    BY <1>3, <2>1 DEF Fine, PlaceOK, Alike, Ext
  <2>5. RoleOK(z, u)
    BY <1>3, <1>10, <2>1 DEF Fine, RoleOK, Alike, Ext, Resetting, Phase, t
  <2>6. WaitOK(z, u) /\ SentOK(z, u)
    BY <1>3, <2>1 DEF Fine, WaitOK, SentOK, Alike, Ext, IsCurrent, Phase
  <2>7. Fine(z, u)
    BY <2>3, <2>4, <2>5, <2>6 DEF Fine
  <2>8. CASE Resetting(z)
    BY <1>6, <1>10, <2>6, <2>7, <2>8, SameFine DEF Moved, Others
  <2>9. CASE ~Resetting(z)
    <3>1. t = "closer" /\ z.connecting = t
      BY <1>3 DEF t
    <3> QED BY <1>1, <1>4, <1>6, <1>9, <1>10, <2>6, <2>7, <2>9, <3>1, ResetOthers
  <2> QED BY <2>8, <2>9
<1>11. LocksOK(y, t)
  BY <1>2, <1>3, <1>6, <1>7, <1>8
     DEF LocksOK, Over, Handshake, Steady, Alike, d, t
<1>12. PlaceOK(y, t)
  BY <1>6, <1>7 DEF PlaceOK, Over, Handshake, d
<1>13. RoleOK(y, t)
  <2>1. ~Resetting(z) \/ y.reset = x.reset
    BY <1>3, <1>6 DEF Moved, Same, Alike
  <2>2. Resetting(x) => x.reset.by # t
    BY <1>2 DEF RoleOK, t
  <2> QED BY <1>3, <1>6, <1>7, <1>8, <1>9, <2>1, <2>2
          DEF RoleOK, Handshake, Steady, Alike, Resetting, d, t
<1>14. WaitOK(y, t) /\ SentOK(y, t)
  <2>1. WaitOK(z, t)
    BY <1>2, <1>3 DEF WaitOK, Alike, Ext, IsCurrent, Phase
  <2>2. CASE Resetting(z)
    BY <1>3, <1>6, <1>7, <2>1, <2>2, WaitOKKept DEF Moved, SentOK, d
  <2>3. CASE ~Resetting(z)
    BY <1>3, <1>6, <1>7, <1>8, <2>1, <2>3
       DEF WaitOK, SentOK, BeginsReset, Steady, Ext, IsCurrent, Phase, Resetting, Early,
           d
  <2> QED BY <2>2, <2>3
<1>15. Sound(y)
  BY <1>9, <1>10, <1>11, <1>12, <1>13, <1>14 DEF Sound, Fine
<1> QED BY <1>15 DEF y, z, t

(* Everything but the other end and the closing flag is the same. *)
LEMMA Undisturbed ==
  ASSUME NEW x, Sound(x), ~x.frozen, NEW y \in Connection, y.task = x.task,
         y.target = x.target, y.epoch = x.epoch, y.transport = x.transport,
         y.listener = x.listener, y.connecting = x.connecting,
         y.handshaker = x.handshaker, y.owner = x.owner, y.protocol = x.protocol,
         y.initialized = x.initialized, y.reset = x.reset, y.frozen = x.frozen,
         y.open = x.open, y.hellos = x.hellos, y.restored = x.restored,
         y.notified = x.notified,
         x.closing => y.closing, Ext(x) => y.peer # "reaped"
  PROVE  Sound(y)
<1>1. Clean(y) <=> Clean(x)
  BY DEF Clean, Ext, Resetting
<1>2. Whole(y)
  BY <1>1 DEF Sound, Whole, TransportOK, ResetOK, ListenerOK, ReadyOK, NotifiedOK,
              HellosOK, Untold, Phase, Resetting, Ext
<1>3. ASSUME NEW u \in Tasks PROVE Fine(y, u) /\ SentOK(y, u)
  <2>1. Fine(x, u) /\ SentOK(x, u)
    BY DEF Sound
  <2>2. LocksOK(y, u)
    BY <1>1, <2>1 DEF Fine, LocksOK, Phase, IsCurrent
  <2>3. PlaceOK(y, u)
    BY <2>1 DEF Fine, PlaceOK, Ext
  <2>4. RoleOK(y, u)
    BY <2>1 DEF Fine, RoleOK, Ext, Resetting, Phase
  <2>5. WaitOK(y, u) /\ SentOK(y, u)
    BY <2>1 DEF Fine, WaitOK, SentOK, Ext, IsCurrent, Phase
  <2> QED BY <2>2, <2>3, <2>4, <2>5 DEF Fine
<1> QED BY <1>2, <1>3 DEF Sound

LEMMA PeerDiesSound ==
  ASSUME Sound(conn), PeerDies
  PROVE  Sound(conn')
<1> DEFINE y == [conn EXCEPT !.peer = "down"]
<1>1. ~conn.frozen /\ conn' = y /\ conn \in Connection
  BY DEF PeerDies, Alive, Sound, Whole
<1>2. /\ y \in Connection /\ y.hellos = conn.hellos /\ y.listener = conn.listener
      /\ y.target = conn.target /\ y.epoch = conn.epoch /\ y.transport = conn.transport
      /\ y.peer = "down" /\ y.task = conn.task
      /\ y.connecting = conn.connecting /\ y.owner = conn.owner
      /\ y.handshaker = conn.handshaker /\ y.protocol = conn.protocol
      /\ y.initialized = conn.initialized
      /\ y.closing = conn.closing /\ y.reset = conn.reset /\ y.frozen = conn.frozen
      /\ y.open = conn.open /\ y.restored = conn.restored /\ y.notified = conn.notified
  BY <1>1 DEF Connection
<1> HIDE DEF y
<1> QED BY <1>1, <1>2, Undisturbed

LEMMA ChildReapedSound ==
  ASSUME Sound(conn), ChildReaped
  PROVE  Sound(conn')
<1> DEFINE y == [conn EXCEPT !.peer = "reaped"]
<1>1. ~conn.frozen /\ conn' = y /\ conn \in Connection /\ ~Ext(conn)
  BY DEF ChildReaped, Alive, Becomes, Sound, Whole, Ext
<1>2. /\ y \in Connection /\ y.hellos = conn.hellos /\ y.listener = conn.listener
      /\ y.target = conn.target /\ y.epoch = conn.epoch /\ y.transport = conn.transport
      /\ y.task = conn.task
      /\ y.connecting = conn.connecting /\ y.owner = conn.owner
      /\ y.handshaker = conn.handshaker /\ y.protocol = conn.protocol
      /\ y.initialized = conn.initialized
      /\ y.closing = conn.closing /\ y.reset = conn.reset /\ y.frozen = conn.frozen
      /\ y.open = conn.open /\ y.restored = conn.restored /\ y.notified = conn.notified
  BY <1>1 DEF Connection
<1> HIDE DEF y
<1> QED BY <1>1, <1>2, Undisturbed

(* Close has begun. *)
LEMMA ClosingSound ==
  ASSUME Sound(conn), ~conn.frozen
  PROVE  LET y == [conn EXCEPT !.closing = TRUE]
         IN  Sound(y) /\ ~y.frozen /\ y.closing /\ y.task = conn.task
<1> DEFINE y == [conn EXCEPT !.closing = TRUE]
<1>1. conn \in Connection
  BY DEF Sound, Whole
<1>2. /\ y \in Connection /\ y.hellos = conn.hellos /\ y.listener = conn.listener
      /\ y.target = conn.target /\ y.epoch = conn.epoch /\ y.transport = conn.transport
      /\ y.peer = conn.peer /\ y.task = conn.task
      /\ y.connecting = conn.connecting /\ y.owner = conn.owner
      /\ y.handshaker = conn.handshaker /\ y.protocol = conn.protocol
      /\ y.initialized = conn.initialized
      /\ y.closing /\ y.reset = conn.reset /\ y.frozen = conn.frozen
      /\ y.open = conn.open /\ y.restored = conn.restored /\ y.notified = conn.notified
  BY <1>1 DEF Connection
<1> HIDE DEF y
<1>3. Ext(conn) => y.peer # "reaped"
  BY <1>2 DEF Sound, Whole, ListenerOK
<1>4. Sound(y)
  BY <1>2, <1>3, Undisturbed
<1> QED BY <1>2, <1>4 DEF y

(* The closer waits, for the reconnect loop or for the lock. *)
LEMMA CloserWaits ==
  ASSUME NEW x, Sound(x), ~x.frozen, x.closing,
         x.task["closer"].pc \in {"idle", "joining"},
         NEW pc \in {"joining", "connect_lock"}
  PROVE  LET y == At(x, "closer", pc, "out")
         IN  Sound(y) /\ ~y.frozen /\ y.task["closer"].pc = pc
<1> DEFINE t == "closer"
           y == At(x, t, pc, "out")
           c == x.task[t]
<1>1. /\ Whole(x) /\ x \in Connection /\ t \in Tasks /\ pc \in Pcs /\ "out" \in Places
      /\ \A u \in Tasks : Fine(x, u) /\ SentOK(x, u)
  BY DEF Sound, Whole, Tasks, Pcs, Places
<1>2. LocksOK(x, t) /\ PlaceOK(x, t) /\ RoleOK(x, t) /\ WaitOK(x, t) /\ SentOK(x, t)
  BY <1>1 DEF Fine
<1>3. /\ Moved(x, y, t) /\ Kept(c, y.task[t]) /\ y.task[t].pc = pc
      /\ y.task[t].place = "out"
  BY <1>1, AtFacts
<1> HIDE DEF y, t
<1>4. /\ y.task[t].sent = {} /\ y.task[t].init = c.init
      /\ y.task[t].epoch = c.epoch /\ y.task[t].future = c.future
      /\ y.task[t].cancelled = c.cancelled
  BY <1>2, <1>3 DEF PlaceOK, Kept, t
<1>5. Whole(y) /\ (Clean(y) <=> Clean(x)) /\ ~y.frozen
  BY <1>1, <1>3, SameWhole DEF Moved, Same, Alike
<1>6. LocksOK(y, t)
  BY <1>2, <1>3, <1>4, <1>5
     DEF LocksOK, Over, Handshake, Moved, Same, Alike, Phase, t
<1>7. PlaceOK(y, t)
  BY <1>3, <1>4 DEF PlaceOK, Over, Handshake, t
<1>8. RoleOK(y, t)
  BY <1>2, <1>3 DEF RoleOK, Handshake, Moved, Same, Alike, Phase, Resetting, Ext, t
<1>9. WaitOK(y, t) /\ SentOK(y, t)
  BY <1>2, <1>3, <1>4, WaitOKKept DEF Moved, SentOK
<1>10. ASSUME NEW u \in Tasks, u # t PROVE Fine(y, u) /\ SentOK(y, u)
  BY <1>1, <1>3, <1>10, SameFine DEF Moved, Others
<1>11. Sound(y)
  BY <1>5, <1>6, <1>7, <1>8, <1>9, <1>10 DEF Sound, Fine
<1> QED BY <1>3, <1>5, <1>11 DEF y, t

LEMMA TakesConnectLockSound ==
  ASSUME NEW x, Sound(x), ~x.frozen, x.closing,
         x.task["closer"].pc \in {"idle", "joining"}
  PROVE  Sound(TakesConnectLock(x))
<1>1. Sound(At(x, "closer", "connect_lock", "out"))
  BY CloserWaits
<1>2. x.connecting = None =>
        Sound(StartReset([x EXCEPT !.connecting = "closer"], "closer", "closed",
                         "out", FALSE))
  BY CloserResets
<1> QED BY <1>1, <1>2 DEF TakesConnectLock

LEMMA CloseStartsSound ==
  ASSUME Sound(conn), CloseStarts
  PROVE  Sound(conn')
<1> DEFINE x == [conn EXCEPT !.closing = TRUE]
           z == At(x, "closer", "joining", "out")
<1>1. /\ ~conn.frozen /\ conn.task["closer"].pc = "idle"
      /\ conn' = IF x.task["reconnect"].pc = "idle" THEN TakesConnectLock(x)
                 ELSE Cancelled(z, "reconnect")
  BY DEF CloseStarts, Is, Alive
<1>2. Sound(x) /\ ~x.frozen /\ x.closing /\ x.task = conn.task
  BY <1>1, ClosingSound
<1> HIDE DEF x
<1>3. Sound(z) /\ ~z.frozen
  BY <1>1, <1>2, CloserWaits
<1> HIDE DEF z
<1>4. Sound(TakesConnectLock(x))
  BY <1>1, <1>2, TakesConnectLockSound
<1>5. "reconnect" \in Tasks \ {"closer", "cleanup"}
  BY DEF Tasks
<1>6. Sound(Cancelled(z, "reconnect"))
  BY <1>3, <1>5, CancelledSound
<1> QED BY <1>1, <1>4, <1>6

LEMMA CloserStepSound ==
  ASSUME Sound(conn), CloserStep
  PROVE  Sound(conn')
<1>1. conn.task["closer"].pc # "idle" => conn.closing \/ conn.frozen
  <2>1. "closer" \in Tasks
    BY DEF Tasks
  <2> QED BY <2>1 DEF Sound, Fine, RoleOK, Whole, Connection
<1>2. CASE ReconnectJoined
  BY <1>1, <1>2, TakesConnectLockSound DEF ReconnectJoined, Is, Alive, Becomes
<1>3. CASE CloserLocks
  BY <1>1, <1>3, CloserResets DEF CloserLocks, Is, Alive, Becomes
<1> QED BY <1>2, <1>3 DEF CloserStep

-----------------------------------------------------------------------------
(* The receive loop, and the reset of a connection.                        *)

(* The tasks, after what waited on connection e has failed. *)
Failed(x, y, e) ==
  \A u \in Tasks :
    LET c == x.task[u]
        d == y.task[u]
    IN  /\ d.pc = c.pc /\ d.place = c.place /\ d.then = c.then
        /\ d.epoch = c.epoch /\ d.init = c.init /\ d.cancelled = c.cancelled
        /\ d.sent = c.sent
        /\ c.future # "waits" => d.future = c.future
        /\ d.future = "waits" => c.future = "waits" /\ c.epoch # e

LEMMA FailFacts ==
  ASSUME NEW x \in Connection, NEW e
  PROVE  LET y == FailFutures(x, e)
         IN  y \in Connection /\ Same(x, y) /\ Failed(x, y, e)
<1> DEFINE f == [t \in Tasks |->
                   IF x.task[t].future = "waits" /\ x.task[t].epoch = e
                     THEN [x.task[t] EXCEPT !.future = "lost"] ELSE x.task[t]]
           y == FailFutures(x, e)
<1>1. \A u \in Tasks : x.task[u] \in Task
  BY DEF Connection
<1>2. y = [x EXCEPT !.task = f]
  BY DEF FailFutures
<1>3. ASSUME NEW u \in Tasks
      PROVE  LET c == x.task[u]
                 d == f[u]
             IN  /\ d \in Task
                 /\ d.pc = c.pc /\ d.place = c.place /\ d.then = c.then
                 /\ d.epoch = c.epoch /\ d.init = c.init /\ d.cancelled = c.cancelled
                 /\ d.sent = c.sent
                 /\ c.future # "waits" => d.future = c.future
                 /\ d.future = "waits" => c.future = "waits" /\ c.epoch # e
  <2> DEFINE c == x.task[u]
             d == [c EXCEPT !.future = "lost"]
  <2>1. /\ c \in Task
        /\ f[u] = IF c.future = "waits" /\ c.epoch = e THEN d ELSE c
    BY <1>1
  <2>2. /\ d \in Task
        /\ d.pc = c.pc /\ d.place = c.place /\ d.then = c.then
        /\ d.epoch = c.epoch /\ d.init = c.init /\ d.cancelled = c.cancelled
        /\ d.sent = c.sent /\ d.future = "lost"
    BY <2>1 DEF Task
  <2> HIDE DEF c, d, f
  <2> QED BY <2>1, <2>2 DEF c
<1>4. f \in [Tasks -> Task]
  <2>1. \A u \in Tasks : f[u] \in Task
    BY <1>3
  <2>2. f = [u \in Tasks |-> f[u]]
    OBVIOUS
  <2> HIDE DEF f
  <2> QED BY <2>1, <2>2
<1> HIDE DEF f, y
<1>5. y \in Connection
  BY <1>2, <1>4 DEF Connection
<1>6. Same(x, y) /\ y.task = f
  BY <1>2 DEF Connection, Same, Alike
<1>7. Failed(x, y, e)
  BY <1>3, <1>6 DEF Failed
<1> QED BY <1>5, <1>6, <1>7 DEF y

(* The end of the handshake with its connection. *)
LEMMA NotInitializedFacts ==
  ASSUME NEW x \in Connection
  PROVE  LET y == NotInitialized(x)
         IN  /\ y \in Connection /\ y.hellos = x.hellos /\ y.listener = x.listener
             /\ y.target = x.target /\ y.epoch = x.epoch /\ y.transport = x.transport
             /\ y.peer = x.peer /\ y.task = x.task
             /\ y.connecting = x.connecting /\ y.owner = x.owner
             /\ y.handshaker = x.handshaker /\ ~y.protocol
             /\ ~y.initialized /\ y.beenReady = x.beenReady
             /\ y.closing = x.closing /\ y.reset = x.reset /\ y.frozen = x.frozen
             /\ y.open = x.open /\ y.restored = x.restored
             /\ y.notified = x.notified
<1> DEFINE y == NotInitialized(x)
<1>1. y = [x EXCEPT !.protocol = FALSE, !.initialized = FALSE]
  BY DEF NotInitialized
<1> HIDE DEF y
<1>2. /\ y \in Connection /\ y.hellos = x.hellos /\ y.listener = x.listener
      /\ y.target = x.target /\ y.epoch = x.epoch /\ y.transport = x.transport
      /\ y.peer = x.peer /\ y.task = x.task
      /\ y.connecting = x.connecting /\ y.owner = x.owner
      /\ y.handshaker = x.handshaker /\ ~y.protocol
      /\ ~y.initialized /\ y.beenReady = x.beenReady
      /\ y.closing = x.closing /\ y.reset = x.reset /\ y.frozen = x.frozen
      /\ y.open = x.open /\ y.restored = x.restored
      /\ y.notified = x.notified
  BY <1>1 DEF Connection
<1> QED BY <1>2 DEF y

LEMMA ReceiveFailsFacts ==
  ASSUME NEW x \in Connection
  PROVE  LET y == ReceiveFails(x)
         IN  /\ y \in Connection /\ y.hellos = x.hellos /\ y.listener = "resetting"
             /\ y.target = x.target /\ y.epoch = x.epoch /\ y.transport = x.transport
             /\ y.peer = x.peer /\ Failed(x, y, x.epoch)
             /\ y.connecting = x.connecting /\ y.owner = x.owner
             /\ y.handshaker = x.handshaker /\ ~y.initialized
             /\ y.closing = x.closing /\ y.frozen = x.frozen
             /\ y.open = x.open /\ y.restored = x.restored
             /\ y.notified = x.notified
             /\ Resetting(x) => y.reset = x.reset
             /\ ~Resetting(x) => /\ y.reset.phase = "stop" /\ y.reset.by = "listener"
                                  /\ y.reset.epoch = x.epoch /\ y.reset.notify
                                  /\ y.reset.turns = 0
<1> DEFINE a == FailFutures(x, x.epoch)
           b == NotInitialized(a)
           z == [b EXCEPT !.listener = "resetting"]
           rs == [phase |-> "stop", by |-> "listener", epoch |-> x.epoch,
                  notify |-> TRUE, turns |-> 0, reconnect |-> WantsReconnect(x, TRUE)]
           y == ReceiveFails(x)
<1>1. a \in Connection /\ Same(x, a) /\ Failed(x, a, x.epoch)
  BY FailFacts
<1>2. y = IF Resetting(x) THEN z ELSE [z EXCEPT !.reset = rs]
  BY DEF ReceiveFails
<1> HIDE DEF a
<1>3. /\ b \in Connection /\ b.hellos = x.hellos
      /\ b.target = x.target /\ b.epoch = x.epoch /\ b.transport = x.transport
      /\ b.peer = x.peer /\ b.task = a.task
      /\ b.connecting = x.connecting /\ b.owner = x.owner
      /\ b.handshaker = x.handshaker /\ ~b.initialized
      /\ b.closing = x.closing /\ b.reset = x.reset /\ b.frozen = x.frozen
      /\ b.open = x.open /\ b.restored = x.restored
      /\ b.notified = x.notified
  BY <1>1, NotInitializedFacts DEF Same, Alike
<1> HIDE DEF b
<1>4. /\ z \in Connection /\ z.hellos = x.hellos /\ z.listener = "resetting"
      /\ z.target = x.target /\ z.epoch = x.epoch /\ z.transport = x.transport
      /\ z.peer = x.peer /\ z.task = a.task
      /\ z.connecting = x.connecting /\ z.owner = x.owner
      /\ z.handshaker = x.handshaker /\ ~z.initialized
      /\ z.closing = x.closing /\ z.reset = x.reset /\ z.frozen = x.frozen
      /\ z.open = x.open /\ z.restored = x.restored
      /\ z.notified = x.notified
  BY <1>3 DEF Connection
<1>5. rs \in Reset
  <2>1. WantsReconnect(x, TRUE) \in BOOLEAN
    BY DEF WantsReconnect
  <2>2. x.epoch \in Epoch /\ 0 \in 0..MaxTurns /\ TRUE \in BOOLEAN
    BY ConnectionAssumption DEF Connection
  <2>3. \A w \in BOOLEAN :
          [phase |-> "stop", by |-> "listener", epoch |-> x.epoch, notify |-> TRUE,
           turns |-> 0, reconnect |-> w] \in Reset
    BY <2>2 DEF Reset
  <2> QED BY <2>1, <2>3
<1>6. /\ rs.phase = "stop" /\ rs.by = "listener" /\ rs.epoch = x.epoch
      /\ rs.notify /\ rs.turns = 0
  OBVIOUS
<1> HIDE DEF z, rs, y
<1>7. CASE Resetting(x)
  <2>1. y = z
    BY <1>2, <1>7
  <2> QED BY <1>1, <1>4, <1>7, <2>1 DEF Failed, y
<1>8. CASE ~Resetting(x)
  <2>1. y = [z EXCEPT !.reset = rs]
    BY <1>2, <1>8
  <2>2. /\ y \in Connection /\ y.hellos = z.hellos /\ y.listener = z.listener
        /\ y.target = z.target /\ y.epoch = z.epoch /\ y.transport = z.transport
        /\ y.peer = z.peer /\ y.task = z.task
        /\ y.connecting = z.connecting /\ y.owner = z.owner
        /\ y.handshaker = z.handshaker /\ y.initialized = z.initialized
        /\ y.closing = z.closing /\ y.frozen = z.frozen
        /\ y.open = z.open /\ y.restored = z.restored
        /\ y.notified = z.notified /\ y.reset = rs
    BY <1>4, <1>5, <2>1 DEF Connection
  <2>3. Failed(x, y, x.epoch)
    BY <1>1, <1>4, <2>2 DEF Failed
  <2> QED BY <1>4, <1>6, <1>8, <2>2, <2>3 DEF y
<1> QED BY <1>7, <1>8

LEMMA ListenerFailsSound ==
  ASSUME Sound(conn), ListenerFails
  PROVE  Sound(conn')
<1> DEFINE y == ReceiveFails(conn)
<1>1. ~conn.frozen /\ conn.listener = "running" /\ conn' = y
  BY DEF ListenerFails, Alive
<1>2. /\ Whole(conn) /\ conn \in Connection
      /\ \A u \in Tasks : Fine(conn, u) /\ SentOK(conn, u)
  BY <1>1 DEF Sound, Whole
<1>3. conn.transport # 0 /\ conn.epoch \in Nat
  BY <1>1, <1>2, TransportEpoch DEF Whole, ListenerOK
<1>4. /\ y \in Connection /\ y.hellos = conn.hellos /\ y.listener = "resetting"
      /\ y.target = conn.target /\ y.epoch = conn.epoch /\ y.transport = conn.transport
      /\ y.peer = conn.peer /\ Failed(conn, y, conn.epoch)
      /\ y.connecting = conn.connecting /\ y.owner = conn.owner
      /\ y.handshaker = conn.handshaker /\ ~y.initialized
      /\ y.closing = conn.closing /\ y.frozen = conn.frozen
      /\ y.open = conn.open /\ y.restored = conn.restored
      /\ y.notified = conn.notified
      /\ Resetting(conn) => y.reset = conn.reset
      /\ ~Resetting(conn) => /\ y.reset.phase = "stop" /\ y.reset.by = "listener"
                              /\ y.reset.epoch = conn.epoch /\ y.reset.notify
                              /\ y.reset.turns = 0
  BY <1>2, ReceiveFailsFacts
<1> HIDE DEF y
<1>5. Ext(conn) /\ Resetting(conn) => Phase(conn) = "stop"
  BY <1>1, <1>2, <1>3
     DEF Whole, ListenerOK, ResetOK, Resetting, Phase, Connection, Reset
<1>6. Resetting(y) /\ (Ext(y) => Phase(y) = "stop")
  BY <1>4, <1>5 DEF Resetting, Phase, Ext
<1>7. Clean(y)
  BY <1>6 DEF Clean
<1>8. Whole(y)
  <2>1. TransportOK(y) /\ ReadyOK(y) /\ HellosOK(y)
    BY <1>2, <1>3, <1>4, <1>7
       DEF Whole, TransportOK, ReadyOK, HellosOK, Ext
  <2>2. ResetOK(y)
    <3>1. CASE Resetting(conn)
      BY <1>1, <1>2, <1>4, <3>1 DEF Whole, ResetOK, Resetting, Phase, Before, Early, Ext
    <3>2. CASE ~Resetting(conn)
      BY <1>4, <3>2, ConnectionAssumption
         DEF ResetOK, Resetting, Phase, Before, Early, None, Ext
    <3> QED BY <3>1, <3>2
  <2>3. ListenerOK(y)
    BY <1>2, <1>3, <1>4, <1>6 DEF Whole, ListenerOK, Ext
  <2>4. NotifiedOK(y)
    <3>1. Untold(conn) /\ Untold(y)
      BY <1>3, <1>4 DEF Untold
    <3>2. Phase(y) \in Before /\ ~y.closing => y.reset.notify
      <4>1. CASE Resetting(conn)
        BY <1>2, <1>4, <4>1 DEF Whole, NotifiedOK, Phase
      <4>2. CASE ~Resetting(conn)
        BY <1>4, <4>2
      <4> QED BY <4>1, <4>2
    <3> QED BY <1>2, <1>4, <3>1, <3>2 DEF Whole, NotifiedOK
  <2> QED BY <1>4, <2>1, <2>2, <2>3, <2>4 DEF Whole
<1>9. ASSUME NEW u \in Tasks PROVE Fine(y, u) /\ SentOK(y, u)
  <2>1. Fine(conn, u) /\ SentOK(conn, u) /\ u # "listener"
    BY <1>2, ConnectionAssumption DEF Tasks
  <2> DEFINE c == conn.task[u]
             d == y.task[u]
  <2>2. /\ d.pc = c.pc /\ d.place = c.place /\ d.then = c.then
        /\ d.epoch = c.epoch /\ d.init = c.init /\ d.cancelled = c.cancelled
        /\ d.sent = c.sent
        /\ c.future # "waits" => d.future = c.future
        /\ d.future = "waits" => c.future = "waits" /\ c.epoch # conn.epoch
    BY <1>4 DEF Failed
  <2> HIDE DEF c, d
  <2>3. LocksOK(y, u)
    BY <1>3, <1>4, <1>7, <2>1, <2>2 DEF Fine, LocksOK, c, d
  <2>4. PlaceOK(y, u)
    <3>1. c.pc = "idle" => c.future = "none"
      BY <2>1 DEF Fine, PlaceOK, c
    <3> QED BY <1>4, <2>1, <2>2, <3>1 DEF Fine, PlaceOK, Ext, c, d
  <2>5. RoleOK(y, u)
    <3>1. CASE Resetting(conn)
      BY <1>4, <2>1, <2>2, <3>1 DEF Fine, RoleOK, Resetting, Phase, Ext, c, d
    <3>2. CASE ~Resetting(conn)
      BY <1>3, <1>4, <1>6, <2>1, <2>2, <3>2
         DEF Fine, RoleOK, Resetting, Phase, Ext, c, d
    <3> QED BY <3>1, <3>2
  <2>6. WaitOK(y, u)
    BY <1>2, <1>4, <2>1, <2>2
       DEF Fine, WaitOK, IsCurrent, Ext, Whole, ResetOK, Phase, Before, Early, c, d
  <2>7. SentOK(y, u)
    BY <2>1, <2>2 DEF SentOK, c, d
  <2> QED BY <2>3, <2>4, <2>5, <2>6, <2>7 DEF Fine
<1> QED BY <1>1, <1>4, <1>8, <1>9 DEF Sound

LEMMA ListenerEndsSound ==
  ASSUME Sound(conn), ListenerEnds
  PROVE  Sound(conn')
<1> DEFINE y == [conn EXCEPT !.listener = "done"]
<1>1. /\ ~conn.frozen /\ conn' = y /\ conn \in Connection /\ Whole(conn)
      /\ conn.listener = "resetting" /\ ~Resetting(conn)
  BY DEF ListenerEnds, Alive, Becomes, Sound, Whole
<1>2. ~Ext(conn)
  BY <1>1 DEF Whole, ListenerOK, Resetting, Phase
<1>3. /\ y \in Connection /\ y.hellos = conn.hellos /\ y.listener = "done"
      /\ y.target = conn.target /\ y.epoch = conn.epoch /\ y.transport = conn.transport
      /\ y.peer = conn.peer /\ y.task = conn.task
      /\ y.connecting = conn.connecting /\ y.owner = conn.owner
      /\ y.handshaker = conn.handshaker /\ y.protocol = conn.protocol
      /\ y.initialized = conn.initialized
      /\ y.closing = conn.closing /\ y.reset = conn.reset /\ y.frozen = conn.frozen
      /\ y.open = conn.open /\ y.restored = conn.restored /\ y.notified = conn.notified
  BY <1>1 DEF Connection
<1> HIDE DEF y
<1>4. ~Ext(y) /\ Clean(y)
  BY <1>2, <1>3 DEF Ext, Clean
<1>5. Whole(y)
  BY <1>1, <1>3, <1>4
     DEF Whole, TransportOK, ResetOK, ListenerOK, ReadyOK, NotifiedOK,
         HellosOK, Untold, Phase, Resetting, Before, Early
<1>6. ASSUME NEW u \in Tasks PROVE Fine(y, u) /\ SentOK(y, u)
  <2>1. Fine(conn, u) /\ SentOK(conn, u)
    BY <1>1 DEF Sound
  <2>2. LocksOK(y, u)
    BY <1>3, <1>4, <2>1 DEF Fine, LocksOK, Phase
  <2>3. PlaceOK(y, u)
    BY <1>3, <1>4, <2>1 DEF Fine, PlaceOK
  <2>4. RoleOK(y, u)
    BY <1>2, <1>3, <1>4, <2>1 DEF Fine, RoleOK, Resetting, Phase
  <2>5. WaitOK(y, u) /\ SentOK(y, u)
    BY <1>3, <1>4, <2>1 DEF WaitOK, SentOK
  <2> QED BY <2>2, <2>3, <2>4, <2>5 DEF Fine
<1> QED BY <1>1, <1>3, <1>5, <1>6 DEF Sound

(* What a task that waits keeps while the reset goes on. *)
Carried(x, y, u) ==
  LET c == x.task[u]
      d == y.task[u]
  IN  /\ d.pc = c.pc /\ d.place = c.place /\ d.then = c.then
      /\ d.epoch = c.epoch /\ d.init = c.init /\ d.cancelled = c.cancelled
      /\ d.sent = c.sent
      /\ c.future # "waits" => d.future = c.future

(* The next step of a reset. *)
Onward(x, y) ==
  /\ y.target = x.target /\ y.connecting = x.connecting
  /\ y.handshaker = x.handshaker /\ y.owner = x.owner
  /\ y.closing = x.closing /\ y.reset.by = x.reset.by /\ y.frozen = x.frozen
  /\ Phase(x) \in Before /\ Phase(y) # "none" /\ Phase(y) # "stop"
  /\ Phase(x) = "notify" => Phase(y) = "interrupt"
  /\ Phase(x) # "stop" => y.transport = 0
  /\ Phase(x) = "stop" => Phase(y) = "drop"

LEMMA OnwardFine ==
  ASSUME NEW x, NEW y, Onward(x, y), NEW u \in Tasks, Fine(x, u), SentOK(x, u),
         Carried(x, y, u), WaitOK(y, u)
  PROVE  Fine(y, u) /\ SentOK(y, u)
<1> DEFINE c == x.task[u]
           d == y.task[u]
<1>1. /\ d.pc = c.pc /\ d.place = c.place /\ d.then = c.then
      /\ d.epoch = c.epoch /\ d.init = c.init /\ d.cancelled = c.cancelled
      /\ d.sent = c.sent
      /\ c.future # "waits" => d.future = c.future
  BY DEF Carried
<1>2. Resetting(x) /\ Resetting(y) /\ Clean(y)
  BY DEF Onward, Resetting, Phase, Clean, Before, Early
<1> HIDE DEF c, d
<1>3. LocksOK(y, u)
  BY <1>1, <1>2 DEF Fine, LocksOK, Onward, Before, Early, c, d
<1>4. PlaceOK(y, u)
  <2>1. c.pc = "idle" => c.future = "none"
    BY DEF Fine, PlaceOK, c
  <2> QED BY <1>1, <2>1 DEF Fine, PlaceOK, Onward, Ext, c, d
<1>5. RoleOK(y, u)
  <2>1. u = "cleanup" => c.pc = "idle"
    BY DEF Fine, RoleOK, Onward, Before, Early, c
  <2>2. u = "closer" /\ Ext(x) /\ c.pc = "done" => y.transport = 0 /\ Phase(y) \notin Early
    BY DEF Fine, RoleOK, Onward, Before, Early, c
  <2>3. Ext(y) <=> Ext(x)
    BY DEF Onward, Ext
  <2>4. y.transport = 0 \/ Phase(y) \in {"stop", "drop"}
    BY DEF Onward
  <2> QED BY <1>1, <1>2, <2>1, <2>2, <2>3, <2>4 DEF Fine, RoleOK, Onward, c, d
<1>6. SentOK(y, u)
  BY <1>1 DEF SentOK, c, d
<1> QED BY <1>3, <1>4, <1>5, <1>6 DEF Fine

LEMMA TasksStoppedSound ==
  ASSUME Sound(conn), TasksStopped
  PROVE  Sound(conn')
<1> DEFINE x == IF conn.listener \in {"running", "resetting"}
                  THEN NotInitialized(conn) ELSE conn
           rs == [conn.reset EXCEPT !.phase = "drop"]
           y == conn'
<1>1. /\ ~conn.frozen /\ Phase(conn) = "stop"
      /\ conn' = [x EXCEPT !.listener = "none", !.reset.phase = "drop"]
  BY DEF TasksStopped, InPhase, Alive, Becomes, Phase
<1>2. /\ Whole(conn) /\ conn \in Connection
      /\ \A u \in Tasks : Fine(conn, u) /\ SentOK(conn, u)
  BY <1>1 DEF Sound, Whole
<1>3. /\ x \in Connection /\ x.hellos = conn.hellos
      /\ x.target = conn.target /\ x.epoch = conn.epoch /\ x.transport = conn.transport
      /\ x.peer = conn.peer /\ x.task = conn.task
      /\ x.connecting = conn.connecting /\ x.owner = conn.owner
      /\ x.handshaker = conn.handshaker
      /\ x.initialized => x.protocol /\ conn.initialized
      /\ x.closing = conn.closing /\ x.reset = conn.reset /\ x.frozen = conn.frozen
      /\ x.open = conn.open /\ x.restored = conn.restored /\ x.notified = conn.notified
  BY <1>2, NotInitializedFacts DEF Whole, ReadyOK
<1> HIDE DEF x
<1>4. conn.reset \in Reset
  BY <1>2 DEF Connection
<1>5. /\ rs \in Reset /\ rs.phase = "drop" /\ rs.by = conn.reset.by
      /\ rs.epoch = conn.reset.epoch /\ rs.notify = conn.reset.notify
      /\ rs.turns = conn.reset.turns
  BY <1>4 DEF Reset
<1>6. y = [x EXCEPT !.listener = "none", !.reset = rs]
  BY <1>1, <1>3 DEF Connection
<1> HIDE DEF rs, y
<1>7. /\ y \in Connection /\ y.hellos = conn.hellos /\ y.listener = "none"
      /\ y.target = conn.target /\ y.epoch = conn.epoch /\ y.transport = conn.transport
      /\ y.peer = conn.peer /\ y.task = conn.task
      /\ y.connecting = conn.connecting /\ y.owner = conn.owner
      /\ y.handshaker = conn.handshaker
      /\ y.initialized => y.protocol /\ conn.initialized
      /\ y.closing = conn.closing /\ y.reset = rs /\ y.frozen = conn.frozen
      /\ y.open = conn.open /\ y.restored = conn.restored /\ y.notified = conn.notified
  BY <1>3, <1>5, <1>6 DEF Connection
<1>8. Phase(y) = "drop" /\ Clean(y) /\ Resetting(y)
  BY <1>5, <1>7 DEF Phase, Clean, Resetting
<1>9. Whole(y)
  <2>1. TransportOK(y) /\ ReadyOK(y) /\ HellosOK(y)
    BY <1>1, <1>2, <1>7, <1>8 DEF Whole, TransportOK, ReadyOK, HellosOK, Ext
  <2>2. ResetOK(y) /\ ListenerOK(y)
    BY <1>1, <1>2, <1>5, <1>7, <1>8
       DEF Whole, ResetOK, ListenerOK, Ext, Phase, Before, Early, Resetting
  <2>3. NotifiedOK(y)
    BY <1>1, <1>2, <1>5, <1>7, <1>8 DEF Whole, NotifiedOK, Untold, Before, Early
  <2> QED BY <1>7, <2>1, <2>2, <2>3 DEF Whole
<1>10. ASSUME NEW u \in Tasks PROVE Fine(y, u) /\ SentOK(y, u)
  <2>1. Fine(conn, u) /\ SentOK(conn, u)
    BY <1>2
  <2>2. WaitOK(y, u)
    BY <1>1, <1>2, <1>5, <1>7, <1>8, <2>1
       DEF Fine, WaitOK, IsCurrent, Ext, Whole, ResetOK, Before, Early
  <2>3. Onward(conn, y) /\ Carried(conn, y, u)
    BY <1>1, <1>5, <1>7, <1>8 DEF Onward, Carried, Before, Early
  <2> QED BY <2>1, <2>2, <2>3, OnwardFine
<1> QED BY <1>1, <1>7, <1>9, <1>10 DEF Sound, y

LEMMA TransportDroppedSound ==
  ASSUME Sound(conn), TransportDropped
  PROVE  Sound(conn')
<1> DEFINE rs == [conn.reset EXCEPT !.phase = "close"]
           y == conn'
<1>1. /\ ~conn.frozen /\ Phase(conn) = "drop"
      /\ conn' = [conn EXCEPT !.transport = 0, !.reset.phase = "close"]
  BY DEF TransportDropped, InPhase, Alive, Becomes, Phase
<1>2. /\ Whole(conn) /\ conn \in Connection
      /\ \A u \in Tasks : Fine(conn, u) /\ SentOK(conn, u)
  BY <1>1 DEF Sound, Whole
<1>3. conn.reset \in Reset /\ 0 \in Epoch /\ conn.epoch \in Nat
  BY <1>2, ConnectionAssumption DEF Connection, Epoch
<1>4. /\ rs \in Reset /\ rs.phase = "close" /\ rs.by = conn.reset.by
      /\ rs.epoch = conn.reset.epoch /\ rs.notify = conn.reset.notify
      /\ rs.turns = conn.reset.turns
  BY <1>3 DEF Reset
<1>5. y = [conn EXCEPT !.transport = 0, !.reset = rs]
  BY <1>1, <1>2 DEF Connection
<1> HIDE DEF rs, y
<1>6. /\ y \in Connection /\ y.hellos = conn.hellos /\ y.listener = conn.listener
      /\ y.target = conn.target /\ y.epoch = conn.epoch /\ y.transport = 0
      /\ y.peer = conn.peer /\ y.task = conn.task
      /\ y.connecting = conn.connecting /\ y.owner = conn.owner
      /\ y.handshaker = conn.handshaker /\ y.protocol = conn.protocol
      /\ y.initialized = conn.initialized
      /\ y.closing = conn.closing /\ y.reset = rs /\ y.frozen = conn.frozen
      /\ y.open = conn.open /\ y.restored = conn.restored /\ y.notified = conn.notified
  BY <1>2, <1>3, <1>4, <1>5 DEF Connection
<1>7. Phase(y) = "close" /\ Clean(y) /\ Resetting(y)
  BY <1>4, <1>6 DEF Phase, Clean, Resetting
<1>8. Whole(y)
  <2>1. TransportOK(y) /\ ReadyOK(y) /\ HellosOK(y)
    BY <1>2, <1>6, <1>7 DEF Whole, TransportOK, ReadyOK, HellosOK, Ext
  <2>2. ResetOK(y) /\ ListenerOK(y)
    BY <1>1, <1>2, <1>4, <1>6, <1>7
       DEF Whole, ResetOK, ListenerOK, Ext, Phase, Before, Early, Resetting
  <2>3. NotifiedOK(y)
    BY <1>1, <1>2, <1>4, <1>6, <1>7 DEF Whole, NotifiedOK, Untold, Before, Early
  <2> QED BY <1>6, <2>1, <2>2, <2>3 DEF Whole
<1>9. ASSUME NEW u \in Tasks PROVE Fine(y, u) /\ SentOK(y, u)
  <2>1. Fine(conn, u) /\ SentOK(conn, u)
    BY <1>2
  <2>2. WaitOK(y, u)
    BY <1>1, <1>2, <1>4, <1>6, <1>7, <2>1
       DEF Fine, WaitOK, IsCurrent, Ext, Whole, ResetOK, Before, Early
  <2>3. Onward(conn, y) /\ Carried(conn, y, u)
    BY <1>1, <1>4, <1>6, <1>7 DEF Onward, Carried, Before, Early
  <2> QED BY <2>1, <2>2, <2>3, OnwardFine
<1> QED BY <1>1, <1>6, <1>8, <1>9 DEF Sound, y

LEMMA TransportClosedSound ==
  ASSUME Sound(conn), TransportClosed
  PROVE  Sound(conn')
<1> DEFINE p == IF conn.reset.notify /\ conn.reset.epoch > 0 THEN "notify"
                ELSE "interrupt"
           a == FailFutures(conn, conn.reset.epoch)
           x == NotInitialized(a)
           rs == [conn.reset EXCEPT !.phase = p]
           o == conn.open \ {conn.reset.epoch}
           y == conn'
<1>1. /\ ~conn.frozen /\ Phase(conn) = "close"
      /\ conn' = [x EXCEPT !.open = @ \ {conn.reset.epoch}, !.reset.phase = p]
  BY Zenon DEF TransportClosed, InPhase, Alive, Becomes, Phase, Closed
<1>2. /\ Whole(conn) /\ conn \in Connection
      /\ \A u \in Tasks : Fine(conn, u) /\ SentOK(conn, u)
  BY <1>1 DEF Sound, Whole
<1>3. a \in Connection /\ Same(conn, a) /\ Failed(conn, a, conn.reset.epoch)
  BY <1>2, FailFacts
<1> HIDE DEF a
<1>4. /\ x \in Connection /\ x.hellos = conn.hellos /\ x.listener = conn.listener
      /\ x.target = conn.target /\ x.epoch = conn.epoch /\ x.transport = conn.transport
      /\ x.peer = conn.peer /\ x.task = a.task
      /\ x.connecting = conn.connecting /\ x.owner = conn.owner
      /\ x.handshaker = conn.handshaker /\ ~x.initialized
      /\ x.closing = conn.closing /\ x.reset = conn.reset /\ x.frozen = conn.frozen
      /\ x.open = conn.open /\ x.restored = conn.restored /\ x.notified = conn.notified
  BY <1>3, NotInitializedFacts DEF Same, Alike
<1> HIDE DEF x
<1>5. conn.reset \in Reset /\ o \subseteq Epoch
  BY <1>2 DEF Connection
<1>6. /\ rs \in Reset /\ rs.phase = p /\ rs.by = conn.reset.by
      /\ rs.epoch = conn.reset.epoch /\ rs.notify = conn.reset.notify
      /\ rs.turns = conn.reset.turns
  BY <1>5 DEF Reset
<1> HIDE DEF p
<1>7. y = [x EXCEPT !.open = o, !.reset = rs]
  BY <1>1, <1>4 DEF Connection
<1> HIDE DEF rs, y, o
<1>8. /\ y \in Connection /\ y.hellos = conn.hellos /\ y.listener = conn.listener
      /\ y.target = conn.target /\ y.epoch = conn.epoch /\ y.transport = conn.transport
      /\ y.peer = conn.peer /\ y.task = a.task
      /\ y.connecting = conn.connecting /\ y.owner = conn.owner
      /\ y.handshaker = conn.handshaker /\ ~y.initialized
      /\ y.closing = conn.closing /\ y.reset = rs /\ y.frozen = conn.frozen
      /\ y.open = o /\ y.restored = conn.restored /\ y.notified = conn.notified
  BY <1>4, <1>5, <1>6, <1>7 DEF Connection
<1>9. /\ Phase(y) \in {"notify", "interrupt"} /\ Clean(y) /\ Resetting(y)
      /\ y.transport = 0 /\ y.listener = "none" /\ y.open = {}
      /\ conn.reset.epoch = conn.epoch /\ y.epoch \in Nat
  BY <1>1, <1>2, <1>6, <1>8
     DEF Phase, Clean, Resetting, Whole, TransportOK, ResetOK, Before, Early, o, p,
         Connection, Epoch
<1>10. Whole(y)
  <2>1. TransportOK(y) /\ ReadyOK(y) /\ HellosOK(y)
    BY <1>2, <1>8, <1>9 DEF Whole, TransportOK, ReadyOK, HellosOK, Ext
  <2>2. ListenerOK(y)
    BY <1>2, <1>8, <1>9 DEF Whole, ListenerOK, Ext
  <2>3. Phase(y) = "notify" <=> rs.notify /\ rs.epoch > 0
    BY <1>6, <1>8 DEF Phase, p
  <2>4. ResetOK(y)
    BY <1>1, <1>2, <1>6, <1>8, <1>9, <2>3
       DEF Whole, ResetOK, Ext, Before, Early, Resetting, Phase
  <2>5. NotifiedOK(y)
    <3>1. Untold(y) <=> rs.notify /\ rs.epoch > 0
      BY <1>8, <1>9, <2>3 DEF Untold, Before, Early
    <3>2. Untold(conn) <=> rs.notify
      BY <1>1, <1>6, <1>8, <1>9 DEF Untold, Before, Early
    <3>3. y.epoch # 0 => y.epoch > 0
      BY <1>9
    <3>4. ~conn.closing => rs.notify
      BY <1>1, <1>2, <1>6 DEF Whole, NotifiedOK, Before, Early
    <3> QED BY <1>2, <1>6, <1>8, <1>9, <2>3, <3>1, <3>2, <3>3, <3>4
            DEF Whole, NotifiedOK
  <2> QED BY <1>8, <2>1, <2>2, <2>4, <2>5 DEF Whole
<1>11. ASSUME NEW u \in Tasks PROVE Fine(y, u) /\ SentOK(y, u)
  <2>1. Fine(conn, u) /\ SentOK(conn, u)
    BY <1>2
  <2>2. Carried(conn, y, u)
    BY <1>3, <1>8 DEF Failed, Carried
  <2>3. WaitOK(y, u)
    <3>1. y.task[u].future = "waits" =>
            /\ conn.task[u].future = "waits" /\ conn.task[u].epoch # conn.reset.epoch
      BY <1>3, <1>8 DEF Failed
    <3> QED BY <1>8, <1>9, <2>1, <3>1 DEF Fine, WaitOK, Ext
  <2>4. Onward(conn, y)
    BY <1>1, <1>6, <1>8, <1>9 DEF Onward, Before, Early
  <2> QED BY <2>1, <2>2, <2>3, <2>4, OnwardFine
<1> QED BY <1>1, <1>8, <1>10, <1>11 DEF Sound, y

LEMMA HandlersNotifiedSound ==
  ASSUME Sound(conn), HandlersNotified
  PROVE  Sound(conn')
<1>1. ~conn.frozen /\ Phase(conn) = "notify"
  BY DEF HandlersNotified, InPhase, Alive, Phase
<1>2. PICK n \in 0..MaxTurns :
        /\ n > 0 => conn.target = "stdio"
        /\ conn' = [conn EXCEPT !.reset.phase = "interrupt", !.reset.turns = n,
                                !.notified = Append(@, conn.reset.epoch)]
  BY Zenon DEF HandlersNotified, Becomes
<1> DEFINE rs == [conn.reset EXCEPT !.phase = "interrupt", !.turns = n]
           h == Append(conn.notified, conn.reset.epoch)
           y == conn'
<1>3. /\ Whole(conn) /\ conn \in Connection
      /\ \A u \in Tasks : Fine(conn, u) /\ SentOK(conn, u)
  BY <1>1 DEF Sound, Whole
<1>4. /\ conn.reset \in Reset /\ conn.notified \in Seq(Epoch)
      /\ conn.reset.epoch \in Epoch
  BY <1>3 DEF Connection, Reset
<1>5. /\ rs \in Reset /\ rs.phase = "interrupt" /\ rs.by = conn.reset.by
      /\ rs.turns = n
  BY <1>4 DEF Reset
<1>6. /\ h \in Seq(Epoch) /\ ToSet(h) = ToSet(conn.notified) \cup {conn.reset.epoch}
      /\ IsInjective(conn.notified) /\ conn.reset.epoch \notin ToSet(conn.notified) =>
           IsInjective(h)
  BY <1>4, Appended
<1>7. y = [conn EXCEPT !.reset = rs, !.notified = h]
  BY <1>2, <1>3 DEF Connection
<1> HIDE DEF rs, y, h
<1>8. /\ y \in Connection /\ y.hellos = conn.hellos /\ y.listener = conn.listener
      /\ y.target = conn.target /\ y.epoch = conn.epoch /\ y.transport = conn.transport
      /\ y.peer = conn.peer /\ y.task = conn.task
      /\ y.connecting = conn.connecting /\ y.owner = conn.owner
      /\ y.handshaker = conn.handshaker /\ y.protocol = conn.protocol
      /\ y.initialized = conn.initialized
      /\ y.closing = conn.closing /\ y.reset = rs /\ y.frozen = conn.frozen
      /\ y.open = conn.open /\ y.restored = conn.restored /\ y.notified = h
  BY <1>3, <1>5, <1>6, <1>7 DEF Connection
<1>9. /\ Phase(y) = "interrupt" /\ Clean(y) /\ Resetting(y)
      /\ conn.transport = 0 /\ conn.listener = "none"
      /\ conn.reset.epoch = conn.epoch /\ conn.epoch > 0 /\ conn.reset.notify
      /\ conn.epoch \in Nat
  BY <1>1, <1>3, <1>5, <1>8
     DEF Phase, Clean, Resetting, Whole, ResetOK, Before, Early, Connection, Epoch
<1>10. Ext(y) => n = 0
  BY <1>2, <1>8 DEF Ext
<1>11. Whole(y)
  <2>1. TransportOK(y) /\ ReadyOK(y) /\ HellosOK(y) /\ ListenerOK(y)
    BY <1>1, <1>3, <1>8, <1>9
       DEF Whole, TransportOK, ReadyOK, HellosOK, ListenerOK, Ext
  <2>2. ResetOK(y)
    BY <1>1, <1>3, <1>5, <1>8, <1>9, <1>10
       DEF Whole, ResetOK, Before, Early, Resetting, Phase
  <2>3. NotifiedOK(y)
    <3>1. Untold(conn) /\ ~Untold(y)
      BY <1>1, <1>8, <1>9 DEF Untold, Before, Early
    <3>2. conn.epoch \in 1..conn.epoch
      BY <1>9
    <3> QED BY <1>3, <1>6, <1>8, <1>9, <3>1, <3>2
            DEF Whole, NotifiedOK, Before, Early
  <2> QED BY <1>8, <2>1, <2>2, <2>3 DEF Whole
<1>12. ASSUME NEW u \in Tasks PROVE Fine(y, u) /\ SentOK(y, u)
  <2>1. Fine(conn, u) /\ SentOK(conn, u)
    BY <1>3
  <2>2. Onward(conn, y) /\ Carried(conn, y, u)
    BY <1>1, <1>5, <1>8, <1>9 DEF Onward, Carried, Before, Early
  <2>3. WaitOK(y, u)
    BY <1>1, <1>8, <1>9, <2>1 DEF Fine, WaitOK, Ext, Early
  <2> QED BY <2>1, <2>2, <2>3, OnwardFine
<1> QED BY <1>1, <1>8, <1>11, <1>12 DEF Sound, y

LEMMA TurnInterruptedSound ==
  ASSUME Sound(conn), TurnInterrupted
  PROVE  Sound(conn')
<1> DEFINE t == "cleanup"
           rs == [conn.reset EXCEPT !.turns = @ - 1]
           x == [conn EXCEPT !.reset.turns = @ - 1]
<1>1. /\ ~conn.frozen /\ Phase(conn) = "interrupt" /\ conn.reset.turns > 0
      /\ conn.task[t].pc = "idle" /\ conn' = Begins(x, t, "call")
  BY DEF TurnInterrupted, InPhase, Is, Alive, Becomes, Phase
<1>2. /\ Whole(conn) /\ conn \in Connection /\ t \in Tasks /\ t # None /\ t # "closer"
      /\ \A u \in Tasks : Fine(conn, u) /\ SentOK(conn, u)
  BY <1>1, ConnectionAssumption DEF Sound, Whole, Tasks, None
<1> HIDE DEF t
<1>3. conn.reset \in Reset /\ conn.reset.turns - 1 \in 0..MaxTurns
  BY <1>1, <1>2, ConnectionAssumption DEF Connection, Reset
<1>4. /\ rs \in Reset /\ rs.phase = conn.reset.phase /\ rs.by = conn.reset.by
      /\ rs.epoch = conn.reset.epoch /\ rs.notify = conn.reset.notify
  BY <1>3 DEF Reset
<1>5. x = [conn EXCEPT !.reset = rs]
  BY <1>2 DEF Connection
<1> HIDE DEF rs, x
<1>6. /\ x \in Connection /\ x.hellos = conn.hellos /\ x.listener = conn.listener
      /\ x.target = conn.target /\ x.epoch = conn.epoch /\ x.transport = conn.transport
      /\ x.peer = conn.peer /\ x.task = conn.task
      /\ x.connecting = conn.connecting /\ x.owner = conn.owner
      /\ x.handshaker = conn.handshaker /\ x.protocol = conn.protocol
      /\ x.initialized = conn.initialized
      /\ x.closing = conn.closing /\ x.reset = rs /\ x.frozen = conn.frozen
      /\ x.open = conn.open /\ x.restored = conn.restored /\ x.notified = conn.notified
  BY <1>2, <1>4, <1>5 DEF Connection
<1>7. ~Ext(conn) /\ ~Ext(x) /\ Clean(x) /\ Clean(conn)
  BY <1>1, <1>2, <1>3, <1>6 DEF Whole, ResetOK, Ext, Clean, Connection, Reset
<1>8. Whole(x)
  <2>1. ResetOK(x)
    BY <1>2, <1>4, <1>6, <1>7 DEF Whole, ResetOK, Phase, Resetting
  <2>2. NotifiedOK(x)
    BY <1>2, <1>4, <1>6 DEF Whole, NotifiedOK, Phase, Untold
  <2>3. TransportOK(x)
    BY <1>2, <1>4, <1>6 DEF Whole, TransportOK, Phase
  <2> QED BY <1>2, <1>6, <1>7, <2>1, <2>2, <2>3
          DEF Whole, ListenerOK, ReadyOK, HellosOK
<1>9. ASSUME NEW u \in Tasks PROVE Fine(x, u) /\ SentOK(x, u)
  <2>1. Fine(conn, u) /\ SentOK(conn, u)
    BY <1>2
  <2>2. LocksOK(x, u)
    BY <1>4, <1>6, <1>7, <2>1 DEF Fine, LocksOK, Phase
  <2>3. PlaceOK(x, u) /\ SentOK(x, u)
    BY <1>6, <1>7, <2>1 DEF Fine, PlaceOK, SentOK
  <2>4. RoleOK(x, u)
    BY <1>4, <1>6, <1>7, <2>1 DEF Fine, RoleOK, Phase, Resetting
  <2>5. WaitOK(x, u)
    BY <1>7 DEF WaitOK
  <2> QED BY <2>2, <2>3, <2>4, <2>5 DEF Fine
<1>10. Free(x, t)
  <2>1. LocksOK(x, t) /\ PlaceOK(x, t) /\ RoleOK(x, t) /\ WaitOK(x, t)
    BY <1>2, <1>9 DEF Fine
  <2>2. x.task[t].pc = "idle" /\ Phase(x) = "interrupt"
    BY <1>1, <1>4, <1>6 DEF Phase
  <2>3. /\ x.connecting # t /\ x.owner # t /\ x.task[t].sent = {}
        /\ Resetting(x) => x.reset.by # t
    BY <1>2, <2>1, <2>2 DEF LocksOK, PlaceOK, RoleOK
  <2>4. ~x.task[t].cancelled
    BY <2>1 DEF RoleOK, t
  <2>5. Runs(x, t)
    BY <1>1, <1>2, <1>6, <1>7, <1>8, <1>9, <2>1, <2>2, <2>3, <2>4 DEF Runs
  <2> QED BY <1>7, <2>2, <2>3, <2>5 DEF Free, Tidy
<1>11. Rightly(x, t, "call")
  BY DEF Rightly, Entries
<1> QED BY <1>1, <1>2, <1>10, <1>11, BeginsSound

LEMMA OverSound ==
  ASSUME NEW x, Sound(x), ~x.frozen, Phase(x) = "interrupt",
         x.task["cleanup"].pc = "idle"
  PROVE  Sound([x EXCEPT !.reset.phase = "over"])
<1> DEFINE rs == [x.reset EXCEPT !.phase = "over"]
           y == [x EXCEPT !.reset.phase = "over"]
<1>1. /\ Whole(x) /\ x \in Connection /\ x.reset \in Reset
      /\ \A u \in Tasks : Fine(x, u) /\ SentOK(x, u)
  BY DEF Sound, Whole, Connection
<1>2. /\ rs \in Reset /\ rs.phase = "over" /\ rs.by = x.reset.by
      /\ rs.turns = x.reset.turns
  BY <1>1 DEF Reset
<1>3. y = [x EXCEPT !.reset = rs]
  BY <1>1 DEF Connection
<1> HIDE DEF rs, y
<1>4. /\ y \in Connection /\ y.hellos = x.hellos /\ y.listener = x.listener
      /\ y.target = x.target /\ y.epoch = x.epoch /\ y.transport = x.transport
      /\ y.peer = x.peer /\ y.task = x.task
      /\ y.connecting = x.connecting /\ y.owner = x.owner
      /\ y.handshaker = x.handshaker /\ y.protocol = x.protocol
      /\ y.initialized = x.initialized
      /\ y.closing = x.closing /\ y.reset = rs /\ y.frozen = x.frozen
      /\ y.open = x.open /\ y.restored = x.restored /\ y.notified = x.notified
  BY <1>1, <1>2, <1>3 DEF Connection
<1>5. Phase(y) = "over" /\ Resetting(y) /\ Resetting(x) /\ Clean(y)
  BY <1>2, <1>4 DEF Phase, Resetting, Clean
<1>6. Whole(y)
  <2>1. ResetOK(y)
    BY <1>1, <1>2, <1>4, <1>5 DEF Whole, ResetOK, Before, Early, Ext
  <2>2. NotifiedOK(y)
    BY <1>1, <1>2, <1>4, <1>5 DEF Whole, NotifiedOK, Untold, Before, Early
  <2>3. TransportOK(y) /\ ListenerOK(y)
    BY <1>1, <1>4, <1>5 DEF Whole, TransportOK, ListenerOK, Ext
  <2> QED BY <1>1, <1>4, <1>5, <2>1, <2>2, <2>3 DEF Whole, ReadyOK, HellosOK, Ext
<1>7. ASSUME NEW u \in Tasks PROVE Fine(y, u) /\ SentOK(y, u)
  <2>1. Fine(x, u) /\ SentOK(x, u)
    BY <1>1
  <2>2. LocksOK(y, u)
    BY <1>4, <1>5, <2>1 DEF Fine, LocksOK
  <2>3. PlaceOK(y, u) /\ SentOK(y, u)
    BY <1>4, <2>1 DEF Fine, PlaceOK, SentOK, Ext
  <2>4. RoleOK(y, u)
    BY <1>2, <1>4, <1>5, <2>1 DEF Fine, RoleOK, Ext, Early
  <2>5. WaitOK(y, u)
    BY <1>4, <1>5, <2>1 DEF Fine, WaitOK, Ext, IsCurrent, Early
  <2> QED BY <2>2, <2>3, <2>4, <2>5 DEF Fine
<1>8. Sound(y)
  BY <1>4, <1>6, <1>7 DEF Sound
<1> QED BY <1>8 DEF y

LEMMA CleanupDoneSound ==
  ASSUME Sound(conn), CleanupDone
  PROVE  Sound(conn')
<1> DEFINE t == "reconnect"
           x == Schedules(conn)
<1>1. /\ ~conn.frozen /\ Phase(conn) = "interrupt" /\ conn.task["cleanup"].pc = "idle"
      /\ conn' = [x EXCEPT !.reset.phase = "over"]
  BY DEF CleanupDone, InPhase, Is, Alive, Becomes, Phase
<1>2. x = conn \/ (conn.task[t].pc = "idle" /\ x = Ends(conn, t, "backoff"))
  BY DEF Schedules, Ends
<1> HIDE DEF x
<1>3. /\ Sound(x) /\ ~x.frozen /\ Phase(x) = "interrupt"
      /\ x.task["cleanup"].pc = "idle"
  <2>1. CASE x = conn
    BY <1>1, <2>1
  <2>2. CASE conn.task[t].pc = "idle" /\ x = Ends(conn, t, "backoff")
    <3>1. t \in Tasks /\ t # "closer" /\ t # "cleanup"
      BY DEF Tasks
    <3> HIDE DEF t
    <3>2. Woken(conn, t)
      BY <1>1, <2>2, <3>1 DEF Woken
    <3>3. Free(conn, t)
      BY <2>2, <3>1, <3>2, WokenFree
    <3>4. Sound(x)
      BY <2>2, <3>1, <3>3, EndsSound DEF Free
    <3>5. conn \in Connection /\ "backoff" \in Pcs /\ "cleanup" \in Tasks \ {t}
      BY <3>1 DEF Sound, Whole, Pcs, Tasks
    <3>6. Moved(conn, x, t)
      BY <2>2, <3>1, <3>5, EndsFacts
    <3> QED BY <1>1, <3>4, <3>5, <3>6 DEF Moved, Same, Alike, Others, Phase
  <2> QED BY <1>2, <2>1, <2>2
<1> QED BY <1>1, <1>3, OverSound

LEMMA ReconnectTriesSound ==
  ASSUME Sound(conn), ReconnectTries
  PROVE  Sound(conn')
<1> DEFINE t == "reconnect"
<1>1. /\ ~conn.frozen /\ conn.task[t].pc = "backoff"
      /\ conn' = IF conn.closing THEN Ends(conn, t, "idle")
                 ELSE Begins(conn, t, "call")
  BY DEF ReconnectTries, Is, Alive, Becomes
<1>2. t \in Tasks /\ t # "closer" /\ t # "cleanup"
  BY DEF Tasks
<1> HIDE DEF t
<1>3. Woken(conn, t)
  BY <1>1, <1>2 DEF Woken
<1>4. Free(conn, t)
  BY <1>1, <1>2, <1>3, WokenFree
<1>5. Sound(Ends(conn, t, "idle"))
  BY <1>2, <1>4, EndsSound DEF Free
<1>6. Sound(Begins(conn, t, "call"))
  BY <1>2, <1>4, BeginsSound DEF Rightly, Entries
<1> QED BY <1>1, <1>5, <1>6

-----------------------------------------------------------------------------
(* The invariant.                                                          *)

LEMMA InitSound == Init => Sound(conn)
<1> SUFFICES ASSUME Init PROVE Sound(conn)
  OBVIOUS
<1>1. /\ conn.target \in Targets /\ conn.epoch = 0 /\ conn.transport = 0
      /\ conn.peer = "up" /\ conn.listener = "none" /\ conn.connecting = None
      /\ conn.handshaker = None /\ conn.owner = None /\ ~conn.protocol
      /\ ~conn.initialized /\ ~conn.beenReady /\ ~conn.closing
      /\ conn.reset = NoReset /\ conn.task = [t \in Tasks |-> Fresh]
      /\ ~conn.frozen /\ conn.open = {} /\ conn.hellos = <<>>
      /\ conn.restored = {} /\ conn.notified = <<>>
  BY DEF Init
<1>2. /\ NoReset \in Reset /\ NoReset.phase = "none" /\ NoReset.turns = 0
      /\ 0 \in Epoch /\ \A u \in Tasks : u # None
  BY ConnectionAssumption DEF NoReset, Reset, None, Epoch, Tasks
<1>3. conn \in Connection
  <2>1. conn.task \in [Tasks -> Task]
    BY <1>1, FreshTyped
  <2>2. <<>> \in Seq(Epoch)
    OBVIOUS
  <2>3. \E g \in Targets :
          conn = [target |-> g, epoch |-> 0, transport |-> 0, peer |-> "up",
                  listener |-> "none", connecting |-> None, handshaker |-> None,
                  owner |-> None, protocol |-> FALSE, initialized |-> FALSE,
                  beenReady |-> FALSE, closing |-> FALSE, reset |-> NoReset,
                  task |-> [t \in Tasks |-> Fresh], frozen |-> FALSE,
                  open |-> {}, hellos |-> <<>>, restored |-> {},
                  notified |-> <<>>]
    BY DEF Init
  <2> DEFINE f == [t \in Tasks |-> Fresh]
  <2>4. f \in [Tasks -> Task]
    BY FreshTyped
  <2> HIDE DEF f
  <2> QED BY <1>2, <2>2, <2>3, <2>4 DEF Connection, f
<1>4. ~Resetting(conn) /\ Phase(conn) = "none" /\ Clean(conn) /\ ~Untold(conn)
  BY <1>1, <1>2 DEF Resetting, Phase, Clean, ToSet, Untold, Before, Early
<1>5. ToSet(conn.hellos) = {} /\ ToSet(conn.notified) = {}
      /\ IsInjective(conn.hellos) /\ IsInjective(conn.notified)
  BY <1>1 DEF ToSet, IsInjective
<1>6. Whole(conn)
  <2>1. TransportOK(conn) /\ ReadyOK(conn) /\ HellosOK(conn) /\ ListenerOK(conn)
    BY <1>1, <1>4, <1>5 DEF TransportOK, ReadyOK, HellosOK, ListenerOK
  <2>2. ResetOK(conn)
    BY <1>1, <1>2, <1>4 DEF ResetOK, Before, Early
  <2>3. NotifiedOK(conn)
    BY <1>1, <1>4, <1>5 DEF NotifiedOK, Before, Early
  <2> QED BY <1>3, <2>1, <2>2, <2>3 DEF Whole
<1>7. ASSUME NEW u \in Tasks PROVE Fine(conn, u) /\ SentOK(conn, u)
  <2>1. conn.task[u] = Fresh /\ u # None
    BY <1>1, <1>2
  <2>2. LocksOK(conn, u) /\ PlaceOK(conn, u)
    BY <1>1, <1>4, <2>1 DEF LocksOK, PlaceOK, Fresh, Over
  <2>3. RoleOK(conn, u)
    BY <1>4, <2>1 DEF RoleOK, Fresh
  <2>4. WaitOK(conn, u) /\ SentOK(conn, u)
    BY <2>1 DEF WaitOK, SentOK, Fresh
  <2> QED BY <2>2, <2>3, <2>4 DEF Fine
<1> QED BY <1>1, <1>6, <1>7 DEF Sound

-----------------------------------------------------------------------------
(* The invariant of the specification. *)

LEMMA TaskStepSound ==
  ASSUME Sound(conn), NEW t \in Tasks, TaskStep(t)
  PROVE  Sound(conn')
<1>1. CASE ResetAwaited(t) BY <1>1, ResetAwaitedSound
<1>2. CASE ConnectLockTaken(t) BY <1>2, ConnectLockTakenSound
<1>3. CASE ResetAwaitedInLock(t) BY <1>3, ResetAwaitedInLockSound
<1>4. CASE Opened(t) BY <1>4, OpenedSound
<1>5. CASE InitializeLockTaken(t) BY <1>5, InitializeLockTakenSound
<1>6. CASE RequestResumes(t) BY <1>6, RequestResumesSound
<1>7. CASE RetryWakes(t) BY <1>7, RetryWakesSound
<1>8. CASE ReplySent(t) BY <1>8, ReplySentSound
<1>9. CASE HandlerCalls(t) BY <1>9, HandlerCallsSound
<1>10. CASE HandlersDone(t) BY <1>10, HandlersDoneSound
<1>11. CASE OtherResetEnds(t) BY <1>11, OtherResetEndsSound
<1> QED BY <1>1, <1>2, <1>3, <1>4, <1>5, <1>6, <1>7, <1>8, <1>9, <1>10, <1>11
           DEF TaskStep

LEMMA DisturbedSound ==
  ASSUME Sound(conn), NEW t \in Tasks, Disturbed(t)
  PROVE  Sound(conn')
<1>1. CASE OpenFails(t) BY <1>1, OpenFailsSound
<1>2. CASE RequestTimesOut(t) BY <1>2, RequestTimesOutSound
<1>3. CASE ReplyFails(t) BY <1>3, ReplyFailsSound
<1>4. CASE HandlerFails(t) BY <1>4, HandlerFailsSound
<1>5. CASE CallerCancelled(t) BY <1>5, CallerCancelledSound
<1> QED BY <1>1, <1>2, <1>3, <1>4, <1>5 DEF Disturbed

LEMMA ResetStepSound ==
  ASSUME Sound(conn), ResetStep
  PROVE  Sound(conn')
<1>1. CASE TasksStopped BY <1>1, TasksStoppedSound
<1>2. CASE TransportDropped BY <1>2, TransportDroppedSound
<1>3. CASE TransportClosed BY <1>3, TransportClosedSound
<1>4. CASE HandlersNotified BY <1>4, HandlersNotifiedSound
<1>5. CASE TurnInterrupted BY <1>5, TurnInterruptedSound
<1>6. CASE CleanupDone BY <1>6, CleanupDoneSound
<1>7. CASE ResetEnds BY <1>7, ResetEndsSound
<1> QED BY <1>1, <1>2, <1>3, <1>4, <1>5, <1>6, <1>7 DEF ResetStep

LEMMA NextSound ==
  ASSUME Sound(conn), [Next]_vars
  PROVE  Sound(conn')
<1>1. ASSUME NEW t \in Tasks,
             CallStarts(t) \/ TaskStep(t) \/ Responds(t) \/ Disturbed(t)
      PROVE  Sound(conn')
  BY <1>1, CallStartsSound, TaskStepSound, RespondsSound, DisturbedSound
<1>2. CASE PeerDies BY <1>2, PeerDiesSound
<1>3. CASE ChildReaped BY <1>3, ChildReapedSound
<1>4. CASE ListenerFails BY <1>4, ListenerFailsSound
<1>5. CASE ListenerEnds BY <1>5, ListenerEndsSound
<1>6. CASE ResetStep BY <1>6, ResetStepSound
<1>7. CASE ReconnectTries BY <1>7, ReconnectTriesSound
<1>8. CASE CloseStarts BY <1>8, CloseStartsSound
<1>9. CASE CloserStep BY <1>9, CloserStepSound
<1>10. CASE UNCHANGED vars
  <2>1. conn' = conn
    BY <1>10 DEF vars
  <2> QED BY <2>1
<1> QED BY <1>1, <1>2, <1>3, <1>4, <1>5, <1>6, <1>7, <1>8, <1>9, <1>10 DEF Next

(* The state of the client stays consistent: locks are held by the tasks   *)
(* that wait with them, a reset has a task that began it, and every task   *)
(* waits for something that can still come.                                *)
THEOREM SoundAlways == Spec => []SoundConnection
<1>1. Init => SoundConnection
  BY InitSound DEF SoundConnection
<1>2. SoundConnection /\ [Next]_vars => SoundConnection'
  BY NextSound DEF SoundConnection
<1> QED BY <1>1, <1>2, PTL DEF Spec

-----------------------------------------------------------------------------
(* What it says of the connection. *)

LEMMA SpentTyped ==
  ASSUME spent \in Nat, [Next]_vars
  PROVE  spent' \in Nat
<1>1. ASSUME UNCHANGED spent \/ Disturb PROVE spent' \in Nat
  BY <1>1 DEF Disturb
<1>2. ASSUME NEW t \in Tasks,
             CallStarts(t) \/ TaskStep(t) \/ Responds(t) \/ Disturbed(t)
      PROVE  UNCHANGED spent \/ Disturb
  <2>1. CASE CallStarts(t) \/ Responds(t)
    <3>1. CallStarts(t) => UNCHANGED spent
      BY Zenon DEF CallStarts, Becomes
    <3>2. Responds(t) => UNCHANGED spent \/ Disturb
      BY Zenon DEF Responds
    <3> QED BY <2>1, <3>1, <3>2
  <2>2. CASE TaskStep(t)
    <3>1. \/ ResetAwaited(t) \/ ConnectLockTaken(t) \/ ResetAwaitedInLock(t)
          \/ Opened(t) \/ InitializeLockTaken(t)
          => UNCHANGED spent
      BY Zenon DEF ResetAwaited, ConnectLockTaken, ResetAwaitedInLock, Opened,
           InitializeLockTaken, Becomes
    <3>2. RequestResumes(t) \/ RetryWakes(t) \/ ReplySent(t) => UNCHANGED spent
      BY Zenon DEF RequestResumes, RetryWakes, ReplySent, Becomes
    <3>3. HandlerCalls(t) \/ HandlersDone(t) \/ OtherResetEnds(t) => UNCHANGED spent
      BY Zenon DEF HandlerCalls, HandlersDone, OtherResetEnds, Becomes
    <3> QED BY <2>2, <3>1, <3>2, <3>3 DEF TaskStep
  <2>3. CASE Disturbed(t)
    BY <2>3 DEF Disturbed, OpenFails, RequestTimesOut, ReplyFails,
         HandlerFails, CallerCancelled
  <2> QED BY <1>2, <2>1, <2>2, <2>3
<1>3. ASSUME ResetStep PROVE UNCHANGED spent
  <2>1. TasksStopped \/ TransportDropped \/ TransportClosed => UNCHANGED spent
    BY Zenon DEF TasksStopped, TransportDropped, TransportClosed, Becomes
  <2>2. HandlersNotified \/ TurnInterrupted => UNCHANGED spent
    BY Zenon DEF HandlersNotified, TurnInterrupted, Becomes
  <2>3. CleanupDone \/ ResetEnds => UNCHANGED spent
    BY Zenon DEF CleanupDone, ResetEnds, Becomes
  <2> QED BY <1>3, <2>1, <2>2, <2>3 DEF ResetStep
<1>4. ASSUME \/ PeerDies \/ ChildReaped \/ ListenerFails \/ ListenerEnds
             \/ ReconnectTries \/ CloseStarts \/ CloserStep
      PROVE  UNCHANGED spent \/ Disturb
  BY <1>4 DEF PeerDies, ChildReaped, ListenerFails, ListenerEnds,
       ReconnectTries, CloseStarts, CloserStep, ReconnectJoined, CloserLocks,
       Becomes
<1> QED BY <1>1, <1>2, <1>3, <1>4 DEF Next, vars

LEMMA AtMostOne ==
  ASSUME NEW S, NEW e, S = {} \/ S = {e}
  PROVE  Cardinality(S) <= 1
<1>1. Cardinality({}) = 0
  BY FS_EmptySet
<1>2. Cardinality({e}) = 1
  BY FS_Singleton
<1>3. CASE S = {} BY <1>1, <1>3
<1>4. CASE S = {e} BY <1>2, <1>4
<1> QED BY <1>3, <1>4

(* Whatever calls, losses and cancellations come in whatever order, the    *)
(* client's fields, its tasks and its history keep their types.            *)
THEOREM Typed == Spec => []TypeOK
<1>1. Init => spent \in Nat
  BY DEF Init
<1>2. spent \in Nat /\ [Next]_vars => (spent \in Nat)'
  BY SpentTyped
<1>3. SoundConnection /\ spent \in Nat => TypeOK
  BY DEF SoundConnection, Sound, Whole, TypeOK
<1> QED BY <1>1, <1>2, <1>3, SoundAlways, PTL DEF Spec

(* When the client says it is ready, the handshake was made and the ready  *)
(* handlers completed on the very connection there is, and a persistent    *)
(* one is still read from or being reset.                                  *)
THEOREM ReadyAfterRestore == Spec => []ReadyMeansRestored
<1>1. SoundConnection => ReadyMeansRestored
  <2> SUFFICES ASSUME SoundConnection, ConnectionReady
               PROVE  /\ conn.protocol /\ conn.transport \in conn.restored
                      /\ External => conn.listener = "running" \/ Resetting(conn)
    BY DEF ReadyMeansRestored
  <2>1. conn.transport # 0 /\ conn.initialized
    BY DEF ConnectionReady
  <2>2. TransportOK(conn) /\ ReadyOK(conn) /\ ListenerOK(conn)
    BY DEF SoundConnection, Sound, Whole
  <2> QED BY <2>1, <2>2 DEF TransportOK, ReadyOK, ListenerOK, External, Ext,
               Resetting, Phase
<1> QED BY <1>1, SoundAlways, PTL

(* No two transports are open at once, and `initialize' is sent at most    *)
(* once on a persistent connection, whatever tasks want one at the time.   *)
THEOREM OneOpenConnection == Spec => []OneConnectionOpen
<1>1. SoundConnection => OneConnectionOpen
  <2> SUFFICES ASSUME SoundConnection PROVE OneConnectionOpen
    OBVIOUS
  <2>1. conn.open \subseteq {conn.epoch} /\ (Ext(conn) => IsInjective(conn.hellos))
    BY DEF SoundConnection, Sound, Whole, TransportOK, HellosOK
  <2>2. conn.open = {} \/ conn.open = {conn.epoch}
    BY <2>1
  <2>3. Cardinality(conn.open) <= 1
    BY <2>2, AtMostOne
  <2> QED BY <2>1, <2>3 DEF OneConnectionOpen, AtMostOneHandshake, External, Ext
<1> QED BY <1>1, SoundAlways, PTL

(* Until the client is closed, its reset handlers have run exactly once    *)
(* for every connection that was lost before the next one is there.        *)
THEOREM LossHandledFirst == Spec => []LossIsHandledFirst
<1>1. SoundConnection => LossIsHandledFirst
  <2> SUFFICES ASSUME SoundConnection PROVE LossIsHandledFirst
    OBVIOUS
  <2>1. TransportOK(conn) /\ NotifiedOK(conn) /\ conn \in Connection
    BY DEF SoundConnection, Sound, Whole
  <2>2. IsInjective(conn.notified)
    BY <2>1 DEF NotifiedOK
  <2>3. ASSUME conn.transport # 0, ~conn.closing
        PROVE  ToSet(conn.notified) = 1..(conn.transport - 1)
    <3>1. conn.transport = conn.epoch /\ conn.epoch \in Nat
      BY <2>1, <2>3 DEF TransportOK, Connection, Epoch
    <3>2. /\ ToSet(conn.notified) \subseteq 1..conn.epoch
          /\ conn.epoch \notin ToSet(conn.notified)
          /\ 1..(conn.epoch - 1) \subseteq ToSet(conn.notified)
      BY <2>1, <2>3 DEF NotifiedOK, Untold
    <3>3. \A n \in 1..conn.epoch : n # conn.epoch => n \in 1..(conn.epoch - 1)
      BY <3>1
    <3>4. ToSet(conn.notified) = 1..(conn.epoch - 1)
      BY <3>2, <3>3
    <3> QED BY <3>1, <3>4
  <2> QED BY <2>2, <2>3 DEF LossIsHandledFirst
<1> QED BY <1>1, SoundAlways, PTL

(* A request is sent on one connection only, its retries included, and a   *)
(* reply on the connection of the request it answers.                      *)
THEOREM SentOnOneConnection == Spec => []StaysOnItsConnection
<1>1. SoundConnection => StaysOnItsConnection
  <2> SUFFICES ASSUME SoundConnection, NEW t \in Tasks
               PROVE  /\ Cardinality(conn.task[t].sent) <= 1
                      /\ conn.task[t].pc = "replying" =>
                           conn.task[t].sent = {conn.task[t].epoch}
    BY DEF StaysOnItsConnection
  <2>1. SentOK(conn, t)
    BY DEF SoundConnection, Sound
  <2>2. \/ conn.task[t].sent = {}
        \/ conn.task[t].sent = {conn.task[t].epoch}
    BY <2>1 DEF SentOK
  <2>3. Cardinality(conn.task[t].sent) <= 1
    BY <2>2, AtMostOne
  <2> QED BY <2>1, <2>3 DEF SentOK
<1> QED BY <1>1, SoundAlways, PTL

(* On a persistent server, a task that waits for an answer waits on the    *)
(* connection that is read from, or on one whose reset will fail it.       *)
THEOREM NoVainWait == Spec => []NobodyWaitsInVain
<1>1. SoundConnection => NobodyWaitsInVain
  <2> SUFFICES ASSUME SoundConnection, External, NEW t \in Tasks,
                      conn.task[t].future = "waits"
               PROVE  \/ /\ IsCurrent(conn, conn.task[t].epoch)
                         /\ conn.listener = "running"
                      \/ /\ conn.reset.epoch = conn.task[t].epoch
                         /\ conn.reset.phase \in {"stop", "drop", "close"}
    BY DEF NobodyWaitsInVain
  <2>1. Ext(conn) /\ WaitOK(conn, t)
    BY DEF SoundConnection, Sound, Fine, External, Ext
  <2> QED BY <2>1 DEF WaitOK, Phase, Early
<1> QED BY <1>1, SoundAlways, PTL

(* Once close has returned, the client of a persistent server has no       *)
(* transport open, and no task that was on its way opens one.              *)
THEOREM ClosedForGood == Spec => []CloseIsFinal
<1>1. SoundConnection => CloseIsFinal
  <2> SUFFICES ASSUME SoundConnection, External, conn.task["closer"].pc = "done"
               PROVE  conn.open = {} /\ conn.transport = 0
    BY DEF CloseIsFinal
  <2>1. RoleOK(conn, "closer") /\ Ext(conn) /\ TransportOK(conn)
    BY DEF SoundConnection, Sound, Whole, Fine, External, Ext, Tasks
  <2>2. conn.transport = 0 /\ Phase(conn) # "close"
    BY <2>1 DEF RoleOK, Early
  <2> QED BY <2>1, <2>2 DEF TransportOK
<1> QED BY <1>1, SoundAlways, PTL
==============================================================================
