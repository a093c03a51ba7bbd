------------------------------ MODULE PendingRequests ------------------------------
(***************************************************************************)
(* Requests of the app-server to the bridge.  Approvals and questions      *)
(* become routes in the store, keyed by the request id alone, and are      *)
(* shown to the conversation, whose commands answer them.  Calls of        *)
(* dynamic tools are given to a task that leaves them to a peer or answers *)
(* them itself.  The rest is answered on the spot.  Requests and           *)
(* serverRequest/resolved share one lane of the connection, completions    *)
(* arrive on another.  An id identifies a request on one connection only.  *)
(* While a conversation is handed to a thread, the gate of the thread sets *)
(* aside what comes for it; the drain of the gate handles that later, even *)
(* when the connection has been replaced meanwhile.                        *)
(***************************************************************************)
EXTENDS Naturals, Sequences, FiniteSetsExt, SequencesExt

CONSTANTS
  Asked,        \* server requests
  Id,           \* [Asked -> transport id]
  Sort,         \* [Asked -> "approval", "question", "clock", "hosted", "foreign", "unknown"]
  TurnOf,       \* [Asked -> turn]
  Turns,
  Unbound,      \* turns of threads no conversation is bound to
  Longer,       \* [id -> ids it is a proper prefix of]
  RecentHost,   \* _RECENT_HOST_COMPLETION_LIMIT
  Connections,  \* bound on the connection epoch
  Nothing       \* no request, no turn

VARIABLES
  conn,         \* connection_epoch
  link,         \* "up", "down" (being reset), "clean" (reset handlers done)
  native,       \* [Asked -> "new", "open", "settled"], as the app-server sees it
  asked,        \* [Asked -> connection it was sent on, 0 before]
  lane,         \* server request queue
  news,         \* notification queue: completed calls and turns
  turn,         \* [Turns -> "new", "running", "over"]
  active,       \* the active turn of the conversation's thread
  suppressed,   \* turns whose output is suppressed
  routes,       \* _pending_requests
  gate,         \* what is set aside: .at, the turns it is .of, frames .held, turns .over
  handler,      \* [Handlers -> what the lane's dispatcher, the gate's drain handles, and where]
  command,      \* the command of the conversation that is under way
  task,         \* [Asked -> the delegated task]
  recentCalls, recentTurns, \* _recent_dynamic_tool_completions, _recent_turn_completions
  answers,      \* [Asked -> responses written to a connection]
  shown,        \* requests the conversation has been shown
  handoffs,     \* how many hand-offs may still begin
  late,         \* requests the gate had when their connection was reset
  cut,          \* requests whose handling by the gate was cut short
  bad           \* how many faults may still happen

requestVars == <<conn, link, native, asked, lane, news, turn, active, suppressed, routes,
                 gate, handler, command, task, recentCalls, recentTurns, answers, shown,
                 handoffs, late, cut, bad>>
gateSide == <<gate, handoffs, late, cut>>
nativeSide == <<native, asked, turn>>
bridgeSide == <<active, suppressed, routes>>

(* There are finitely many requests; completions are remembered. *)
RequestsAssumed ==
  IsFiniteSet(Asked) /\ Nothing \notin Asked /\ RecentHost \in Nat \ {0}
ASSUME RequestsAssumption == RequestsAssumed
ASSUME ConnectionsAssumption == Connections \in Nat \ {0}

Ids == {Id[c] : c \in Asked}
Routed(c) == Sort[c] \in {"approval", "question"} /\ TurnOf[c] \notin Unbound \cup suppressed
Tool(c) == Sort[c] \in {"hosted", "foreign"}
AtRest == [call |-> Nothing, at |-> "idle", todo |-> {}]
Handlers == {"lane", "gate"}
NoGate == [at |-> "none", of |-> {}, held |-> <<>>, over |-> {}]

RequestsInit(calls, faults, switches) ==
  /\ conn = 1 /\ link = "up"
  /\ native = [c \in Asked |-> IF c \in calls THEN "new" ELSE "settled"]
  /\ asked = [c \in Asked |-> 0]
  /\ lane = <<>> /\ news = <<>>
  /\ turn = [t \in Turns |-> IF \E c \in calls : TurnOf[c] = t THEN "new" ELSE "over"]
  /\ active = Nothing /\ suppressed = {}
  /\ routes = [i \in Ids |-> Nothing]
  /\ gate = NoGate /\ handler = [w \in Handlers |-> AtRest] /\ command = AtRest
  /\ task = [c \in Asked |-> "none"]
  /\ recentCalls = <<>> /\ recentTurns = <<>>
  /\ answers = [c \in Asked |-> <<>>] /\ shown = {}
  /\ handoffs = switches /\ late = {} /\ cut = {} /\ bad = faults

-----------------------------------------------------------------------------
(* The app-server and its other clients. *)

Open(S) == {c \in S : native[c] = "open"}
InTurn(t) == {c \in Asked : TurnOf[c] = t}
Settle(S) == native' = [c \in Asked |-> IF c \in Open(S) THEN "settled" ELSE native[c]]
Tell(S) == lane' = lane \o SetToSeq({[call |-> c, is |-> "resolved"] : c \in Open(S)})

TurnStarts(t) ==
  /\ link = "up" /\ turn[t] = "new" /\ \A u \in Turns : turn[u] # "running"
  /\ turn' = [turn EXCEPT ![t] = "running"]
  /\ active' = IF t \in Unbound THEN active ELSE t
  /\ UNCHANGED <<gateSide, conn, link, native, asked, lane, news, suppressed, routes, handler,
                 command, task, recentCalls, recentTurns, answers, shown, bad>>

Asks(c) ==
  /\ link = "up" /\ native[c] = "new" /\ turn[TurnOf[c]] = "running"
  /\ \A d \in Asked : Id[d] = Id[c] => asked[d] # conn
  /\ native' = [native EXCEPT ![c] = "open"]
  /\ asked' = [asked EXCEPT ![c] = conn]
  /\ lane' = Append(lane, [call |-> c, is |-> "request"])
  /\ UNCHANGED <<gateSide, conn, link, news, turn, bridgeSide, handler, command, task,
                 recentCalls, recentTurns, answers, shown, bad>>

\* The first response settles a request, whoever gave it.
Resolves(c) ==
  /\ link = "up" /\ native[c] = "open" /\ asked[c] = conn
  /\ Settle({c}) /\ Tell({c})
  /\ news' = IF Tool(c) THEN Append(news, [call |-> c, turn |-> TurnOf[c]]) ELSE news
  /\ UNCHANGED <<gateSide, conn, link, asked, turn, bridgeSide, handler, command, task,
                 recentCalls, recentTurns, answers, shown, bad>>

TurnEnds(t) ==
  /\ link = "up" /\ turn[t] = "running"
  /\ turn' = [turn EXCEPT ![t] = "over"]
  /\ Settle(InTurn(t)) /\ Tell(InTurn(t))
  /\ news' = Append(news, [call |-> Nothing, turn |-> t])
  /\ UNCHANGED <<gateSide, conn, link, asked, bridgeSide, handler, command, task,
                 recentCalls, recentTurns, answers, shown, bad>>

-----------------------------------------------------------------------------
(* Responses.  _reply_transport lets one through only to the connection the *)
(* request came from.                                                      *)

Expired(c) == asked[c] # conn
Responds(c, who) == answers' = [answers EXCEPT ![c] = Append(@, [by |-> who, on |-> conn])]

-----------------------------------------------------------------------------
(* The gate of a thread (ThreadOutputGate says when there is one), and what *)
(* comes to the dispatchers: w is the lane's, or the drain of the gate.     *)

Gated(t) == gate.at \in {"holds", "drains"} /\ t \in gate.of
InGate ==
  {c \in Asked : \/ c = handler["gate"].call
                 \/ \E k \in DOMAIN gate.held : gate.held[k].call = c}

GateHolds ==
  /\ gate = NoGate /\ handoffs > 0
  /\ handoffs' = handoffs - 1
  /\ \E T \in {Unbound, Turns \ Unbound} : gate' = [NoGate EXCEPT !.at = "holds", !.of = T]
  /\ UNCHANGED <<conn, link, nativeSide, lane, news, bridgeSide, handler, command, task,
                 recentCalls, recentTurns, answers, shown, late, cut, bad>>

\* The response has been delivered, or the hand-off has failed.
GateOpens ==
  /\ gate.at = "holds"
  /\ \E how \in {"drains", "discards"} : gate' = [gate EXCEPT !.at = how]
  /\ UNCHANGED <<conn, link, nativeSide, lane, news, bridgeSide, handler, command, task,
                 recentCalls, recentTurns, answers, shown, handoffs, late, cut, bad>>

SetsAside ==
  /\ link = "up" /\ handler["lane"] = AtRest /\ lane # <<>> /\ Gated(TurnOf[Head(lane).call])
  /\ lane' = Tail(lane)
  /\ gate' = [gate EXCEPT !.held = Append(@, Head(lane))]
  /\ UNCHANGED <<conn, link, nativeSide, news, bridgeSide, handler, command, task,
                 recentCalls, recentTurns, answers, shown, handoffs, late, cut, bad>>

ReadsOn(w, c, what) ==
  /\ handler[w] = AtRest
  /\ \/ /\ w = "lane" /\ link = "up" /\ lane # <<>> /\ Head(lane) = [call |-> c, is |-> what]
        /\ ~Gated(TurnOf[c])
        /\ lane' = Tail(lane) /\ UNCHANGED gate
     \/ /\ w = "gate" /\ gate.at \in {"drains", "discards"} /\ gate.held # <<>>
        /\ Head(gate.held) = [call |-> c, is |-> what]
        /\ gate' = [gate EXCEPT !.held = Tail(@)] /\ UNCHANGED lane

\* Nothing is left: the gate is removed.
Emptied ==
  /\ gate.at \in {"drains", "discards"} /\ gate.held = <<>> /\ handler["gate"] = AtRest
  /\ gate' = NoGate
  /\ active' = IF active \in gate.over THEN Nothing ELSE active
  /\ UNCHANGED <<conn, link, nativeSide, lane, news, suppressed, routes, handler, command,
                 task, recentCalls, recentTurns, answers, shown, handoffs, late, cut, bad>>

Rests(w) == handler' = [handler EXCEPT ![w] = AtRest]
Again(c) == <<[call |-> c, is |-> "request"]>> \o gate.held

\* The drain is cancelled, and the gate discarded: what was in hand is put back, or
\* was in the hand of a retry that ends with the gate.
DrainCancelled ==
  /\ gate.at = "drains" /\ bad > 0 /\ bad' = bad - 1
  /\ LET c == handler["gate"].call
     IN IF c = Nothing
          THEN gate' = [gate EXCEPT !.at = "discards"] /\ UNCHANGED <<handler, shown, cut>>
          ELSE /\ \E held \in {gate.held, Again(c)} :
                    gate' = [gate EXCEPT !.at = "discards", !.held = held]
               /\ Rests("gate") /\ cut' = cut \cup {c}
               /\ shown' \in {shown, IF handler["gate"].at = "posting"
                                      THEN shown \cup {c} ELSE shown}
  /\ UNCHANGED <<conn, link, nativeSide, lane, news, bridgeSide, command, task,
                 recentCalls, recentTurns, answers, handoffs, late>>
DiscardCancelled ==
  /\ gate.at = "discards" /\ bad > 0 /\ bad' = bad - 1
  /\ gate' = NoGate /\ Rests("gate") /\ cut' = cut \cup InGate
  /\ UNCHANGED <<conn, link, nativeSide, lane, news, bridgeSide, command, task,
                 recentCalls, recentTurns, answers, shown, handoffs, late>>

-----------------------------------------------------------------------------
(* The dispatchers. *)

Delegates(c) ==
  IF c \in ToSet(recentCalls) \/ TurnOf[c] \in ToSet(recentTurns)
    THEN task' = [task EXCEPT ![c] = "done"]
    ELSE task' = [task EXCEPT ![c] = "sleeps"]

TakesRequest(w, c) ==
  /\ ReadsOn(w, c, "request")
  /\ \/ /\ Routed(c)
        /\ routes' = [routes EXCEPT ![Id[c]] = c]
        /\ handler' = [handler EXCEPT ![w] = [AtRest EXCEPT !.call = c, !.at = "emits"]]
        /\ UNCHANGED task
     \/ Tool(c) /\ Delegates(c) /\ UNCHANGED <<routes, handler>>
     \/ /\ ~Routed(c) /\ ~Tool(c)
        /\ handler' = IF Sort[c] # "clock" /\ routes[Id[c]] # Nothing THEN handler
                      ELSE [handler EXCEPT ![w] = [AtRest EXCEPT !.call = c, !.at = "responds"]]
        /\ UNCHANGED <<routes, task>>
  /\ UNCHANGED <<conn, link, nativeSide, news, active, suppressed, command,
                 recentCalls, recentTurns, answers, shown, handoffs, late, cut, bad>>

TakesResolved(w, c) ==
  /\ ReadsOn(w, c, "resolved")
  /\ routes' = [routes EXCEPT ![Id[c]] = Nothing]
  /\ UNCHANGED <<conn, link, nativeSide, news, active, suppressed, handler, command, task,
                 recentCalls, recentTurns, answers, shown, handoffs, late, cut, bad>>

HandlerAt(w, c, where) == handler[w].call = c /\ handler[w].at = where
Gone(c) == routes[Id[c]] = Nothing

\* _emit_required_with_retry: gone, shown, or tried again.  A platform call
\* that fails may have shown the message.
FindsGone(w, c) ==
  /\ HandlerAt(w, c, "emits") /\ Gone(c)
  /\ Rests(w)
  /\ UNCHANGED <<gateSide, conn, link, nativeSide, lane, news, bridgeSide, command, task,
                 recentCalls, recentTurns, answers, shown, bad>>
Posts(w, c) ==
  /\ HandlerAt(w, c, "emits") /\ ~Gone(c)
  /\ handler' = [handler EXCEPT ![w].at = "posting"]
  /\ UNCHANGED <<gateSide, conn, link, nativeSide, lane, news, bridgeSide, command, task,
                 recentCalls, recentTurns, answers, shown, bad>>
Posted(w, c) ==
  /\ HandlerAt(w, c, "posting")
  /\ Rests(w) /\ shown' = shown \cup {c}
  /\ UNCHANGED <<gateSide, conn, link, nativeSide, lane, news, bridgeSide, command, task,
                 recentCalls, recentTurns, answers, bad>>
PostFails(w, c) ==
  /\ HandlerAt(w, c, "posting") /\ bad > 0
  /\ bad' = bad - 1
  /\ handler' = [handler EXCEPT ![w].at = "emits"]
  /\ shown' \in {shown, shown \cup {c}}
  /\ UNCHANGED <<gateSide, conn, link, nativeSide, lane, news, bridgeSide, command, task,
                 recentCalls, recentTurns, answers>>

\* The timeout around the retries; the request is looked up once more.
TimesOut(w, c) ==
  /\ handler[w].call = c /\ handler[w].at \in {"emits", "posting"} /\ bad > 0
  /\ bad' = bad - 1
  /\ shown' \in {shown, IF handler[w].at = "posting" THEN shown \cup {c} ELSE shown}
  /\ IF Gone(c) THEN Rests(w) /\ UNCHANGED routes
     ELSE /\ handler' = [handler EXCEPT ![w].at = "rejects"]
          /\ routes' = [routes EXCEPT ![Id[c]] = Nothing]
  /\ UNCHANGED <<gateSide, conn, link, nativeSide, lane, news, active, suppressed, command,
                 task, recentCalls, recentTurns, answers>>

HandlerResponds(w, c) ==
  /\ link = "up" /\ handler[w].call = c /\ handler[w].at \in {"responds", "rejects"}
  /\ ~Expired(c)
  /\ Rests(w)
  /\ Responds(c, handler[w].at)
  /\ UNCHANGED <<gateSide, conn, link, nativeSide, lane, news, bridgeSide, command, task,
                 recentCalls, recentTurns, shown, bad>>

\* It is too late to answer.  A rejection gives up, anything else raises: a drain
\* puts the request back and tries again, a discard goes on without it.
HandlerExpires(c) ==
  /\ link = "up" /\ handler["gate"].call = c /\ handler["gate"].at \in {"responds", "rejects"}
  /\ Expired(c)
  /\ Rests("gate")
  /\ gate' = IF handler["gate"].at = "responds" /\ gate.at = "drains"
               THEN [gate EXCEPT !.held = Again(c)] ELSE gate
  /\ UNCHANGED <<conn, link, nativeSide, lane, news, bridgeSide, command, task,
                 recentCalls, recentTurns, answers, shown, handoffs, late, cut, bad>>

\* The request is refused; the notice of it cannot be sent, and the drain puts it back.
NoticeFails(c) ==
  /\ link = "up" /\ HandlerAt("gate", c, "responds") /\ ~Expired(c) /\ gate.at = "drains"
  /\ Sort[c] # "clock" /\ TurnOf[c] \notin Unbound
  /\ bad > 0 /\ bad' = bad - 1
  /\ Rests("gate") /\ Responds(c, "responds")
  /\ gate' = [gate EXCEPT !.held = Again(c)] /\ cut' = cut \cup {c}
  /\ UNCHANGED <<conn, link, nativeSide, lane, news, bridgeSide, command, task,
                 recentCalls, recentTurns, shown, handoffs, late>>

-----------------------------------------------------------------------------
(* Delegated tasks. *)

TaskWakes(c) ==
  /\ task[c] = "sleeps"
  /\ task' = [task EXCEPT ![c] = IF Sort[c] = "hosted" THEN "calls" ELSE "replies"]
  /\ UNCHANGED <<gateSide, conn, link, nativeSide, lane, news, bridgeSide, handler, command,
                 recentCalls, recentTurns, answers, shown, bad>>
TaskCalled(c) ==
  /\ task[c] = "calls"
  /\ task' = [task EXCEPT ![c] = "replies"]
  /\ UNCHANGED <<gateSide, conn, link, nativeSide, lane, news, bridgeSide, handler, command,
                 recentCalls, recentTurns, answers, shown, bad>>
TaskReplies(c) ==
  /\ task[c] = "replies" /\ link = "up"
  /\ task' = [task EXCEPT ![c] = "done"]
  /\ IF Expired(c) THEN UNCHANGED answers ELSE Responds(c, Sort[c])
  /\ UNCHANGED <<gateSide, conn, link, nativeSide, lane, news, bridgeSide, handler, command,
                 recentCalls, recentTurns, shown, bad>>

\* Not the code: the task of a completed call goes on.
NotCancelled(S) == task
Cancelled(S) == [c \in Asked |-> IF c \in S /\ task[c] \in {"sleeps", "calls", "replies"}
                                   THEN "cancelled" ELSE task[c]]
Remember(cache, x) ==
  LET kept == RemoveFirst(cache, x)
  IN Append(IF Len(kept) >= RecentHost THEN Tail(kept) ELSE kept, x)

Observes ==
  /\ link = "up" /\ news # <<>>
  /\ news' = Tail(news)
  /\ LET n == Head(news)
     IN IF n.call = Nothing
          THEN /\ recentTurns' = Remember(recentTurns, n.turn)
               /\ task' = Cancelled(InTurn(n.turn))
               /\ IF Gated(n.turn)
                    THEN gate' = [gate EXCEPT !.over = @ \cup {n.turn}] /\ UNCHANGED active
                    ELSE /\ active' = IF active = n.turn THEN Nothing ELSE active
                         /\ UNCHANGED gate
               /\ UNCHANGED recentCalls
          ELSE /\ recentCalls' = Remember(recentCalls, n.call)
               /\ task' = Cancelled({n.call})
               /\ UNCHANGED <<recentTurns, active, gate>>
  /\ UNCHANGED <<conn, link, nativeSide, lane, suppressed, routes, handler, command,
                 answers, shown, handoffs, late, cut, bad>>

-----------------------------------------------------------------------------
(* Commands of the conversation, one at a time. *)

\* _request_reply_failure looks an unknown request up again, by prefix now.
Mistaken(i, table) ==
  LET near == {j \in Longer[i] : table[j] # Nothing}
  IN /\ Cardinality(near) = 1
     /\ active # Nothing /\ \A j \in near : TurnOf[table[j]] = active

Proceeds(todo, table) ==
  \/ todo = {} /\ command' = AtRest
  \/ \E i \in todo :
       command' = IF table[i] # Nothing
                    THEN [call |-> table[i], at |-> "waits", todo |-> todo \ {i}]
                    ELSE IF Mistaken(i, table)
                           THEN [AtRest EXCEPT !.at = "stops", !.todo = {i}] ELSE AtRest

Pending(sorts) == {i \in Ids : routes[i] # Nothing /\ Sort[routes[i]] \in sorts}

\* /approve, /deny, /cancel with and without a request, a plain message.
Decides ==
  /\ command = AtRest
  /\ \E S \in {Pending({"approval"})} \cup {{i} : i \in Pending({"approval"})} :
       S # {} /\ Proceeds(S, routes)
  /\ UNCHANGED <<gateSide, conn, link, nativeSide, lane, news, bridgeSide, handler, task,
                 recentCalls, recentTurns, answers, shown, bad>>
\* /answer, /native respond, /native error.
Answers ==
  /\ command = AtRest
  /\ \E i \in Pending({"approval", "question"}) : Proceeds({i}, routes)
  /\ UNCHANGED <<gateSide, conn, link, nativeSide, lane, news, bridgeSide, handler, task,
                 recentCalls, recentTurns, answers, shown, bad>>

\* _ensure_connected, then _reply_transport.
Connects ==
  /\ command.at = "waits" /\ link = "up"
  /\ command' = IF Expired(command.call) THEN AtRest ELSE [command EXCEPT !.at = "sends"]
  /\ UNCHANGED <<gateSide, conn, link, nativeSide, lane, news, bridgeSide, handler, task,
                 recentCalls, recentTurns, answers, shown, bad>>
Sent ==
  /\ command.at = "sends" /\ link = "up"
  /\ Responds(command.call, "user")
  /\ routes' = [routes EXCEPT ![Id[command.call]] = Nothing]
  /\ Proceeds(command.todo, routes')
  /\ UNCHANGED <<gateSide, conn, link, nativeSide, lane, news, active, suppressed, handler, task,
                 recentCalls, recentTurns, shown, bad>>

Stops ==
  /\ command = AtRest /\ active # Nothing
  /\ command' = [AtRest EXCEPT !.at = "stops"]
  /\ UNCHANGED <<gateSide, conn, link, nativeSide, lane, news, bridgeSide, handler, task,
                 recentCalls, recentTurns, answers, shown, bad>>
\* interrupt_turn: stopped, or found to have ended.  The mistaken id is forgotten
\* after it, whatever it stands for by then.
Stopped ==
  /\ command.at = "stops" /\ link = "up"
  /\ command' = AtRest
  /\ LET stopped == {i \in Ids : routes[i] # Nothing /\ TurnOf[routes[i]] = active}
     IN routes' = [i \in Ids |->
                     IF i \in stopped \cup command.todo THEN Nothing ELSE routes[i]]
  /\ IF active = Nothing THEN UNCHANGED <<active, suppressed, native, turn, lane, news>>
     ELSE /\ suppressed' = suppressed \cup {active}
          /\ active' = Nothing
          /\ turn' = [turn EXCEPT ![active] = "over"]
          /\ Settle(InTurn(active)) /\ Tell(InTurn(active))
          /\ news' = IF turn[active] = "running"
                       THEN Append(news, [call |-> Nothing, turn |-> active]) ELSE news
  /\ UNCHANGED <<gateSide, conn, link, asked, handler, task,
                 recentCalls, recentTurns, answers, shown, bad>>

-----------------------------------------------------------------------------
(* The connection. *)

\* The dispatchers of the lanes are cancelled and their queues dropped, a send
\* fails.  The drain of the gate goes on.
Lost ==
  /\ link = "up" /\ bad > 0
  /\ link' = "down" /\ bad' = bad - 1
  /\ lane' = <<>> /\ news' = <<>>
  /\ Rests("lane")
  /\ command' = IF command.at \in {"sends", "stops"} THEN AtRest ELSE command
  /\ UNCHANGED <<gateSide, conn, nativeSide, bridgeSide, task, recentCalls, recentTurns,
                 answers, shown>>

\* Not the code: the reset forgets the delegated tasks.
RoutedOfConnection == {c \in Asked : asked[c] = conn /\ routes[Id[c]] = c}
OfConnection == {c \in Asked : asked[c] = conn}
\* handle_connection_reset.  A server that is not preserved has its turns
\* stopped, those it can reach.
HandlesReset ==
  /\ link = "down" /\ link' = "clean"
  /\ task' = Cancelled(OfConnection)
  /\ \E T \in SUBSET {TurnOf[routes[i]] : i \in {j \in Ids : routes[j] \in OfConnection}} :
       /\ suppressed' = suppressed \cup T
       /\ active' = IF active \in T THEN Nothing ELSE active
       /\ turn' = [t \in Turns |-> IF t \in T THEN "over" ELSE turn[t]]
       /\ Settle(UNION {InTurn(t) : t \in T})
  /\ routes' = [i \in Ids |-> IF routes[i] \in OfConnection THEN Nothing ELSE routes[i]]
  /\ late' = late \cup InGate
  /\ UNCHANGED <<conn, asked, lane, news, gate, handoffs, cut, handler, command,
                 recentCalls, recentTurns, answers, shown, bad>>
Reconnects ==
  /\ link = "clean" /\ conn < Connections
  /\ link' = "up" /\ conn' = conn + 1
  /\ UNCHANGED <<gateSide, nativeSide, lane, news, bridgeSide, handler, command, task,
                 recentCalls, recentTurns, answers, shown, bad>>

-----------------------------------------------------------------------------
Handles(w) ==
  \/ \E c \in Asked : \/ TakesRequest(w, c) \/ TakesResolved(w, c) \/ FindsGone(w, c)
                      \/ Posts(w, c) \/ Posted(w, c) \/ HandlerResponds(w, c)
  \/ w = "lane" /\ SetsAside
  \/ w = "gate" /\ (GateOpens \/ Emptied \/ \E c \in Asked : HandlerExpires(c))
HandlingFails(w, c) == PostFails(w, c) \/ TimesOut(w, c)
Works(c) == TaskWakes(c) \/ TaskCalled(c) \/ TaskReplies(c)
CommandRuns == Connects \/ Sent \/ Stopped

RequestsNext ==
  \/ \E t \in Turns : TurnStarts(t) \/ TurnEnds(t)
  \/ \E c \in Asked : \/ Asks(c) \/ Resolves(c) \/ Works(c) \/ NoticeFails(c)
                      \/ \E w \in Handlers : HandlingFails(w, c)
  \/ \E w \in Handlers : Handles(w)
  \/ GateHolds \/ DrainCancelled \/ DiscardCancelled \/ Observes
  \/ Decides \/ Answers \/ Stops \/ CommandRuns
  \/ Lost \/ HandlesReset \/ Reconnects

\* What goes on by itself: Handles(w), Observes and CommandRuns, the delegated tasks,
\* and the app-server with what it has an answer to.
TasksWork == \E c \in Asked : Works(c)
PeerSettles == \E c \in Asked : answers[c] # <<>> /\ Resolves(c)

-----------------------------------------------------------------------------
RequestsTypeOK ==
  /\ conn \in 1..Connections /\ link \in {"up", "down", "clean"}
  /\ routes \in [Ids -> Asked \cup {Nothing}]
  /\ \A i \in Ids : routes[i] # Nothing => Id[routes[i]] = i
  /\ gate.at \in {"none", "holds", "drains", "discards"}
  /\ \A w \in Handlers : handler[w].at \in {"idle", "emits", "posting", "rejects", "responds"}
  /\ command.at \in {"idle", "waits", "sends", "stops"}

\* A decision reaches the request it was made for: a response is only written
\* to the connection its request came from, where the id means that request,
\* and neither a route nor a task is left of a connection that has been reset,
\* but those of a request that the gate had set aside at the reset.
AnswersGoHome ==
  /\ \A c \in Asked : \A k \in DOMAIN answers[c] : answers[c][k].on = asked[c]
  /\ \A c \in Asked :
       routes[Id[c]] = c \/ task[c] \in {"sleeps", "calls", "replies"} =>
         (asked[c] = conn /\ link # "clean") \/ c \in late

\* The gate handles a request twice or not at all, or handles what it has of an
\* earlier connection under the same id.
Hindered(c) == c \in cut \/ \E d \in late : Id[d] = Id[c]

\* No response is begun for a request that has one.  (Two responses may overlap:
\* the delivery can time out while the user's answer is being written.)
Begins(c) ==
  \/ command'.call = c /\ command.call # c
  \/ \E w \in Handlers :
       /\ handler'[w].call = c /\ handler'[w].at \in {"rejects", "responds"}
       /\ handler[w].at # handler'[w].at
  \/ task'[c] \in {"calls", "replies"} /\ task[c] = "sleeps"
AnsweredOnce == [][\A c \in Asked : Begins(c) => answers[c] = <<>> \/ Hindered(c)]_requestVars

\* A call whose completion has been seen, before the call or after it, is not
\* answered any more as if nobody had taken it.
PeerKeepsItsCall ==
  [][\A c \in Asked : Tool(c) /\ answers'[c] # answers[c] =>
       c \notin ToSet(recentCalls) /\ TurnOf[c] \notin ToSet(recentTurns)]_requestVars

\* A native request is answered once, and by the peer that serves it
\* (bridge/server_requests.py:72-149).
RequestsAreAnsweredOnce == AnsweredOnce /\ PeerKeepsItsCall

\* The drain tries again and again to answer a request of a lost connection.
GateIsStuck ==
  gate.at = "drains" /\ \E c \in late : gate.held # <<>> /\ Head(gate.held).call = c

\* The app-server is not left waiting: again and again every request is settled,
\* or stands before the user, or its connection is lost.  A gate may carry a
\* request over a reset, though, and never open again.
NobodyIsLeftWaiting ==
  []<>(\/ GateIsStuck
       \/ \A c \in Asked : native[c] = "open" /\ asked[c] = conn /\ link = "up" =>
            (routes[Id[c]] = c /\ c \in shown) \/ Hindered(c))
===============================================================================
