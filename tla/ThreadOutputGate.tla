--------------------------- MODULE ThreadOutputGate ---------------------------
(***************************************************************************)
(* A command that switches an IM conversation to a native thread must be   *)
(* answered before the thread speaks there (bridge/thread_handoff.py).     *)
(* While the command is handled a gate buffers what native says of the     *)
(* thread; the gate drains once the answer is delivered.  Notifications    *)
(* and server requests reach the gate through two dispatch lanes of the    *)
(* connection (appserver/client.py) and are put back into wire order by    *)
(* their receive sequence.                                                 *)
(*                                                                         *)
(* A message is its receive sequence, an index of `wire'.  An action is    *)
(* what runs on the event loop between two awaits.                         *)
(***************************************************************************)
EXTENDS Integers, FiniteSets, SequencesExt

CONSTANTS
  Threads,      \* native threads
  Commands,     \* inbound IM messages
  RouteOf,      \* [Commands -> conversations]
  Wants,        \* [Commands -> Threads or None], the thread it switches to
  None,
  Limit,        \* _THREAD_OUTPUT_GATE_EVENT_LIMIT
  Own,          \* whether requests may be, or not be, the bridge's own
  MaxWire,      \* bound on native messages
  Budget,       \* bounds: how often each kind of disturbance happens
  Trouble       \* bound: how many disturbances happen in all

Kinds == {"notification", "request"}
Disturbances == {"sink", "fail", "cancel", "reset", "close"}

ASSUME GateAssumption ==
  /\ None \notin Threads \cup Commands \cup {"retry"} /\ "retry" \notin Commands
  /\ Wants \in [Commands -> Threads \cup {None}]
  /\ DOMAIN RouteOf = Commands
  /\ Limit \in Nat \ {0} /\ MaxWire \in Nat
  /\ Budget \in [Disturbances -> Nat] /\ Trouble \in Nat
  /\ Own \subseteq BOOLEAN

VARIABLES
  wire,      \* every message received: its thread, its lane, its connection
  epoch,     \* connection_epoch
  lanes,     \* the two dispatch queues
  busy,      \* what the dispatcher of each lane is doing
  next,      \* _thread_output_next_dispatch_sequence
  admitted,  \* _thread_output_admitted_sequence
  gates,     \* _thread_output_gates_by_thread
  cmd,       \* progress of each command
  closed,    \* _thread_handoff_closed
  output,    \* history: messages projected, in order, with the epoch then
  tries,     \* history: how often each message was projected
  answered,  \* history: commands whose answer was delivered
  live,      \* history: messages that no gate held back
  dropped,   \* history: lost with their connection, or at close
  failed,    \* history: given up, the send failed and is not repeated
  strays,    \* history: held by a gate that was discarded
  sealed,    \* history: received when native last answered the command
  spent      \* how often each disturbance has happened

vars == <<wire, epoch, lanes, busy, next, admitted, gates, cmd, closed, output,
          tries, answered, live, dropped, failed, strays, sealed, spent>>

Sequence == 1..MaxWire
(* A request that is `own' is answered without the user: currentTime/read, *)
(* or one that has no route (_process_server_request).                     *)
Message == [thread : Threads, kind : Kinds, own : BOOLEAN, epoch : Nat]

NoGate == [cmd |-> None, buffer |-> <<>>, open |-> TRUE, release |-> 0,
           delivered |-> FALSE, hand |-> 0, by |-> None, retry |-> FALSE,
           ready |-> {}]
Gate ==
  [cmd : Commands \cup {None},      \* whose answer it waits for
   buffer : Seq(Sequence),          \* messages
   open : BOOLEAN,                  \* capacity_available
   release : Nat,                   \* release_through_sequence
   delivered : BOOLEAN,             \* response_delivered
   hand : Sequence \cup {0},        \* the message a drain has popped
   by : Commands \cup {None, "retry"}, \* the drain that has popped it
   retry : BOOLEAN,                 \* retry_task is alive
   ready : SUBSET Sequence]         \* messages with projection_prepared

(* step "live" is _process_notification or _process_server_request, which  *)
(* waits for the projection lock, for the outbox and for the sink.         *)
Idle == [step |-> "idle", seq |-> 0, cmd |-> None]

Fresh == [phase |-> "new", left |-> <<>>, then |-> "none"]

TypeOK ==
  /\ wire \in Seq(Message) /\ Len(wire) <= MaxWire
  /\ epoch \in Nat /\ next \in Nat /\ admitted \in Nat
  /\ lanes \in [Kinds -> Seq(Sequence)]
  /\ busy \in [Kinds -> [step : {"idle", "admission", "capacity", "live"},
                         seq : Sequence \cup {0}, cmd : Commands \cup {None}]]
  /\ gates \in [Threads -> Gate]
  /\ cmd \in [Commands ->
       [phase : {"new", "attaching", "reading", "discarding", "responding",
                 "failed", "draining", "done"},
        left : Seq(Sequence), then : {"none", "new", "responding", "done"}]]
  /\ closed \in BOOLEAN
  /\ output \in Seq([seq : Sequence, epoch : Nat])
  /\ tries \in [Sequence -> Nat]
  /\ answered \in SUBSET Commands
  /\ live \in SUBSET Sequence /\ strays \in SUBSET Sequence
  /\ dropped \in SUBSET Sequence /\ failed \in SUBSET Sequence
  /\ sealed \in [Commands -> Nat]
  /\ spent \in [Disturbances -> Nat]

Init ==
  /\ wire = <<>> /\ epoch = 1
  /\ lanes = [k \in Kinds |-> <<>>]
  /\ busy = [k \in Kinds |-> Idle]
  /\ next = 1 /\ admitted = 0
  /\ gates = [th \in Threads |-> NoGate]
  /\ cmd = [c \in Commands |-> Fresh]
  /\ closed = FALSE
  /\ output = <<>> /\ tries = [s \in Sequence |-> 0]
  /\ answered = {} /\ live = {} /\ dropped = {} /\ failed = {} /\ strays = {}
  /\ sealed = [c \in Commands |-> 0]
  /\ spent = [d \in Disturbances |-> 0]

Spending == MapThenSumSet(LAMBDA x : spent[x], Disturbances)
Spend(d) == /\ spent[d] < Budget[d] /\ Spending < Trouble
            /\ spent' = [spent EXCEPT ![d] = @ + 1]

-----------------------------------------------------------------------------
(* Helpers. *)

ThreadOfMessage(s) == wire[s].thread
HasGate(th) == gates[th].cmd # None
GateOfRoute(r) == {th \in Threads : HasGate(th) /\ RouteOf[gates[th].cmd] = r}

(* Everything a gate holds, in order. *)
Held(g) == (IF g.hand = 0 THEN <<>> ELSE <<g.hand>>) \o g.buffer

(* Projected and sent. *)
Sent(s) == output' = Append(output, [seq |-> s, epoch |-> epoch])
Projected(s) == tries' = [tries EXCEPT ![s] = @ + 1]

Phase(c, p) == cmd' = [cmd EXCEPT ![c].phase = p]

(* The middleware handles the messages of a conversation one at a time. *)
Handling == {"attaching", "reading", "discarding", "responding", "draining"}
ConversationFree(c) ==
  \A d \in Commands : RouteOf[d] = RouteOf[c] => cmd[d].phase \notin Handling

-----------------------------------------------------------------------------
(* The connection: the receive loop numbers messages and queues them. *)

Receive ==
  /\ Len(wire) < MaxWire
  /\ \E th \in Threads, k \in Kinds, own \in Own :
       /\ own => k = "request"
       /\ wire' = Append(wire, [thread |-> th, kind |-> k, own |-> own,
                                epoch |-> epoch])
       /\ lanes' = [lanes EXCEPT ![k] = Append(@, Len(wire) + 1)]
  /\ UNCHANGED <<epoch, busy, next, admitted, gates, cmd, closed, output,
                 tries, answered, live, dropped, failed, strays, sealed, spent>>

Dispatch(k) ==
  /\ busy[k] = Idle /\ lanes[k] # <<>>
  /\ busy' = [busy EXCEPT ![k] = [step |-> "admission", seq |-> Head(lanes[k]),
                                  cmd |-> None]]
  /\ lanes' = [lanes EXCEPT ![k] = Tail(@)]
  /\ UNCHANGED <<wire, epoch, next, admitted, gates, cmd, closed, output,
                 tries, answered, live, dropped, failed, strays, sealed, spent>>

(* The gate lets the message pass: it is projected, and shown when its     *)
(* lane is through with the awaits of the presentation (LiveEnds).         *)
GoesLive(k) ==
  /\ busy' = [busy EXCEPT ![k].step = "live", ![k].cmd = None]
  /\ live' = live \cup {busy[k].seq} /\ Projected(busy[k].seq)

IsBuffered(k, th) ==
  /\ gates' = [gates EXCEPT ![th].buffer = Append(@, busy[k].seq),
                            ![th].open = @ /\ Len(gates[th].buffer) + 1 < Limit]
  /\ busy' = [busy EXCEPT ![k] = Idle]

Admitted(k) == admitted' = busy[k].seq /\ next' = busy[k].seq + 1

(* The admission condition is held while a message waits for capacity. *)
AdmissionFree == \A k \in Kinds : busy[k].step # "capacity"

(* Mutant: a full gate drops what comes. *)
OfferDropsWhenFull(k) ==
  LET th == ThreadOfMessage(busy[k].seq)
  IN  /\ Admitted(k)
      /\ \/ ~HasGate(th) /\ GoesLive(k) /\ UNCHANGED gates
         \/ /\ HasGate(th) /\ Len(gates[th].buffer) < Limit
            /\ IsBuffered(k, th) /\ UNCHANGED <<live, tries>>
         \/ /\ HasGate(th) /\ Len(gates[th].buffer) >= Limit
            /\ busy' = [busy EXCEPT ![k] = Idle]
            /\ UNCHANGED <<gates, live, tries>>

(* _buffer_thread_output_unordered, one round. *)
Offer(k) ==
  LET th == ThreadOfMessage(busy[k].seq)
  IN  \/ /\ ~HasGate(th)
         /\ GoesLive(k) /\ Admitted(k) /\ UNCHANGED gates
      \/ /\ HasGate(th) /\ Len(gates[th].buffer) < Limit
         /\ IsBuffered(k, th) /\ Admitted(k) /\ UNCHANGED <<live, tries>>
      \/ /\ HasGate(th) /\ Len(gates[th].buffer) >= Limit
         /\ gates' = [gates EXCEPT ![th].open = FALSE]
         /\ busy' = [busy EXCEPT ![k].step = "capacity",
                                 ![k].cmd = gates[th].cmd]
         /\ UNCHANGED <<next, admitted, live, tries>>

(* Mutant: each lane is admitted as it comes. *)
AdmitUnordered(k) ==
  /\ busy[k].step = "admission" /\ AdmissionFree
  /\ Offer(k)
  /\ UNCHANGED <<wire, epoch, lanes, cmd, closed, output, answered, dropped,
                 failed, strays, sealed, spent>>

(* _buffer_thread_output: in the order of the wire.  A message behind that *)
(* order, or one that arrives after close, passes.                         *)
Admit(k) ==
  /\ busy[k].step = "admission" /\ AdmissionFree
  /\ busy[k].seq <= next \/ closed
  /\ IF closed \/ busy[k].seq < next
       THEN GoesLive(k) /\ UNCHANGED <<next, admitted, gates>>
       ELSE Offer(k)
  /\ UNCHANGED <<wire, epoch, lanes, cmd, closed, output, answered, dropped,
                 failed, strays, sealed, spent>>

(* capacity_available of the gate waited for is set, or the gate is gone. *)
Wakes(k) ==
  LET g == gates[ThreadOfMessage(busy[k].seq)]
  IN  /\ busy[k].step = "capacity"
      /\ g.cmd # busy[k].cmd \/ g.open
      /\ Offer(k)
      /\ UNCHANGED <<wire, epoch, lanes, cmd, closed, output, answered, dropped,
                     failed, strays, sealed, spent>>

LiveEnds(k) ==
  /\ busy[k].step = "live"
  /\ Sent(busy[k].seq)
  /\ busy' = [busy EXCEPT ![k] = Idle]
  /\ UNCHANGED <<wire, epoch, lanes, next, admitted, gates, cmd, closed, tries,
                 answered, live, dropped, failed, strays, sealed, spent>>

(* The sink raises, or a request could not be presented in time: the       *)
(* exception ends in _dispatch_one, the request is rejected.               *)
LiveFails(k) ==
  /\ busy[k].step = "live" /\ Spend("sink")
  /\ failed' = failed \cup {busy[k].seq}
  /\ busy' = [busy EXCEPT ![k] = Idle]
  /\ UNCHANGED <<wire, epoch, lanes, next, admitted, gates, cmd, closed, output,
                 tries, answered, live, dropped, strays, sealed>>

(* What a lane is presenting. *)
Live(k) == IF busy[k].step = "live" THEN {busy[k].seq} ELSE {}

(* _reset_connection cancels the dispatchers, with what they present, and  *)
(* drops their queues, then _reset_thread_output_admission goes on after   *)
(* the last message received.                                              *)
Reset ==
  /\ Spend("reset")
  /\ epoch' = epoch + 1
  /\ dropped' = dropped \cup {s \in 1..Len(wire) : s > admitted}
                      \cup UNION {Live(k) : k \in Kinds}
  /\ lanes' = [k \in Kinds |-> <<>>]
  /\ busy' = [k \in Kinds |-> Idle]
  /\ next' = Len(wire) + 1 /\ admitted' = Len(wire)
  /\ UNCHANGED <<wire, gates, cmd, closed, output, tries, answered, live, failed,
                 strays, sealed>>

-----------------------------------------------------------------------------
(* Commands. *)

(* _begin_thread_output_gate: one gate per conversation and per thread; a  *)
(* refused command, or one that switches nothing, is only answered.        *)
Begin(c) ==
  /\ cmd[c].phase = "new" /\ ConversationFree(c)
  /\ LET th == Wants[c]
     IN  IF th # None /\ ~closed /\ GateOfRoute(RouteOf[c]) = {} /\ ~HasGate(th)
           THEN /\ gates' = [gates EXCEPT ![th] = [NoGate EXCEPT !.cmd = c]]
                /\ Phase(c, "attaching")
           ELSE /\ Phase(c, "responding") /\ UNCHANGED gates
  /\ UNCHANGED <<wire, epoch, lanes, busy, next, admitted, closed, output,
                 tries, answered, live, dropped, failed, strays, sealed, spent>>

Owns(c) == Wants[c] # None /\ gates[Wants[c]].cmd = c

(* Mutant: nothing is sealed. *)
NotSealed(c) == UNCHANGED gates

(* _seal_thread_output_gate: the drain is to include all received so far. *)
Sealed(c) ==
  gates' = IF Owns(c) THEN [gates EXCEPT ![Wants[c]].release = Len(wire)]
           ELSE gates

(* attach_thread returned; the history may be read next. *)
Attached(c) ==
  /\ cmd[c].phase = "attaching"
  /\ Sealed(c) /\ sealed' = [sealed EXCEPT ![c] = Len(wire)]
  /\ Phase(c, "reading") \/ Phase(c, "responding")
  /\ UNCHANGED <<wire, epoch, lanes, busy, next, admitted, closed, output,
                 tries, answered, live, dropped, failed, strays, spent>>

HistoryRead(c) ==
  /\ cmd[c].phase = "reading"
  /\ Sealed(c) /\ sealed' = [sealed EXCEPT ![c] = Len(wire)]
  /\ Phase(c, "responding")
  /\ UNCHANGED <<wire, epoch, lanes, busy, next, admitted, closed, output,
                 tries, answered, live, dropped, failed, strays, spent>>

(* Mutant: what a discarded gate buffered goes with it. *)
DiscardDropsBuffer(c, th, buffer, then) ==
  /\ gates' = [gates EXCEPT ![th] = NoGate]
  /\ UNCHANGED <<failed, strays>>
  /\ Phase(c, then)

(* _discard_thread_output_gate: the gate is gone, with its retry task and  *)
(* what that had popped; what it buffered is processed one by one.         *)
Discard(c, th, buffer, then) ==
  /\ gates' = [gates EXCEPT ![th] = NoGate]
  /\ strays' = strays \cup Range(Held(gates[th]))
  /\ failed' = failed \cup (Range(Held(gates[th])) \ Range(buffer))
  /\ cmd' = [cmd EXCEPT ![c] = [phase |-> "discarding", left |-> buffer,
                                then |-> then]]

(* The thread cannot be attached or read, or the task is cancelled. *)
Abandoned(c, then) ==
  /\ cmd[c].phase \in {"attaching", "reading"}
  /\ IF Owns(c) THEN Discard(c, Wants[c], gates[Wants[c]].buffer, then)
     ELSE Phase(c, then) /\ UNCHANGED <<gates, failed, strays>>
  /\ UNCHANGED <<wire, epoch, lanes, busy, next, admitted, closed, output,
                 tries, answered, live, dropped, sealed>>

AttachFails(c) == Spend("fail") /\ Abandoned(c, "responding")
CommandCancelled(c) == Spend("cancel") /\ Abandoned(c, "new")

(* A request of a lost connection that the bridge answers by itself: there *)
(* is nowhere to reply to any more, every attempt raises.                  *)
Expired(s) == wire[s].own /\ wire[s].epoch # epoch

DiscardStep(c) ==
  /\ cmd[c].phase = "discarding"
  /\ IF cmd[c].left = <<>>
       THEN Phase(c, cmd[c].then) /\ UNCHANGED <<output, tries>>
       ELSE /\ ~Expired(Head(cmd[c].left))
            /\ cmd' = [cmd EXCEPT ![c].left = Tail(@)]
            /\ Sent(Head(cmd[c].left)) /\ Projected(Head(cmd[c].left))
  /\ UNCHANGED <<wire, epoch, lanes, busy, next, admitted, gates, closed,
                 answered, live, dropped, failed, strays, sealed, spent>>

(* discard_failed: the next one, please. *)
DiscardFails(c) ==
  /\ cmd[c].phase = "discarding" /\ cmd[c].left # <<>>
  /\ IF Expired(Head(cmd[c].left)) THEN UNCHANGED spent ELSE Spend("sink")
  /\ failed' = failed \cup {Head(cmd[c].left)}
  /\ cmd' = [cmd EXCEPT ![c].left = Tail(@)]
  /\ Projected(Head(cmd[c].left))
  /\ UNCHANGED <<wire, epoch, lanes, busy, next, admitted, gates, closed, output,
                 answered, live, dropped, strays, sealed>>

(* The command is cancelled while it hands over what its gate held. *)
DiscardCancelled(c) ==
  /\ cmd[c].phase = "discarding" /\ Spend("cancel")
  /\ failed' = failed \cup Range(cmd[c].left)
  /\ cmd' = [cmd EXCEPT ![c].left = <<>>,
                        ![c].phase = IF cmd[c].then = "done" THEN "done" ELSE "new"]
  /\ UNCHANGED <<wire, epoch, lanes, busy, next, admitted, gates, closed, output,
                 tries, answered, live, dropped, strays, sealed>>

(* Mutant: the end of any command opens the gate of the conversation. *)
RespondsToAny(c) ==
  /\ cmd[c].phase = "responding"
  /\ answered' = answered \cup {c}
  /\ gates' = [th \in Threads |->
       IF th \in GateOfRoute(RouteOf[c])
         THEN [gates[th] EXCEPT !.delivered = TRUE] ELSE gates[th]]
  /\ Phase(c, IF GateOfRoute(RouteOf[c]) # {} THEN "draining" ELSE "done")
  /\ UNCHANGED <<wire, epoch, lanes, busy, next, admitted, closed, output,
                 tries, live, dropped, failed, strays, sealed, spent>>

(* The answer is delivered: after_inbound_delivery.  Only the answer of    *)
(* its own command opens a gate.                                           *)
Responds(c) ==
  /\ cmd[c].phase = "responding"
  /\ answered' = answered \cup {c}
  /\ \E own \in {GateOfRoute(RouteOf[c])} :
       /\ gates' = [th \in Threads |->
            IF th \in own /\ gates[th].cmd = c
              THEN [gates[th] EXCEPT !.delivered = TRUE] ELSE gates[th]]
       /\ Phase(c, IF \E th \in own : gates'[th].delivered THEN "draining"
                                                           ELSE "done")
  /\ UNCHANGED <<wire, epoch, lanes, busy, next, admitted, closed, output,
                 tries, live, dropped, failed, strays, sealed, spent>>

(* The answer is not delivered: the gate waits for the same message to be  *)
(* sent again by the IM platform, which replays the answer.                *)
ResponseFails(c) ==
  /\ cmd[c].phase = "responding" /\ Spend("sink")
  /\ Phase(c, "failed")
  /\ UNCHANGED <<wire, epoch, lanes, busy, next, admitted, gates, closed,
                 output, tries, answered, live, dropped, failed, strays, sealed>>

Redelivered(c) ==
  /\ cmd[c].phase = "failed" /\ ConversationFree(c)
  /\ Phase(c, "responding")
  /\ UNCHANGED <<wire, epoch, lanes, busy, next, admitted, gates, closed,
                 output, tries, answered, live, dropped, failed, strays, sealed, spent>>

-----------------------------------------------------------------------------
(* _drain_thread_output_gate, by the command or by the retry task; its     *)
(* drain_lock lets one message at a time out of the gate.                  *)

Drains(who, th) ==
  /\ gates[th].delivered
  /\ IF who = "retry" THEN gates[th].retry
     ELSE cmd[who].phase = "draining" /\ th \in GateOfRoute(RouteOf[who])

DrainTakes(who, th) ==
  /\ Drains(who, th)
  /\ gates[th].hand = 0 /\ gates[th].buffer # <<>>
  /\ gates' = [gates EXCEPT ![th].hand = Head(gates[th].buffer),
                            ![th].buffer = Tail(@), ![th].by = who]
  /\ UNCHANGED <<wire, epoch, lanes, busy, next, admitted, cmd, closed, output,
                 tries, answered, live, dropped, failed, strays, sealed, spent>>

(* Nothing is left and the lanes have admitted all that was sealed. *)
DrainFinishes(who, th) ==
  /\ Drains(who, th)
  /\ gates[th].hand = 0 /\ gates[th].buffer = <<>>
  /\ admitted >= gates[th].release
  /\ gates' = [gates EXCEPT ![th] = NoGate]
  /\ UNCHANGED <<wire, epoch, lanes, busy, next, admitted, cmd, closed, output,
                 tries, answered, live, dropped, failed, strays, sealed, spent>>

DrainEnds(c) ==
  /\ cmd[c].phase = "draining" /\ GateOfRoute(RouteOf[c]) = {}
  /\ Phase(c, "done")
  /\ UNCHANGED <<wire, epoch, lanes, busy, next, admitted, gates, closed, output,
                 tries, answered, live, dropped, failed, strays, sealed, spent>>

(* Mutant: what was projected for a failed send is not kept. *)
ProjectedAgain(g) == Projected(g.hand)

(* A message whose projection was captured is not projected again. *)
ProjectedUnlessReady(g) ==
  IF g.hand \in g.ready THEN UNCHANGED tries ELSE Projected(g.hand)

DrainSends(th) ==
  /\ gates[th].hand # 0 /\ ~Expired(gates[th].hand)
  /\ LET g == gates[th]
     IN  /\ Sent(g.hand) /\ ProjectedUnlessReady(g)
         /\ gates' = [gates EXCEPT ![th].hand = 0, ![th].by = None,
                                   ![th].open = @ \/ Len(g.buffer) < Limit]
  /\ UNCHANGED <<wire, epoch, lanes, busy, next, admitted, cmd, closed, answered,
                 live, dropped, failed, strays, sealed, spent>>

(* A request that could not be presented in time is rejected. *)
DrainRejects(th) ==
  /\ gates[th].hand # 0 /\ Spend("sink")
  /\ wire[gates[th].hand].kind = "request" /\ ~wire[gates[th].hand].own
  /\ LET g == gates[th]
     IN  /\ ProjectedUnlessReady(g)
         /\ failed' = failed \cup {g.hand}
         /\ gates' = [gates EXCEPT ![th].hand = 0, ![th].by = None,
                                   ![th].open = @ \/ Len(g.buffer) < Limit]
  /\ UNCHANGED <<wire, epoch, lanes, busy, next, admitted, cmd, closed, output,
                 answered, live, dropped, strays, sealed>>

(* What the attempt to send a notification leaves prepared; the reply of   *)
(* an expired request raises before anything is projected.                 *)
Raises(g) ==
  \/ /\ wire[g.hand].kind = "notification" /\ Spend("sink")
     /\ ProjectedUnlessReady(g)
  \/ Expired(g.hand) /\ UNCHANGED <<tries, spent>>

(* Mutant: a message that could not be sent goes to the end of the queue. *)
DrainSendFailsToBack(th) ==
  /\ gates[th].hand # 0
  /\ LET g == gates[th]
     IN  /\ Raises(g)
         /\ gates' = [gates EXCEPT ![th].hand = 0, ![th].by = None,
              ![th].buffer = Append(@, g.hand), ![th].open = FALSE,
              ![th].ready = @ \cup {g.hand}, ![th].retry = TRUE]
         /\ IF g.by = "retry" THEN UNCHANGED cmd ELSE Phase(g.by, "done")
  /\ UNCHANGED <<wire, epoch, lanes, busy, next, admitted, closed, output,
                 answered, live, dropped, failed, strays, sealed>>

(* Mutant: nobody comes back to a gate whose drain has failed. *)
DrainSendFailsForGood(th) ==
  /\ gates[th].hand # 0
  /\ LET g == gates[th]
     IN  /\ Raises(g)
         /\ gates' = [gates EXCEPT ![th].hand = 0, ![th].by = None,
              ![th].buffer = <<g.hand>> \o @, ![th].open = FALSE,
              ![th].ready = @ \cup {g.hand}, ![th].retry = FALSE]
         /\ IF g.by = "retry" THEN UNCHANGED cmd ELSE Phase(g.by, "done")
  /\ UNCHANGED <<wire, epoch, lanes, busy, next, admitted, closed, output,
                 answered, live, dropped, failed, strays, sealed>>

(* What raises goes back to the head of the gate, and a retry task takes   *)
(* over.                                                                   *)
DrainSendFails(th) ==
  /\ gates[th].hand # 0
  /\ LET g == gates[th]
     IN  /\ Raises(g)
         /\ gates' = [gates EXCEPT ![th].hand = 0, ![th].by = None,
              ![th].buffer = <<g.hand>> \o @, ![th].open = FALSE,
              ![th].ready = @ \cup {g.hand}, ![th].retry = TRUE]
         /\ IF g.by = "retry" THEN UNCHANGED cmd ELSE Phase(g.by, "done")
  /\ UNCHANGED <<wire, epoch, lanes, busy, next, admitted, closed, output,
                 answered, live, dropped, failed, strays, sealed>>

(* The task of the command is cancelled: it puts back what it had popped   *)
(* and discards the gate.  What a retry task had popped meanwhile goes     *)
(* with that task.                                                         *)
DrainCancelled(c) ==
  /\ cmd[c].phase = "draining" /\ Spend("cancel")
  /\ \E th \in GateOfRoute(RouteOf[c]) :
       LET g == gates[th]
       IN  IF g.by = c
             THEN Discard(c, th, Held(g), "done") /\ ProjectedUnlessReady(g)
             ELSE Discard(c, th, g.buffer, "done") /\ UNCHANGED tries
  /\ UNCHANGED <<wire, epoch, lanes, busy, next, admitted, closed, output,
                 answered, live, dropped, sealed>>

(* _close_thread_handoff: it takes the admission condition first.  What a  *)
(* drain has popped may still be sent, or not.                             *)
Close ==
  /\ ~closed /\ AdmissionFree /\ Spend("close")
  /\ closed' = TRUE
  /\ dropped' = dropped \cup UNION {Range(Held(gates[th])) : th \in Threads}
  /\ gates' = [th \in Threads |-> NoGate]
  /\ UNCHANGED <<wire, epoch, lanes, busy, next, admitted, cmd, output, tries,
                 answered, live, failed, strays, sealed>>

-----------------------------------------------------------------------------
Lane(k) == Dispatch(k) \/ Admit(k) \/ Wakes(k) \/ LiveEnds(k) \/ LiveFails(k)

Answer(c) ==
  \/ Attached(c) \/ HistoryRead(c) \/ AttachFails(c) \/ DiscardStep(c)
  \/ DiscardFails(c) \/ Responds(c) \/ ResponseFails(c) \/ DrainEnds(c)

Drain(who) == \E th \in Threads : DrainTakes(who, th) \/ DrainFinishes(who, th)

SendEnds ==
  \E th \in Threads : DrainSends(th) \/ DrainRejects(th) \/ DrainSendFails(th)

Next ==
  \/ Receive \/ Reset \/ Close \/ SendEnds
  \/ \E k \in Kinds : Lane(k)
  \/ \E c \in Commands :
       Begin(c) \/ Answer(c) \/ Redelivered(c)
         \/ CommandCancelled(c) \/ DiscardCancelled(c) \/ DrainCancelled(c)
  \/ \E who \in Commands \cup {"retry"} : Drain(who)

(* The event loop runs what is ready; requests and sends end one way or    *)
(* the other; the IM platform sends a message again whose handling failed. *)
(* Nothing obliges native or the user to say anything.                     *)
Fairness ==
  /\ \A k \in Kinds : WF_vars(Lane(k))
  /\ \A c \in Commands : WF_vars(Answer(c)) /\ WF_vars(Redelivered(c))
  /\ \A who \in Commands \cup {"retry"} : WF_vars(Drain(who))
  /\ WF_vars(SendEnds)

Spec == Init /\ [][Next]_vars /\ Fairness

-----------------------------------------------------------------------------
Outputs == {output[i].seq : i \in DOMAIN output}
Waiting == {s \in Sequence : \/ \E th \in Threads : s \in Range(Held(gates[th]))
                             \/ \E c \in Commands : s \in Range(cmd[c].left)}

(* What has been admitted is shown, or being presented, or waits in a gate, *)
(* and is shown once: nothing is lost by a full gate, by its drain or by   *)
(* its removal.  A lost connection and the end of the bridge drop what     *)
(* they meet; a send that fails loses a message that no gate held back, a  *)
(* request, which is rejected, and what a discarded gate had held, but     *)
(* never a notification in its gate.                                       *)
NothingLost ==
  /\ \A s \in 1..admitted :
       s \in Outputs \cup Waiting \cup dropped \cup failed
                 \cup UNION {Live(k) : k \in Kinds}
  /\ \A i, j \in DOMAIN output : output[i].seq = output[j].seq => i = j
  /\ \A s \in failed : s \in live \cup strays \/ wire[s].kind = "request"

(* While the gate of a thread stands nothing that comes passes it, and     *)
(* nothing of that thread is shown before the command that opened it is    *)
(* answered (_switch_thread), but for what had passed before and what an   *)
(* earlier, discarded gate of the thread still hands over.                 *)
AnswerComesFirst ==
  [][\A th \in Threads : HasGate(th) =>
       /\ \A s \in live' \ live : wire[s].thread # th
       /\ \A i \in DOMAIN output' \ DOMAIN output :
            wire[output'[i].seq].thread = th
            => gates[th].cmd \in answered \/ output'[i].seq \in live \cup strays]_vars

(* What native says of a thread is shown in the order of the wire, across  *)
(* both lanes, full gates, failed sends and reconnections.  A message that *)
(* no gate held back may be overtaken while it is presented, but by the    *)
(* other lane only; a gate that is discarded gives the order up, and so    *)
(* does the end of the bridge.                                             *)
Overtaken(a, b) == b \in live /\ wire[a].kind # wire[b].kind
InWireOrder ==
  ~closed =>
    \A i, j \in DOMAIN output :
      LET a == output[i].seq
          b == output[j].seq
      IN  i < j /\ a > b /\ wire[a].thread = wire[b].thread
          => b \in strays \/ Overtaken(a, b)

(* The same of a hand-off, without the exception of a discarded gate: what *)
(* a gate held back is projected in receive order.                         *)
InWireOrderAlways ==
  \A i, j \in DOMAIN output :
    LET a == output[i].seq
        b == output[j].seq
    IN  i < j /\ wire[a].thread = wire[b].thread => a < b \/ b \in live

(* A gate is not removed before all that was received when native answered *)
(* the command, and did not pass before the gate stood, has been handed    *)
(* over, from whichever lane, unless the gate is discarded or the bridge   *)
(* ends.                                                                   *)
Discarding == {c \in Commands : cmd[c].phase = "discarding"}
HandoffIsComplete ==
  [][\A th \in Threads :
       LET c == gates[th].cmd
       IN  /\ HasGate(th) /\ gates'[th] = NoGate /\ c \in answered
           /\ ~closed' /\ Discarding' \subseteq Discarding
           => \A s \in 1..sealed[c] :
                wire[s].thread = th =>
                  s \in Outputs \cup live \cup dropped' \cup failed' \cup strays']_vars

(* A native event is projected once however often its message is sent.     *)
ProjectedOnce == \A s \in Sequence : tries[s] <= 1 \/ s \in strays

(* A server request of a lost connection is not presented any more.        *)
NoStaleRequest ==
  \A i \in DOMAIN output :
    wire[output[i].seq].kind = "request" =>
      wire[output[i].seq].epoch = output[i].epoch

(* Whatever is received is shown in the end, or lost for one of the        *)
(* reasons of NothingLost, provided that the IM platform repeats a message *)
(* whose answer could not be delivered, and that no drain is stuck on a    *)
(* request that the bridge would have to answer on a lost connection.      *)
Stuck == \E th \in Threads : Held(gates[th]) # <<>> /\ Expired(Held(gates[th])[1])
EverythingIsShown ==
  <>[]Stuck \/ \A s \in Sequence : s <= Len(wire) ~> s \in Outputs \cup dropped \cup failed

(* A conversation has one gate; a gate holds its messages in wire order,   *)
(* and one more than its limit at most, when a failed send comes back.     *)
GateInv ==
  /\ TypeOK
  /\ \A th \in Threads, other \in Threads :
       /\ HasGate(th) /\ HasGate(other) /\ th # other
       => RouteOf[gates[th].cmd] # RouteOf[gates[other].cmd]
  /\ \A th \in Threads :
       LET held == Held(gates[th])
       IN  /\ \A i, j \in DOMAIN held : i < j => held[i] < held[j]
           /\ Len(held) <= Limit + 1
           /\ held # <<>> => HasGate(th)
  /\ next = admitted + 1
=============================================================================
