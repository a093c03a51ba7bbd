-------------------------- MODULE ChannelMiddleware --------------------------
(***************************************************************************)
(* What UnifiedChannelMiddleware does with one inbound message: it waits   *)
(* for the lock of the conversation, drops duplicates, stages the media,   *)
(* has the bridge execute the message, marks it as processed on disk and   *)
(* sends the answer.  A caller is a task of a channel adapter, or a        *)
(* webhook request, that is inside handle_inbound for one message.         *)
(*                                                                         *)
(* The lock of the store makes "record the marker and write it" one step   *)
(* for other markers; StatePersistence has the steps of the write itself.  *)
(***************************************************************************)
EXTENDS Naturals, Sequences, FiniteSets, SequencesExt

CONSTANTS
  Messages,        \* the messages of the platforms, in order of arrival
  Callers,         \* the tasks that call handle_inbound
  ConversationOf,  \* [Messages -> conversation]
  Media,           \* the messages with attachments to download
  Switching,       \* the commands that open a thread output gate
  RecentLimit,     \* RECENT_INBOUND_MESSAGE_ID_LIMIT
  ReplyLimit,      \* RECENT_INBOUND_RESPONSE_LIMIT
  None

ASSUME LimitsAssumption ==
  /\ RecentLimit \in Nat \ {0}
  /\ ReplyLimit \in 1..RecentLimit

Conversations == {ConversationOf[m] : m \in Messages}

VARIABLES
  call,       \* the message of a caller, where it is, what it will send
  lockQueue,  \* who waits for the lock of a conversation; the head holds it
  markers,    \* recent message ids and responses of a conversation, in memory
  disk,       \* the same in the state file
  dirty,      \* markers whose own write has failed
  kept,       \* answers the output gates hold (external: ThreadOutputGate)
  held,       \* callers whose finalize_inbound has not run: upload slots
  trouble,    \* how many faults may still happen
  (* History. *)
  executed,   \* how often the bridge has executed a message
  forgotten,  \* how often an execution has left no marker
  told        \* what a conversation has been sent: <<message, kind>>

middlewareVars ==
  <<call, lockQueue, markers, disk, dirty, kept, held, trouble, executed,
    forgotten, told>>

Idle == [msg |-> None, at |-> "idle", reply |-> None]
Ends == {"returned", "raised"}
Places == {"waiting", "preparing", "executing", "committing", "replaying",
           "sending"} \union Ends
InCall(w) == call[w].at \notin {"idle", "admission"} \union Ends
At(w, place) == call[w].at = place
ConversationAt(w) == ConversationOf[call[w].msg]
HoldsLock(w) == /\ lockQueue[ConversationAt(w)] # <<>>
                /\ Head(lockQueue[ConversationAt(w)]) = w

NoMarkers == [c \in Conversations |-> [ids |-> <<>>, replies |-> <<>>]]
MiddlewareInit(faults) ==
  /\ call = [w \in Callers |-> Idle]
  /\ lockQueue = [c \in Conversations |-> <<>>]
  /\ markers = NoMarkers /\ disk = NoMarkers
  /\ dirty = {} /\ kept = {} /\ held = {}
  /\ trouble = faults
  /\ executed = [m \in Messages |-> 0]
  /\ forgotten = [m \in Messages |-> 0]
  /\ told = {}

Troubled == trouble > 0 /\ trouble' = trouble - 1
NoTrouble == UNCHANGED trouble
-----------------------------------------------------------------------------
(* The store's markers. *)
(* Not the code: one id more than the limit is kept. *)
NewestAndOne(s, n) == IF Len(s) > n + 1 THEN SubSeq(s, Len(s) - n, Len(s)) ELSE s
Newest(s, n) == IF Len(s) > n THEN SubSeq(s, Len(s) - n + 1, Len(s)) ELSE s
IsDuplicate(m) == m \in ToSet(markers[ConversationOf[m]].ids)
Moved(s, m) == Append(RemoveFirst(s, m), m)
Recorded(m) ==
  [markers EXCEPT ![ConversationOf[m]] =
     [ids |-> Newest(Moved(@.ids, m), RecentLimit),
      replies |-> Newest(Moved(@.replies, m), ReplyLimit)]]
CachedReply(m) == m \in ToSet(markers[ConversationOf[m]].replies)
(* Ids that the limit pushes out when m is recorded: they may run again. *)
PushedOut(m) ==
  ToSet(markers[ConversationOf[m]].ids) \ ToSet(Recorded(m)[ConversationOf[m]].ids)
Forget(lost) ==
  forgotten' = [m \in Messages |-> forgotten[m] + (IF m \in lost THEN 1 ELSE 0)]
-----------------------------------------------------------------------------
(* The lock of a conversation, first come first served. *)
Enter(w, m) ==
  /\ call' = [call EXCEPT ![w] = [msg |-> m, at |-> "waiting", reply |-> None]]
  /\ lockQueue' = [lockQueue EXCEPT ![ConversationOf[m]] = Append(@, w)]
Goes(w, place) == call' = [call EXCEPT ![w].at = place]
Leaves(w, end) ==
  /\ Goes(w, end)
  /\ lockQueue' = [lockQueue EXCEPT ![ConversationAt(w)] = RemoveFirst(@, w)]
  /\ held' = held \ {w}
Executes(w) ==
  executed' = [executed EXCEPT ![call[w].msg] = @ + 1]

(* handle_inbound with the lock: a duplicate is answered from what is kept. *)
FindDuplicate(w) ==
  /\ At(w, "waiting") /\ HoldsLock(w) /\ IsDuplicate(call[w].msg)
  /\ Goes(w, "replaying") /\ held' = held \ {w}
  /\ UNCHANGED <<lockQueue, markers, disk, dirty, kept, trouble, executed,
                 forgotten, told>>

Admitted(w) == At(w, "waiting") /\ HoldsLock(w) /\ ~IsDuplicate(call[w].msg)
Begin(w) ==
  /\ Admitted(w)
  /\ IF call[w].msg \in Media
       THEN Goes(w, "preparing") /\ UNCHANGED executed
       ELSE Goes(w, "executing") /\ Executes(w)
  /\ UNCHANGED <<lockQueue, markers, disk, dirty, kept, held, trouble,
                 forgotten, told>>

(* preflight_inbound_attachments answers before anything is downloaded. *)
Preflight(w) ==
  /\ Admitted(w) /\ call[w].msg \in Media /\ Troubled
  /\ Goes(w, "committing") /\ held' = held \ {w}
  /\ UNCHANGED <<lockQueue, markers, disk, dirty, kept, executed, forgotten,
                 told>>

(* The media is in the spool: the upload is released, the bridge runs. *)
Prepared(w) ==
  /\ At(w, "preparing")
  /\ Goes(w, "executing") /\ Executes(w) /\ held' = held \ {w}
  /\ UNCHANGED <<lockQueue, markers, disk, dirty, kept, trouble, forgotten,
                 told>>

PrepareFails(w) ==
  /\ At(w, "preparing") /\ Troubled /\ Leaves(w, "raised")
  /\ UNCHANGED <<markers, disk, dirty, kept, executed, forgotten, told>>

(* The bridge answers, or fails and the generic error is the answer; a
   switch leaves its answer with the gate of the conversation, whose earlier
   gate is discarded. *)
Answered(w) ==
  LET m == call[w].msg
      ofConversation == {x \in Messages : ConversationOf[x] = ConversationOf[m]}
  IN /\ At(w, "executing") /\ Goes(w, "committing")
     /\ kept' = IF m \in Switching THEN (kept \ ofConversation) \union {m} ELSE kept
     /\ UNCHANGED <<lockQueue, markers, disk, dirty, held, trouble, executed,
                    forgotten, told>>

Records(w) ==
  markers' = Recorded(call[w].msg) /\ Forget(PushedOut(call[w].msg))
(* commit_inbound_message_processed *)
Commit(w) ==
  /\ At(w, "committing") /\ Records(w)
  /\ disk' = markers'
  /\ call' = [call EXCEPT ![w].at = "sending", ![w].reply = "answer"]
  /\ UNCHANGED <<lockQueue, dirty, kept, held, trouble, executed, told>>
(* Not the code: the write comes first, its failure leaves no marker. *)
CommitFailsUnmarked(w) ==
  /\ At(w, "committing") /\ Troubled /\ Leaves(w, "raised")
  /\ UNCHANGED <<markers, disk, dirty, kept, executed, forgotten, told>>
(* The write fails: the marker stays in memory, the answer is not sent. *)
CommitFails(w) ==
  /\ At(w, "committing") /\ Troubled /\ Records(w)
  /\ dirty' = dirty \union {call[w].msg}
  /\ Leaves(w, "raised")
  /\ UNCHANGED <<disk, kept, executed, told>>

(* The duplicate: its marker is made durable, then what is cached, what the
   gate holds, or the notice that neither does is sent. *)
ReplayOf(m) == IF CachedReply(m) \/ m \in kept THEN "answer" ELSE "expired"
Replay(w) ==
  LET m == call[w].msg
  IN /\ At(w, "replaying")
     /\ IF m \in dirty THEN disk' = markers /\ dirty' = dirty \ {m}
                       ELSE UNCHANGED <<disk, dirty>>
     /\ call' = [call EXCEPT ![w].at = "sending", ![w].reply = ReplayOf(m)]
     /\ UNCHANGED <<lockQueue, markers, kept, held, trouble, executed,
                    forgotten, told>>
ReplayFails(w) ==
  /\ At(w, "replaying") /\ call[w].msg \in dirty /\ Troubled
  /\ Leaves(w, "raised")
  /\ UNCHANGED <<markers, disk, dirty, kept, executed, forgotten, told>>

(* _deliver_with_service_ack: only a delivered answer opens the gate. *)
Send(w) ==
  /\ At(w, "sending")
  /\ told' = told \union {<<call[w].msg, call[w].reply>>}
  /\ kept' = IF call[w].reply = "answer" THEN kept \ {call[w].msg} ELSE kept
  /\ Leaves(w, "returned")
  /\ UNCHANGED <<markers, disk, dirty, trouble, executed, forgotten>>
SendFails(w) ==
  /\ At(w, "sending") /\ Troubled /\ Leaves(w, "raised")
  /\ UNCHANGED <<markers, disk, dirty, kept, executed, forgotten, told>>

(* A save for another reason takes the markers along. *)
Persist ==
  /\ disk # markers /\ disk' = markers
  /\ UNCHANGED <<call, lockQueue, markers, dirty, kept, held, trouble,
                 executed, forgotten, told>>

(* The process ends wherever it is.  A stop cancels the callers first, which
   at most lets the write of a running commit finish. *)
Died ==
  LET running == {call[w].msg : w \in {v \in Callers :
                    call[v].at \in {"executing", "committing"}
                      /\ executed[call[v].msg] > 0}}
      unsaved == {m \in Messages : IsDuplicate(m)
                    /\ m \notin ToSet(disk[ConversationOf[m]].ids)}
  IN /\ call' = [w \in Callers |-> Idle]
     /\ lockQueue' = [c \in Conversations |-> <<>>]
     /\ markers' = disk /\ dirty' = {} /\ kept' = {} /\ held' = {}
     /\ Forget({m \in running \union unsaved : TRUE})
     /\ UNCHANGED <<disk, executed, told>>

Work(w) ==
  \/ FindDuplicate(w) \/ Begin(w) \/ Prepared(w) \/ Answered(w)
  \/ Commit(w) \/ Replay(w) \/ Send(w)
Fault(w) ==
  Preflight(w) \/ PrepareFails(w) \/ CommitFails(w) \/ ReplayFails(w)
    \/ SendFails(w)
-----------------------------------------------------------------------------
MiddlewareTypeOK ==
  /\ call \in [Callers -> [msg : Messages \union {None},
                           at : {"idle", "admission"} \union Places,
                           reply : {None, "answer", "expired"}]]
  /\ \A c \in Conversations :
       /\ ToSet(lockQueue[c]) \subseteq Callers
       /\ Len(lockQueue[c]) = Cardinality(ToSet(lockQueue[c]))
       /\ Len(markers[c].ids) <= RecentLimit /\ Len(disk[c].ids) <= RecentLimit
  /\ dirty \subseteq Messages /\ kept \subseteq Messages /\ held \subseteq Callers

(* Executing a message is recorded before its answer leaves, and a duplicate
   is never executed: a message runs again only when the process has died
   before its marker was on disk, or when RecentLimit newer messages of its
   conversation have pushed the marker out (middleware.py: the duplicate
   check and commit of handle_inbound; store.py:458). *)
ExecutedOnce == \A m \in Messages : executed[m] <= 1 + forgotten[m]

(* The notice that a reply has expired is for old messages only: when it is
   sent, ReplyLimit later messages of the conversation have been answered
   (store.py:463-470, middleware.py:145-170). *)
NoticeOnlyWhenOld ==
  \A w \in Callers :
    call[w].at = "sending" /\ call[w].reply = "expired" =>
      LET ids == markers[ConversationAt(w)].ids
      IN \A i \in 1..Len(ids) : ids[i] = call[w].msg => Len(ids) - i >= ReplyLimit
=============================================================================
