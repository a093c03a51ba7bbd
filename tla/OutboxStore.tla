----------------------------- MODULE OutboxStore -----------------------------
(***************************************************************************)
(* The part of the bridge state that decides what an IM conversation is    *)
(* still owed (store_terminal_deliveries.py and the bindings of store.py): *)
(* a record of                                                             *)
(*   binding  the thread each conversation (route) is bound to,            *)
(*   watches  native turns that still owe their conversation a result,     *)
(*   outbox   staged messages, each with its route and sequence number,    *)
(*   next     the last sequence number given out,                          *)
(*   acks     receipts: delivery ids the IM sink has accepted.             *)
(* Operators map one such record to the next; in the code each of them     *)
(* ends in _save.                                                          *)
(***************************************************************************)
EXTENDS Integers, Sequences, FiniteSets, FiniteSetsExt, Functions

CONSTANTS
  Routes,     \* IM conversations
  Threads,    \* native threads
  Turns,      \* native turns
  None,       \* no thread, no route, no delivery
  ThreadOf,   \* [Turns -> Threads]
  AnswersOf   \* [Turns -> Seq of the ids of its final answers]

ASSUME StoreAssumption ==
  /\ None \notin Threads \cup Routes \cup Turns
  /\ ThreadOf \in [Turns -> Threads]
  /\ \A t \in Turns : AnswersOf[t] \in Seq(Range(AnswersOf[t]))
  /\ \A t \in Turns : Range(AnswersOf[t]) \cap (Turns \cup {None}) = {}
  /\ \A t, u \in Turns :
       t # u => Range(AnswersOf[t]) \cap Range(AnswersOf[u]) = {}

Answers == UNION {Range(AnswersOf[t]) : t \in Turns}

(* Delivery ids (terminal_identity.py): an answer item has one of its own, *)
(* a completion fallback has the one of its turn.                          *)
Ids == Answers \cup Turns
TurnOf(id) == IF id \in Turns THEN id
              ELSE CHOOSE t \in Turns : id \in Range(AnswersOf[t])

Entry == [id : Ids, route : Routes, seq : Nat]
Store == [binding : [Routes -> Threads \cup {None}],
          watches : SUBSET Turns,
          outbox : SUBSET Entry,
          next : Nat,
          acks : SUBSET Ids]

EmptyStore ==
  [binding |-> [r \in Routes |-> None], watches |-> {}, outbox |-> {},
   next |-> 0, acks |-> {}]

IdsIn(entries) == {e.id : e \in entries}
Bound(s, th) == \E r \in Routes : s.binding[r] = th
RouteOf(s, th) == CHOOSE r \in Routes : s.binding[r] = th
PendingTurn(s, t) == \E id \in IdsIn(s.outbox) : TurnOf(id) = t
Receipts(s, t) == {id \in s.acks : TurnOf(id) = t}

(* watch_terminal_delivery: only for a bound thread. *)
Watch(s, t) ==
  IF Bound(s, ThreadOf[t]) THEN [s EXCEPT !.watches = @ \cup {t}] ELSE s

(* stage_terminal_delivery: what is staged keeps its content and route. *)
Stage(s, id, route) ==
  IF id \in IdsIn(s.outbox) THEN s
  ELSE [s EXCEPT !.next = @ + 1,
                 !.outbox = @ \cup {[id |-> id, route |-> route,
                                     seq |-> s.next + 1]}]

(* Mutant: no receipt is kept. *)
CompleteWithoutReceipt(s, id) ==
  [s EXCEPT !.outbox = {e \in @ : e.id # id}]

(* complete_terminal_delivery *)
Complete(s, id) ==
  IF id \in IdsIn(s.outbox)
    THEN [s EXCEPT !.outbox = {e \in @ : e.id # id}, !.acks = @ \cup {id}]
    ELSE s

(* discard_terminal_watch: the receipts of the turn go with the watch. *)
Discard(s, t) ==
  [s EXCEPT !.watches = @ \ {t}, !.acks = @ \ Receipts(s, t)]

(* _remove_terminal_deliveries_for_thread(preserve_staged=True) *)
Forget(s, th) ==
  [s EXCEPT !.watches = {t \in @ : ThreadOf[t] # th},
            !.acks = {id \in @ : ThreadOf[TurnOf(id)] # th}]

(* bind_thread: the thread leaves every other route. *)
Bind(s, r, th) ==
  LET old == s.binding[r]
      kept == IF old \in {th, None} THEN s ELSE Forget(s, old)
  IN  [kept EXCEPT !.binding =
         [q \in Routes |-> IF q = r THEN th
                           ELSE IF @[q] = th THEN None ELSE @[q]]]

(* clear_thread_binding *)
Unbind(s, r) ==
  LET old == s.binding[r]
      kept == IF old = None THEN s ELSE Forget(s, old)
  IN  [kept EXCEPT !.binding[r] = None]

(* Mutant: the sequence starts over. *)
LoadedFromZero(s) ==
  [s EXCEPT !.acks = {id \in @ : TurnOf(id) \in s.watches}, !.next = 0]

(* _load: receipts whose turn is no longer watched are dropped, sequence   *)
(* numbers go on after those still in the outbox.                          *)
Loaded(s) ==
  [s EXCEPT !.acks = {id \in @ : TurnOf(id) \in s.watches},
            !.next = Max({0} \cup {e.seq : e \in s.outbox})]

(* The order in which list_pending_terminal_deliveries returns entries, *)
(* and _is_terminal_route_head.                                         *)
Earlier(d, e) == d.route = e.route /\ d.seq < e.seq

(* Mutant: a fresh message is sent at once, whatever waits before it. *)
AlwaysHead(s, id) == TRUE

IsRouteHead(s, id) ==
  \A e \in s.outbox : e.id = id => ~ \E d \in s.outbox : Earlier(d, e)
=============================================================================
