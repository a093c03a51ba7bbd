------------------------- MODULE TerminalOutboxProofs -------------------------
(***************************************************************************)
(* For any conversations, threads, turns and answers, any bindings at the  *)
(* start and any disturbances: what the outbox promises of an answer.      *)
(***************************************************************************)
EXTENDS TerminalOutbox, SequenceTheorems, TLAPS

-----------------------------------------------------------------------------
(* The outbox: OutboxInv, and what the types leave open. *)

(* Every set of entries of S has a last one. *)
Bounded(S) ==
  \A R \in SUBSET S : R # {} => \E e \in R : \A d \in R : d.seq <= e.seq

(* A thread speaks in one conversation. *)
BoundOnce(s) ==
  \A r, q \in Routes : s.binding[r] = s.binding[q] => r = q \/ s.binding[r] = None

Good(s) == s \in Store /\ Ordered(s) /\ Bounded(s.outbox) /\ BoundOnce(s)

LaneTyped ==
  /\ lane.who \in {"live", "recover"} => lane.id \in Ids
  /\ lane.who = "recover" => lane.route \in Routes
  /\ lane.who = "free" => lane = Free

ProperEvent == [kind : {"item_completed"}, id : Answers]
                 \cup [kind : {"item_started", "turn_completed"}, id : Turns]

EventsTyped ==
  /\ events \in Seq(ProperEvent)
  /\ \A t \in Turns : native.produced[t] <= Len(AnswersOf[t])

DeliveryInv ==
  /\ TypeOK /\ Good(mem) /\ Good(disk)
  /\ DiskCovered /\ LaneHoldsStaged
  /\ LaneTyped /\ EventsTyped

-----------------------------------------------------------------------------
(* What is known of a turn. *)

ItemOf(id) == [kind |-> "item_completed", id |-> id]
EventTurn(i) == TurnOf(events[i].id)

(* Shown to its conversation, or staged in s for it. *)
InHand(s, id) == id \in IdsIn(accepted \cup s.outbox)
Settled(s, t) == native.status[t] = "done" /\ \A id \in OwedIds(t) : InHand(s, id)

(* Receipts and the memory of the process are of what a sink has taken. *)
ReceiptsTrue ==
  /\ mem.acks \cup disk.acks \cup svc.known \subseteq IdsIn(accepted)
  /\ lane.who \in {"live", "recover"} /\ lane.step = "receipt"
       => lane.id \in IdsIn(accepted)

(* The course of the turns; one turn of a thread runs at a time. *)
NativeInv ==
  /\ \A t, u \in Turns :
       /\ ThreadOf[t] = ThreadOf[u]
       /\ native.status[t] \in {"starting", "running"}
       /\ native.status[u] \in {"starting", "running"}
       => t = u
  /\ \A t \in Turns :
       native.status[t] \in {"new", "starting"} => native.produced[t] = 0
  /\ \A t \in mem.watches \cup disk.watches \cup svc.active :
       native.status[t] \in {"running", "done"}
  /\ \A t \in svc.recovered \cup ready.found \cup ready.turns : native.status[t] = "done"
  /\ lane.who = "recover" => native.status[TurnOf(lane.id)] = "done"

(* What the queue holds belongs to threads this connection has subscribed, *)
(* which are bound unless the user has given them up.                      *)
QueueInv ==
  /\ \A i \in DOMAIN events :
       /\ ThreadOf[EventTurn(i)] \in native.subscribed
       /\ native.status[EventTurn(i)] \in {"running", "done"}
       /\ events[i].kind = "turn_completed" => native.status[EventTurn(i)] = "done"
  /\ ~native.conn => native.subscribed = {}
  /\ \A t \in Turns \ dismissed :
       ThreadOf[t] \in native.subscribed => Bound(mem, ThreadOf[t])
  /\ ready.phase = "resume" =>
       \A r \in ready.routes : mem.binding[r] \notin native.subscribed
  /\ \A t \in svc.suppressed \ dismissed :
       native.status[t] = "done" /\ \A i \in DOMAIN events : EventTurn(i) # t

(* Every answer of a turn is in hand or comes before the end of the turn. *)
AnswersComing ==
  \A t \in Turns \ dismissed :
    /\ native.status[t] = "running" /\ ThreadOf[t] \in native.subscribed =>
         \A n \in 1..native.produced[t] :
           \/ InHand(mem, AnswersOf[t][n])
           \/ \E j \in DOMAIN events : events[j] = ItemOf(AnswersOf[t][n])
    /\ \A k \in DOMAIN events :
         events[k] = [kind |-> "turn_completed", id |-> t] =>
           \A n \in DOMAIN AnswersOf[t] :
             \/ InHand(mem, AnswersOf[t][n])
             \/ \E j \in 1..(k - 1) : events[j] = ItemOf(AnswersOf[t][n])

(* A completed turn is settled; a watch is given up for a settled turn. *)
CompletedSettled ==
  /\ \A t \in svc.completed \ dismissed : Settled(mem, t)
  /\ lane.who = "live" /\ lane.id \in Turns \ dismissed => Settled(mem, lane.id)
  /\ \A t \in svc.visible : AnswersOf[t] # <<>>
  /\ \A t \in promised \ dismissed :
       /\ t \in mem.watches \/ Settled(mem, t)
       /\ t \in disk.watches \/ Settled(disk, t)

TurnsInv ==
  /\ NativeInv /\ QueueInv /\ AnswersComing /\ CompletedSettled

-----------------------------------------------------------------------------
(* The operators of the store. *)

LEMMA TurnOfIds ==
  /\ \A id \in Ids : TurnOf(id) \in Turns
  /\ \A t \in Turns : TurnOf(t) = t
  /\ \A t \in Turns : \A id \in Range(AnswersOf[t]) : id \in Answers /\ TurnOf(id) = t
<1>1. \A t \in Turns : TurnOf(t) = t
  BY DEF TurnOf
<1>2. ASSUME NEW t \in Turns, NEW id \in Range(AnswersOf[t])
      PROVE  id \in Answers /\ TurnOf(id) = t
  <2>1. id \notin Turns /\ \A u \in Turns : id \in Range(AnswersOf[u]) => u = t
    BY <1>2, StoreAssumption
  <2> QED BY <1>2, <2>1 DEF TurnOf, Answers
<1>3. ASSUME NEW id \in Ids PROVE TurnOf(id) \in Turns
  BY <1>1, <1>2, <1>3 DEF Ids, Answers
<1> QED BY <1>1, <1>2, <1>3

LEMMA BoundedSubset ==
  ASSUME NEW S, Bounded(S), NEW R \in SUBSET S
  PROVE  Bounded(R)
BY DEF Bounded

LEMMA BoundedAdd ==
  ASSUME NEW S \in SUBSET Entry, Bounded(S), NEW x \in Entry
  PROVE  Bounded(S \cup {x})
<1> SUFFICES ASSUME NEW R \in SUBSET (S \cup {x}), R # {}
             PROVE  \E e \in R : \A d \in R : d.seq <= e.seq
  BY DEF Bounded
<1>1. \A e \in S \cup {x} : e.seq \in Nat
  BY DEF Entry
<1>2. CASE R \ {x} = {}
  <2>1. R = {x} /\ x.seq <= x.seq
    BY <1>1, <1>2
  <2> QED BY <2>1
<1>3. CASE R \ {x} # {}
  <2>1. PICK e \in R \ {x} : \A d \in R \ {x} : d.seq <= e.seq
    BY <1>3 DEF Bounded
  <2>2. CASE x \in R /\ e.seq <= x.seq
    <3>1. \A d \in R : d.seq <= x.seq
      BY <1>1, <2>1, <2>2
    <3> QED BY <2>2, <3>1
  <2>3. CASE ~(x \in R /\ e.seq <= x.seq)
    <3>1. \A d \in R : d.seq <= e.seq
      BY <1>1, <2>1, <2>3
    <3> QED BY <2>1, <3>1
  <2> QED BY <2>2, <2>3
<1> QED BY <1>2, <1>3

LEMMA WatchKeeps ==
  ASSUME NEW s, Good(s), NEW t \in Turns
  PROVE  /\ Good(Watch(s, t))
         /\ Watch(s, t).binding = s.binding /\ Watch(s, t).outbox = s.outbox
         /\ Watch(s, t).acks = s.acks
         /\ s.watches \subseteq Watch(s, t).watches
         /\ Watch(s, t).watches \subseteq s.watches \cup {t}
         /\ Bound(s, ThreadOf[t]) => t \in Watch(s, t).watches
<1> DEFINE w == [s EXCEPT !.watches = s.watches \cup {t}]
<1>1. s \in Store
  BY DEF Good
<1>2. /\ w \in Store /\ w.binding = s.binding /\ w.outbox = s.outbox /\ w.acks = s.acks
      /\ w.next = s.next /\ w.watches = s.watches \cup {t}
  BY <1>1 DEF Store
<1>3. Watch(s, t) = IF Bound(s, ThreadOf[t]) THEN w ELSE s
  BY <1>1 DEF Watch, Store
<1> HIDE DEF w
<1>4. Good(w)
  BY <1>2 DEF Good, Ordered, BoundOnce
<1> QED BY <1>2, <1>3, <1>4

LEMMA StageKeeps ==
  ASSUME NEW s, Good(s), NEW id \in Ids, NEW route \in Routes
  PROVE  /\ Good(Stage(s, id, route))
         /\ Stage(s, id, route).binding = s.binding
         /\ Stage(s, id, route).watches = s.watches
         /\ Stage(s, id, route).acks = s.acks
         /\ s.outbox \subseteq Stage(s, id, route).outbox
         /\ id \in IdsIn(Stage(s, id, route).outbox)
         /\ \A e \in Stage(s, id, route).outbox \ s.outbox : e.id = id
<1> DEFINE x == [id |-> id, route |-> route, seq |-> s.next + 1]
           out == s.outbox \cup {x}
           w == [s EXCEPT !.next = s.next + 1, !.outbox = out]
<1>1. s \in Store /\ Ordered(s) /\ Bounded(s.outbox) /\ BoundOnce(s)
  BY DEF Good
<1>2. CASE id \in IdsIn(s.outbox)
  BY <1>2 DEF Stage
<1>3. CASE id \notin IdsIn(s.outbox)
  <2>1. x \in Entry /\ x.id = id /\ x.seq = s.next + 1 /\ s.next \in Nat
        /\ s.outbox \subseteq Entry
    BY <1>1 DEF Store, Entry
  <2>2. Stage(s, id, route) = w
    BY <1>1, <1>3 DEF Stage, Store
  <2>9. out \in SUBSET Entry /\ s.next + 1 \in Nat
    BY <2>1
  <2> HIDE DEF x, out
  <2>3. /\ w \in Store /\ w.binding = s.binding /\ w.watches = s.watches
        /\ w.acks = s.acks /\ w.next = s.next + 1 /\ w.outbox = out
    BY <1>1, <2>9 DEF Store
  <2> HIDE DEF w
  <2>10. w.outbox = s.outbox \cup {x}
    BY <2>3 DEF out
  <2>4. \A e \in s.outbox : e.id # id /\ e.seq <= s.next /\ e.seq \in Nat
    BY <1>1, <1>3, <2>1 DEF Ordered, IdsIn, Entry
  <2>5. Ordered(w)
    BY <1>1, <2>1, <2>3, <2>4, <2>10 DEF Ordered
  <2>6. Bounded(w.outbox)
    BY <1>1, <2>1, <2>10, BoundedAdd
  <2>7. BoundOnce(w)
    BY <1>1, <2>3 DEF BoundOnce
  <2>8. id \in IdsIn(w.outbox)
    BY <2>1, <2>10 DEF IdsIn
  <2> QED BY <2>1, <2>2, <2>3, <2>5, <2>6, <2>7, <2>8, <2>10 DEF Good
<1> QED BY <1>2, <1>3

LEMMA CompleteKeeps ==
  ASSUME NEW s, Good(s), NEW id \in Ids
  PROVE  /\ Good(Complete(s, id))
         /\ Complete(s, id).binding = s.binding /\ Complete(s, id).watches = s.watches
         /\ Complete(s, id).outbox = {e \in s.outbox : e.id # id}
         /\ Complete(s, id).acks = IF id \in IdsIn(s.outbox) THEN s.acks \cup {id} ELSE s.acks
<1> DEFINE out == {e \in s.outbox : e.id # id}
           w == [s EXCEPT !.outbox = out, !.acks = s.acks \cup {id}]
<1>1. s \in Store /\ Ordered(s) /\ Bounded(s.outbox) /\ BoundOnce(s)
  BY DEF Good
<1>2. CASE id \in IdsIn(s.outbox)
  <2>1. Complete(s, id) = w
    BY <1>1, <1>2 DEF Complete, Store
  <2>2. out \subseteq s.outbox
    OBVIOUS
  <2> HIDE DEF out
  <2>3. /\ w \in Store /\ w.binding = s.binding /\ w.watches = s.watches
        /\ w.acks = s.acks \cup {id} /\ w.next = s.next /\ w.outbox = out
    BY <1>1, <2>2 DEF Store
  <2> HIDE DEF w
  <2>4. Ordered(w) /\ BoundOnce(w)
    BY <1>1, <2>2, <2>3 DEF Ordered, BoundOnce
  <2>5. Bounded(w.outbox)
    BY <1>1, <2>2, <2>3, BoundedSubset
  <2> QED BY <1>2, <2>1, <2>3, <2>4, <2>5 DEF Good, out
<1>3. CASE id \notin IdsIn(s.outbox)
  <2>1. Complete(s, id) = s /\ out = s.outbox
    BY <1>3 DEF Complete, IdsIn
  <2> QED BY <1>3, <2>1
<1> QED BY <1>2, <1>3

LEMMA DiscardKeeps ==
  ASSUME NEW s, Good(s), NEW t
  PROVE  /\ Good(Discard(s, t))
         /\ Discard(s, t).binding = s.binding /\ Discard(s, t).outbox = s.outbox
         /\ Discard(s, t).watches = s.watches \ {t}
         /\ Discard(s, t).acks = s.acks \ Receipts(s, t)
<1> DEFINE gone == Receipts(s, t)
           w == [s EXCEPT !.watches = s.watches \ {t}, !.acks = s.acks \ gone]
<1>1. s \in Store
  BY DEF Good
<1>2. Discard(s, t) = w
  BY <1>1 DEF Discard, Store
<1> HIDE DEF gone
<1>3. /\ w \in Store /\ w.binding = s.binding /\ w.watches = s.watches \ {t}
      /\ w.acks = s.acks \ gone /\ w.next = s.next /\ w.outbox = s.outbox
  BY <1>1 DEF Store
<1> HIDE DEF w
<1>4. Good(w)
  BY <1>3 DEF Good, Ordered, BoundOnce
<1> QED BY <1>2, <1>3, <1>4 DEF gone

LEMMA ReleasedKeeps ==
  ASSUME NEW s, Good(s), NEW b, NEW t
  PROVE  /\ Good(Released(s, b, t))
         /\ Released(s, b, t).binding = s.binding /\ Released(s, b, t).outbox = s.outbox
         /\ Released(s, b, t).acks \subseteq s.acks
         /\ Released(s, b, t) = s \/ (t \in b.completed /\ Released(s, b, t) = Discard(s, t))
BY DiscardKeeps DEF Released

LEMMA ForgetKeeps ==
  ASSUME NEW s, Good(s), NEW th
  PROVE  /\ Good(Forget(s, th))
         /\ Forget(s, th).binding = s.binding /\ Forget(s, th).outbox = s.outbox
         /\ Forget(s, th).watches = {t \in s.watches : ThreadOf[t] # th}
         /\ Forget(s, th).acks = {id \in s.acks : ThreadOf[TurnOf(id)] # th}
<1> DEFINE kept == {t \in s.watches : ThreadOf[t] # th}
           acks == {id \in s.acks : ThreadOf[TurnOf(id)] # th}
           w == [s EXCEPT !.watches = kept, !.acks = acks]
<1>1. s \in Store
  BY DEF Good
<1>2. Forget(s, th) = w
  BY <1>1 DEF Forget, Store
<1>3. kept \subseteq s.watches /\ acks \subseteq s.acks
  OBVIOUS
<1> HIDE DEF kept, acks
<1>4. /\ w \in Store /\ w.binding = s.binding /\ w.watches = kept
      /\ w.acks = acks /\ w.next = s.next /\ w.outbox = s.outbox
  BY <1>1, <1>3 DEF Store
<1> HIDE DEF w
<1>5. Good(w)
  BY <1>4 DEF Good, Ordered, BoundOnce
<1> QED BY <1>2, <1>4, <1>5 DEF kept, acks

LEMMA BindKeeps ==
  ASSUME NEW s, Good(s), NEW r \in Routes, NEW th \in Threads
  PROVE  /\ Good(Bind(s, r, th)) /\ Bind(s, r, th).outbox = s.outbox
         /\ Bind(s, r, th).acks \subseteq s.acks
         /\ \A q \in Routes : Bind(s, r, th).binding[q] =
              IF q = r THEN th ELSE IF s.binding[q] = th THEN None ELSE s.binding[q]
         /\ Bind(s, r, th).watches \subseteq s.watches
         /\ \A t \in s.watches : ThreadOf[t] # s.binding[r] => t \in Bind(s, r, th).watches
         /\ \A id \in s.acks : ThreadOf[TurnOf(id)] # s.binding[r] => id \in Bind(s, r, th).acks
<1> DEFINE old == s.binding[r]
           kept == IF old \in {th, None} THEN s ELSE Forget(s, old)
           bound == [q \in Routes |-> IF q = r THEN th
                                      ELSE IF kept.binding[q] = th THEN None
                                           ELSE kept.binding[q]]
           w == [kept EXCEPT !.binding = bound]
<1>1. /\ Good(kept) /\ kept.binding = s.binding /\ kept.outbox = s.outbox
      /\ kept.acks \subseteq s.acks /\ kept.watches \subseteq s.watches
      /\ \A t \in s.watches : ThreadOf[t] # old => t \in kept.watches
      /\ \A id \in s.acks : ThreadOf[TurnOf(id)] # old => id \in kept.acks
  BY ForgetKeeps
<1>2. kept \in Store
  BY <1>1 DEF Good
<1>3. Bind(s, r, th) = w
  BY <1>2 DEF Bind, Store
<1> HIDE DEF kept
<1>4. bound \in [Routes -> Threads \cup {None}]
      /\ \A q \in Routes : bound[q] =
           IF q = r THEN th ELSE IF s.binding[q] = th THEN None ELSE s.binding[q]
  BY <1>1, <1>2 DEF Store
<1> HIDE DEF bound
<1>5. /\ w \in Store /\ w.binding = bound /\ w.outbox = kept.outbox /\ w.acks = kept.acks
      /\ w.watches = kept.watches /\ w.next = kept.next
  BY <1>2, <1>4 DEF Store
<1> HIDE DEF w
<1>6. Ordered(w) /\ Bounded(w.outbox)
  BY <1>1, <1>5 DEF Good, Ordered
<1>7. BoundOnce(w)
  BY <1>4, <1>5, StoreAssumption DEF BoundOnce, Good
<1> QED BY <1>1, <1>3, <1>4, <1>5, <1>6, <1>7 DEF Good

LEMMA UnbindKeeps ==
  ASSUME NEW s, Good(s), NEW r \in Routes
  PROVE  /\ Good(Unbind(s, r)) /\ Unbind(s, r).outbox = s.outbox
         /\ Unbind(s, r).acks \subseteq s.acks
         /\ \A q \in Routes : Unbind(s, r).binding[q] = IF q = r THEN None ELSE s.binding[q]
         /\ Unbind(s, r).watches \subseteq s.watches
         /\ \A t \in s.watches : ThreadOf[t] # s.binding[r] => t \in Unbind(s, r).watches
         /\ \A id \in s.acks : ThreadOf[TurnOf(id)] # s.binding[r] => id \in Unbind(s, r).acks
<1> DEFINE old == s.binding[r]
           kept == IF old = None THEN s ELSE Forget(s, old)
           bound == [kept.binding EXCEPT ![r] = None]
           w == [kept EXCEPT !.binding = bound]
<1>1. /\ Good(kept) /\ kept.binding = s.binding /\ kept.outbox = s.outbox
      /\ kept.acks \subseteq s.acks /\ kept.watches \subseteq s.watches
      /\ \A t \in s.watches : ThreadOf[t] # old => t \in kept.watches
      /\ \A id \in s.acks : ThreadOf[TurnOf(id)] # old => id \in kept.acks
  BY ForgetKeeps
<1>2. kept \in Store
  BY <1>1 DEF Good
<1>3. Unbind(s, r) = w
  BY <1>2 DEF Unbind, Store
<1> HIDE DEF kept
<1>4. bound \in [Routes -> Threads \cup {None}]
      /\ \A q \in Routes : bound[q] = IF q = r THEN None ELSE s.binding[q]
  BY <1>1, <1>2 DEF Store
<1> HIDE DEF bound
<1>5. /\ w \in Store /\ w.binding = bound /\ w.outbox = kept.outbox /\ w.acks = kept.acks
      /\ w.watches = kept.watches /\ w.next = kept.next
  BY <1>2, <1>4 DEF Store
<1> HIDE DEF w
<1>6. Ordered(w) /\ Bounded(w.outbox)
  BY <1>1, <1>5 DEF Good, Ordered
<1>7. BoundOnce(w)
  BY <1>1, <1>4, <1>5 DEF BoundOnce, Good
<1> QED BY <1>1, <1>3, <1>4, <1>5, <1>6, <1>7 DEF Good

LEMMA LoadedKeeps ==
  ASSUME NEW s, Good(s)
  PROVE  /\ Good(Loaded(s))
         /\ Loaded(s).binding = s.binding /\ Loaded(s).outbox = s.outbox
         /\ Loaded(s).watches = s.watches
         /\ Loaded(s).acks = {id \in s.acks : TurnOf(id) \in s.watches}
<1> DEFINE Numbers == {0} \cup {e.seq : e \in s.outbox}
           last == Max(Numbers)
           acks == {id \in s.acks : TurnOf(id) \in s.watches}
           w == [s EXCEPT !.acks = acks, !.next = last]
<1>1. s \in Store /\ Ordered(s) /\ Bounded(s.outbox) /\ BoundOnce(s)
      /\ \A e \in s.outbox : e.seq \in Nat
  BY DEF Good, Store, Entry
<1>2. Loaded(s) = w
  BY <1>1 DEF Loaded, Store
<1>3. \E n \in Numbers : \A m \in Numbers : n >= m
  <2>1. CASE s.outbox = {}
    <3>1. Numbers = {0}
      BY <2>1
    <3> QED BY <3>1
  <2>2. CASE s.outbox # {}
    <3>1. PICK e \in s.outbox : \A d \in s.outbox : d.seq <= e.seq
      BY <1>1, <2>2 DEF Bounded
    <3>2. e.seq \in Numbers /\ \A m \in Numbers : e.seq >= m
      BY <1>1, <3>1
    <3> QED BY <3>2
  <2> QED BY <2>1, <2>2
<1>4. last \in Numbers /\ \A m \in Numbers : last >= m
  <2> HIDE DEF Numbers
  <2> QED BY <1>3 DEF Max
<1>5. last \in Nat /\ \A e \in s.outbox : e.seq <= last
  BY <1>1, <1>4
<1>6. acks \subseteq s.acks
  OBVIOUS
<1> HIDE DEF last, acks
<1>7. /\ w \in Store /\ w.binding = s.binding /\ w.outbox = s.outbox
      /\ w.watches = s.watches /\ w.acks = acks /\ w.next = last
  BY <1>1, <1>5, <1>6 DEF Store
<1> HIDE DEF w
<1>8. Good(w)
  BY <1>1, <1>5, <1>7 DEF Good, Ordered, BoundOnce
<1> QED BY <1>2, <1>7, <1>8 DEF acks

LEMMA RouteBound ==
  ASSUME NEW s, NEW th, Bound(s, th)
  PROVE  RouteOf(s, th) \in Routes /\ s.binding[RouteOf(s, th)] = th
BY DEF Bound, RouteOf

LEMMA EntryFound ==
  ASSUME NEW s, Good(s), NEW id \in IdsIn(s.outbox)
  PROVE  /\ EntryOf(s, id) \in s.outbox /\ EntryOf(s, id).id = id
         /\ \A e \in s.outbox : e.id = id => e = EntryOf(s, id)
<1>1. \E e \in s.outbox : e.id = id
  BY DEF IdsIn
<1>2. EntryOf(s, id) \in s.outbox /\ EntryOf(s, id).id = id
  BY <1>1 DEF EntryOf
<1> QED BY <1>2 DEF Good, Ordered

LEMMA RecoveredAre ==
  ASSUME NEW t \in Turns
  PROVE  /\ \A i \in DOMAIN RecoveredIds(t) :
              RecoveredIds(t)[i] \in Ids /\ TurnOf(RecoveredIds(t)[i]) = t
         /\ OwedIds(t) = Range(RecoveredIds(t))
         /\ AnswersOf[t] # <<>> => RecoveredIds(t) = AnswersOf[t]
         /\ AnswersOf[t] = <<>> => RecoveredIds(t) = <<t>>
<1>1. CASE AnswersOf[t] = <<>>
  <2>1. RecoveredIds(t) = <<t>> /\ DOMAIN <<t>> = {1} /\ <<t>>[1] = t /\ OwedIds(t) = {t}
    BY <1>1 DEF RecoveredIds, OwedIds
  <2> QED BY <1>1, <2>1, TurnOfIds DEF Ids, Range
<1>2. CASE AnswersOf[t] # <<>>
  <2>1. RecoveredIds(t) = AnswersOf[t] /\ OwedIds(t) = Range(AnswersOf[t])
    BY <1>2 DEF RecoveredIds, OwedIds
  <2>2. \A i \in DOMAIN AnswersOf[t] : AnswersOf[t][i] \in Range(AnswersOf[t])
    BY DEF Range
  <2> QED BY <1>2, <2>1, <2>2, TurnOfIds DEF Ids
<1> QED BY <1>1, <1>2

-----------------------------------------------------------------------------
(* What the delivery of a message leaves behind. *)

After(s) ==
  /\ Good(mem') /\ s.outbox \subseteq mem'.outbox
  /\ svc' \in Service /\ lane' \in Lane /\ LaneTyped' /\ LaneHoldsStaged'

LEMMA FreeLane ==
  /\ Free \in Lane
  /\ lane' = Free => LaneTyped' /\ LaneHoldsStaged'
<1>1. Free \in Lane
  BY DEF Free, Lane
<1>2. Free.who = "free"
  BY DEF Free
<1> QED BY <1>1, <1>2 DEF LaneTyped, LaneHoldsStaged

LEMMA TakesLane ==
  ASSUME NEW who \in {"live", "recover"}, NEW id \in Ids, NEW route \in Routes \cup {None},
         NEW ok \in BOOLEAN, who = "recover" => route \in Routes,
         lane' = [who |-> who, step |-> "flush", id |-> id, route |-> route, rest |-> {},
                  ok |-> ok],
         id \in IdsIn(mem'.outbox)
  PROVE  lane' \in Lane /\ LaneTyped' /\ LaneHoldsStaged'
<1>1. lane' \in Lane
  BY DEF Lane
<1> QED BY <1>1 DEF LaneTyped, LaneHoldsStaged, IdsIn

LEMMA RecoverOnKeeps ==
  ASSUME NEW s, Good(s), NEW b \in Service, NEW t \in Turns, NEW route \in Routes,
         NEW ok \in BOOLEAN, RecoverOn(s, b, t, route, ok)
  PROVE  After(s)
<1> DEFINE ids == RecoveredIds(t)
           Stages(i) == /\ mem' = Stage(s, ids[i], route)
                        /\ svc' = b
                        /\ lane' = [Free EXCEPT !.who = "recover", !.step = "flush",
                                                !.id = ids[i], !.route = route, !.ok = ok]
           Ends == /\ mem' = IF ok THEN Discard(s, t) ELSE s
                   /\ svc' = IF ok THEN [b EXCEPT !.recovered = @ \ {t}] ELSE b
                   /\ lane' = Free
<1>3. (\E i \in DOMAIN ids : Stages(i)) \/ Ends
  BY Zenon DEF RecoverOn
<1>1. ASSUME NEW i \in DOMAIN ids, Stages(i) PROVE After(s)
  <2>1. PICK id \in Ids : id = ids[i]
    BY RecoveredAre
  <2>2. /\ Good(mem') /\ s.outbox \subseteq mem'.outbox /\ id \in IdsIn(mem'.outbox)
    BY <1>1, <2>1, StageKeeps
  <2>3. lane' \in Lane /\ LaneTyped' /\ LaneHoldsStaged'
    <3>1. lane' = [who |-> "recover", step |-> "flush", id |-> id, route |-> route,
                   rest |-> {}, ok |-> ok]
      BY <1>1, <2>1 DEF Free
    <3> HIDE DEF ids
    <3> QED BY <2>2, <3>1, TakesLane
  <2> QED BY <1>1, <2>2, <2>3 DEF After
<1>2. CASE Ends
  <2>1. Good(mem') /\ s.outbox \subseteq mem'.outbox
    BY <1>2, DiscardKeeps
  <2>2. svc' \in Service
    <3>1. [b EXCEPT !.recovered = b.recovered \ {t}] \in Service
      BY DEF Service
    <3>2. svc' = IF ok THEN [b EXCEPT !.recovered = b.recovered \ {t}] ELSE b
      BY <1>2 DEF Service
    <3> QED BY <3>1, <3>2
  <2>3. lane' \in Lane /\ LaneTyped' /\ LaneHoldsStaged'
    <3>1. lane' = Free
      BY <1>2
    <3> QED BY <3>1, FreeLane
  <2> QED BY <2>1, <2>2, <2>3 DEF After
<1> HIDE DEF Stages, Ends
<1> QED BY <1>1, <1>2, <1>3

LEMMA CompletionKeeps ==
  ASSUME NEW s, Good(s), NEW b \in Service, NEW t \in Turns, NEW durable \in BOOLEAN,
         CompletionHandled(s, b, t, durable)
  PROVE  After(s)
<1>1. Good(mem') /\ s.outbox \subseteq mem'.outbox
  BY DiscardKeeps DEF CompletionHandled
<1>2. svc' \in Service
  <2>1. svc' = [b EXCEPT !.completed = b.completed \cup {t}]
    BY DEF CompletionHandled, Service
  <2> QED BY <2>1 DEF Service
<1> QED BY <1>1, <1>2, FreeLane DEF After, CompletionHandled

LEMMA ReturnsKeep ==
  ASSUME NEW s, Good(s), svc \in Service, lane \in Lane, LaneTyped,
         lane.who \in {"live", "recover"},
         NEW delivered \in BOOLEAN, NEW durable \in BOOLEAN, Returns(s, delivered, durable)
  PROVE  After(s)
<1> DEFINE b == IF delivered THEN [svc EXCEPT !.known = svc.known \cup {lane.id}] ELSE svc
           t == TurnOf(lane.id)
<1>1. lane.id \in Ids /\ t \in Turns /\ (lane.who = "recover" => lane.route \in Routes)
      /\ lane.ok \in BOOLEAN
  BY TurnOfIds DEF LaneTyped, Lane
<1>2. b \in Service
  BY <1>1 DEF Service
<1>3. \/ lane.who = "recover" /\ RecoverOn(s, b, t, lane.route, lane.ok /\ durable)
      \/ lane.who # "recover" /\ CompletionHandled(s, b, t, durable)
      \/ mem' = s /\ svc' = b /\ lane' = Free
  BY DEF Returns, Service
<1> HIDE DEF b, t
<1>4. CASE lane.who = "recover" /\ RecoverOn(s, b, t, lane.route, lane.ok /\ durable)
  <2>1. (lane.ok /\ durable) \in BOOLEAN
    BY <1>1
  <2> QED BY <1>1, <1>2, <1>4, <2>1, RecoverOnKeeps
<1>5. CASE CompletionHandled(s, b, t, durable)
  BY <1>1, <1>2, <1>5, CompletionKeeps
<1>6. CASE mem' = s /\ svc' = b /\ lane' = Free
  BY <1>2, <1>6, FreeLane DEF After
<1> QED BY <1>3, <1>4, <1>5, <1>6

-----------------------------------------------------------------------------
(* Queue and app-server. *)

Status == {"new", "starting", "running", "done"}
NativeTyped ==
  native \in [conn : BOOLEAN, subscribed : SUBSET Threads,
              status : [Turns -> Status], produced : [Turns -> Nat]]

LEMMA ItemsProper ==
  ASSUME NEW t \in Turns, NEW n \in Nat, n <= Len(AnswersOf[t])
  PROVE  /\ Items(t, n) \in Seq(ProperEvent) /\ Len(Items(t, n)) = n
         /\ \A i \in 1..n : Items(t, n)[i] = ItemOf(AnswersOf[t][i])
<1>1. AnswersOf[t] \in Seq(Range(AnswersOf[t])) /\ DOMAIN AnswersOf[t] = 1..Len(AnswersOf[t])
  BY StoreAssumption, LenProperties
<1>2. \A i \in 1..n : i \in DOMAIN AnswersOf[t] /\ AnswersOf[t][i] \in Answers
  <2>1. \A i \in 1..n : i \in DOMAIN AnswersOf[t]
    BY <1>1, LenProperties
  <2> QED BY <2>1, TurnOfIds DEF Range
<1>3. \A i \in 1..n : Items(t, n)[i] = ItemOf(AnswersOf[t][i])
                      /\ Items(t, n)[i] \in ProperEvent
  BY <1>2 DEF Items, ItemOf, ProperEvent
<1>4. DOMAIN Items(t, n) = 1..n /\ Items(t, n) = [i \in 1..n |-> Items(t, n)[i]]
  BY DEF Items
<1> HIDE DEF Items
<1>5. Items(t, n) \in [1..n -> ProperEvent]
  BY <1>3, <1>4
<1>6. Items(t, n) \in Seq(ProperEvent)
  BY <1>5, SeqDef
<1> QED BY <1>3, <1>4, <1>6, LenProperties

LEMMA CompletionProper ==
  ASSUME NEW t \in Turns
  PROVE  Completion(t) \in Seq(ProperEvent) /\ Len(Completion(t)) = 1
         /\ Completion(t)[1] = [kind |-> "turn_completed", id |-> t]
BY DEF Completion, ProperEvent

LEMMA SendKeeps ==
  ASSUME events \in Seq(ProperEvent), NEW es \in Seq(ProperEvent), NEW th, Send(es, th)
  PROVE  events' \in Seq(ProperEvent)
<1>1. events \o es \in Seq(ProperEvent)
  BY ConcatProperties
<1> QED BY <1>1 DEF Send

LEMMA ReplaysKeep ==
  ASSUME events \in Seq(ProperEvent), NativeTyped,
         \A t \in Turns : native.produced[t] <= Len(AnswersOf[t]),
         NEW th, ReplaysRunning(th)
  PROVE  events' \in Seq(ProperEvent)
<1>1. CASE Running(th) = {}
  BY <1>1 DEF ReplaysRunning
<1>2. CASE Running(th) # {}
  <2> DEFINE t == CHOOSE t \in Running(th) : TRUE
  <2>1. t \in Turns
    BY <1>2 DEF Running
  <2>2. native.produced[t] \in Nat
    BY <2>1 DEF NativeTyped
  <2>3. Items(t, native.produced[t]) \in Seq(ProperEvent)
    BY <2>1, <2>2, ItemsProper
  <2>4. events \o Items(t, native.produced[t]) \in Seq(ProperEvent)
    BY <2>3, ConcatProperties
  <2> QED BY <2>4 DEF ReplaysRunning
<1> QED BY <1>1, <1>2

LEMMA TypeParts ==
  TypeOK <=>
    /\ mem \in Store /\ disk \in Store /\ svc \in Service /\ lane \in Lane
    /\ retry \in {"off", "on", "receipt"}
    /\ ready \in [phase : {"idle", "resume", "recover", "drain"},
                  routes : SUBSET Routes, found : SUBSET Turns,
                  dropped : SUBSET Turns, turns : SUBSET Turns]
    /\ events \in Seq(Event) /\ NativeTyped
    /\ accepted \in SUBSET Entry
    /\ promised \in SUBSET Turns /\ dismissed \in SUBSET Turns
    /\ spent \in [Disturbances -> Nat]
BY DEF TypeOK, NativeTyped, Status

LEMMA ProperEvents == \A es \in Seq(ProperEvent) : es \in Seq(Event)
<1>1. ProperEvent \subseteq Event
  BY DEF ProperEvent, Event, Ids
<1> QED BY <1>1, SeqMonotonic

LEMMA SpendTyped ==
  ASSUME spent \in [Disturbances -> Nat], NEW d \in Disturbances, Spend(d)
  PROVE  spent' \in [Disturbances -> Nat]
BY DEF Spend

LEMMA LaneAsBefore ==
  ASSUME LaneTyped, LaneHoldsStaged, UNCHANGED lane, mem'.outbox = mem.outbox,
         disk'.outbox = disk.outbox \/ disk'.outbox = mem.outbox
  PROVE  LaneTyped' /\ LaneHoldsStaged'
<1>1. LaneTyped'
  BY DEF LaneTyped
<1>2. ASSUME lane.who \in {"live", "recover"}, lane.step \in {"flush", "emit"}
      PROVE  \E e \in mem'.outbox :
               /\ e.id = lane.id
               /\ lane.step = "emit" => /\ e \in disk'.outbox
                                       /\ \A d \in mem'.outbox : ~Earlier(d, e)
  BY <1>2 DEF LaneHoldsStaged
<1>3. ASSUME lane.who \in {"ready", "retry"}, lane.step = "emit"
      PROVE  /\ lane.rest # {}
             /\ lane.rest \subseteq mem'.outbox \cap disk'.outbox
             /\ \A e \in lane.rest, d \in mem'.outbox : Earlier(d, e) => d \in lane.rest
  BY <1>3 DEF LaneHoldsStaged
<1> QED BY <1>1, <1>2, <1>3 DEF LaneHoldsStaged

LEMMA DiskStaysCovered ==
  ASSUME DiskCovered, mem.outbox \subseteq mem'.outbox, accepted \subseteq accepted',
         disk'.outbox = disk.outbox \/ disk'.outbox = mem.outbox
  PROVE  DiskCovered'
BY DEF DiskCovered

LEMMA LaneUntouched ==
  ASSUME DeliveryInv, UNCHANGED <<lane, accepted>>, Good(mem'), mem'.outbox = mem.outbox,
         disk' = disk \/ disk' = mem
  PROVE  /\ DiskCovered' /\ LaneHoldsStaged' /\ LaneTyped' /\ Good(disk')
         /\ mem' \in Store /\ disk' \in Store /\ lane' \in Lane /\ accepted' \in SUBSET Entry
<1>1. disk'.outbox = disk.outbox \/ disk'.outbox = mem.outbox
  OBVIOUS
<1>2. Good(disk')
  BY DEF DeliveryInv
<1>3. DiskCovered' /\ LaneHoldsStaged' /\ LaneTyped'
  BY <1>1, LaneAsBefore, DiskStaysCovered DEF DeliveryInv
<1> QED BY <1>2, <1>3 DEF DeliveryInv, TypeOK, Good

(* Native and the user. *)
LEMMA NativeDelivery ==
  ASSUME DeliveryInv, NEW t \in Turns, Produce(t) \/ EndTurn(t)
  PROVE  DeliveryInv'
<1>0. TypeOK /\ Good(mem) /\ NativeTyped /\ events \in Seq(ProperEvent)
      /\ \A u \in Turns : native.produced[u] <= Len(AnswersOf[u])
  BY TypeParts DEF DeliveryInv, EventsTyped
<1>1. UNCHANGED <<mem, disk, svc, lane, retry, ready, accepted, promised, dismissed, spent>>
  BY DEF Produce, EndTurn
<1>2. AnswersOf[t] \in Seq(Range(AnswersOf[t])) /\ Len(AnswersOf[t]) \in Nat
      /\ DOMAIN AnswersOf[t] = 1..Len(AnswersOf[t]) /\ native.produced[t] \in Nat
  BY <1>0, StoreAssumption, LenProperties DEF NativeTyped
<1>3. NativeTyped' /\ (\A u \in Turns : native'.produced[u] <= Len(AnswersOf[u]))
      /\ events' \in Seq(ProperEvent)
  <2>1. CASE Produce(t)
    <3> DEFINE n == native.produced[t] + 1
               counts == [native.produced EXCEPT ![t] = n]
               e == <<ItemOf(AnswersOf[t][n])>>
    <3>1. native' = [native EXCEPT !.produced = counts] /\ Send(e, ThreadOf[t])
          /\ n \in 1..Len(AnswersOf[t])
      BY <1>0, <1>2, <2>1 DEF Produce, NativeTyped, ItemOf
    <3>2. counts \in [Turns -> Nat] /\ \A u \in Turns : counts[u] <= Len(AnswersOf[u])
      BY <1>0, <1>2, <3>1 DEF NativeTyped
    <3>3. e \in Seq(ProperEvent)
      <4>1. AnswersOf[t][n] \in Answers
        BY <1>2, <3>1, TurnOfIds DEF Range
      <4>2. ItemOf(AnswersOf[t][n]) \in ProperEvent
        BY <4>1 DEF ItemOf, ProperEvent
      <4> QED BY <4>2
    <3> HIDE DEF e, counts
    <3>4. NativeTyped' /\ native'.produced = counts
      BY <1>0, <3>1, <3>2 DEF NativeTyped
    <3> QED BY <1>0, <3>1, <3>2, <3>3, <3>4, SendKeeps
  <2>2. CASE EndTurn(t)
    <3> DEFINE states == [native.status EXCEPT ![t] = "done"]
               first == IF t \in Reopening THEN <<[kind |-> "item_started", id |-> t]>>
                        ELSE <<>>
    <3>1. native' = [native EXCEPT !.status = states]
          /\ Send(first \o Completion(t), ThreadOf[t])
      BY <1>0, <2>2 DEF EndTurn, NativeTyped
    <3>2. states \in [Turns -> Status]
      BY <1>0 DEF NativeTyped, Status
    <3>3. first \in Seq(ProperEvent)
      <4>1. [kind |-> "item_started", id |-> t] \in ProperEvent
        BY DEF ProperEvent
      <4>2. <<>> \in Seq(ProperEvent) /\ <<[kind |-> "item_started", id |-> t]>> \in Seq(ProperEvent)
        BY <4>1
      <4> QED BY <4>2
    <3> HIDE DEF first, states
    <3>4. first \o Completion(t) \in Seq(ProperEvent)
      BY <3>3, CompletionProper, ConcatProperties
    <3>5. NativeTyped' /\ native'.produced = native.produced
      BY <1>0, <3>1, <3>2 DEF NativeTyped
    <3> QED BY <1>0, <3>1, <3>4, <3>5, SendKeeps
  <2> QED BY <2>1, <2>2
<1>4. events' \in Seq(Event)
  BY <1>3, ProperEvents
<1>5. DiskCovered' /\ LaneHoldsStaged' /\ LaneTyped' /\ Good(disk') /\ Good(mem')
  BY <1>0, <1>1, LaneUntouched
<1>6. TypeOK'
  BY <1>0, <1>1, <1>3, <1>4, TypeParts DEF TypeOK, NativeTyped, Status
<1> QED BY <1>3, <1>5, <1>6 DEF DeliveryInv, EventsTyped

-----------------------------------------------------------------------------
(* DeliveryInv, taken apart by what an action has to show of it. *)

ReadyTyped ==
  ready \in [phase : {"idle", "resume", "recover", "drain"},
             routes : SUBSET Routes, found : SUBSET Turns,
             dropped : SUBSET Turns, turns : SUBSET Turns]
Surroundings ==
  /\ retry \in {"off", "on", "receipt"} /\ ReadyTyped
  /\ NativeTyped /\ EventsTyped
  /\ promised \in SUBSET Turns /\ dismissed \in SUBSET Turns
  /\ spent \in [Disturbances -> Nat]
Delivery ==
  /\ svc \in Service /\ lane \in Lane /\ accepted \in SUBSET Entry
  /\ Good(mem) /\ Good(disk)
  /\ DiskCovered /\ LaneHoldsStaged /\ LaneTyped

LEMMA DeliveryParts == DeliveryInv <=> Surroundings /\ Delivery
<1>1. DeliveryInv => Surroundings /\ Delivery
  BY TypeParts DEF DeliveryInv, Surroundings, ReadyTyped, Delivery
<1>2. EventsTyped => events \in Seq(Event)
  BY ProperEvents DEF EventsTyped
<1>3. Surroundings /\ Delivery => DeliveryInv
  BY <1>2, TypeParts DEF DeliveryInv, Surroundings, ReadyTyped, Delivery, Good
<1> QED BY <1>1, <1>3

LEMMA EventsShrink ==
  ASSUME EventsTyped, UNCHANGED native, events' = <<>> \/ UNCHANGED events \/ HeadIs("item_started")
           \/ HeadIs("item_completed") \/ HeadIs("turn_completed")
  PROVE  EventsTyped'
<1>1. events # <<>> => Tail(events) \in Seq(ProperEvent)
  BY HeadTailProperties DEF EventsTyped
<1>2. <<>> \in Seq(ProperEvent)
  OBVIOUS
<1> QED BY <1>1, <1>2 DEF EventsTyped, HeadIs

LEMMA FlushTyped ==
  ASSUME NEW s, Good(s), Flushed(s), promised \in SUBSET Turns
  PROVE  Good(disk') /\ disk'.outbox = s.outbox /\ disk'.watches = s.watches
         /\ promised' \in SUBSET Turns
BY DEF Flushed, Good, Store

LEMMA SurroundingsStay ==
  ASSUME Surroundings, UNCHANGED <<ready, native, events, dismissed>>,
         UNCHANGED retry \/ Schedule, promised' = promised \/ promised' \in SUBSET Turns,
         UNCHANGED spent \/ spent' \in [Disturbances -> Nat]
  PROVE  Surroundings'
BY DEF Surroundings, Schedule, ReadyTyped, NativeTyped, EventsTyped

(* What Returns and the like establish, when the disk follows the memory. *)
LEMMA AfterDelivery ==
  ASSUME Delivery, NEW s, s.outbox = mem.outbox, After(s), UNCHANGED accepted,
         disk' = disk \/ (Good(disk') /\ disk'.outbox = s.outbox)
  PROVE  Delivery'
<1>1. DiskCovered'
  BY DEF After, Delivery, DiskCovered
<1> QED BY <1>1 DEF After, Delivery

LEMMA ServiceOps ==
  ASSUME NEW b \in Service, NEW t \in Turns, NEW th
  PROVE  /\ NoteActive(b, t) \in Service /\ Close(b, t) \in Service
         /\ Forgotten(b, th) \in Service
         /\ NoteActive(b, t).active = {u \in b.active : ThreadOf[u] # ThreadOf[t]} \cup {t}
         /\ NoteActive(b, t).suppressed = b.suppressed \ {t}
         /\ NoteActive(b, t).known = b.known /\ NoteActive(b, t).completed = b.completed
         /\ NoteActive(b, t).visible = b.visible /\ NoteActive(b, t).recovered = b.recovered
         /\ Close(b, t).known = b.known /\ Close(b, t).completed = b.completed
         /\ Close(b, t).visible \subseteq b.visible /\ Close(b, t).recovered = b.recovered
         /\ Close(b, t).active \subseteq b.active
         /\ Close(b, t).suppressed = b.suppressed \ {t}
         /\ Forgotten(b, th).active = b.active \ TurnsOf(th)
         /\ Forgotten(b, th).suppressed = b.suppressed \ TurnsOf(th)
         /\ Forgotten(b, th).known = b.known /\ Forgotten(b, th).completed = b.completed
         /\ Forgotten(b, th).visible = b.visible /\ Forgotten(b, th).recovered = b.recovered
<1> DEFINE others == {u \in b.active : ThreadOf[u] # ThreadOf[t]}
           n == [b EXCEPT !.active = others \cup {t}, !.suppressed = b.suppressed \ {t}]
           c == [b EXCEPT !.active = b.active \ {t}, !.suppressed = b.suppressed \ {t},
                          !.visible = b.visible \ {t}]
           f == [b EXCEPT !.active = b.active \ TurnsOf(th),
                          !.suppressed = b.suppressed \ TurnsOf(th)]
<1>1. others \subseteq b.active
  OBVIOUS
<1>2. NoteActive(b, t) = n /\ Close(b, t) = c /\ Forgotten(b, th) = f
  BY DEF NoteActive, Close, Forgotten, Service
<1> HIDE DEF others
<1>3. /\ n \in Service /\ n.active = others \cup {t} /\ n.suppressed = b.suppressed \ {t}
      /\ n.known = b.known /\ n.completed = b.completed /\ n.visible = b.visible
      /\ n.recovered = b.recovered
  BY <1>1 DEF Service
<1>4. /\ c \in Service /\ c.active = b.active \ {t} /\ c.suppressed = b.suppressed \ {t}
      /\ c.known = b.known /\ c.completed = b.completed /\ c.visible = b.visible \ {t}
      /\ c.recovered = b.recovered
  BY DEF Service
<1>5. /\ f \in Service /\ f.active = b.active \ TurnsOf(th)
      /\ f.suppressed = b.suppressed \ TurnsOf(th)
      /\ f.known = b.known /\ f.completed = b.completed /\ f.visible = b.visible
      /\ f.recovered = b.recovered
  BY DEF Service
<1> HIDE DEF n, c, f
<1>6. Close(b, t).visible \subseteq b.visible /\ Close(b, t).active \subseteq b.active
  BY <1>2, <1>4
<1> QED BY <1>2, <1>3, <1>4, <1>5, <1>6 DEF others

(* Steps that leave the lane and what is staged alone. *)
LEMMA DeliveryUntouched ==
  ASSUME Delivery, UNCHANGED <<lane, accepted>>, svc' \in Service, Good(mem'),
         mem'.outbox = mem.outbox, disk' = disk \/ disk' = mem
  PROVE  Delivery'
<1>1. disk'.outbox = disk.outbox \/ disk'.outbox = mem.outbox
  OBVIOUS
<1>2. Good(disk')
  BY DEF Delivery
<1>3. DiskCovered' /\ LaneHoldsStaged' /\ LaneTyped'
  BY <1>1, LaneAsBefore, DiskStaysCovered DEF Delivery
<1> QED BY <1>2, <1>3 DEF Delivery

LEMMA UserDelivery ==
  ASSUME Delivery, Surroundings, NEW t, NEW r, NEW th,
         \/ t \in Turns /\ (StartTurn(t) \/ Started(t) \/ Stop(t))
         \/ r \in Routes /\ th \in Threads /\ Select(r, th)
         \/ r \in Routes /\ Detach(r)
  PROVE  Delivery'
<1>0. svc \in Service /\ Good(mem)
  BY DEF Delivery
<1>1. CASE t \in Turns /\ StartTurn(t)
  BY <1>0, <1>1, DeliveryUntouched DEF StartTurn
<1>2. CASE t \in Turns /\ Started(t)
  BY <1>0, <1>2, DeliveryUntouched, WatchKeeps, ServiceOps DEF Started
<1>3. CASE t \in Turns /\ Stop(t)
  <2>1. svc' \in Service
    BY <1>0, <1>3 DEF Stop, Service
  <2> QED BY <1>0, <1>3, <2>1, DeliveryUntouched, DiscardKeeps DEF Stop
<1>4. CASE r \in Routes /\ th \in Threads /\ Select(r, th)
  <2>1. Good(Bind(mem, r, th)) /\ Bind(mem, r, th).outbox = mem.outbox
    BY <1>0, <1>4, BindKeeps
  <2>2. CASE Running(th) = {}
    <3>1. svc' \in Service
      BY <1>0, <1>4, <2>2 DEF Select, Service
    <3> QED BY <1>0, <1>4, <2>1, <2>2, <3>1, DeliveryUntouched DEF Select
  <2>3. CASE Running(th) # {}
    <3>1. PICK u \in Running(th) : mem' = Watch(Bind(mem, r, th), u) /\ svc' = NoteActive(svc, u)
      BY <1>4, <2>3 DEF Select
    <3>2. u \in Turns
      BY DEF Running
    <3>3. Good(mem') /\ mem'.outbox = mem.outbox
      BY <2>1, <3>1, <3>2, WatchKeeps
    <3>4. svc' \in Service
      BY <1>0, <3>1, <3>2, ServiceOps
    <3> QED BY <1>4, <3>3, <3>4, DeliveryUntouched DEF Select
  <2> QED BY <2>2, <2>3
<1>5. CASE r \in Routes /\ Detach(r)
  <2>1. Good(mem') /\ mem'.outbox = mem.outbox
    BY <1>0, <1>5, UnbindKeeps DEF Detach
  <2>2. svc' \in Service
    BY <1>0, <1>5 DEF Detach, Forgotten, Service
  <2> QED BY <1>5, <2>1, <2>2, DeliveryUntouched DEF Detach
<1> QED BY <1>1, <1>2, <1>3, <1>4, <1>5

LEMMA TurnsOfAre == \A th : TurnsOf(th) \in SUBSET Turns
BY DEF TurnsOf

LEMMA UserSurroundings ==
  ASSUME Delivery, Surroundings, NEW t, NEW r, NEW th,
         \/ t \in Turns /\ (StartTurn(t) \/ Started(t) \/ Stop(t))
         \/ r \in Routes /\ th \in Threads /\ Select(r, th)
         \/ r \in Routes /\ Detach(r)
  PROVE  Surroundings'
<1> DEFINE Change(sub, status) ==
             native' = [native EXCEPT !.conn = native.conn, !.subscribed = sub, !.status = status]
<1>0. /\ NativeTyped /\ EventsTyped /\ retry' = retry /\ ready' = ready /\ promised' = promised
      /\ native.conn \in BOOLEAN /\ native.subscribed \in SUBSET Threads
      /\ native.status \in [Turns -> Status]
      /\ \A u \in Turns, x \in Status : [native.status EXCEPT ![u] = x] \in [Turns -> Status]
      /\ th \in Threads => native.subscribed \cup {th} \in SUBSET Threads
      /\ t \in Turns => native.subscribed \cup {ThreadOf[t]} \in SUBSET Threads
      /\ \A e \in Seq(ProperEvent) : Send(e, ThreadOf[t]) => events' \in Seq(ProperEvent)
  BY SendKeeps, StoreAssumption
     DEF Surroundings, StartTurn, Started, Stop, Select, Detach, NativeTyped, EventsTyped
<1>1. dismissed' \in SUBSET Turns
  BY TurnsOfAre DEF Surroundings, StartTurn, Started, Stop, Select, Detach
<1>2. spent' \in [Disturbances -> Nat]
  BY SpendTyped DEF Surroundings, StartTurn, Started, Stop, Select, Detach, Disturbances
<1>3. events' \in Seq(ProperEvent)
  <2>1. CASE UNCHANGED events
    BY <1>0, <2>1 DEF EventsTyped
  <2>2. CASE t \in Turns /\ Stop(t)
    BY <1>0, <2>2, CompletionProper DEF Stop, EventsTyped
  <2>3. CASE r \in Routes /\ th \in Threads /\ Select(r, th)
    BY <1>0, <2>3, ReplaysKeep DEF Select, EventsTyped
  <2> QED BY <2>1, <2>2, <2>3 DEF StartTurn, Started, Detach
<1>4. NativeTyped' /\ native'.produced = native.produced
  <2>1. CASE t \in Turns /\ StartTurn(t)
    <3>1. Change(native.subscribed \cup {ThreadOf[t]}, [native.status EXCEPT ![t] = "starting"])
      BY <1>0, <2>1 DEF StartTurn, NativeTyped
    <3>2. "starting" \in Status
      BY DEF Status
    <3> QED BY <1>0, <2>1, <3>1, <3>2 DEF NativeTyped
  <2>2. CASE t \in Turns /\ (Started(t) \/ Stop(t))
    <3>1. PICK x \in Status : native' = [native EXCEPT !.status = [native.status EXCEPT ![t] = x]]
      BY <1>0, <2>2 DEF Started, Stop, NativeTyped, Status
    <3>2. Change(native.subscribed, [native.status EXCEPT ![t] = x])
      BY <1>0, <3>1 DEF NativeTyped
    <3> QED BY <1>0, <3>2 DEF NativeTyped
  <2>3. CASE r \in Routes /\ th \in Threads /\ Select(r, th)
    <3>1. Change(native.subscribed \cup {th}, native.status)
      BY <1>0, <2>3 DEF Select, NativeTyped
    <3> QED BY <1>0, <2>3, <3>1 DEF NativeTyped
  <2>4. CASE r \in Routes /\ Detach(r)
    BY <1>0, <2>4 DEF Detach, NativeTyped
  <2> QED BY <2>1, <2>2, <2>3, <2>4
<1> QED BY <1>0, <1>1, <1>2, <1>3, <1>4 DEF Surroundings, EventsTyped, ReadyTyped

(* Live projection. *)
LEMMA LiveSurroundings ==
  ASSUME Surroundings, LiveItemStarted \/ LiveItemCompleted \/ LiveTurnCompleted
  PROVE  Surroundings'
<1>1. EventsTyped'
  BY EventsShrink DEF Surroundings, LiveItemStarted, LiveItemCompleted, LiveTurnCompleted
<1>2. UNCHANGED <<retry, ready, native, promised, dismissed, spent>>
  BY DEF LiveItemStarted, LiveItemCompleted, LiveTurnCompleted
<1> QED BY <1>1, <1>2 DEF Surroundings, ReadyTyped, NativeTyped

LEMMA HeadProper ==
  ASSUME EventsTyped, NEW kind, HeadIs(kind)
  PROVE  /\ Head(events) \in ProperEvent /\ Head(events).kind = kind
         /\ Head(events).id \in Ids
         /\ Head(events).kind = "item_completed" => Head(events).id \in Answers
         /\ Head(events).kind # "item_completed" => Head(events).id \in Turns
<1>1. Head(events) \in ProperEvent
  BY HeadTailProperties DEF EventsTyped, HeadIs
<1> QED BY <1>1 DEF HeadIs, ProperEvent, Ids

(* The live handler stages a message and takes the lane. *)
LEMMA LiveStages ==
  ASSUME Delivery, NEW id \in Ids, NEW route \in Routes, mem' = Stage(mem, id, route),
         svc' \in Service, UNCHANGED <<disk, accepted>>,
         lane' = [who |-> "live", step |-> "flush", id |-> id, route |-> None,
                  rest |-> {}, ok |-> TRUE]
  PROVE  Delivery'
<1>1. /\ Good(mem') /\ mem.outbox \subseteq mem'.outbox /\ id \in IdsIn(mem'.outbox)
  BY StageKeeps DEF Delivery
<1>2. lane' \in Lane /\ LaneTyped' /\ LaneHoldsStaged'
  BY <1>1, TakesLane
<1>3. After(mem)
  BY <1>1, <1>2 DEF After
<1> QED BY <1>3, AfterDelivery

LEMMA LiveDelivery ==
  ASSUME Delivery, Surroundings, LiveItemStarted \/ LiveItemCompleted \/ LiveTurnCompleted
  PROVE  Delivery'
<1> DEFINE id == Head(events).id
           t == TurnOf(id)
<1>0. /\ svc \in Service /\ Good(mem) /\ EventsTyped
      /\ UNCHANGED <<disk, accepted>>
  BY DEF Delivery, Surroundings, LiveItemStarted, LiveItemCompleted, LiveTurnCompleted
<1>1. CASE LiveItemStarted
  <2>1. id \in Turns
    BY <1>0, <1>1, HeadProper DEF LiveItemStarted
  <2> HIDE DEF id
  <2>2. NoteActive(svc, id) \in Service
    BY <1>0, <2>1, ServiceOps
  <2>3. [NoteActive(svc, id) EXCEPT !.visible = NoteActive(svc, id).visible \ {id}] \in Service
    BY <2>2 DEF Service
  <2>4. [NoteActive(svc, id) EXCEPT !.visible = @ \ {id}]
          = [NoteActive(svc, id) EXCEPT !.visible = NoteActive(svc, id).visible \ {id}]
    BY <2>2 DEF Service
  <2>5. (svc' = [NoteActive(svc, id) EXCEPT !.visible = @ \ {id}] /\ mem' = Watch(mem, id))
        \/ UNCHANGED <<svc, mem>>
    BY <1>1 DEF LiveItemStarted, id
  <2>6. svc' \in Service
    BY <1>0, <2>3, <2>4, <2>5
  <2>7. Good(mem') /\ mem'.outbox = mem.outbox
    BY <1>0, <2>1, <2>5, WatchKeeps
  <2>8. UNCHANGED lane
    BY <1>1 DEF LiveItemStarted
  <2> QED BY <1>0, <2>6, <2>7, <2>8, DeliveryUntouched
<1>2. CASE LiveItemCompleted
  <2>1. id \in Ids /\ t \in Turns
    BY <1>0, <1>2, HeadProper, TurnOfIds DEF LiveItemCompleted
  <2>2. svc' = [svc EXCEPT !.visible = svc.visible \cup {t}] \/ svc' = svc
    BY <1>0, <1>2 DEF LiveItemCompleted, Service
  <2>3. \/ UNCHANGED <<mem, lane>>
        \/ /\ Bound(mem, ThreadOf[t])
           /\ mem' = Stage(mem, id, RouteOf(mem, ThreadOf[t]))
           /\ lane' = [Free EXCEPT !.who = "live", !.step = "flush", !.id = id]
    BY <1>2 DEF LiveItemCompleted
  <2> HIDE DEF id, t
  <2>4. svc' \in Service
    BY <1>0, <2>1, <2>2 DEF Service
  <2>5. CASE UNCHANGED <<mem, lane>>
    BY <1>0, <2>4, <2>5, DeliveryUntouched
  <2>6. CASE /\ Bound(mem, ThreadOf[t])
             /\ mem' = Stage(mem, id, RouteOf(mem, ThreadOf[t]))
             /\ lane' = [Free EXCEPT !.who = "live", !.step = "flush", !.id = id]
    <3>1. lane' = [who |-> "live", step |-> "flush", id |-> id, route |-> None,
                   rest |-> {}, ok |-> TRUE]
      BY <2>6 DEF Free
    <3> QED BY <1>0, <2>1, <2>4, <2>6, <3>1, RouteBound, LiveStages
  <2> QED BY <2>3, <2>5, <2>6
<1>3. CASE LiveTurnCompleted
  <2>1. id \in Turns
    BY <1>0, <1>3, HeadProper DEF LiveTurnCompleted
  <2>2. \/ UNCHANGED <<mem, svc, lane>>
        \/ /\ Bound(mem, ThreadOf[id])
           /\ mem' = Stage(mem, id, RouteOf(mem, ThreadOf[id]))
           /\ svc' = Close(svc, id)
           /\ lane' = [Free EXCEPT !.who = "live", !.step = "flush", !.id = id]
        \/ CompletionHandled(mem, Close(svc, id), id, FALSE)
    BY <1>3 DEF LiveTurnCompleted, OwesFallback
  <2> HIDE DEF id
  <2>3. Close(svc, id) \in Service /\ id \in Ids
    BY <1>0, <2>1, ServiceOps DEF Ids
  <2>4. CASE UNCHANGED <<mem, svc, lane>>
    BY <1>0, <2>4, DeliveryUntouched
  <2>5. CASE /\ Bound(mem, ThreadOf[id])
             /\ mem' = Stage(mem, id, RouteOf(mem, ThreadOf[id]))
             /\ svc' = Close(svc, id)
             /\ lane' = [Free EXCEPT !.who = "live", !.step = "flush", !.id = id]
    <3>1. lane' = [who |-> "live", step |-> "flush", id |-> id, route |-> None,
                   rest |-> {}, ok |-> TRUE]
      BY <2>5 DEF Free
    <3> QED BY <1>0, <2>1, <2>3, <2>5, <3>1, RouteBound, LiveStages
  <2>6. CASE CompletionHandled(mem, Close(svc, id), id, FALSE)
    <3>1. After(mem)
      BY <1>0, <2>1, <2>3, <2>6, CompletionKeeps
    <3> QED BY <1>0, <3>1, AfterDelivery
  <2> QED BY <2>2, <2>4, <2>5, <2>6
<1> QED BY <1>1, <1>2, <1>3

(* The delivery of one message. *)
LEMMA DeliverSurroundings ==
  ASSUME Delivery, Surroundings,
         \/ StagedFlushed \/ StagedNotFlushed \/ StagedAccepted \/ StagedRefused
         \/ ReceiptFlushed \/ ReceiptNotFlushed
  PROVE  Surroundings'
<1>1. Good(mem) /\ promised \in SUBSET Turns /\ spent \in [Disturbances -> Nat]
  BY DEF Delivery, Surroundings
<1>2. UNCHANGED promised \/ Flushed(mem)
  BY DEF StagedFlushed, StagedNotFlushed, StagedAccepted, StagedRefused, ReceiptFlushed,
         ReceiptNotFlushed
<1>3. UNCHANGED promised \/ promised' \in SUBSET Turns
  BY <1>1, <1>2, FlushTyped
<1>4. UNCHANGED spent \/ spent' \in [Disturbances -> Nat]
  BY <1>1, SpendTyped DEF StagedFlushed, StagedNotFlushed, StagedAccepted, StagedRefused,
       ReceiptFlushed, ReceiptNotFlushed, SinkFails, Disturbances
<1>5. UNCHANGED <<ready, native, events, dismissed>> /\ (UNCHANGED retry \/ Schedule)
  BY DEF StagedFlushed, StagedNotFlushed, StagedAccepted, StagedRefused, ReceiptFlushed,
         ReceiptNotFlushed
<1> QED BY <1>3, <1>4, <1>5, SurroundingsStay

LEMMA HeadOfRoute ==
  ASSUME Delivery, lane.who \in {"live", "recover"}, lane.step \in {"flush", "emit"}
  PROVE  /\ lane.id \in Ids /\ lane.id \in IdsIn(mem.outbox)
         /\ EntryOf(mem, lane.id) \in mem.outbox /\ EntryOf(mem, lane.id).id = lane.id
         /\ lane.step = "emit" =>
              /\ EntryOf(mem, lane.id) \in disk.outbox
              /\ \A d \in mem.outbox : ~Earlier(d, EntryOf(mem, lane.id))
         /\ IsRouteHead(mem, lane.id) =>
              \A d \in mem.outbox : ~Earlier(d, EntryOf(mem, lane.id))
<1>1. PICK e \in mem.outbox :
         /\ e.id = lane.id
         /\ lane.step = "emit" => /\ e \in disk.outbox
                                 /\ \A d \in mem.outbox : ~Earlier(d, e)
  BY DEF Delivery, LaneHoldsStaged
<1>2. lane.id \in Ids /\ lane.id \in IdsIn(mem.outbox) /\ Good(mem)
  BY <1>1 DEF IdsIn, Delivery, LaneTyped
<1>3. e = EntryOf(mem, lane.id)
  BY <1>1, <1>2, EntryFound
<1> QED BY <1>1, <1>2, <1>3 DEF IsRouteHead

LEMMA DeliverDelivery ==
  ASSUME Delivery, Surroundings,
         \/ StagedFlushed \/ StagedNotFlushed \/ StagedAccepted \/ StagedRefused
         \/ ReceiptFlushed \/ ReceiptNotFlushed
  PROVE  Delivery'
<1>0. /\ svc \in Service /\ lane \in Lane /\ Good(mem) /\ Good(disk) /\ LaneTyped
      /\ promised \in SUBSET Turns /\ lane.who \in {"live", "recover"}
      /\ lane.rest \in SUBSET Entry
  BY DEF Delivery, Surroundings, StagedFlushed, StagedNotFlushed, StagedAccepted,
         StagedRefused, ReceiptFlushed, ReceiptNotFlushed, Delivering, Lane
<1>1. ASSUME NEW delivered \in BOOLEAN, NEW durable \in BOOLEAN,
             Returns(mem, delivered, durable), UNCHANGED disk \/ Flushed(mem),
             UNCHANGED accepted
      PROVE  Delivery'
  <2>1. After(mem)
    BY <1>0, <1>1, ReturnsKeep
  <2>2. disk' = disk \/ (Good(disk') /\ disk'.outbox = mem.outbox)
    BY <1>0, <1>1, FlushTyped
  <2> QED BY <1>0, <1>1, <2>1, <2>2, AfterDelivery
<1>2. CASE StagedFlushed
  <2>1. CASE IsRouteHead(mem, lane.id)
    <3>1. lane' = [lane EXCEPT !.step = "emit", !.rest = lane.rest]
      BY <1>0, <1>2, <2>1 DEF StagedFlushed, Lane
    <3>2. /\ lane' \in Lane /\ lane'.who = lane.who /\ lane'.id = lane.id
          /\ lane'.route = lane.route /\ lane'.step = "emit"
      BY <1>0, <3>1 DEF Lane
    <3>3. /\ disk' = mem /\ mem' = mem /\ svc' = svc /\ accepted' = accepted
          /\ lane.step = "flush"
      BY <1>2, <2>1 DEF StagedFlushed, Flushed, Delivering
    <3>4. LaneTyped'
      BY <1>0, <3>2 DEF LaneTyped
    <3>5. LaneHoldsStaged'
      BY <1>0, <2>1, <3>2, <3>3, HeadOfRoute DEF LaneHoldsStaged
    <3>6. DiskCovered'
      BY <3>3 DEF DiskCovered
    <3> QED BY <1>0, <3>2, <3>3, <3>4, <3>5, <3>6 DEF Delivery
  <2>2. CASE ~IsRouteHead(mem, lane.id)
    BY <1>1, <1>2, <2>2 DEF StagedFlushed
  <2> QED BY <2>1, <2>2
<1>3. CASE StagedNotFlushed
  <2>1. PICK durable \in BOOLEAN : /\ UNCHANGED disk \/ Flushed(mem)
                                   /\ Returns(mem, FALSE, durable)
    BY <1>3 DEF StagedNotFlushed
  <2> QED BY <1>1, <1>3, <2>1 DEF StagedNotFlushed
<1>4. CASE StagedAccepted
  <2> DEFINE e == EntryOf(mem, lane.id)
  <2>1. /\ lane.id \in Ids /\ e \in mem.outbox /\ e.id = lane.id
        /\ accepted' = accepted \cup {e} /\ mem' = Complete(mem, lane.id)
        /\ lane' = [lane EXCEPT !.step = "receipt", !.rest = lane.rest]
        /\ UNCHANGED <<disk, svc>>
    BY <1>0, <1>4, HeadOfRoute DEF StagedAccepted, SinkTakes, Delivering, Lane
  <2>8. e \in Entry /\ \A d \in mem.outbox : d.id = lane.id => d = e
    BY <1>0, <2>1 DEF Good, Store, Ordered
  <2> HIDE DEF e
  <2>2. /\ lane' \in Lane /\ lane'.who = lane.who /\ lane'.id = lane.id
        /\ lane'.route = lane.route /\ lane'.step = "receipt"
    BY <1>0, <2>1 DEF Lane
  <2>3. Good(mem') /\ mem'.outbox = {d \in mem.outbox : d.id # lane.id}
    BY <1>0, <2>1, CompleteKeeps
  <2>4. DiskCovered'
    BY <2>1, <2>3, <2>8 DEF DiskCovered, Delivery
  <2>5. LaneTyped' /\ LaneHoldsStaged'
    BY <1>0, <2>2 DEF LaneTyped, LaneHoldsStaged
  <2>6. accepted' \in SUBSET Entry
    BY <2>1, <2>8 DEF Delivery
  <2> QED BY <1>0, <2>1, <2>2, <2>3, <2>4, <2>5, <2>6 DEF Delivery
<1>5. CASE StagedRefused
  BY <1>1, <1>5 DEF StagedRefused
<1>6. CASE ReceiptFlushed
  BY <1>1, <1>6 DEF ReceiptFlushed
<1>7. CASE ReceiptNotFlushed
  <2> DEFINE b == [svc EXCEPT !.ackPending = TRUE, !.known = svc.known \cup {lane.id}]
             t == TurnOf(lane.id)
  <2>1. lane.id \in Ids /\ t \in Turns /\ (lane.who = "recover" => lane.route \in Routes)
        /\ lane.ok \in BOOLEAN
    BY <1>0, TurnOfIds DEF LaneTyped, Lane
  <2>2. b \in Service
    BY <1>0, <2>1 DEF Service
  <2>3. \/ lane.who = "recover" /\ RecoverOn(mem, b, t, lane.route, lane.ok)
        \/ CompletionHandled(mem, b, t, TRUE)
        \/ mem' = mem /\ svc' = b /\ lane' = Free
    BY <1>0, <1>7 DEF ReceiptNotFlushed, Service
  <2> HIDE DEF b, t
  <2>4. After(mem)
    <3>1. CASE lane.who = "recover" /\ RecoverOn(mem, b, t, lane.route, lane.ok)
      BY <1>0, <2>1, <2>2, <3>1, RecoverOnKeeps
    <3>2. CASE CompletionHandled(mem, b, t, TRUE)
      BY <1>0, <2>1, <2>2, <3>2, CompletionKeeps
    <3>3. CASE mem' = mem /\ svc' = b /\ lane' = Free
      BY <1>0, <2>2, <3>3, FreeLane DEF After
    <3> QED BY <2>3, <3>1, <3>2, <3>3
  <2> QED BY <1>7, <2>4, AfterDelivery DEF ReceiptNotFlushed
<1> QED BY <1>2, <1>3, <1>4, <1>5, <1>6, <1>7

(* Drains, the retry task, the background writer. *)
LEMMA ReadyValues ==
  /\ Idle \in [phase : {"idle", "resume", "recover", "drain"},
               routes : SUBSET Routes, found : SUBSET Turns,
               dropped : SUBSET Turns, turns : SUBSET Turns]
  /\ Idle.phase = "idle" /\ Idle.routes = {} /\ Idle.found = {} /\ Idle.dropped = {}
  /\ Idle.turns = {}
BY DEF Idle

LEMMA DrainSurroundings ==
  ASSUME Delivery, Surroundings,
         \/ DrainFlushed \/ DrainNotFlushed \/ DrainAccepted \/ DrainRefused
         \/ DrainReceipts \/ DrainReceiptsNotFlushed \/ RetryPass \/ RetryReceipts
         \/ Persist
  PROVE  Surroundings'
<1>1. Good(mem) /\ promised \in SUBSET Turns /\ spent \in [Disturbances -> Nat]
      /\ retry \in {"off", "on", "receipt"} /\ ReadyTyped
  BY DEF Delivery, Surroundings
<1>2. UNCHANGED promised \/ Flushed(mem)
  BY DEF DrainFlushed, DrainNotFlushed, DrainAccepted, DrainRefused, DrainReceipts,
         DrainReceiptsNotFlushed, RetryPass, RetryReceipts, Persist
<1>3. promised' \in SUBSET Turns
  BY <1>1, <1>2, FlushTyped
<1>4. spent' \in [Disturbances -> Nat]
  <2>1. UNCHANGED spent \/ Spend("disk") \/ Spend("sink")
    BY DEF DrainFlushed, DrainNotFlushed, DrainAccepted, DrainRefused, DrainReceipts,
           DrainReceiptsNotFlushed, RetryPass, RetryReceipts, Persist, SinkFails
  <2> QED BY <1>1, <2>1, SpendTyped DEF Disturbances
<1>5. UNCHANGED <<native, events, dismissed>>
  BY DEF DrainFlushed, DrainNotFlushed, DrainAccepted, DrainRefused, DrainReceipts,
         DrainReceiptsNotFlushed, RetryPass, RetryReceipts, Persist
<1>6. ready' = ready \/ ready' = Idle
  BY DEF DrainFlushed, DrainNotFlushed, DrainAccepted, DrainRefused, DrainReceipts,
         DrainReceiptsNotFlushed, RetryPass, RetryReceipts, Persist, DrainEnds
<1>7. retry' \in {"off", "on", "receipt"}
  BY <1>1 DEF DrainFlushed, DrainNotFlushed, DrainAccepted, DrainRefused, DrainReceipts,
         DrainReceiptsNotFlushed, RetryPass, RetryReceipts, Persist, DrainEnds, Schedule
<1>8. ReadyTyped'
  BY <1>1, <1>6, ReadyValues DEF ReadyTyped
<1> QED BY <1>3, <1>4, <1>5, <1>7, <1>8 DEF Surroundings, NativeTyped, EventsTyped

(* A drain goes on to its next message or to the receipts. *)
LEMMA DrainGoesOn ==
  ASSUME Delivery, Draining("emit"), NEW rest \in SUBSET lane.rest, DrainStep(rest),
         UNCHANGED disk, Good(mem'), mem'.outbox \subseteq mem.outbox, rest \subseteq mem'.outbox,
         \A e \in rest, d \in lane.rest : d \in mem'.outbox /\ Earlier(d, e) => d \in rest,
         mem.outbox \ mem'.outbox \subseteq accepted', accepted \subseteq accepted',
         accepted' \in SUBSET Entry, svc' \in Service
  PROVE  Delivery'
<1>0. /\ lane \in Lane /\ LaneTyped /\ lane.step = "emit" /\ lane.who \in {"ready", "retry"}
      /\ rest \in SUBSET Entry
  BY DEF Delivery, Draining, Lane
<1>1. /\ lane' \in Lane /\ lane'.who = lane.who /\ lane'.rest = rest
      /\ lane'.step = IF rest = {} THEN "receipt" ELSE "emit"
  <2>1. PICK step \in {"receipt", "emit"} : step = IF rest = {} THEN "receipt" ELSE "emit"
    OBVIOUS
  <2>2. lane' = [lane EXCEPT !.rest = rest, !.step = step]
    BY <2>1 DEF DrainStep
  <2>3. lane \in Lane /\ rest \in SUBSET Entry
    BY <1>0
  <2>4. /\ lane' \in Lane /\ lane'.who = lane.who /\ lane'.rest = rest
        /\ lane'.step = step
    BY ONLY <2>2, <2>3, step \in {"receipt", "emit"} DEF Lane
  <2> QED BY <2>1, <2>4
<1>2. LaneTyped'
  BY <1>0, <1>1 DEF LaneTyped
<1>3. lane.rest \subseteq mem.outbox \cap disk.outbox
      /\ \A e \in lane.rest, d \in mem.outbox : Earlier(d, e) => d \in lane.rest
  BY <1>0 DEF Delivery, LaneHoldsStaged
<1>4. LaneHoldsStaged'
  BY <1>0, <1>1, <1>3 DEF LaneHoldsStaged
<1>5. DiskCovered'
  BY DEF Delivery, DiskCovered
<1> QED BY <1>1, <1>2, <1>4, <1>5 DEF Delivery

LEMMA LaneFreed ==
  ASSUME Delivery, lane' = Free, UNCHANGED <<mem, accepted>>, svc' \in Service,
         disk' = disk \/ disk' = mem
  PROVE  Delivery'
<1>1. DiskCovered' /\ Good(disk')
  BY DEF Delivery, DiskCovered
<1> QED BY <1>1, FreeLane DEF Delivery

LEMMA DrainDelivery ==
  ASSUME Delivery, Surroundings,
         \/ DrainFlushed \/ DrainNotFlushed \/ DrainAccepted \/ DrainRefused
         \/ DrainReceipts \/ DrainReceiptsNotFlushed \/ RetryPass \/ RetryReceipts
         \/ Persist
  PROVE  Delivery'
<1>0. svc \in Service /\ lane \in Lane /\ LaneTyped /\ Good(mem) /\ Good(disk)
      /\ accepted \in SUBSET Entry /\ mem.outbox \subseteq Entry
      /\ [svc EXCEPT !.ackPending = TRUE] \in Service
      /\ [svc EXCEPT !.ackPending = FALSE] \in Service
  BY DEF Delivery, Good, Store, Service
<1>1. CASE DrainFlushed
  <2>1. CASE mem.outbox = {}
    BY <1>0, <1>1, <2>1, LaneFreed DEF DrainFlushed, DrainEnds, Flushed
  <2>2. CASE mem.outbox # {}
    <3>1. lane' = [lane EXCEPT !.step = "emit", !.rest = mem.outbox]
          /\ disk' = mem /\ UNCHANGED <<mem, svc, accepted>> /\ lane.who \in {"ready", "retry"}
      BY <1>1, <2>2 DEF DrainFlushed, Flushed, Draining
    <3>2. lane' \in Lane /\ lane'.who = lane.who /\ lane'.step = "emit"
          /\ lane'.rest = mem.outbox
      BY <1>0, <3>1 DEF Lane
    <3>3. LaneTyped' /\ LaneHoldsStaged'
      BY <2>2, <3>1, <3>2 DEF LaneTyped, LaneHoldsStaged
    <3>4. DiskCovered'
      BY <3>1 DEF DiskCovered
    <3> QED BY <1>0, <3>1, <3>2, <3>3, <3>4 DEF Delivery
  <2> QED BY <2>1, <2>2
<1>2. CASE DrainNotFlushed
  BY <1>0, <1>2, LaneFreed DEF DrainNotFlushed, DrainEnds
<1>3. CASE DrainAccepted
  <2>1. PICK e \in lane.rest :
          /\ NextInDrain(e) /\ SinkTakes(e)
          /\ mem' = Released(Complete(mem, e.id), svc, TurnOf(e.id))
          /\ svc' = [svc EXCEPT !.known = @ \cup {e.id}]
          /\ DrainStep(lane.rest \ {e})
    BY <1>3 DEF DrainAccepted
  <2>2. e \in mem.outbox /\ e \in Entry /\ e.id \in Ids /\ accepted' = accepted \cup {e}
        /\ \A d \in mem.outbox : d.id = e.id => d = e
    BY <1>0, <1>3, <2>1
       DEF DrainAccepted, Draining, Delivery, LaneHoldsStaged, SinkTakes, Entry, Good, Ordered
  <2>3. Good(Complete(mem, e.id))
        /\ Complete(mem, e.id).outbox = {d \in mem.outbox : d.id # e.id}
    BY <1>0, <2>2, CompleteKeeps
  <2>4. Good(mem') /\ mem'.outbox = {d \in mem.outbox : d.id # e.id}
    BY <2>1, <2>3, ReleasedKeeps
  <2>5. svc' \in Service
    BY <1>0, <2>1, <2>2 DEF Service
  <2>6. lane.rest \subseteq mem.outbox
    BY <1>3 DEF DrainAccepted, Draining, Delivery, LaneHoldsStaged
  <2>7. mem.outbox \ mem'.outbox \subseteq accepted' /\ lane.rest \ {e} \subseteq mem'.outbox
        /\ mem'.outbox \subseteq mem.outbox /\ e \notin mem'.outbox
    BY <2>2, <2>4, <2>6
  <2>8. Draining("emit") /\ UNCHANGED disk
    BY <1>3 DEF DrainAccepted
  <2>9. accepted \subseteq accepted' /\ accepted' \in SUBSET Entry
    BY <1>0, <2>2
  <2>10. \A x \in lane.rest \ {e}, d \in lane.rest :
           d \in mem'.outbox /\ Earlier(d, x) => d \in lane.rest \ {e}
    BY <2>7
  <2> QED BY <2>1, <2>4, <2>5, <2>7, <2>8, <2>9, <2>10, DrainGoesOn
<1>4. CASE DrainRefused
  <2>1. PICK e \in lane.rest : DrainStep({d \in lane.rest : d.route # e.route})
    BY <1>4 DEF DrainRefused
  <2> DEFINE rest == {d \in lane.rest : d.route # e.route}
  <2>2. Draining("emit") /\ UNCHANGED <<mem, disk, svc, accepted>>
    BY <1>4 DEF DrainRefused
  <2>3. rest \in SUBSET lane.rest /\ lane.rest \subseteq mem.outbox
    BY <2>2 DEF Draining, Delivery, LaneHoldsStaged
  <2>4. \A x \in rest, d \in lane.rest : d \in mem'.outbox /\ Earlier(d, x) => d \in rest
    BY DEF Earlier
  <2> HIDE DEF rest
  <2>5. Good(mem') /\ mem'.outbox \subseteq mem.outbox /\ rest \subseteq mem'.outbox
        /\ mem.outbox \ mem'.outbox \subseteq accepted' /\ accepted \subseteq accepted'
        /\ accepted' \in SUBSET Entry /\ svc' \in Service
    BY <1>0, <2>2, <2>3
  <2>6. DrainStep(rest)
    BY <2>1 DEF rest
  <2> QED BY <2>2, <2>3, <2>4, <2>5, <2>6, DrainGoesOn
<1>5. CASE DrainReceipts
  BY <1>0, <1>5, LaneFreed DEF DrainReceipts, DrainEnds, Flushed
<1>6. CASE DrainReceiptsNotFlushed
  BY <1>0, <1>6, LaneFreed DEF DrainReceiptsNotFlushed
<1>7. CASE RetryPass
  <2>1. CASE UNCHANGED lane
    BY <1>0, <1>7, <2>1, DeliveryUntouched DEF RetryPass
  <2>2. CASE lane' # lane
    <3>1. lane' = [who |-> "retry", step |-> "flush", id |-> None, route |-> None,
                   rest |-> {}, ok |-> TRUE]
      BY <1>7, <2>2 DEF RetryPass, Free
    <3>2. lane' \in Lane /\ LaneTyped' /\ LaneHoldsStaged'
      BY <3>1 DEF Lane, LaneTyped, LaneHoldsStaged
    <3>3. After(mem)
      BY <1>0, <1>7, <3>2 DEF RetryPass, After
    <3> QED BY <1>7, <3>3, AfterDelivery DEF RetryPass
  <2> QED BY <2>1, <2>2
<1>8. CASE RetryReceipts
  BY <1>0, <1>8, DeliveryUntouched DEF RetryReceipts, Flushed
<1>9. CASE Persist
  BY <1>0, <1>9, DeliveryUntouched DEF Persist, Flushed
<1> QED BY <1>1, <1>2, <1>3, <1>4, <1>5, <1>6, <1>7, <1>8, <1>9

(* The connection, rehydration, recovery and restarts. *)
LEMMA StatusAfterLoss ==
  ASSUME NativeTyped,
         native' = [native EXCEPT !.conn = FALSE, !.subscribed = {},
           !.status = [t \in Turns |-> IF @[t] = "starting" THEN "running" ELSE @[t]]]
  PROVE  /\ NativeTyped' /\ native'.produced = native.produced
         /\ native'.conn = FALSE /\ native'.subscribed = {}
         /\ \A t \in Turns : native'.status[t] =
              IF native.status[t] = "starting" THEN "running" ELSE native.status[t]
<1> DEFINE status == [t \in Turns |->
              IF native.status[t] = "starting" THEN "running" ELSE native.status[t]]
<1>1. status \in [Turns -> Status]
  BY DEF NativeTyped, Status
<1>2. \A t \in Turns : status[t] =
        IF native.status[t] = "starting" THEN "running" ELSE native.status[t]
  OBVIOUS
<1>3. native' = [native EXCEPT !.conn = FALSE, !.subscribed = {}, !.status = status]
  BY DEF NativeTyped
<1> HIDE DEF status
<1>4. /\ NativeTyped' /\ native'.produced = native.produced
      /\ native'.conn = FALSE /\ native'.subscribed = {} /\ native'.status = status
  BY <1>1, <1>3 DEF NativeTyped
<1> QED BY <1>2, <1>4

LEMMA ConnectionSurroundings ==
  ASSUME Surroundings, Connect \/ LoseConnection
  PROVE  Surroundings'
<1>0. NativeTyped /\ EventsTyped /\ ReadyTyped /\ <<>> \in Seq(ProperEvent)
  BY DEF Surroundings
<1>1. CASE Connect
  <2>1. native' = [native EXCEPT !.conn = TRUE]
        /\ ready' = [Idle EXCEPT !.phase = "resume", !.routes = Routes]
        /\ UNCHANGED <<retry, events, promised, dismissed, spent>>
    BY <1>1 DEF Connect
  <2>2. NativeTyped' /\ native'.produced = native.produced
    BY <1>0, <2>1 DEF NativeTyped
  <2>3. ReadyTyped'
    BY <2>1 DEF ReadyTyped, Idle
  <2> QED BY <1>0, <2>1, <2>2, <2>3 DEF Surroundings, EventsTyped
<1>2. CASE LoseConnection
  <2>1. NativeTyped' /\ native'.produced = native.produced
    BY <1>0, <1>2, StatusAfterLoss DEF LoseConnection
  <2>2. events' = <<>> /\ UNCHANGED <<retry, ready, promised, dismissed>> /\ Spend("reset")
    BY <1>2 DEF LoseConnection
  <2>3. spent' \in [Disturbances -> Nat]
    BY <2>2, SpendTyped DEF Surroundings, Disturbances
  <2> QED BY <1>0, <2>1, <2>2, <2>3 DEF Surroundings, EventsTyped, ReadyTyped
<1> QED BY <1>1, <1>2

LEMMA ReplayedTyped ==
  ASSUME Surroundings, Good(mem), NEW r \in Routes, ReplayThread(r)
  PROVE  events' \in Seq(ProperEvent)
<1>0. NativeTyped /\ EventsTyped /\ <<>> \in Seq(ProperEvent) /\ events \in Seq(ProperEvent)
  BY DEF Surroundings, EventsTyped
<1>1. CASE UNCHANGED events
  BY <1>0, <1>1
<1>2. CASE ~UNCHANGED events
  <2>1. PICK t \in Turns :
          events' = events \o (Items(t, native.produced[t]) \o
                      (IF native.status[t] = "done" THEN Completion(t) ELSE <<>>))
    BY <1>2 DEF ReplayThread
  <2>2. Items(t, native.produced[t]) \in Seq(ProperEvent)
    BY <1>0, ItemsProper DEF EventsTyped, NativeTyped
  <2> DEFINE end == IF native.status[t] = "done" THEN Completion(t) ELSE <<>>
             past == Items(t, native.produced[t]) \o end
  <2>3. end \in Seq(ProperEvent)
    BY <1>0, CompletionProper
  <2> HIDE DEF end
  <2>4. past \in Seq(ProperEvent)
    BY <2>2, <2>3, ConcatProperties
  <2>5. events' = events \o past
    BY <2>1 DEF end
  <2> HIDE DEF past
  <2> QED BY <1>0, <2>4, <2>5, ConcatProperties
<1> QED BY <1>1, <1>2

LEMMA BoundThread ==
  ASSUME NEW s, Good(s), NEW r \in Routes, s.binding[r] # None
  PROVE  s.binding[r] \in Threads
BY DEF Good, Store

LEMMA RehydrateSurroundings ==
  ASSUME Delivery, Surroundings, NEW r \in Routes,
         SkipUnbound(r) \/ ReplayThread(r) \/ ResumeReturns(r) \/ ResumeFails(r)
  PROVE  Surroundings'
<1> DEFINE th == mem.binding[r]
<1>0. /\ NativeTyped /\ EventsTyped /\ ReadyTyped /\ events \in Seq(ProperEvent)
      /\ Good(mem) /\ svc \in Service /\ spent \in [Disturbances -> Nat]
      /\ dismissed \in SUBSET Turns /\ promised' = promised /\ retry' = retry
      /\ TurnsOf(th) \subseteq Turns
  BY TurnsOfAre DEF Delivery, Surroundings, EventsTyped, SkipUnbound, ReplayThread,
                    ResumeReturns, ResumeFails
<1>1. events' \in Seq(ProperEvent)
  <2>1. CASE UNCHANGED events
    BY <1>0, <2>1
  <2>2. CASE ReplayThread(r)
    BY <1>0, <2>2, ReplayedTyped
  <2>3. CASE ResumeReturns(r)
    BY <1>0, <2>3, ReplaysKeep DEF ResumeReturns, EventsTyped
  <2> QED BY <2>1, <2>2, <2>3 DEF SkipUnbound, ResumeFails
<1>2. NativeTyped' /\ native'.produced = native.produced
  <2>1. CASE UNCHANGED native
    BY <1>0, <2>1 DEF NativeTyped
  <2>2. CASE ReplayThread(r) \/ ResumeReturns(r)
    <3>1. th # None /\ native' = [native EXCEPT !.subscribed = @ \cup {th}]
      BY <2>2, Zenon DEF ReplayThread, ResumeReturns
    <3>2. th \in Threads
      BY <1>0, <3>1, BoundThread
    <3>3. PICK sub \in SUBSET Threads : sub = native.subscribed \cup {th}
      BY <1>0, <3>2 DEF NativeTyped
    <3>4. native' = [native EXCEPT !.subscribed = sub]
      BY <1>0, <3>1, <3>3 DEF NativeTyped
    <3> QED BY <1>0, <3>4 DEF NativeTyped
  <2> QED BY <2>1, <2>2 DEF SkipUnbound, ResumeFails
<1>3. ReadyTyped'
  <2>1. CASE ReplayThread(r)
    BY <1>0, <2>1 DEF ReplayThread, ReadyTyped
  <2>2. CASE SkipUnbound(r)
    <3>1. ready' = [ready EXCEPT !.routes = ready.routes \ {r}]
      BY <1>0, <2>2 DEF SkipUnbound, ReadyTyped
    <3> QED BY <1>0, <3>1 DEF ReadyTyped
  <2>3. CASE ResumeFails(r)
    <3> DEFINE dropped == ready.dropped \cup (svc.active \cap TurnsOf(th))
    <3>1. ready' = [ready EXCEPT !.routes = ready.routes \ {r}, !.dropped = dropped]
      BY <1>0, <2>3 DEF ResumeFails, ReadyTyped
    <3>2. dropped \in SUBSET Turns
      BY <1>0 DEF ReadyTyped
    <3> HIDE DEF dropped
    <3> QED BY <1>0, <3>1, <3>2 DEF ReadyTyped
  <2>4. CASE ResumeReturns(r)
    <3> DEFINE running == Running(th)
               s == IF running = {} THEN mem ELSE Watch(mem, CHOOSE t \in running : TRUE)
               ended == (s.watches \cap TurnsOf(th)) \ running
               displaced == IF running = {} THEN {}
                            ELSE (svc.active \cap TurnsOf(th)) \ running
    <3>1. ready' = [ready EXCEPT !.routes = @ \ {r}, !.found = @ \cup ended,
                                 !.dropped = @ \cup displaced]
      BY <2>4, Zenon DEF ResumeReturns
    <3>2. ended \in SUBSET Turns /\ displaced \in SUBSET Turns
      BY <1>0
    <3> HIDE DEF ended, displaced
    <3>3. ready' = [ready EXCEPT !.routes = ready.routes \ {r}, !.found = ready.found \cup ended,
                                 !.dropped = ready.dropped \cup displaced]
      BY <1>0, <3>1 DEF ReadyTyped
    <3> QED BY <1>0, <3>2, <3>3 DEF ReadyTyped
  <2> QED BY <2>1, <2>2, <2>3, <2>4
<1>4. dismissed' \in SUBSET Turns
  BY <1>0 DEF SkipUnbound, ReplayThread, ResumeReturns, ResumeFails
<1>5. spent' \in [Disturbances -> Nat]
  <2>1. UNCHANGED spent \/ Spend("resume")
    BY DEF SkipUnbound, ReplayThread, ResumeReturns, ResumeFails
  <2> QED BY <1>0, <2>1, SpendTyped DEF Disturbances
<1> HIDE DEF th
<1> QED BY <1>0, <1>1, <1>2, <1>3, <1>4, <1>5 DEF Surroundings, EventsTyped

(* A resume that returns: what becomes of the store and the service. *)
LEMMA ResumeReturnsTo ==
  ASSUME Delivery, ReadyTyped, NEW r \in Routes, ResumeReturns(r)
  PROVE  LET th == mem.binding[r] IN
         /\ Good(mem') /\ mem'.outbox = mem.outbox /\ mem'.binding = mem.binding
         /\ mem'.acks = mem.acks /\ mem.watches \subseteq mem'.watches
         /\ mem'.watches \subseteq mem.watches \cup Running(th)
         /\ Running(th) # {} => \E t \in Running(th) : t \in mem'.watches /\ t \in svc'.active
         /\ svc' \in Service /\ svc'.known = svc.known /\ svc'.completed = svc.completed
         /\ svc'.visible = svc.visible /\ svc'.recovered = svc.recovered
         /\ svc'.active \subseteq svc.active \cup Running(th)
         /\ \A t \in svc'.suppressed :
              \/ t \in svc.suppressed
              \/ t \in TurnsOf(th) \ Running(th) /\ (t \in mem'.watches \/ t \in svc.active)
         /\ \A t \in ready'.found : t \in ready.found
              \/ t \in (mem'.watches \cap TurnsOf(th)) \ Running(th)
<1> DEFINE th == mem.binding[r]
           running == Running(th)
           t == CHOOSE t \in running : TRUE
           cleared == [svc EXCEPT !.active = svc.active \ TurnsOf(th)]
           s == IF running = {} THEN mem ELSE Watch(mem, t)
           b == IF running = {} THEN cleared ELSE NoteActive(cleared, t)
           ended == (s.watches \cap TurnsOf(th)) \ running
           displaced == IF running = {} THEN {} ELSE (svc.active \cap TurnsOf(th)) \ running
<1>0. svc \in Service /\ Good(mem) /\ running \subseteq Turns /\ TurnsOf(th) \subseteq Turns
      /\ (running # {} => t \in running) /\ running \subseteq TurnsOf(th)
  BY DEF Delivery, Running, TurnsOf
<1>1. mem' = s
  BY Zenon DEF ResumeReturns
<1>2. svc' = [b EXCEPT !.suppressed = b.suppressed \cup ended \cup displaced]
  <2>1. svc' = [(IF running = {} THEN [svc EXCEPT !.active = @ \ TurnsOf(th)]
                 ELSE NoteActive([svc EXCEPT !.active = @ \ TurnsOf(th)], t))
                 EXCEPT !.suppressed = @ \cup ended \cup displaced]
    BY Zenon DEF ResumeReturns
  <2>2. [svc EXCEPT !.active = @ \ TurnsOf(th)] = cleared
    BY <1>0 DEF Service
  <2>3. svc' = [b EXCEPT !.suppressed = @ \cup ended \cup displaced]
    BY <2>1, <2>2
  <2>4. b \in Service
    <3>1. cleared \in Service
      BY <1>0 DEF Service
    <3> HIDE DEF cleared
    <3> QED BY <1>0, <3>1, ServiceOps
  <2> HIDE DEF b, ended, displaced
  <2> QED BY <2>3, <2>4 DEF Service
<1>3. ready' = [ready EXCEPT !.routes = @ \ {r}, !.found = @ \cup ended,
                             !.dropped = @ \cup displaced]
  BY Zenon DEF ResumeReturns
<1>4. /\ cleared \in Service /\ cleared.active = svc.active \ TurnsOf(th)
      /\ cleared.known = svc.known /\ cleared.completed = svc.completed
      /\ cleared.visible = svc.visible /\ cleared.recovered = svc.recovered
      /\ cleared.suppressed = svc.suppressed
  BY <1>0 DEF Service
<1>5. /\ b \in Service /\ b.known = svc.known /\ b.completed = svc.completed
      /\ b.visible = svc.visible /\ b.recovered = svc.recovered
      /\ b.active \subseteq svc.active \cup running
      /\ running # {} => t \in b.active
      /\ b.suppressed \subseteq svc.suppressed
  <2>1. CASE running = {}
    BY <1>4, <2>1
  <2>2. CASE running # {}
    <3>1. t \in Turns
      BY <1>0, <2>2
    <3> HIDE DEF cleared, t
    <3>2. b = NoteActive(cleared, t)
      BY <2>2
    <3> HIDE DEF b
    <3>3. b \in Service /\ b.active = {u \in cleared.active : ThreadOf[u] # ThreadOf[t]} \cup {t}
          /\ b.suppressed = cleared.suppressed \ {t} /\ b.known = cleared.known
          /\ b.completed = cleared.completed /\ b.visible = cleared.visible
          /\ b.recovered = cleared.recovered
      BY <1>4, <3>1, <3>2, ServiceOps
    <3> QED BY <1>0, <1>4, <2>2, <3>3
  <2> QED BY <2>1, <2>2
<1>6. /\ Good(s) /\ s.outbox = mem.outbox /\ s.binding = mem.binding /\ s.acks = mem.acks
      /\ mem.watches \subseteq s.watches /\ s.watches \subseteq mem.watches \cup running
      /\ running # {} => t \in s.watches
  <2>1. CASE running = {}
    BY <1>0, <2>1
  <2>2. CASE running # {}
    <3>1. t \in Turns /\ ThreadOf[t] = th /\ s = Watch(mem, t)
      BY <1>0, <2>2 DEF Running
    <3>2. Bound(mem, ThreadOf[t])
      BY <3>1 DEF Bound
    <3> HIDE DEF s, t
    <3> QED BY <1>0, <2>2, <3>1, <3>2, WatchKeeps
  <2> QED BY <2>1, <2>2
<1>7. ended \subseteq (s.watches \cap TurnsOf(th)) \ running
      /\ displaced \subseteq (svc.active \cap TurnsOf(th)) \ running
  OBVIOUS
<1> HIDE DEF b, s, ended, displaced, t
<1>8. /\ svc' \in Service /\ svc'.known = b.known /\ svc'.completed = b.completed
      /\ svc'.visible = b.visible /\ svc'.recovered = b.recovered /\ svc'.active = b.active
      /\ svc'.suppressed = b.suppressed \cup ended \cup displaced
  <2>1. b.suppressed \cup ended \cup displaced \in SUBSET Turns
    BY <1>0, <1>5, <1>7 DEF Service
  <2> QED BY <1>2, <1>5, <2>1 DEF Service
<1>9. \A x \in ready'.found : x \in ready.found \/ x \in ended
  BY <1>3 DEF ReadyTyped
<1>10. \A x \in svc'.suppressed :
         \/ x \in svc.suppressed
         \/ x \in TurnsOf(th) \ running /\ (x \in mem'.watches \/ x \in svc.active)
  BY <1>1, <1>5, <1>7, <1>8
<1>11. \A x \in ready'.found : x \in ready.found
         \/ x \in (mem'.watches \cap TurnsOf(th)) \ running
  BY <1>1, <1>7, <1>9
<1>12. running # {} => \E x \in running : x \in mem'.watches /\ x \in svc'.active
  <2>1. running # {} => t \in running /\ t \in mem'.watches /\ t \in svc'.active
    BY <1>0, <1>1, <1>5, <1>6, <1>8
  <2> HIDE DEF running
  <2> QED BY <2>1
<1>13. Good(mem') /\ mem'.outbox = mem.outbox /\ mem'.binding = mem.binding
       /\ mem'.acks = mem.acks /\ mem.watches \subseteq mem'.watches
       /\ mem'.watches \subseteq mem.watches \cup running
  BY <1>1, <1>6
<1>14. svc' \in Service /\ svc'.known = svc.known /\ svc'.completed = svc.completed
       /\ svc'.visible = svc.visible /\ svc'.recovered = svc.recovered
       /\ svc'.active \subseteq svc.active \cup running
  BY <1>5, <1>8
<1> QED BY <1>10, <1>11, <1>12, <1>13, <1>14

LEMMA RehydrateDelivery ==
  ASSUME Delivery, Surroundings, NEW r \in Routes,
         SkipUnbound(r) \/ ReplayThread(r) \/ ResumeReturns(r) \/ ResumeFails(r)
  PROVE  Delivery'
<1>0. svc \in Service /\ Good(mem)
  BY DEF Delivery
<1>1. CASE SkipUnbound(r) \/ ReplayThread(r)
  BY <1>0, <1>1, DeliveryUntouched DEF SkipUnbound, ReplayThread
<1>2. CASE ResumeReturns(r)
  <2>1. Good(mem') /\ mem'.outbox = mem.outbox /\ svc' \in Service
    BY <1>2, ResumeReturnsTo DEF Surroundings
  <2> QED BY <1>2, <2>1, DeliveryUntouched DEF ResumeReturns
<1>3. CASE ResumeFails(r)
  <2> DEFINE th == mem.binding[r]
             cleared == [svc EXCEPT !.active = svc.active \ TurnsOf(th)]
  <2>1. cleared = [svc EXCEPT !.active = @ \ TurnsOf(th)] /\ cleared \in Service
    BY <1>0 DEF Service
  <2>2. (mem' = Unbind(mem, r) \/ mem' = mem)
        /\ (svc' = Forgotten([svc EXCEPT !.active = @ \ TurnsOf(th)], th)
            \/ svc' = [svc EXCEPT !.active = @ \ TurnsOf(th)])
    BY <1>3, Zenon DEF ResumeFails
  <2> HIDE DEF cleared
  <2>3. svc' = Forgotten(cleared, th) \/ svc' = cleared
    BY <2>1, <2>2
  <2> HIDE DEF th
  <2>6. Forgotten(cleared, th) \in Service
    BY <2>1 DEF Forgotten, Service
  <2>4. svc' \in Service
    BY <2>1, <2>3, <2>6
  <2>5. Good(mem') /\ mem'.outbox = mem.outbox
    BY <1>0, <2>2, UnbindKeeps
  <2> QED BY <1>3, <2>4, <2>5, DeliveryUntouched DEF ResumeFails
<1> QED BY <1>1, <1>2, <1>3

LEMMA RecoveryKeeps ==
  ASSUME Delivery, Surroundings, NEW t,
         RehydrateEnds \/ (t \in Turns /\ RecoverTurn(t)) \/ ReadyDrains \/ RecoverTimesOut
  PROVE  Delivery' /\ Surroundings'
<1>0. /\ svc \in Service /\ lane \in Lane /\ Good(mem) /\ NativeTyped /\ ReadyTyped
      /\ EventsTyped /\ ready.dropped \subseteq Turns /\ ready.found \subseteq Turns
      /\ spent \in [Disturbances -> Nat]
      /\ UNCHANGED <<disk, events, native, accepted, promised, dismissed, retry>>
  BY DEF Delivery, Surroundings, ReadyTyped, RehydrateEnds, RecoverTurn, ReadyDrains,
         RecoverTimesOut
<1>1. ReadyTyped' /\ spent' \in [Disturbances -> Nat] => Surroundings'
  BY <1>0 DEF Surroundings, NativeTyped, EventsTyped
<1>2. CASE RehydrateEnds
  <2>1. svc' \in Service /\ svc'.recovered \in SUBSET Turns
    BY <1>0, <1>2 DEF RehydrateEnds, Service
  <2>2. ready' = [Idle EXCEPT !.phase = "recover", !.turns = svc'.recovered]
        /\ UNCHANGED <<mem, lane, spent>>
    BY <1>2 DEF RehydrateEnds
  <2>3. ReadyTyped'
    BY <2>1, <2>2 DEF ReadyTyped, Idle
  <2> QED BY <1>0, <1>1, <2>1, <2>2, <2>3, DeliveryUntouched
<1>3. CASE t \in Turns /\ RecoverTurn(t)
  <2> DEFINE b == [svc EXCEPT !.visible = svc.visible \ {t}]
             bound == Bound(mem, ThreadOf[t])
             clear == [b EXCEPT !.recovered = b.recovered \ {t}]
  <2>1. b \in Service /\ b = [svc EXCEPT !.visible = @ \ {t}] /\ clear \in Service
        /\ clear = [b EXCEPT !.recovered = @ \ {t}]
    BY <1>0 DEF Service
  <2>2. \/ bound /\ RecoverOn(mem, b, t, RouteOf(mem, ThreadOf[t]), TRUE)
        \/ svc' = clear /\ UNCHANGED <<mem, lane>>
    <3>1. IF bound THEN RecoverOn(mem, [svc EXCEPT !.visible = @ \ {t}], t,
                                  RouteOf(mem, ThreadOf[t]), TRUE)
          ELSE /\ svc' = [[svc EXCEPT !.visible = @ \ {t}] EXCEPT !.recovered = @ \ {t}]
               /\ UNCHANGED <<mem, lane>>
      BY <1>3, Zenon DEF RecoverTurn
    <3> HIDE DEF b, clear, bound
    <3> QED BY <2>1, <3>1
  <2>3. ready' = [ready EXCEPT !.turns = ready.turns \ {t}] /\ UNCHANGED spent
    BY <1>0, <1>3 DEF RecoverTurn, ReadyTyped
  <2>4. ReadyTyped'
    BY <1>0, <2>3 DEF ReadyTyped
  <2> HIDE DEF b, clear
  <2>5. CASE bound /\ RecoverOn(mem, b, t, RouteOf(mem, ThreadOf[t]), TRUE)
    <3>1. PICK route \in Routes : route = RouteOf(mem, ThreadOf[t])
      BY <2>5, RouteBound
    <3>2. After(mem)
      BY <1>0, <1>3, <2>1, <2>5, <3>1, RecoverOnKeeps
    <3> QED BY <1>0, <1>1, <2>3, <2>4, <3>2, AfterDelivery
  <2>6. CASE svc' = clear /\ UNCHANGED <<mem, lane>>
    BY <1>0, <1>1, <2>1, <2>3, <2>4, <2>6, DeliveryUntouched
  <2> QED BY <2>2, <2>5, <2>6
<1>4. CASE ReadyDrains
  <2>1. lane' = [who |-> "ready", step |-> "flush", id |-> None, route |-> None,
                 rest |-> {}, ok |-> TRUE]
        /\ ready' = [Idle EXCEPT !.phase = "drain"] /\ UNCHANGED <<mem, svc, spent>>
    BY <1>4 DEF ReadyDrains, Free
  <2>2. lane' \in Lane /\ LaneTyped' /\ LaneHoldsStaged'
    BY <2>1 DEF Lane, LaneTyped, LaneHoldsStaged
  <2>3. After(mem)
    BY <1>0, <2>1, <2>2 DEF After
  <2>4. ReadyTyped'
    BY <2>1 DEF ReadyTyped, Idle
  <2> QED BY <1>0, <1>1, <2>1, <2>3, <2>4, AfterDelivery
<1>5. CASE RecoverTimesOut
  <2>1. lane' = Free /\ UNCHANGED <<mem, svc, ready>> /\ Spend("timeout")
    BY <1>5 DEF RecoverTimesOut
  <2>2. ReadyTyped' /\ spent' \in [Disturbances -> Nat]
    BY <1>0, <2>1, SpendTyped DEF Disturbances, ReadyTyped
  <2> QED BY <1>0, <1>1, <2>1, <2>2, LaneFreed
<1> QED BY <1>2, <1>3, <1>4, <1>5

LEMMA ConnectionDelivery ==
  ASSUME Delivery, Connect \/ LoseConnection
  PROVE  Delivery'
<1>1. UNCHANGED <<mem, disk, svc, accepted>> /\ (UNCHANGED lane \/ lane' = Free)
  BY DEF Connect, LoseConnection
<1> QED BY <1>1, DeliveryUntouched, LaneFreed DEF Delivery

LEMMA CrashKeeps ==
  ASSUME Delivery, Surroundings, Crash
  PROVE  Delivery' /\ Surroundings'
<1>1. /\ mem' = Loaded(disk) /\ svc' = FreshService /\ lane' = Free /\ retry' = "off"
      /\ ready' = Idle /\ events' = <<>> /\ Spend("crash")
      /\ UNCHANGED <<disk, accepted, promised, dismissed>>
  BY DEF Crash
<1>2. Good(mem') /\ mem'.outbox = disk.outbox
  BY <1>1, LoadedKeeps DEF Delivery
<1>3. svc' \in Service
  BY <1>1 DEF FreshService, Service
<1>4. DiskCovered'
  BY <1>1, <1>2 DEF DiskCovered
<1>5. NativeTyped' /\ native'.produced = native.produced
  BY StatusAfterLoss DEF Crash, Surroundings
<1>6. EventsTyped'
  <2>1. <<>> \in Seq(ProperEvent)
    OBVIOUS
  <2> QED BY <1>1, <1>5, <2>1 DEF EventsTyped, Surroundings
<1>7. spent' \in [Disturbances -> Nat]
  BY <1>1, SpendTyped DEF Surroundings, Disturbances
<1>8. ReadyTyped'
  BY <1>1, ReadyValues DEF ReadyTyped
<1> QED BY <1>1, <1>2, <1>3, <1>4, <1>5, <1>6, <1>7, <1>8, FreeLane DEF Delivery, Surroundings

LEMMA DeliveryPartsNext == Surroundings' /\ Delivery' => DeliveryInv'
BY DeliveryParts, PTL

LEMMA DeliveryKept == DeliveryInv /\ [Next]_vars => DeliveryInv'
<1> SUFFICES ASSUME DeliveryInv, [Next]_vars PROVE DeliveryInv'
  OBVIOUS
<1>0. Delivery /\ Surroundings
  BY DeliveryParts
<1>1. CASE Native
  BY <1>1, NativeDelivery DEF Native
<1>2. CASE User \/ \E t \in Turns : Started(t)
  <2>1. \/ \E t \in Turns : StartTurn(t) \/ Started(t) \/ Stop(t)
        \/ \E r \in Routes, th \in Threads : Select(r, th)
        \/ \E r \in Routes : Detach(r)
    BY <1>2 DEF User
  <2>2. Delivery' /\ Surroundings'
    BY <1>0, <2>1, UserDelivery, UserSurroundings
  <2> QED BY <2>2, DeliveryPartsNext
<1>3. CASE Live
  BY <1>0, <1>3, LiveDelivery, LiveSurroundings, DeliveryPartsNext DEF Live
<1>4. CASE Deliver
  BY <1>0, <1>4, DeliverDelivery, DeliverSurroundings, DeliveryPartsNext DEF Deliver
<1>5. CASE Drain \/ Retry \/ Persist
  BY <1>0, <1>5, DrainDelivery, DrainSurroundings, DeliveryPartsNext DEF Drain, Retry
<1>6. CASE Connect \/ LoseConnection
  BY <1>0, <1>6, ConnectionDelivery, ConnectionSurroundings, DeliveryPartsNext
<1>7. CASE \E r \in Routes :
             SkipUnbound(r) \/ ReplayThread(r) \/ ResumeReturns(r) \/ ResumeFails(r)
  BY <1>0, <1>7, RehydrateDelivery, RehydrateSurroundings, DeliveryPartsNext
<1>8. CASE RehydrateEnds \/ Recover \/ RecoverTimesOut
  <2>1. \/ RehydrateEnds \/ ReadyDrains \/ RecoverTimesOut
        \/ \E t \in Turns : RecoverTurn(t)
    BY <1>8 DEF Recover
  <2>2. Delivery' /\ Surroundings'
    BY <1>0, <2>1, RecoveryKeeps
  <2> QED BY <2>2, DeliveryPartsNext
<1>9. CASE Crash
  BY <1>0, <1>9, CrashKeeps, DeliveryPartsNext
<1>10. CASE UNCHANGED vars
  <2>1. UNCHANGED <<mem, disk, svc, lane, retry, ready, events, native, accepted, promised,
                    dismissed, spent>>
    BY <1>10 DEF vars
  <2>2. Delivery'
    BY <1>0, <2>1, DeliveryUntouched DEF Delivery
  <2>3. Surroundings'
    BY <1>0, <2>1 DEF Surroundings, NativeTyped, EventsTyped, ReadyTyped
  <2> QED BY <2>2, <2>3, DeliveryPartsNext
<1> QED BY <1>1, <1>2, <1>3, <1>4, <1>5, <1>6, <1>7, <1>8, <1>9, <1>10 DEF Next, Rehydrate

LEMMA DeliveryStarts == Init => DeliveryInv
<1> SUFFICES ASSUME Init PROVE DeliveryInv
  OBVIOUS
<1>1. /\ mem \in Store /\ mem.binding = Start /\ mem.outbox = {} /\ mem.next = 0 /\ disk = mem
  <2>1. mem = [binding |-> Start, watches |-> {}, outbox |-> {}, next |-> 0, acks |-> {}]
        /\ disk = mem
    BY DEF Init, EmptyStore
  <2> QED BY <2>1, OutboxAssumption DEF Store
<1>2. Good(mem) /\ Good(disk)
  BY <1>1, OutboxAssumption DEF Good, Ordered, Bounded, BoundOnce
<1>3. svc \in Service
  BY DEF Init, FreshService, Service
<1>4. LaneTyped /\ LaneHoldsStaged /\ lane \in Lane
  <2>1. lane = Free /\ Free.who = "free" /\ Free \in Lane
    BY DEF Init, Free, Lane
  <2> QED BY <2>1 DEF LaneTyped, LaneHoldsStaged
<1>5. DiskCovered /\ accepted \in SUBSET Entry
  BY <1>1 DEF DiskCovered, Init
<1>6. ReadyTyped
  BY ReadyValues DEF Init, ReadyTyped
<1>7. NativeTyped /\ \A t \in Turns : native.produced[t] = 0
  BY DEF Init, NativeTyped, Status
<1>8. EventsTyped
  <2>1. <<>> \in Seq(ProperEvent) /\ events = <<>>
    BY DEF Init
  <2>2. \A t \in Turns : Len(AnswersOf[t]) >= 0
    BY StoreAssumption, LenProperties
  <2> QED BY <1>7, <2>1, <2>2 DEF EventsTyped
<1>9. Surroundings
  BY <1>6, <1>7, <1>8 DEF Init, Surroundings
<1> QED BY <1>2, <1>3, <1>4, <1>5, <1>9, DeliveryParts DEF Delivery

LEMMA DeliveryAlways == Spec => []DeliveryInv
<1> QED BY DeliveryStarts, DeliveryKept, PTL DEF Spec

(* The books of the outbox are in order whatever the interleaving of live  *)
(* handler, recovery and drains with the writer, faults and restarts: one  *)
(* entry per message and place, nothing on disk that is neither staged in  *)
(* memory nor taken, and nobody about to send what is not on disk          *)
(* (bridge/terminal_delivery.py, _terminal_projection_lock).               *)
THEOREM OutboxIsSound == Spec => []OutboxInv
<1>1. DeliveryInv => OutboxInv
  BY DEF DeliveryInv, Good, OutboxInv
<1> QED BY <1>1, DeliveryAlways, PTL

-----------------------------------------------------------------------------
(* The contract of the outbox. *)

(* A flush: what has left the outbox was taken. *)
LEMMA FlushCommits ==
  ASSUME Delivery, disk' = disk \/ disk' = mem, UNCHANGED accepted
  PROVE  Contract!Commit
<1>1. disk'.outbox \in SUBSET Entry /\ disk.outbox \ disk'.outbox \subseteq accepted
  BY DEF Delivery, DiskCovered, Good, Store
<1> QED BY <1>1 DEF Contract!Commit

(* A message is handed over when everything older of its route was taken:  *)
(* an older entry on disk is either still in memory, hence ahead of it in  *)
(* the drain, or accepted.                                                 *)
LEMMA SinkDelivers ==
  ASSUME Delivery, NEW e \in disk.outbox, SinkTakes(e), UNCHANGED disk,
         \A d \in mem.outbox : ~Earlier(d, e)
  PROVE  Contract!Deliver(e)
<1>1. \A d \in disk.outbox : d.route = e.route /\ d.seq < e.seq => d \in accepted
  BY DEF Delivery, DiskCovered, Earlier
<1> QED BY <1>1 DEF Contract!Deliver, SinkTakes

LEMMA StepDelivers ==
  ASSUME Delivery, [Next]_vars
  PROVE  Contract!Commit \/ \E e \in disk.outbox : Contract!Deliver(e)
<1>1. CASE StagedAccepted
  <2> DEFINE e == EntryOf(mem, lane.id)
  <2>1. e \in disk.outbox /\ \A d \in mem.outbox : ~Earlier(d, e)
    BY <1>1, HeadOfRoute DEF StagedAccepted, Delivering
  <2>2. SinkTakes(e) /\ UNCHANGED disk
    BY <1>1 DEF StagedAccepted
  <2> HIDE DEF e
  <2> QED BY <2>1, <2>2, SinkDelivers
<1>2. CASE DrainAccepted
  <2>1. PICK e \in lane.rest : NextInDrain(e) /\ SinkTakes(e)
    BY <1>2 DEF DrainAccepted
  <2>2. /\ lane.rest \subseteq mem.outbox \cap disk.outbox
        /\ \A d \in mem.outbox : Earlier(d, e) => d \in lane.rest
    BY <1>2 DEF DrainAccepted, Draining, Delivery, LaneHoldsStaged
  <2>3. \A d \in mem.outbox : d.seq \in Nat
    BY DEF Delivery, Good, Store, Entry
  <2>4. \A d \in mem.outbox : ~Earlier(d, e)
    BY <2>1, <2>2, <2>3 DEF NextInDrain, Earlier
  <2>5. UNCHANGED disk /\ e \in disk.outbox
    BY <1>2, <2>2 DEF DrainAccepted
  <2> QED BY <2>1, <2>4, <2>5, SinkDelivers
<1>3. CASE ~StagedAccepted /\ ~DrainAccepted
  <2>1. UNCHANGED accepted /\ (disk' = disk \/ disk' = mem)
    <3>1. CASE Deliver
      BY <1>3, <3>1 DEF Deliver, StagedFlushed, StagedNotFlushed, StagedRefused,
        ReceiptFlushed, ReceiptNotFlushed, Flushed
    <3>2. CASE Drain \/ Retry \/ Persist \/ Crash \/ Connect \/ LoseConnection
      BY <1>3, <3>2 DEF Drain, DrainFlushed, DrainNotFlushed, DrainRefused, DrainReceipts,
        DrainReceiptsNotFlushed, Retry, RetryPass, RetryReceipts, Persist, Crash, Connect,
        LoseConnection, Flushed
    <3>3. CASE Native \/ (\E t \in Turns : Started(t)) \/ User \/ Live
      <4>1. UNCHANGED <<disk, accepted>>
        BY <3>3, Zenon DEF Native, Produce, EndTurn, Started, User, StartTurn, Stop, Select,
          Detach, Live, LiveItemStarted, LiveItemCompleted, LiveTurnCompleted
      <4> QED BY <4>1
    <3>4. CASE Rehydrate \/ Recover \/ RecoverTimesOut
      <4>1. UNCHANGED <<disk, accepted>>
        BY <3>4, Zenon DEF Rehydrate, SkipUnbound, ReplayThread, ResumeReturns, ResumeFails,
          RehydrateEnds, Recover, RecoverTurn, ReadyDrains, RecoverTimesOut
      <4> QED BY <4>1
    <3>5. CASE UNCHANGED vars
      BY <3>5 DEF vars
    <3> QED BY <3>1, <3>2, <3>3, <3>4, <3>5 DEF Next
  <2> QED BY <2>1, FlushCommits
<1> QED BY <1>1, <1>2, <1>3

(* The state file and the sinks keep the contract of ReliableDelivery:     *)
(* what is staged on disk leaves it only after its own conversation took   *)
(* it, is handed over only from the disk and in the order of its           *)
(* conversation, through every crash, failed flush and lost connection     *)
(* (store_terminal_deliveries.py, bridge/terminal_delivery.py).            *)
THEOREM OutboxImplementsDelivery == Spec => RefinesReliableDelivery
<1>1. Init => Contract!Init
  BY DEF Init, EmptyStore, Contract!Init
<1>2. DeliveryInv /\ [Next]_vars => [Contract!Next]_<<disk.outbox, accepted>>
  BY DeliveryParts, StepDelivers DEF Contract!Next
<1> QED BY <1>1, <1>2, DeliveryAlways, PTL DEF Spec, RefinesReliableDelivery, Contract!Spec

-----------------------------------------------------------------------------
(* AnswersNotForgotten: what a step may do to the books of the turns. *)

Over(t) == t \in dismissed \/ Settled(mem, t)

(* Nothing in hand is lost, no watch is given up too early. *)
Books ==
  /\ accepted \subseteq accepted' /\ mem.outbox \ mem'.outbox \subseteq accepted'
  /\ dismissed \subseteq dismissed'
  /\ \A t \in Turns : native.status[t] = "done" => native'.status[t] = "done"
  /\ \A t \in Turns :
       t \in (mem.watches \ mem'.watches) \cup (svc'.completed \ svc.completed)
         => t \in dismissed' \/ Settled(mem, t)'
  /\ \/ disk' = disk /\ promised' = promised
     \/ disk' = mem /\ promised' = promised \cup mem.watches
  /\ mem'.acks \cup svc'.known \subseteq mem.acks \cup svc.known \cup IdsIn(accepted')
  /\ lane'.who = "live" /\ lane'.id \in Turns \ dismissed'
       => (lane.who = "live" /\ lane'.id = lane.id) \/ Settled(mem, lane.id)'
  /\ lane'.who \in {"live", "recover"} /\ lane'.step = "receipt"
       => lane' = lane \/ lane'.id \in IdsIn(accepted')
  /\ \A t \in svc'.visible : t \in svc.visible \/ AnswersOf[t] # <<>>

(* A step that has nothing to do with native. *)
Quiet ==
  /\ Books /\ UNCHANGED <<events, native>>
  /\ \A t \in Turns \ dismissed' : Bound(mem, ThreadOf[t]) => Bound(mem', ThreadOf[t])
  /\ ready'.phase = "resume" => \A r \in ready'.routes :
       /\ ready.phase = "resume" /\ r \in ready.routes
       /\ mem'.binding[r] \in {mem.binding[r], None}
  /\ mem'.watches \cup disk'.watches \subseteq mem.watches \cup disk.watches
  /\ svc'.suppressed \subseteq svc.suppressed /\ svc'.active \subseteq svc.active
  /\ svc'.recovered \cup ready'.found \cup ready'.turns
       \subseteq svc.recovered \cup ready.found \cup ready.turns
  /\ lane'.who = "recover" => native.status[TurnOf(lane'.id)] = "done"

LEMMA HandsKept ==
  ASSUME accepted \subseteq accepted', mem.outbox \ mem'.outbox \subseteq accepted',
         NEW id, InHand(mem, id)
  PROVE  InHand(mem, id)' /\ id \in IdsIn(accepted' \cup mem.outbox)
BY DEF InHand, IdsIn

LEMMA OwedAre ==
  ASSUME NEW t \in Turns
  PROVE  /\ \A id \in OwedIds(t) : id \in Ids /\ TurnOf(id) = t
         /\ AnswersOf[t] = <<>> => OwedIds(t) = {t}
         /\ AnswersOf[t] # <<>> =>
              OwedIds(t) = {AnswersOf[t][n] : n \in DOMAIN AnswersOf[t]}
<1>1. AnswersOf[t] = <<>> => OwedIds(t) = {t}
  BY DEF OwedIds
<1>2. AnswersOf[t] # <<>> => OwedIds(t) = {AnswersOf[t][n] : n \in DOMAIN AnswersOf[t]}
  BY DEF OwedIds, Range
<1>3. \A id \in OwedIds(t) : id \in Ids /\ TurnOf(id) = t
  BY TurnOfIds DEF OwedIds, Ids
<1> QED BY <1>1, <1>2, <1>3

LEMMA BooksKeep ==
  ASSUME DeliveryInv, DeliveryInv', ReceiptsTrue, CompletedSettled, Books
  PROVE  ReceiptsTrue' /\ CompletedSettled'
<1>0. \A t \in Turns : Settled(mem, t) => Settled(mem, t)'
  <2> SUFFICES ASSUME NEW t \in Turns, Settled(mem, t) PROVE Settled(mem, t)'
    OBVIOUS
  <2>1. \A id \in OwedIds(t) : InHand(mem, id)'
    BY HandsKept DEF Books, Settled
  <2> QED BY <2>1 DEF Books, Settled
<1>1. \A t \in Turns : Settled(disk, t) /\ disk' = disk => Settled(disk, t)'
  BY DEF Books, Settled, InHand, IdsIn
<1>2. \A t \in Turns : Settled(mem, t) /\ disk' = mem => Settled(disk, t)'
  BY DEF Books, Settled, InHand, IdsIn
<1>3. /\ svc.completed \subseteq Turns /\ svc'.completed \subseteq Turns /\ promised \subseteq Turns
      /\ mem.watches \subseteq Turns /\ promised' \subseteq Turns
  BY DEF DeliveryInv, TypeOK, Store, Service
<1>4. ReceiptsTrue'
  <2>1. IdsIn(accepted) \subseteq IdsIn(accepted')
    BY DEF Books, IdsIn
  <2>2. mem'.acks \cup disk'.acks \cup svc'.known \subseteq IdsIn(accepted')
    BY <2>1 DEF Books, ReceiptsTrue
  <2>3. ASSUME lane'.who \in {"live", "recover"}, lane'.step = "receipt"
        PROVE  lane'.id \in IdsIn(accepted')
    BY <2>1, <2>3 DEF Books, ReceiptsTrue
  <2> QED BY <2>2, <2>3 DEF ReceiptsTrue
<1>5. ASSUME NEW t \in svc'.completed \ dismissed' PROVE Settled(mem, t)'
  BY <1>0, <1>3, <1>5 DEF Books, CompletedSettled
<1>6. ASSUME lane'.who = "live", lane'.id \in Turns \ dismissed' PROVE Settled(mem, lane.id)'
  <2>1. CASE Settled(mem, lane.id)'
    BY <2>1
  <2>2. CASE lane.who = "live" /\ lane'.id = lane.id
    <3>1. PICK t \in Turns : t = lane.id
      BY <1>6, <2>2
    <3>2. Settled(mem, t)'
      BY <1>0, <1>6, <2>2, <3>1 DEF Books, CompletedSettled
    <3>3. lane'.id = t
      BY <2>2, <3>1
    <3> QED BY <3>2, <3>3
  <2> QED BY <1>6, <2>1, <2>2 DEF Books
<1>7. \A t \in svc'.visible : AnswersOf[t] # <<>>
  BY DEF Books, CompletedSettled
<1>8. ASSUME NEW t \in promised' \ dismissed'
      PROVE  /\ t \in mem'.watches \/ Settled(mem, t)'
             /\ t \in disk'.watches \/ Settled(disk, t)'
  <2>1. t \in Turns /\ t \notin dismissed
    BY <1>3, <1>8 DEF Books
  <2>2. t \in mem.watches \/ (t \in promised /\ Settled(mem, t))
    BY <1>8, <2>1 DEF Books, CompletedSettled
  <2>3. t \in mem'.watches \/ Settled(mem, t)'
    BY <1>0, <1>8, <2>1, <2>2 DEF Books
  <2>4. t \in disk'.watches \/ Settled(disk, t)'
    <3>1. CASE disk' = disk /\ promised' = promised
      BY <1>1, <1>8, <2>1, <3>1 DEF CompletedSettled
    <3>2. CASE disk' = mem
      BY <1>2, <2>1, <2>2, <3>2
    <3> QED BY <3>1, <3>2 DEF Books
  <2> QED BY <2>3, <2>4
<1> QED BY <1>4, <1>5, <1>6, <1>7, <1>8 DEF CompletedSettled

(* How the delivery for a turn leaves the store, the service and the lane. *)
LaneLeaves(b, t) ==
  /\ mem'.binding = mem.binding /\ mem.outbox \subseteq mem'.outbox
  /\ mem'.acks \subseteq mem.acks /\ mem'.watches \subseteq mem.watches
  /\ \A u \in mem.watches \ mem'.watches : u = t /\ Over(t)
  /\ svc'.known = b.known /\ svc'.visible = b.visible
  /\ svc'.suppressed = b.suppressed /\ svc'.active = b.active
  /\ svc'.recovered \subseteq b.recovered
  /\ \A u \in svc'.completed \ b.completed : u = t /\ Over(t)
  /\ \/ lane' = Free
     \/ lane'.who = "recover" /\ lane'.step = "flush" /\ TurnOf(lane'.id) = t

LEMMA RecoverOnLeaves ==
  ASSUME Good(mem), NEW b \in Service, NEW t \in Turns, NEW route, NEW ok \in BOOLEAN,
         route \in Routes, RecoverOn(mem, b, t, route, ok), native.status[t] = "done",
         mem.acks \cup b.known \subseteq IdsIn(accepted)
  PROVE  LaneLeaves(b, t)
<1> DEFINE ids == RecoveredIds(t)
           Stages(i) == /\ mem' = Stage(mem, ids[i], route)
                        /\ svc' = b
                        /\ lane' = [Free EXCEPT !.who = "recover", !.step = "flush",
                                                !.id = ids[i], !.route = route, !.ok = ok]
           Ends == /\ KnownOf(mem, b, ids) = DOMAIN ids
                   /\ mem' = IF ok THEN Discard(mem, t) ELSE mem
                   /\ svc' = IF ok THEN [b EXCEPT !.recovered = @ \ {t}] ELSE b
                   /\ lane' = Free
<1>1. (\E i \in DOMAIN ids : Stages(i)) \/ Ends
  BY Zenon DEF RecoverOn
<1>2. ASSUME NEW i \in DOMAIN ids, Stages(i) PROVE LaneLeaves(b, t)
  <2>1. PICK id \in Ids : id = ids[i] /\ TurnOf(id) = t
    BY RecoveredAre
  <2>2. /\ mem'.binding = mem.binding /\ mem'.watches = mem.watches
        /\ mem'.acks = mem.acks /\ mem.outbox \subseteq mem'.outbox /\ svc' = b
    BY <1>2, <2>1, StageKeeps
  <2>3. lane' = [who |-> "recover", step |-> "flush", id |-> id, route |-> route,
                 rest |-> {}, ok |-> ok]
    BY <1>2, <2>1 DEF Free
  <2> QED BY <2>1, <2>2, <2>3 DEF LaneLeaves
<1>3. CASE Ends
  <2>1. svc' = IF ok THEN [b EXCEPT !.recovered = b.recovered \ {t}] ELSE b
    BY <1>3 DEF Service
  <2>2. /\ svc'.known = b.known /\ svc'.visible = b.visible /\ svc'.completed = b.completed
        /\ svc'.suppressed = b.suppressed /\ svc'.active = b.active
        /\ svc'.recovered \subseteq b.recovered
    BY <2>1 DEF Service
  <2>3. /\ mem'.binding = mem.binding /\ mem'.outbox = mem.outbox /\ mem'.acks \subseteq mem.acks
        /\ mem'.watches \subseteq mem.watches /\ \A u \in mem.watches \ mem'.watches : u = t
    BY <1>3, DiscardKeeps
  <2>4. Over(t)
    <3>1. \A i \in DOMAIN ids : Known(mem, b, ids[i])
      BY <1>3 DEF KnownOf
    <3>2. \A i \in DOMAIN ids : InHand(mem, ids[i])
      BY <3>1 DEF Known, InHand, IdsIn
    <3>3. OwedIds(t) = Range(ids)
      BY RecoveredAre
    <3>4. \A id \in OwedIds(t) : InHand(mem, id)
      BY <3>2, <3>3 DEF Range
    <3> QED BY <3>4 DEF Over, Settled
  <2> QED BY <1>3, <2>2, <2>3, <2>4 DEF LaneLeaves
<1> HIDE DEF Stages, Ends
<1> QED BY <1>1, <1>2, <1>3

LEMMA CompletionLeaves ==
  ASSUME Good(mem), NEW b \in Service, NEW t \in Turns, NEW durable \in BOOLEAN,
         Over(t), CompletionHandled(mem, b, t, durable)
  PROVE  LaneLeaves(b, t)
<1>1. svc' = [b EXCEPT !.completed = b.completed \cup {t}]
  BY DEF CompletionHandled, Service
<1>2. /\ svc'.known = b.known /\ svc'.visible = b.visible /\ svc'.recovered = b.recovered
      /\ svc'.suppressed = b.suppressed /\ svc'.active = b.active
      /\ svc'.completed = b.completed \cup {t}
  BY <1>1 DEF Service
<1>3. /\ mem'.binding = mem.binding /\ mem'.outbox = mem.outbox /\ mem'.acks \subseteq mem.acks
      /\ mem'.watches \subseteq mem.watches /\ \A u \in mem.watches \ mem'.watches : u = t
  BY DiscardKeeps DEF CompletionHandled
<1> QED BY <1>2, <1>3 DEF LaneLeaves, CompletionHandled

Beside(b) ==
  /\ b \in Service /\ b.known \subseteq svc.known \cup IdsIn(accepted)
  /\ b.visible \subseteq svc.visible /\ b.suppressed \subseteq svc.suppressed
  /\ b.active \subseteq svc.active /\ b.recovered \subseteq svc.recovered
  /\ b.completed = svc.completed

FlushedOrNot ==
  \/ disk' = disk /\ promised' = promised
  \/ disk' = mem /\ promised' = promised \cup mem.watches

LEMMA LaneIsQuiet ==
  ASSUME DeliveryInv, NEW b, Beside(b), NEW t \in Turns, native.status[t] = "done" \/ lane' = Free,
         LaneLeaves(b, t), UNCHANGED <<events, native, accepted, dismissed>>,
         FlushedOrNot, ready'.phase = "resume" => ready' = ready,
         ready'.found \cup ready'.turns \subseteq svc.recovered \cup ready.found \cup ready.turns
  PROVE  Quiet
<1>1. \A u \in Turns : Over(u) => u \in dismissed' \/ Settled(mem, u)'
  BY HandsKept DEF Over, Settled, LaneLeaves, InHand, IdsIn
<1>2. Free.who = "free"
  BY DEF Free
<1>3. lane'.who # "live" /\ lane'.step # "receipt"
      /\ (lane'.who = "recover" => TurnOf(lane'.id) = t /\ native.status[t] = "done")
  BY <1>2 DEF LaneLeaves, Free
<1>4. Books
  <2>1. mem.outbox \ mem'.outbox \subseteq accepted' /\ dismissed \subseteq dismissed'
        /\ accepted \subseteq accepted'
    BY DEF LaneLeaves
  <2>2. \A u \in Turns : u \in (mem.watches \ mem'.watches) \cup (svc'.completed \ svc.completed)
                           => u \in dismissed' \/ Settled(mem, u)'
    BY <1>1 DEF LaneLeaves, Beside
  <2>3. mem'.acks \cup svc'.known \subseteq mem.acks \cup svc.known \cup IdsIn(accepted')
    BY DEF LaneLeaves, Beside
  <2>4. svc'.visible \subseteq svc.visible
    BY DEF LaneLeaves, Beside
  <2> QED BY <1>3, <2>1, <2>2, <2>3, <2>4 DEF Books, FlushedOrNot
<1>5. mem'.watches \cup disk'.watches \subseteq mem.watches \cup disk.watches
  BY DEF LaneLeaves, FlushedOrNot
<1>6. /\ svc'.suppressed \subseteq svc.suppressed /\ svc'.active \subseteq svc.active
      /\ svc'.recovered \subseteq svc.recovered
  BY DEF LaneLeaves, Beside
<1>7. \A u : Bound(mem, u) => Bound(mem', u)
  BY DEF LaneLeaves, Bound
<1>8. ready'.phase = "resume" => \A r \in ready'.routes :
        /\ ready.phase = "resume" /\ r \in ready.routes
        /\ mem'.binding[r] \in {mem.binding[r], None}
  BY DEF LaneLeaves
<1> QED BY <1>3, <1>4, <1>5, <1>6, <1>7, <1>8 DEF Quiet

LEMMA LaneReturns ==
  ASSUME DeliveryInv, ReceiptsTrue, TurnsInv, lane.who \in {"live", "recover"},
         NEW b, Beside(b), NEW durable \in BOOLEAN,
         \/ lane.who = "recover" /\ RecoverOn(mem, b, TurnOf(lane.id), lane.route, durable)
         \/ lane.id \in Turns /\ lane.who # "recover"
            /\ CompletionHandled(mem, b, TurnOf(lane.id), durable)
         \/ mem' = mem /\ svc' = b /\ lane' = Free
  PROVE  /\ LaneLeaves(b, TurnOf(lane.id))
         /\ native.status[TurnOf(lane.id)] = "done" \/ lane' = Free
<1> DEFINE t == TurnOf(lane.id)
<1>0. /\ Good(mem) /\ b \in Service /\ t \in Turns /\ LaneTyped
      /\ mem.acks \cup b.known \subseteq IdsIn(accepted)
      /\ lane.who = "recover" => native.status[t] = "done" /\ lane.route \in Routes
  BY TurnOfIds DEF DeliveryInv, LaneTyped, Beside, ReceiptsTrue, TurnsInv, NativeInv
<1> HIDE DEF t
<1>1. CASE lane.who = "recover" /\ RecoverOn(mem, b, t, lane.route, durable)
  BY <1>0, <1>1, RecoverOnLeaves DEF t
<1>2. CASE /\ lane.id \in Turns /\ lane.who # "recover"
           /\ CompletionHandled(mem, b, t, durable)
  <2>1. t = lane.id
    BY <1>2, TurnOfIds DEF t
  <2>2. Over(t)
    BY <1>2, <2>1 DEF Over, TurnsInv, CompletedSettled
  <2>3. LaneLeaves(b, t) /\ lane' = Free
    BY <1>0, <1>2, <2>2, CompletionLeaves DEF CompletionHandled
  <2> QED BY <2>3 DEF t
<1>3. CASE mem' = mem /\ svc' = b /\ lane' = Free
  BY <1>0, <1>3 DEF LaneLeaves, Service, t
<1> QED BY <1>1, <1>2, <1>3 DEF t

TurnBooks == DeliveryInv /\ ReceiptsTrue /\ TurnsInv

LEMMA ReturnsQuiet ==
  ASSUME TurnBooks, lane.who \in {"live", "recover"},
         NEW delivered \in BOOLEAN, NEW durable \in BOOLEAN, Returns(mem, delivered, durable),
         delivered => lane.step = "receipt",
         UNCHANGED <<events, native, accepted, dismissed, ready>>, FlushedOrNot
  PROVE  Quiet
<1> DEFINE b == IF delivered THEN [svc EXCEPT !.known = svc.known \cup {lane.id}] ELSE svc
<1>0. svc \in Service /\ lane.id \in Ids /\ TurnOf(lane.id) \in Turns /\ lane.ok \in BOOLEAN
  BY TurnOfIds DEF TurnBooks, DeliveryInv, TypeOK, LaneTyped, Lane
<1>1. \/ lane.who = "recover" /\ RecoverOn(mem, b, TurnOf(lane.id), lane.route, lane.ok /\ durable)
      \/ lane.id \in Turns /\ lane.who # "recover"
         /\ CompletionHandled(mem, b, TurnOf(lane.id), durable)
      \/ mem' = mem /\ svc' = b /\ lane' = Free
  BY <1>0 DEF Returns, Service
<1>2. Beside(b)
  <2>1. delivered => lane.id \in IdsIn(accepted)
    BY DEF TurnBooks, ReceiptsTrue
  <2>2. [svc EXCEPT !.known = svc.known \cup {lane.id}] \in Service
    BY <1>0 DEF Service
  <2> QED BY <1>0, <2>1, <2>2 DEF Beside, Service
<1> HIDE DEF b
<1>3. PICK d \in BOOLEAN :
        \/ lane.who = "recover" /\ RecoverOn(mem, b, TurnOf(lane.id), lane.route, d)
        \/ lane.id \in Turns /\ lane.who # "recover"
           /\ CompletionHandled(mem, b, TurnOf(lane.id), d)
        \/ mem' = mem /\ svc' = b /\ lane' = Free
  <2>1. (lane.ok /\ durable) \in BOOLEAN
    BY <1>0
  <2> QED BY <1>1, <2>1
<1>4. /\ LaneLeaves(b, TurnOf(lane.id))
      /\ native.status[TurnOf(lane.id)] = "done" \/ lane' = Free
  BY <1>2, <1>3, LaneReturns DEF TurnBooks
<1> QED BY <1>0, <1>2, <1>4, LaneIsQuiet DEF TurnBooks

LEMMA DeliverQuiet ==
  ASSUME TurnBooks,
         \/ StagedFlushed \/ StagedNotFlushed \/ StagedAccepted \/ StagedRefused
         \/ ReceiptFlushed \/ ReceiptNotFlushed
  PROVE  Quiet
<1>0. /\ lane.who \in {"live", "recover"} /\ UNCHANGED <<events, native, ready, dismissed>>
      /\ FlushedOrNot /\ lane \in Lane /\ LaneTyped /\ svc \in Service /\ Delivery /\ Good(mem)
  BY DeliveryParts DEF TurnBooks, Delivery, StagedFlushed, StagedNotFlushed, StagedAccepted,
         StagedRefused, ReceiptFlushed, ReceiptNotFlushed, Delivering, FlushedOrNot, Flushed
<1>1. CASE StagedFlushed /\ IsRouteHead(mem, lane.id)
  <2>1. lane' = [lane EXCEPT !.step = "emit"] /\ UNCHANGED <<mem, svc, accepted>>
    BY <1>1 DEF StagedFlushed
  <2>2. lane'.who = lane.who /\ lane'.id = lane.id /\ lane'.step = "emit"
    BY <1>0, <2>1 DEF Lane
  <2> QED BY <1>0, <2>1, <2>2 DEF Quiet, Books, FlushedOrNot, TurnBooks, TurnsInv, NativeInv
<1>2. CASE StagedFlushed /\ ~IsRouteHead(mem, lane.id)
  <2>1. Returns(mem, FALSE, TRUE) /\ UNCHANGED accepted
    BY <1>2 DEF StagedFlushed
  <2> QED BY <1>0, <2>1, ReturnsQuiet
<1>3. CASE StagedNotFlushed
  <2>1. PICK durable \in BOOLEAN : Returns(mem, FALSE, durable)
    BY <1>3 DEF StagedNotFlushed
  <2>2. UNCHANGED accepted
    BY <1>3 DEF StagedNotFlushed
  <2> QED BY <1>0, <2>1, <2>2, ReturnsQuiet
<1>4. CASE StagedAccepted
  <2> DEFINE e == EntryOf(mem, lane.id)
  <2>1. /\ lane.id \in Ids /\ e \in mem.outbox /\ e.id = lane.id
        /\ accepted' = accepted \cup {e} /\ mem' = Complete(mem, lane.id)
        /\ lane' = [lane EXCEPT !.step = "receipt"] /\ UNCHANGED <<disk, svc>>
    BY <1>0, <1>4, HeadOfRoute DEF StagedAccepted, SinkTakes, Delivering
  <2>2. \A d \in mem.outbox : d.id = lane.id => d = e
    BY <1>0, <2>1 DEF Good, Ordered
  <2> HIDE DEF e
  <2>3. lane'.who = lane.who /\ lane'.id = lane.id
    BY <1>0, <2>1 DEF Lane
  <2>4. /\ mem'.binding = mem.binding /\ mem'.watches = mem.watches
        /\ mem'.outbox = {d \in mem.outbox : d.id # lane.id}
        /\ mem'.acks \subseteq mem.acks \cup {lane.id}
    BY <1>0, <2>1, CompleteKeeps
  <2>5. lane.id \in IdsIn(accepted') /\ accepted \subseteq accepted'
        /\ mem.outbox \ mem'.outbox \subseteq accepted'
    BY <2>1, <2>2, <2>4 DEF IdsIn
  <2>6. Books
    BY <1>0, <2>1, <2>3, <2>4, <2>5 DEF Books, FlushedOrNot
  <2>7. \A th : Bound(mem, th) => Bound(mem', th)
    BY <2>4 DEF Bound
  <2> QED BY <1>0, <2>1, <2>3, <2>4, <2>6, <2>7 DEF Quiet, TurnBooks, TurnsInv, NativeInv
<1>5. CASE StagedRefused
  <2>1. Returns(mem, FALSE, TRUE) /\ UNCHANGED accepted
    BY <1>5 DEF StagedRefused
  <2> QED BY <1>0, <2>1, ReturnsQuiet
<1>6. CASE ReceiptFlushed
  <2>1. Returns(mem, TRUE, TRUE) /\ UNCHANGED accepted /\ lane.step = "receipt"
    BY <1>6 DEF ReceiptFlushed, Delivering
  <2> QED BY <1>0, <2>1, ReturnsQuiet
<1>7. CASE ReceiptNotFlushed
  <2> DEFINE b == [svc EXCEPT !.ackPending = TRUE, !.known = svc.known \cup {lane.id}]
  <2>1. UNCHANGED accepted /\ lane.step = "receipt"
    BY <1>7 DEF ReceiptNotFlushed, Delivering
  <2>2. lane.id \in IdsIn(accepted) /\ lane.id \in Ids /\ TurnOf(lane.id) \in Turns
        /\ lane.ok \in BOOLEAN
    BY <1>0, <2>1, TurnOfIds DEF TurnBooks, ReceiptsTrue, LaneTyped, Lane
  <2>3. Beside(b)
    BY <1>0, <2>2 DEF Beside, Service
  <2>4. \/ lane.who = "recover" /\ RecoverOn(mem, b, TurnOf(lane.id), lane.route, lane.ok)
        \/ lane.id \in Turns /\ lane.who # "recover"
           /\ CompletionHandled(mem, b, TurnOf(lane.id), TRUE)
        \/ mem' = mem /\ svc' = b /\ lane' = Free
    BY <1>0, <1>7 DEF ReceiptNotFlushed, Service
  <2> HIDE DEF b
  <2>5. PICK d \in BOOLEAN :
        \/ lane.who = "recover" /\ RecoverOn(mem, b, TurnOf(lane.id), lane.route, d)
        \/ lane.id \in Turns /\ lane.who # "recover"
           /\ CompletionHandled(mem, b, TurnOf(lane.id), d)
        \/ mem' = mem /\ svc' = b /\ lane' = Free
    BY <2>2, <2>4
  <2>6. /\ LaneLeaves(b, TurnOf(lane.id))
        /\ native.status[TurnOf(lane.id)] = "done" \/ lane' = Free
    BY <1>0, <2>3, <2>5, LaneReturns DEF TurnBooks
  <2> QED BY <1>0, <2>1, <2>2, <2>3, <2>6, LaneIsQuiet DEF TurnBooks
<1> QED BY <1>1, <1>2, <1>3, <1>4, <1>5, <1>6, <1>7

LEMMA DrainQuiet ==
  ASSUME TurnBooks,
         \/ DrainFlushed \/ DrainNotFlushed \/ DrainAccepted \/ DrainRefused
         \/ DrainReceipts \/ DrainReceiptsNotFlushed \/ RetryPass \/ RetryReceipts
         \/ Persist
  PROVE  Quiet
<1>0. /\ UNCHANGED <<events, native, dismissed>>
      /\ FlushedOrNot /\ lane \in Lane /\ svc \in Service /\ Delivery /\ Good(mem)
      /\ ready' = ready \/ ready' = Idle
  BY DeliveryParts DEF TurnBooks, Delivery, DrainFlushed, DrainNotFlushed, DrainAccepted,
         DrainRefused, DrainReceipts, DrainReceiptsNotFlushed, RetryPass, RetryReceipts,
         Persist, FlushedOrNot, Flushed, DrainEnds
<1>1. /\ ready'.phase = "resume" => ready' = ready
      /\ ready'.found \cup ready'.turns \subseteq svc.recovered \cup ready.found \cup ready.turns
  BY <1>0, ReadyValues
<1>2. \/ lane' = lane \/ lane'.who \in {"free", "ready", "retry"}
  <2>1. CASE lane' = Free \/ lane' = lane
    BY <2>1 DEF Free
  <2>2. CASE DrainFlushed
    <3>1. lane' = Free \/ lane' = [lane EXCEPT !.step = "emit", !.rest = mem.outbox]
      BY <2>2 DEF DrainFlushed, DrainEnds
    <3>2. lane.who \in {"ready", "retry"}
      BY <2>2 DEF DrainFlushed, Draining
    <3> QED BY <1>0, <2>1, <3>1, <3>2 DEF Lane
  <2>3. CASE DrainAccepted \/ DrainRefused
    <3>1. PICK rest, step : lane' = [lane EXCEPT !.rest = rest, !.step = step]
      <4>1. PICK rest : DrainStep(rest)
        BY <2>3, Zenon DEF DrainAccepted, DrainRefused
      <4> QED BY <4>1, Zenon DEF DrainStep
    <3>2. lane.who \in {"ready", "retry"}
      BY <2>3 DEF DrainAccepted, DrainRefused, Draining
    <3>3. lane'.who = lane.who
      BY <1>0, <3>1 DEF Lane
    <3> QED BY <3>2, <3>3
  <2>4. CASE RetryPass
    BY <2>1, <2>4 DEF RetryPass, Free
  <2> QED BY <2>1, <2>2, <2>3, <2>4
       DEF DrainNotFlushed, DrainReceipts, DrainReceiptsNotFlushed, RetryReceipts, Persist,
           DrainEnds
<1>3. /\ svc'.suppressed = svc.suppressed /\ svc'.active = svc.active
      /\ svc'.recovered = svc.recovered /\ svc'.completed = svc.completed
      /\ svc'.visible = svc.visible /\ svc'.known \subseteq svc.known \cup IdsIn(accepted')
      /\ accepted \subseteq accepted' /\ mem'.binding = mem.binding
      /\ mem.outbox \ mem'.outbox \subseteq accepted' /\ mem'.watches \subseteq mem.watches
      /\ mem'.acks \subseteq mem.acks \cup IdsIn(accepted')
      /\ \A t \in mem.watches \ mem'.watches : Over(t)
  <2>1. CASE DrainAccepted
    <3>1. PICK e \in lane.rest :
            /\ accepted' = accepted \cup {e}
            /\ mem' = Released(Complete(mem, e.id), svc, TurnOf(e.id))
            /\ svc' = [svc EXCEPT !.known = @ \cup {e.id}]
      BY <2>1 DEF DrainAccepted, SinkTakes
    <3>2. e \in mem.outbox /\ e \in Entry /\ e.id \in Ids /\ TurnOf(e.id) \in Turns
          /\ \A d \in mem.outbox : d.id = e.id => d = e
      BY <1>0, <2>1, TurnOfIds
         DEF DrainAccepted, Draining, Delivery, LaneHoldsStaged, Entry, Good, Ordered, Store
    <3>3. PICK s : s = Complete(mem, e.id)
      OBVIOUS
    <3>4. /\ Good(s) /\ s.binding = mem.binding /\ s.watches = mem.watches
          /\ s.outbox = {d \in mem.outbox : d.id # e.id} /\ s.acks \subseteq mem.acks \cup {e.id}
      BY <1>0, <3>2, <3>3, CompleteKeeps
    <3>5. PICK t \in Turns : t = TurnOf(e.id)
      BY <3>2
    <3>6. /\ mem'.binding = s.binding /\ mem'.outbox = s.outbox /\ mem'.acks \subseteq s.acks
          /\ mem' = s \/ (t \in svc.completed /\ mem'.watches = s.watches \ {t})
      BY <3>1, <3>3, <3>4, <3>5, ReleasedKeeps, DiscardKeeps
    <3>7. t \in svc.completed => Over(t)
      BY DEF TurnBooks, TurnsInv, CompletedSettled, Over
    <3>8. e.id \in IdsIn(accepted') /\ mem.outbox \ mem'.outbox \subseteq accepted'
      BY <3>1, <3>2, <3>4, <3>6 DEF IdsIn
    <3>9. /\ svc'.suppressed = svc.suppressed /\ svc'.active = svc.active
          /\ svc'.recovered = svc.recovered /\ svc'.completed = svc.completed
          /\ svc'.visible = svc.visible /\ svc'.known = svc.known \cup {e.id}
      BY <1>0, <3>1 DEF Service
    <3> QED BY <3>1, <3>4, <3>6, <3>7, <3>8, <3>9
  <2>2. CASE ~DrainAccepted
    <3>1. UNCHANGED <<mem, accepted>> /\ (UNCHANGED svc \/ \E x \in BOOLEAN :
                                            svc' = [svc EXCEPT !.ackPending = x])
      BY <2>2 DEF DrainFlushed, DrainNotFlushed, DrainRefused, DrainReceipts,
                  DrainReceiptsNotFlushed, RetryPass, RetryReceipts, Persist
    <3> QED BY <1>0, <3>1 DEF Service
  <2> QED BY <2>1, <2>2
<1>4. \A t \in Turns : Over(t) => t \in dismissed' \/ Settled(mem, t)'
  BY <1>0, <1>3, HandsKept DEF Over, Settled
<1>5. Books
  <2>1. mem.watches \subseteq Turns
    BY <1>0 DEF Good, Store
  <2> QED BY <1>0, <1>2, <1>3, <1>4, <2>1 DEF Books, FlushedOrNot
<1>6. \A th : Bound(mem, th) => Bound(mem', th)
  BY <1>3 DEF Bound
<1>7. mem'.watches \cup disk'.watches \subseteq mem.watches \cup disk.watches
  BY <1>0, <1>3 DEF FlushedOrNot
<1>8. lane'.who = "recover" => native.status[TurnOf(lane'.id)] = "done"
  BY <1>2 DEF TurnBooks, TurnsInv, NativeInv
<1> QED BY <1>0, <1>1, <1>3, <1>5, <1>6, <1>7, <1>8 DEF Quiet

(* The steps of rehydration and recovery that ask nothing of native, and   *)
(* the user who gives a thread up.                                         *)
LEMMA ForgottenOver ==
  ASSUME Good(mem), NEW r \in Routes, mem' = Unbind(mem, r),
         TurnsOf(mem.binding[r]) \subseteq dismissed', dismissed \subseteq dismissed'
  PROVE  /\ \A t \in mem.watches \ mem'.watches : t \in dismissed'
         /\ \A t \in Turns \ dismissed' : Bound(mem, ThreadOf[t]) => Bound(mem', ThreadOf[t])
         /\ mem'.outbox = mem.outbox /\ mem'.acks \subseteq mem.acks
         /\ mem'.watches \subseteq mem.watches
         /\ \A q \in Routes : mem'.binding[q] \in {mem.binding[q], None}
<1>0. mem.watches \subseteq Turns
  BY DEF Good, Store
<1>1. /\ mem'.outbox = mem.outbox /\ mem'.acks \subseteq mem.acks
      /\ \A q \in Routes : mem'.binding[q] = IF q = r THEN None ELSE mem.binding[q]
      /\ mem'.watches \subseteq mem.watches
      /\ \A t \in mem.watches : ThreadOf[t] # mem.binding[r] => t \in mem'.watches
  BY UnbindKeeps
<1>2. \A t \in Turns \ dismissed' : ThreadOf[t] # mem.binding[r]
  BY DEF TurnsOf
<1>3. \A t \in mem.watches \ mem'.watches : t \in dismissed'
  BY <1>0, <1>1, <1>2
<1>4. \A t \in Turns \ dismissed' : Bound(mem, ThreadOf[t]) => Bound(mem', ThreadOf[t])
  BY <1>1, <1>2 DEF Bound
<1> QED BY <1>1, <1>3, <1>4

LEMMA GivenUpQuiet ==
  ASSUME TurnBooks, NEW r \in Routes, SkipUnbound(r) \/ ResumeFails(r) \/ Detach(r)
  PROVE  Quiet
<1>0. /\ UNCHANGED <<events, native, disk, promised, lane, accepted>> /\ ReadyTyped
      /\ svc \in Service /\ Good(mem) /\ mem.watches \subseteq Turns
      /\ lane'.who = "recover" => native.status[TurnOf(lane'.id)] = "done"
  BY DEF TurnBooks, DeliveryInv, TypeOK, ReadyTyped, Good, Store, SkipUnbound, ResumeFails,
         Detach, TurnsInv, NativeInv
<1>1. /\ ready'.found = ready.found /\ ready'.turns = ready.turns /\ ready'.phase = ready.phase
      /\ ready'.routes \subseteq ready.routes
  <2>1. CASE SkipUnbound(r)
    BY <1>0, <2>1 DEF SkipUnbound, ReadyTyped
  <2>2. CASE ResumeFails(r)
    <3>1. PICK dropped : ready' = [ready EXCEPT !.routes = @ \ {r}, !.dropped = dropped]
      BY <2>2, Zenon DEF ResumeFails
    <3> QED BY <1>0, <3>1 DEF ReadyTyped
  <2>3. CASE Detach(r)
    BY <2>3 DEF Detach
  <2> QED BY <2>1, <2>2, <2>3
<1>2. /\ svc'.known = svc.known /\ svc'.completed = svc.completed /\ svc'.visible = svc.visible
      /\ svc'.recovered = svc.recovered
      /\ svc'.active \subseteq svc.active /\ svc'.suppressed \subseteq svc.suppressed
  <2>1. CASE SkipUnbound(r)
    BY <2>1 DEF SkipUnbound
  <2>2. CASE Detach(r)
    BY <1>0, <2>2 DEF Detach, Forgotten, Service
  <2>3. CASE ResumeFails(r)
    <3> DEFINE th == mem.binding[r]
               cleared == [svc EXCEPT !.active = svc.active \ TurnsOf(th)]
    <3>1. cleared = [svc EXCEPT !.active = @ \ TurnsOf(th)]
      BY <1>0 DEF Service
    <3>2. svc' = Forgotten([svc EXCEPT !.active = @ \ TurnsOf(th)], th)
          \/ svc' = [svc EXCEPT !.active = @ \ TurnsOf(th)]
      BY <2>3, Zenon DEF ResumeFails
    <3>3. /\ cleared \in Service /\ cleared.known = svc.known /\ cleared.completed = svc.completed
          /\ cleared.visible = svc.visible /\ cleared.recovered = svc.recovered
          /\ cleared.active \subseteq svc.active /\ cleared.suppressed = svc.suppressed
      BY <1>0 DEF Service
    <3> HIDE DEF cleared, th
    <3>4. svc' = Forgotten(cleared, th) \/ svc' = cleared
      BY <3>1, <3>2
    <3> QED BY <3>3, <3>4 DEF Forgotten, Service
  <2> QED BY <2>1, <2>2, <2>3
<1>3. dismissed \subseteq dismissed' /\ (mem' = mem \/
        (mem' = Unbind(mem, r) /\ TurnsOf(mem.binding[r]) \subseteq dismissed'))
  BY Zenon DEF SkipUnbound, ResumeFails, Detach
<1>4. /\ \A t \in mem.watches \ mem'.watches : t \in dismissed'
      /\ \A t \in Turns \ dismissed' : Bound(mem, ThreadOf[t]) => Bound(mem', ThreadOf[t])
      /\ mem'.outbox = mem.outbox /\ mem'.acks \subseteq mem.acks
      /\ mem'.watches \subseteq mem.watches
      /\ \A q \in Routes : mem'.binding[q] \in {mem.binding[q], None}
  <2>1. CASE mem' = mem
    BY <2>1
  <2>2. CASE mem' = Unbind(mem, r) /\ TurnsOf(mem.binding[r]) \subseteq dismissed'
    BY <1>0, <1>3, <2>2, ForgottenOver
  <2> QED BY <1>3, <2>1, <2>2
<1>5. Books
  BY <1>0, <1>2, <1>3, <1>4 DEF Books
<1>6. ready'.phase = "resume" => \A q \in ready'.routes :
        /\ ready.phase = "resume" /\ q \in ready.routes
        /\ mem'.binding[q] \in {mem.binding[q], None}
  BY <1>0, <1>1, <1>4 DEF ReadyTyped
<1> QED BY <1>0, <1>1, <1>2, <1>4, <1>5, <1>6 DEF Quiet

LEMMA RecoveryQuiet ==
  ASSUME TurnBooks, NEW t,
         RehydrateEnds \/ (t \in Turns /\ RecoverTurn(t)) \/ ReadyDrains \/ RecoverTimesOut
  PROVE  Quiet
<1>0. /\ UNCHANGED <<events, native, disk, promised, accepted, dismissed>> /\ ReadyTyped
      /\ svc \in Service /\ Good(mem)
      /\ lane.who = "recover" => native.status[TurnOf(lane.id)] = "done"
  BY DEF TurnBooks, DeliveryInv, TypeOK, ReadyTyped, RehydrateEnds, RecoverTurn, ReadyDrains,
         RecoverTimesOut, TurnsInv, NativeInv
<1>1. CASE RehydrateEnds
  <2>1. /\ svc'.known = svc.known /\ svc'.completed = svc.completed
        /\ svc'.visible \subseteq svc.visible
        /\ svc'.recovered = svc.recovered \cup ready.found
        /\ svc'.active = svc.active /\ svc'.suppressed = svc.suppressed
    BY <1>0, <1>1 DEF RehydrateEnds, Service
  <2>2. ready' = [Idle EXCEPT !.phase = "recover", !.turns = svc'.recovered]
        /\ UNCHANGED <<mem, lane>>
    BY <1>1 DEF RehydrateEnds
  <2>3. ready'.phase = "recover" /\ ready'.found = {} /\ ready'.turns = svc'.recovered
    BY <2>2 DEF Idle
  <2>4. Books
    BY <1>0, <2>1, <2>2 DEF Books
  <2> QED BY <1>0, <2>1, <2>2, <2>3, <2>4 DEF Quiet
<1>2. CASE ReadyDrains \/ RecoverTimesOut
  <2>1. /\ UNCHANGED <<mem, svc>> /\ lane'.who \in {"free", "ready"}
        /\ ready' = ready \/ ready' = [Idle EXCEPT !.phase = "drain"]
    <3>1. CASE ReadyDrains
      BY <3>1 DEF ReadyDrains, Free
    <3>2. CASE RecoverTimesOut
      BY <3>2 DEF RecoverTimesOut, Free
    <3> QED BY <1>2, <3>1, <3>2
  <2>2. /\ ready'.phase = "resume" => ready' = ready
        /\ ready'.found \subseteq ready.found /\ ready'.turns \subseteq ready.turns
    BY <2>1 DEF Idle
  <2>3. Books
    BY <1>0, <2>1 DEF Books
  <2> QED BY <1>0, <2>1, <2>2, <2>3 DEF Quiet
<1>3. CASE t \in Turns /\ RecoverTurn(t)
  <2> DEFINE b == [svc EXCEPT !.visible = svc.visible \ {t}]
             bound == Bound(mem, ThreadOf[t])
             clear == [b EXCEPT !.recovered = b.recovered \ {t}]
  <2>1. /\ Beside(b) /\ b = [svc EXCEPT !.visible = @ \ {t}]
        /\ clear = [b EXCEPT !.recovered = @ \ {t}]
    BY <1>0 DEF Service, Beside
  <2>2. Beside(clear)
    BY <1>0 DEF Service, Beside
  <2>3. \/ bound /\ RecoverOn(mem, b, t, RouteOf(mem, ThreadOf[t]), TRUE)
        \/ svc' = clear /\ UNCHANGED <<mem, lane>>
    <3>1. IF bound THEN RecoverOn(mem, [svc EXCEPT !.visible = @ \ {t}], t,
                                  RouteOf(mem, ThreadOf[t]), TRUE)
          ELSE /\ svc' = [[svc EXCEPT !.visible = @ \ {t}] EXCEPT !.recovered = @ \ {t}]
               /\ UNCHANGED <<mem, lane>>
      BY <1>3, Zenon DEF RecoverTurn
    <3> HIDE DEF b, clear, bound
    <3> QED BY <2>1, <3>1
  <2>4. ready' = [ready EXCEPT !.turns = ready.turns \ {t}] /\ t \in ready.turns /\ lane = Free
    BY <1>0, <1>3 DEF RecoverTurn, ReadyTyped
  <2>5. /\ native.status[t] = "done" /\ FlushedOrNot
        /\ mem.acks \cup svc.known \subseteq IdsIn(accepted)
    BY <1>0, <2>4 DEF TurnBooks, TurnsInv, NativeInv, ReceiptsTrue, FlushedOrNot
  <2>6. /\ ready'.found = ready.found /\ ready'.turns \subseteq ready.turns
        /\ ready'.phase = ready.phase /\ ready'.phase # "resume"
    BY <1>0, <1>3, <2>4 DEF ReadyTyped, RecoverTurn
  <2> HIDE DEF b, clear
  <2>7. \E x : Beside(x) /\ LaneLeaves(x, t)
    <3>1. CASE bound /\ RecoverOn(mem, b, t, RouteOf(mem, ThreadOf[t]), TRUE)
      <4>1. PICK route \in Routes : route = RouteOf(mem, ThreadOf[t])
        BY <3>1, RouteBound
      <4>2. LaneLeaves(b, t)
        BY <1>0, <1>3, <2>1, <2>5, <3>1, <4>1, RecoverOnLeaves DEF Beside
      <4> QED BY <2>1, <4>2
    <3>2. CASE svc' = clear /\ UNCHANGED <<mem, lane>>
      <4>1. LaneLeaves(clear, t)
        BY <2>2, <2>4, <3>2 DEF LaneLeaves
      <4> QED BY <2>2, <4>1
    <3> QED BY <2>3, <3>1, <3>2
  <2>8. ready'.found \cup ready'.turns \subseteq svc.recovered \cup ready.found \cup ready.turns
    BY <2>6
  <2>9. PICK x : Beside(x) /\ LaneLeaves(x, t)
    BY <2>7
  <2> QED BY <1>0, <1>3, <2>5, <2>6, <2>8, <2>9, LaneIsQuiet DEF TurnBooks
<1> QED BY <1>1, <1>2, <1>3

LEMMA QuietKeeps ==
  ASSUME TurnBooks, DeliveryInv', Quiet
  PROVE  TurnBooks'
<1>0. /\ UNCHANGED <<events, native>> /\ DeliveryInv /\ NativeTyped
      /\ svc.active \subseteq Turns /\ svc'.suppressed \subseteq Turns
      /\ dismissed \subseteq dismissed'
  BY TypeParts DEF TurnBooks, DeliveryInv, TypeOK, Service, Quiet, Books
<1>1. ReceiptsTrue' /\ CompletedSettled'
  BY BooksKeep DEF TurnBooks, TurnsInv, Quiet
<1>2. NativeInv'
  <2>1. mem'.watches \cup disk'.watches \cup svc'.active
          \subseteq mem.watches \cup disk.watches \cup svc.active
    BY DEF Quiet
  <2>2. svc'.recovered \cup ready'.found \cup ready'.turns
          \subseteq svc.recovered \cup ready.found \cup ready.turns
    BY DEF Quiet
  <2>3. lane'.who = "recover" => native.status[TurnOf(lane'.id)] = "done"
    BY DEF Quiet
  <2> QED BY <1>0, <2>1, <2>2, <2>3 DEF NativeInv, TurnBooks, TurnsInv
<1>3. QueueInv'
  <2>1. \A t \in Turns \ dismissed' :
          ThreadOf[t] \in native.subscribed => Bound(mem', ThreadOf[t])
    BY <1>0 DEF Quiet, TurnBooks, TurnsInv, QueueInv
  <2>2. ready'.phase = "resume" =>
          \A r \in ready'.routes : mem'.binding[r] \notin native.subscribed
    <3>1. None \notin native.subscribed
      BY <1>0, StoreAssumption DEF NativeTyped
    <3> QED BY <3>1 DEF Quiet, TurnBooks, TurnsInv, QueueInv
  <2>3. \A t \in svc'.suppressed \ dismissed' :
          native.status[t] = "done" /\ \A i \in DOMAIN events : EventTurn(i) # t
    BY <1>0 DEF Quiet, TurnBooks, TurnsInv, QueueInv
  <2>4. \A i \in DOMAIN events :
          /\ ThreadOf[EventTurn(i)] \in native.subscribed
          /\ native.status[EventTurn(i)] \in {"running", "done"}
          /\ events[i].kind = "turn_completed" => native.status[EventTurn(i)] = "done"
    BY DEF TurnBooks, TurnsInv, QueueInv
  <2>5. ~native.conn => native.subscribed = {}
    BY DEF TurnBooks, TurnsInv, QueueInv
  <2> QED BY <1>0, <2>1, <2>2, <2>3, <2>4, <2>5 DEF QueueInv, EventTurn
<1>4. AnswersComing'
  <2>1. \A id : InHand(mem, id) => InHand(mem, id)'
    BY HandsKept DEF Quiet, Books
  <2>2. \A t \in Turns \ dismissed' : t \in Turns \ dismissed
    BY <1>0
  <2> HIDE DEF InHand
  <2> QED BY <1>0, <2>1, <2>2 DEF AnswersComing, TurnBooks, TurnsInv
<1> QED BY <1>1, <1>2, <1>3, <1>4 DEF TurnBooks, TurnsInv

-----------------------------------------------------------------------------
(* Native speaks, and the user; a connection begins or ends. *)

(* The parts of QueueInv about the queue itself. *)
QueueTrue ==
  /\ \A i \in DOMAIN events :
       /\ ThreadOf[EventTurn(i)] \in native.subscribed
       /\ native.status[EventTurn(i)] \in {"running", "done"}
       /\ events[i].kind = "turn_completed" => native.status[EventTurn(i)] = "done"
  /\ \A t \in svc.suppressed \ dismissed :
       native.status[t] = "done" /\ \A i \in DOMAIN events : EventTurn(i) # t

(* Native only goes on. *)
GoesOn ==
  \A t \in Turns :
    /\ native.status[t] = "done" => native'.status[t] = "done"
    /\ native.status[t] \in {"running", "done"} => native'.status[t] \in {"running", "done"}

(* The queue grows by what native says of its running turn t. *)
Says(es, t) ==
  /\ es \in Seq(ProperEvent) /\ events' = events \o es
  /\ \A j \in DOMAIN es : /\ TurnOf(es[j].id) = t
                          /\ es[j].kind = "turn_completed" => native'.status[t] = "done"
  /\ es # <<>> => /\ t \in Turns
                  /\ native.status[t] = "running" /\ native'.status[t] \in {"running", "done"}
                  /\ ThreadOf[t] \in native'.subscribed

LEMMA EventsPlaces ==
  ASSUME EventsTyped
  PROVE  /\ DOMAIN events = 1..Len(events) /\ Len(events) \in Nat
         /\ \A i \in DOMAIN events : events[i] \in ProperEvent /\ EventTurn(i) \in Turns
<1>1. DOMAIN events = 1..Len(events) /\ Len(events) \in Nat
  BY LenProperties DEF EventsTyped
<1>2. \A i \in DOMAIN events : events[i] \in ProperEvent
  BY <1>1, ElementOfSeq DEF EventsTyped
<1>3. \A e \in ProperEvent : e.id \in Ids
  BY DEF ProperEvent, Ids
<1> QED BY <1>1, <1>2, <1>3, TurnOfIds DEF EventTurn

LEMMA Appended ==
  ASSUME EventsTyped, NEW es \in Seq(ProperEvent), events' = events \o es
  PROVE  /\ DOMAIN es = 1..Len(es) /\ Len(es) \in Nat
         /\ DOMAIN events' = 1..(Len(events) + Len(es))
         /\ \A i \in DOMAIN events : i \in DOMAIN events' /\ events'[i] = events[i]
         /\ \A j \in DOMAIN es : /\ Len(events) + j \in DOMAIN events'
                                 /\ events'[Len(events) + j] = es[j]
         /\ \A i \in DOMAIN events' :
              i \in DOMAIN events \/ \E j \in DOMAIN es : i = Len(events) + j
<1>1. /\ DOMAIN events = 1..Len(events) /\ Len(events) \in Nat
      /\ DOMAIN es = 1..Len(es) /\ Len(es) \in Nat
  BY LenProperties DEF EventsTyped
<1>2. /\ events' \in Seq(ProperEvent) /\ Len(events') = Len(events) + Len(es)
      /\ \A i \in 1..(Len(events) + Len(es)) :
           events'[i] = IF i <= Len(events) THEN events[i] ELSE es[i - Len(events)]
  BY ConcatProperties DEF EventsTyped
<1>3. DOMAIN events' = 1..(Len(events) + Len(es))
  BY <1>2, LenProperties
<1>4. \A i \in DOMAIN events : i \in DOMAIN events' /\ events'[i] = events[i]
  BY <1>1, <1>2, <1>3
<1>5. ASSUME NEW j \in DOMAIN es
      PROVE  Len(events) + j \in DOMAIN events' /\ events'[Len(events) + j] = es[j]
  <2>1. Len(events) + j \in 1..(Len(events) + Len(es)) /\ ~(Len(events) + j <= Len(events))
        /\ (Len(events) + j) - Len(events) = j
    BY <1>1
  <2> QED BY <1>2, <1>3, <2>1
<1>6. ASSUME NEW i \in DOMAIN events'
      PROVE  i \in DOMAIN events \/ \E j \in DOMAIN es : i = Len(events) + j
  <2>1. CASE i <= Len(events)
    BY <1>1, <1>3, <2>1
  <2>2. CASE ~(i <= Len(events))
    <3>1. i - Len(events) \in DOMAIN es /\ i = Len(events) + (i - Len(events))
      BY <1>1, <1>3, <2>2
    <3> QED BY <3>1
  <2> QED BY <2>1, <2>2
<1> QED BY <1>1, <1>3, <1>4, <1>5, <1>6

LEMMA NothingSaid ==
  ASSUME EventsTyped, UNCHANGED events, NEW t
  PROVE  Says(<<>>, t)
<1>1. <<>> \in Seq(ProperEvent) /\ DOMAIN <<>> = {}
  OBVIOUS
<1>2. events \o <<>> = events
  BY DEF EventsTyped
<1> QED BY <1>1, <1>2 DEF Says

LEMMA QueueGrows ==
  ASSUME EventsTyped, QueueTrue, GoesOn, NEW es, NEW t, Says(es, t),
         native.subscribed \subseteq native'.subscribed, dismissed \subseteq dismissed',
         svc'.suppressed \subseteq Turns,
         \A u \in svc'.suppressed \ dismissed' :
           u \in svc.suppressed \/ (native.status[u] = "done"
                                    /\ ThreadOf[u] \notin native.subscribed)
  PROVE  QueueTrue'
<1>0. es \in Seq(ProperEvent) /\ events' = events \o es
  BY DEF Says
<1>1. \A i \in DOMAIN events' :
        \/ i \in DOMAIN events /\ events'[i] = events[i]
        \/ \E j \in DOMAIN es : events'[i] = es[j] /\ es # <<>>
  <2>1. \A j \in DOMAIN es : es # <<>>
    OBVIOUS
  <2> QED BY <1>0, <2>1, Appended
<1>2. ASSUME NEW i \in DOMAIN events'
      PROVE  LET u == TurnOf(events'[i].id) IN
             /\ ThreadOf[u] \in native'.subscribed
             /\ native'.status[u] \in {"running", "done"}
             /\ events'[i].kind = "turn_completed" => native'.status[u] = "done"
             /\ (i \in DOMAIN events /\ u = EventTurn(i)) \/ (native.status[u] = "running")
  <2>1. CASE i \in DOMAIN events /\ events'[i] = events[i]
    <3>1. EventTurn(i) \in Turns /\ TurnOf(events'[i].id) = EventTurn(i)
      BY <2>1, EventsPlaces DEF EventTurn
    <3> QED BY <2>1, <3>1 DEF QueueTrue, GoesOn
  <2>2. CASE \E j \in DOMAIN es : events'[i] = es[j] /\ es # <<>>
    BY <2>2 DEF Says
  <2> QED BY <1>1, <2>1, <2>2
<1>3. ASSUME NEW u \in svc'.suppressed \ dismissed'
      PROVE  native'.status[u] = "done" /\ \A i \in DOMAIN events' : TurnOf(events'[i].id) # u
  <2>1. native.status[u] = "done" /\ \A i \in DOMAIN events : EventTurn(i) # u
    BY <1>3 DEF QueueTrue
  <2> QED BY <1>2, <1>3, <2>1 DEF GoesOn
<1> QED BY <1>2, <1>3 DEF QueueTrue, EventTurn

LEMMA AnswersGrow ==
  ASSUME DeliveryInv, AnswersComing, NEW es, NEW t, Says(es, t),
         accepted \subseteq accepted', mem.outbox \ mem'.outbox \subseteq accepted',
         dismissed \subseteq dismissed',
         \A u \in Turns \ dismissed' :
           /\ native'.status[u] = "running" /\ ThreadOf[u] \in native'.subscribed =>
                \A n \in 1..native'.produced[u] :
                  \/ /\ native.status[u] = "running" /\ ThreadOf[u] \in native.subscribed
                     /\ n \in 1..native.produced[u]
                  \/ \E j \in DOMAIN es : es[j] = ItemOf(AnswersOf[u][n])
           /\ \A k \in DOMAIN es : es[k] = [kind |-> "turn_completed", id |-> u] =>
                /\ native.status[u] = "running" /\ ThreadOf[u] \in native.subscribed
                /\ \A n \in DOMAIN AnswersOf[u] : n \in 1..native.produced[u]
  PROVE  AnswersComing'
<1>0. es \in Seq(ProperEvent) /\ events' = events \o es /\ EventsTyped
  BY DEF Says, DeliveryInv
<1>1. /\ \A i \in DOMAIN events : i \in DOMAIN events' /\ events'[i] = events[i]
      /\ \A j \in DOMAIN es : Len(events) + j \in DOMAIN events'
                              /\ events'[Len(events) + j] = es[j]
      /\ \A i \in DOMAIN events' :
              i \in DOMAIN events \/ \E j \in DOMAIN es : i = Len(events) + j
      /\ DOMAIN es = 1..Len(es) /\ Len(es) \in Nat
      /\ DOMAIN events = 1..Len(events) /\ Len(events) \in Nat
  BY <1>0, Appended, EventsPlaces
<1>2. \A id : InHand(mem, id) => InHand(mem, id)'
  BY HandsKept
<1>3. ASSUME NEW u \in Turns \ dismissed', native'.status[u] = "running",
             ThreadOf[u] \in native'.subscribed, NEW n \in 1..native'.produced[u]
      PROVE  \/ InHand(mem, AnswersOf[u][n])'
             \/ \E j \in DOMAIN events' : events'[j] = ItemOf(AnswersOf[u][n])
  <2>1. CASE /\ native.status[u] = "running" /\ ThreadOf[u] \in native.subscribed
             /\ n \in 1..native.produced[u]
    <3>1. \/ InHand(mem, AnswersOf[u][n])
          \/ \E j \in DOMAIN events : events[j] = ItemOf(AnswersOf[u][n])
      BY <1>3, <2>1 DEF AnswersComing
    <3> QED BY <1>1, <1>2, <3>1
  <2>2. CASE \E j \in DOMAIN es : es[j] = ItemOf(AnswersOf[u][n])
    BY <1>1, <2>2
  <2> QED BY <1>3, <2>1, <2>2
<1>4. ASSUME NEW u \in Turns \ dismissed', NEW k \in DOMAIN events',
             events'[k] = [kind |-> "turn_completed", id |-> u], NEW n \in DOMAIN AnswersOf[u]
      PROVE  \/ InHand(mem, AnswersOf[u][n])'
             \/ \E j \in 1..(k - 1) : events'[j] = ItemOf(AnswersOf[u][n])
  <2>1. CASE k \in DOMAIN events
    <3>1. \/ InHand(mem, AnswersOf[u][n])
          \/ \E j \in 1..(k - 1) : events[j] = ItemOf(AnswersOf[u][n])
      BY <1>1, <1>4, <2>1 DEF AnswersComing
    <3>2. \A j \in 1..(k - 1) : j \in DOMAIN events
      BY <1>1, <2>1
    <3> QED BY <1>1, <1>2, <3>1, <3>2
  <2>2. CASE \E j \in DOMAIN es : k = Len(events) + j
    <3>1. PICK j \in DOMAIN es : k = Len(events) + j
      BY <2>2
    <3>2. /\ native.status[u] = "running" /\ ThreadOf[u] \in native.subscribed
          /\ n \in 1..native.produced[u]
      BY <1>1, <1>4, <3>1
    <3>3. \/ InHand(mem, AnswersOf[u][n])
          \/ \E i \in DOMAIN events : events[i] = ItemOf(AnswersOf[u][n])
      BY <1>4, <3>2 DEF AnswersComing
    <3>4. \A i \in DOMAIN events : i \in 1..(k - 1)
      BY <1>1, <3>1
    <3> QED BY <1>1, <1>2, <3>3, <3>4
  <2> QED BY <1>1, <2>1, <2>2
<1> QED BY <1>3, <1>4 DEF AnswersComing

QueueRest ==
  /\ ~native.conn => native.subscribed = {}
  /\ \A t \in Turns \ dismissed :
       ThreadOf[t] \in native.subscribed => Bound(mem, ThreadOf[t])
  /\ ready.phase = "resume" =>
       \A r \in ready.routes : mem.binding[r] \notin native.subscribed

LEMMA QueueParts ==
  /\ QueueInv <=> QueueTrue /\ QueueRest
  /\ QueueTrue' /\ QueueRest' => QueueInv'
BY DEF QueueInv, QueueTrue, QueueRest, EventTurn

LEMMA NativeGoes ==
  ASSUME DeliveryInv, DeliveryInv', NativeInv, GoesOn,
         \A t \in Turns :
           /\ native'.status[t] \in {"starting", "running"} =>
                \/ native.status[t] \in {"starting", "running"}
                \/ \A u \in Turns : ThreadOf[u] = ThreadOf[t] =>
                     /\ native.status[u] \notin {"starting", "running"}
                     /\ u # t => native'.status[u] = native.status[u]
           /\ native'.status[t] \in {"new", "starting"} =>
                /\ native.status[t] \in {"new", "starting"}
                /\ native'.produced[t] = native.produced[t],
         \A t \in mem'.watches \cup disk'.watches \cup svc'.active :
           \/ t \in mem.watches \cup disk.watches \cup svc.active
           \/ native'.status[t] \in {"running", "done"},
         \A t \in svc'.recovered \cup ready'.found \cup ready'.turns :
           \/ t \in svc.recovered \cup ready.found \cup ready.turns
           \/ native'.status[t] = "done",
         lane'.who = "recover" => lane.who = "recover" /\ lane'.id = lane.id
  PROVE  NativeInv'
<1>0. /\ mem'.watches \subseteq Turns /\ disk'.watches \subseteq Turns /\ svc'.active \subseteq Turns
      /\ svc'.recovered \cup ready'.found \cup ready'.turns \subseteq Turns
      /\ lane.who = "recover" => TurnOf(lane.id) \in Turns
  BY TypeParts, TurnOfIds DEF DeliveryInv, TypeOK, Store, Service, LaneTyped
<1>1. \A t, u \in Turns :
        /\ ThreadOf[t] = ThreadOf[u]
        /\ native'.status[t] \in {"starting", "running"}
        /\ native'.status[u] \in {"starting", "running"}
        => t = u
  BY DEF NativeInv
<1>2. \A t \in Turns :
        native'.status[t] \in {"new", "starting"} => native'.produced[t] = 0
  BY DEF NativeInv
<1>3. \A t \in mem'.watches \cup disk'.watches \cup svc'.active :
        native'.status[t] \in {"running", "done"}
  BY <1>0 DEF NativeInv, GoesOn
<1>4. \A t \in svc'.recovered \cup ready'.found \cup ready'.turns : native'.status[t] = "done"
  BY <1>0 DEF NativeInv, GoesOn
<1>5. lane'.who = "recover" => native'.status[TurnOf(lane'.id)] = "done"
  BY <1>0 DEF NativeInv, GoesOn
<1> QED BY <1>1, <1>2, <1>3, <1>4, <1>5 DEF NativeInv

(* What the notifications of native say of t. *)
LEMMA ItemsSay ==
  ASSUME NEW t \in Turns, NEW n \in Nat, n <= Len(AnswersOf[t])
  PROVE  /\ Items(t, n) \in Seq(ProperEvent) /\ DOMAIN Items(t, n) = 1..n
         /\ \A j \in 1..n : /\ Items(t, n)[j] = ItemOf(AnswersOf[t][j])
                            /\ TurnOf(Items(t, n)[j].id) = t
                            /\ Items(t, n)[j].kind = "item_completed"
<1>1. /\ Items(t, n) \in Seq(ProperEvent) /\ Len(Items(t, n)) = n
      /\ \A i \in 1..n : Items(t, n)[i] = ItemOf(AnswersOf[t][i])
  BY ItemsProper
<1>2. DOMAIN AnswersOf[t] = 1..Len(AnswersOf[t]) /\ Len(AnswersOf[t]) \in Nat
  BY StoreAssumption, LenProperties
<1>3. \A i \in 1..n : TurnOf(AnswersOf[t][i]) = t
  BY <1>2, TurnOfIds DEF Range
<1>4. DOMAIN Items(t, n) = 1..n
  BY <1>1, LenProperties
<1> QED BY <1>1, <1>3, <1>4 DEF ItemOf

LEMMA JoinedAre ==
  ASSUME NEW a \in Seq(ProperEvent), NEW b \in Seq(ProperEvent), NEW id,
         \A j \in DOMAIN a : a[j].id = id, \A j \in DOMAIN b : b[j].id = id
  PROVE  a \o b \in Seq(ProperEvent) /\ \A j \in DOMAIN (a \o b) : (a \o b)[j].id = id
<1>1. /\ DOMAIN a = 1..Len(a) /\ Len(a) \in Nat /\ DOMAIN b = 1..Len(b) /\ Len(b) \in Nat
  BY LenProperties
<1> DEFINE c == a \o b
<1>2. /\ c \in Seq(ProperEvent) /\ Len(c) = Len(a) + Len(b)
      /\ \A i \in 1..(Len(a) + Len(b)) : c[i] = IF i <= Len(a) THEN a[i] ELSE b[i - Len(a)]
  BY ConcatProperties
<1> HIDE DEF c
<1>3. DOMAIN c = 1..(Len(a) + Len(b))
  BY <1>2, LenProperties
<1>4. ASSUME NEW j \in DOMAIN c PROVE c[j].id = id
  <2>1. j \in DOMAIN a \/ (j - Len(a) \in DOMAIN b /\ ~(j <= Len(a)))
    BY <1>1, <1>3
  <2>2. CASE j \in DOMAIN a
    BY <1>1, <1>2, <1>3, <2>2
  <2>3. CASE j - Len(a) \in DOMAIN b /\ ~(j <= Len(a))
    BY <1>2, <1>3, <2>3
  <2> QED BY <2>1, <2>2, <2>3
<1> QED BY <1>2, <1>4 DEF c

LEMMA NativeSays ==
  ASSUME TurnBooks, NEW t \in Turns, Produce(t) \/ EndTurn(t)
  PROVE  \E es \in Seq(ProperEvent), said \in Seq(ProperEvent) :
           /\ said = IF ThreadOf[t] \in native.subscribed THEN es ELSE <<>>
           /\ Says(said, t)
           /\ native'.subscribed = native.subscribed /\ native'.conn = native.conn
           /\ \A u \in Turns : u # t => native'.status[u] = native.status[u]
                                      /\ native'.produced[u] = native.produced[u]
           /\ \A j \in DOMAIN es : TurnOf(es[j].id) = t
           /\ \A j, k \in DOMAIN es : j < k => es[j].kind # "turn_completed"
           /\ \/ /\ native'.status[t] = "running"
                 /\ native'.produced[t] = native.produced[t] + 1
                 /\ es = <<ItemOf(AnswersOf[t][native.produced[t] + 1])>>
                 /\ \A j \in DOMAIN es : es[j].kind = "item_completed"
              \/ /\ native'.status[t] = "done" /\ native'.produced[t] = native.produced[t]
                 /\ native.produced[t] = Len(AnswersOf[t])
                 /\ \A j \in DOMAIN es : es[j].id = t
<1>0. NativeTyped /\ EventsTyped
  BY TypeParts DEF TurnBooks, DeliveryInv
<1>1. native.status[t] = "running"
  BY DEF Produce, EndTurn
<1>2. DOMAIN AnswersOf[t] = 1..Len(AnswersOf[t]) /\ Len(AnswersOf[t]) \in Nat
      /\ native.produced[t] \in Nat
  BY <1>0, StoreAssumption, LenProperties DEF NativeTyped
<1>3. PICK es : /\ es \in Seq(ProperEvent) /\ Send(es, ThreadOf[t])
                /\ native'.subscribed = native.subscribed /\ native'.conn = native.conn
                /\ \A u \in Turns : u # t => native'.status[u] = native.status[u]
                                           /\ native'.produced[u] = native.produced[u]
                /\ \A j \in DOMAIN es : TurnOf(es[j].id) = t
                /\ \A j, k \in DOMAIN es : j < k => es[j].kind # "turn_completed"
                /\ \/ /\ native'.status[t] = "running"
                      /\ native'.produced[t] = native.produced[t] + 1
                      /\ es = <<ItemOf(AnswersOf[t][native.produced[t] + 1])>>
                      /\ \A j \in DOMAIN es : es[j].kind = "item_completed"
                   \/ /\ native'.status[t] = "done" /\ native'.produced[t] = native.produced[t]
                      /\ native.produced[t] = Len(AnswersOf[t])
                      /\ \A j \in DOMAIN es : es[j].id = t
  <2>1. CASE Produce(t)
    <3> DEFINE n == native.produced[t] + 1
               e == <<ItemOf(AnswersOf[t][n])>>
    <3>1. n \in 1..Len(AnswersOf[t]) /\ Send(e, ThreadOf[t])
          /\ native' = [native EXCEPT !.produced[t] = n]
      BY <1>0, <1>2, <2>1 DEF Produce, ItemOf, NativeTyped
    <3>2. /\ native'.subscribed = native.subscribed /\ native'.conn = native.conn
          /\ \A u \in Turns : u # t => native'.status[u] = native.status[u]
                                     /\ native'.produced[u] = native.produced[u]
          /\ native'.status[t] = "running" /\ native'.produced[t] = n
      BY <1>0, <1>1, <3>1 DEF NativeTyped
    <3>3. AnswersOf[t][n] \in Answers /\ TurnOf(AnswersOf[t][n]) = t
      BY <1>2, <3>1, TurnOfIds DEF Range
    <3>4. ItemOf(AnswersOf[t][n]) \in ProperEvent
      BY <3>3 DEF ItemOf, ProperEvent
    <3>5. e \in Seq(ProperEvent) /\ DOMAIN e = {1} /\ e[1] = ItemOf(AnswersOf[t][n])
      BY <3>4
    <3>6. \A j \in DOMAIN e : TurnOf(e[j].id) = t /\ e[j].kind = "item_completed"
      BY <3>3, <3>5 DEF ItemOf
    <3> HIDE DEF n
    <3>7. e = <<ItemOf(AnswersOf[t][n])>>
      OBVIOUS
    <3> HIDE DEF e
    <3>8. n = native.produced[t] + 1
      BY DEF n
    <3>9. \A j, k \in DOMAIN e : ~(j < k)
      BY <3>5
    <3> QED BY <3>1, <3>2, <3>5, <3>6, <3>7, <3>8, <3>9
  <2>2. CASE EndTurn(t)
    <3> DEFINE first == IF t \in Reopening THEN <<[kind |-> "item_started", id |-> t]>>
                        ELSE <<>>
               e == first \o Completion(t)
    <3>1. Send(e, ThreadOf[t]) /\ native.produced[t] = Len(AnswersOf[t])
          /\ native' = [native EXCEPT !.status[t] = "done"]
      BY <2>2 DEF EndTurn
    <3>2. /\ native'.subscribed = native.subscribed /\ native'.conn = native.conn
          /\ \A u \in Turns : u # t => native'.status[u] = native.status[u]
                                     /\ native'.produced[u] = native.produced[u]
          /\ native'.status[t] = "done" /\ native'.produced[t] = native.produced[t]
      BY <1>0, <3>1 DEF NativeTyped
    <3>3. /\ first \in Seq(ProperEvent) /\ \A j \in DOMAIN first : first[j].id = t
      <4>1. [kind |-> "item_started", id |-> t] \in ProperEvent
        BY DEF ProperEvent
      <4> QED BY <4>1
    <3> HIDE DEF first
    <3>4. /\ e \in Seq(ProperEvent) /\ \A j \in DOMAIN e : e[j].id = t
      <4> DEFINE end == Completion(t)
      <4>1. end \in Seq(ProperEvent) /\ Len(end) = 1 /\ end[1] = [kind |-> "turn_completed", id |-> t]
        BY CompletionProper
      <4> HIDE DEF end
      <4>2. \A j \in DOMAIN end : end[j].id = t
        BY <4>1, LenProperties
      <4>3. /\ first \o end \in Seq(ProperEvent)
            /\ \A j \in DOMAIN (first \o end) : (first \o end)[j].id = t
        BY <3>3, <4>1, <4>2, JoinedAre
      <4>4. e = first \o end
        BY DEF end
      <4> QED BY <4>3, <4>4
    <3>5. TurnOf(t) = t
      BY TurnOfIds
    <3>6. \A j, k \in DOMAIN e : j < k => e[j].kind # "turn_completed"
      <4>1. CASE t \in Reopening
        <5> DEFINE a == [kind |-> "item_started", id |-> t]
                   b == [kind |-> "turn_completed", id |-> t]
        <5>1. e = <<a>> \o <<b>> /\ a.kind = "item_started"
          BY <4>1 DEF first, Completion
        <5> HIDE DEF e, a, b
        <5>2. DOMAIN e = {1, 2} /\ e[1].kind = "item_started"
          BY <5>1
        <5>3. \A j, k \in {1, 2} : j < k => j = 1
          OBVIOUS
        <5> QED BY <5>2, <5>3
      <4>2. CASE t \notin Reopening
        <5>1. e = <<[kind |-> "turn_completed", id |-> t]>>
          BY <4>2 DEF first, Completion
        <5> HIDE DEF e
        <5>2. DOMAIN e = {1} /\ \A j, k \in {1} : ~(j < k)
          BY <5>1
        <5> QED BY <5>2
      <4> QED BY <4>1, <4>2
    <3> HIDE DEF e
    <3> QED BY <3>1, <3>2, <3>4, <3>5, <3>6
  <2> QED BY <2>1, <2>2
<1>4. PICK said \in Seq(ProperEvent) :
        /\ said = IF ThreadOf[t] \in native.subscribed THEN es ELSE <<>>
        /\ Says(said, t)
  <2>1. CASE ThreadOf[t] \in native.subscribed
    BY <1>1, <1>3, <2>1 DEF Says, Send
  <2>2. CASE ThreadOf[t] \notin native.subscribed
    <3>1. Says(<<>>, t) /\ <<>> \in Seq(ProperEvent)
      BY <1>0, <1>3, <2>2, NothingSaid DEF Send
    <3> QED BY <2>2, <3>1
  <2> QED BY <2>1, <2>2
<1> QED BY <1>3, <1>4

LEMMA NativeTurns ==
  ASSUME TurnBooks, DeliveryInv', NEW t \in Turns, Produce(t) \/ EndTurn(t)
  PROVE  TurnBooks'
<1>0. /\ DeliveryInv /\ NativeTyped /\ EventsTyped /\ NativeInv /\ QueueTrue /\ QueueRest
      /\ AnswersComing /\ svc.suppressed \subseteq Turns
  BY TypeParts, QueueParts DEF TurnBooks, TurnsInv, DeliveryInv, TypeOK, Service
<1>1. /\ UNCHANGED <<mem, disk, svc, lane, ready, accepted, promised, dismissed>>
      /\ native.status[t] = "running"
  BY DEF Produce, EndTurn
<1>2. DOMAIN AnswersOf[t] = 1..Len(AnswersOf[t]) /\ Len(AnswersOf[t]) \in Nat
      /\ native.produced[t] \in Nat
  BY <1>0, StoreAssumption, LenProperties DEF NativeTyped
<1>3. PICK es \in Seq(ProperEvent), said \in Seq(ProperEvent) :
        /\ said = IF ThreadOf[t] \in native.subscribed THEN es ELSE <<>>
        /\ Says(said, t)
        /\ native'.subscribed = native.subscribed /\ native'.conn = native.conn
        /\ \A u \in Turns : u # t => native'.status[u] = native.status[u]
                                   /\ native'.produced[u] = native.produced[u]
        /\ \A j \in DOMAIN es : TurnOf(es[j].id) = t
        /\ \A j, k \in DOMAIN es : j < k => es[j].kind # "turn_completed"
        /\ \/ /\ native'.status[t] = "running"
              /\ native'.produced[t] = native.produced[t] + 1
              /\ es = <<ItemOf(AnswersOf[t][native.produced[t] + 1])>>
              /\ \A j \in DOMAIN es : es[j].kind = "item_completed"
           \/ /\ native'.status[t] = "done" /\ native'.produced[t] = native.produced[t]
              /\ native.produced[t] = Len(AnswersOf[t])
              /\ \A j \in DOMAIN es : es[j].id = t
  BY NativeSays
<1>5. GoesOn
  BY <1>1, <1>3 DEF GoesOn
<1>6. NativeInv'
  <2>1. \A u \in Turns :
           /\ native'.status[u] \in {"starting", "running"} =>
                native.status[u] \in {"starting", "running"}
           /\ native'.status[u] \in {"new", "starting"} =>
                /\ native.status[u] \in {"new", "starting"}
                /\ native'.produced[u] = native.produced[u]
    BY <1>1, <1>3
  <2> QED BY <1>0, <1>1, <1>5, <2>1, NativeGoes
<1>7. QueueInv'
  <2>1. QueueTrue'
    BY <1>0, <1>1, <1>3, <1>5, QueueGrows
  <2>2. QueueRest'
    BY <1>0, <1>1, <1>3 DEF QueueRest
  <2> QED BY <2>1, <2>2, QueueParts
<1>8. AnswersComing'
  <2>1. ASSUME NEW u \in Turns \ dismissed', native'.status[u] = "running",
               ThreadOf[u] \in native'.subscribed, NEW n \in 1..native'.produced[u]
        PROVE  \/ /\ native.status[u] = "running" /\ ThreadOf[u] \in native.subscribed
                  /\ n \in 1..native.produced[u]
               \/ \E j \in DOMAIN said : said[j] = ItemOf(AnswersOf[u][n])
    <3>1. CASE u # t \/ n # native.produced[t] + 1
      BY <1>1, <1>2, <1>3, <2>1, <3>1
    <3>2. CASE u = t /\ n = native.produced[t] + 1
      <4>1. said = <<ItemOf(AnswersOf[t][native.produced[t] + 1])>>
        BY <1>2, <1>3, <2>1, <3>2
      <4>2. 1 \in DOMAIN said /\ said[1] = ItemOf(AnswersOf[u][n])
        BY <3>2, <4>1
      <4> QED BY <4>2
    <3> QED BY <3>1, <3>2
  <2>2. ASSUME NEW u \in Turns \ dismissed', NEW k \in DOMAIN said,
               said[k] = [kind |-> "turn_completed", id |-> u]
        PROVE  /\ native.status[u] = "running" /\ ThreadOf[u] \in native.subscribed
               /\ \A n \in DOMAIN AnswersOf[u] : n \in 1..native.produced[u]
    <3>1. said = es /\ ThreadOf[t] \in native.subscribed
      BY <1>3, <2>2
    <3>2. u = t /\ native.produced[t] = Len(AnswersOf[t])
      BY <1>3, <2>2, <3>1
    <3> QED BY <1>1, <1>2, <3>1, <3>2
  <2> QED BY <1>0, <1>1, <1>3, <2>1, <2>2, AnswersGrow
<1>9. ReceiptsTrue' /\ CompletedSettled'
  <2>1. Books
    BY <1>1, <1>5 DEF Books, GoesOn
  <2> QED BY <2>1, BooksKeep DEF TurnBooks, TurnsInv
<1> QED BY <1>6, <1>7, <1>8, <1>9 DEF TurnBooks, TurnsInv

(* The rest of a turn that native and the user begin, and of a connection. *)
LEMMA QuietEvents ==
  ASSUME TurnBooks, DeliveryInv', NativeInv', Books, GoesOn, UNCHANGED events,
         native.subscribed \subseteq native'.subscribed, svc'.suppressed \subseteq svc.suppressed,
         QueueRest',
         \A u \in Turns \ dismissed' :
           /\ native'.status[u] = "running" /\ ThreadOf[u] \in native'.subscribed =>
                \A n \in 1..native'.produced[u] :
                  /\ native.status[u] = "running" /\ ThreadOf[u] \in native.subscribed
                  /\ n \in 1..native.produced[u]
  PROVE  TurnBooks'
<1>0. /\ DeliveryInv /\ EventsTyped /\ QueueTrue /\ AnswersComing /\ svc.suppressed \subseteq Turns
  BY TypeParts, QueueParts DEF TurnBooks, TurnsInv, DeliveryInv, TypeOK, Service
<1>1. Says(<<>>, None) /\ DOMAIN <<>> = {}
  BY <1>0, NothingSaid
<1>2. QueueTrue'
  BY <1>0, <1>1, QueueGrows DEF Books
<1>3. AnswersComing'
  BY <1>0, <1>1, AnswersGrow DEF Books
<1> QED BY <1>2, <1>3, BooksKeep, QueueParts DEF TurnBooks, TurnsInv

LEMMA TurnBegins ==
  ASSUME TurnBooks, DeliveryInv', NEW t \in Turns, StartTurn(t) \/ Started(t)
  PROVE  TurnBooks'
<1>0. /\ DeliveryInv /\ NativeTyped /\ NativeInv /\ QueueRest /\ svc \in Service /\ Good(mem)
  BY TypeParts, QueueParts DEF TurnBooks, TurnsInv, DeliveryInv, TypeOK
<1>1. UNCHANGED <<disk, lane, ready, events, accepted, promised, dismissed>>
  BY DEF StartTurn, Started
<1>2. CASE StartTurn(t)
  <2>1. /\ native.conn /\ ready.phase = "idle" /\ Bound(mem, ThreadOf[t])
        /\ native.status[t] = "new" /\ UNCHANGED <<mem, svc>>
        /\ \A u \in Turns :
             ThreadOf[u] = ThreadOf[t] => native.status[u] \notin {"starting", "running"}
        /\ native' = [native EXCEPT !.status[t] = "starting",
                                    !.subscribed = native.subscribed \cup {ThreadOf[t]}]
    BY <1>0, <1>2 DEF StartTurn, CommandsRun, NativeTyped
  <2>2. /\ native'.conn = native.conn /\ native'.produced = native.produced
        /\ native'.subscribed = native.subscribed \cup {ThreadOf[t]}
        /\ \A u \in Turns : u # t => native'.status[u] = native.status[u]
        /\ native'.status[t] = "starting"
    BY <1>0, <2>1 DEF NativeTyped
  <2>3. GoesOn
    BY <2>1, <2>2 DEF GoesOn
  <2>4. NativeInv'
    BY <1>0, <1>1, <2>1, <2>2, <2>3, NativeGoes
  <2>5. Books
    BY <1>1, <2>1, <2>3 DEF Books, GoesOn
  <2>6. QueueRest'
    BY <1>0, <1>1, <2>1, <2>2 DEF QueueRest
  <2>7. \A u \in Turns \ dismissed' :
           /\ native'.status[u] = "running" /\ ThreadOf[u] \in native'.subscribed =>
                \A n \in 1..native'.produced[u] :
                  /\ native.status[u] = "running" /\ ThreadOf[u] \in native.subscribed
                  /\ n \in 1..native.produced[u]
    BY <2>1, <2>2
  <2> QED BY <1>1, <2>1, <2>2, <2>3, <2>4, <2>5, <2>6, <2>7, QuietEvents
<1>3. CASE Started(t)
  <2>1. /\ native.status[t] = "starting" /\ svc' = NoteActive(svc, t) /\ mem' = Watch(mem, t)
        /\ native' = [native EXCEPT !.status[t] = "running"]
    BY <1>3 DEF Started
  <2>2. /\ native'.conn = native.conn /\ native'.produced = native.produced
        /\ native'.subscribed = native.subscribed
        /\ \A u \in Turns : u # t => native'.status[u] = native.status[u]
        /\ native'.status[t] = "running"
    BY <1>0, <2>1 DEF NativeTyped
  <2>3. GoesOn
    BY <2>1, <2>2 DEF GoesOn
  <2>4. /\ mem'.outbox = mem.outbox /\ mem'.binding = mem.binding /\ mem'.acks = mem.acks
        /\ mem.watches \subseteq mem'.watches /\ mem'.watches \subseteq mem.watches \cup {t}
    BY <1>0, <2>1, WatchKeeps
  <2>5. /\ svc'.known = svc.known /\ svc'.completed = svc.completed
        /\ svc'.visible = svc.visible /\ svc'.recovered = svc.recovered
        /\ svc'.active \subseteq svc.active \cup {t} /\ svc'.suppressed \subseteq svc.suppressed
    BY <1>0, <2>1, ServiceOps
  <2>6. NativeInv'
    BY <1>0, <1>1, <2>1, <2>2, <2>3, <2>4, <2>5, NativeGoes
  <2>7. Books
    BY <1>1, <2>3, <2>4, <2>5 DEF Books, GoesOn
  <2>8. QueueRest'
    BY <1>0, <1>1, <2>2, <2>4 DEF QueueRest, Bound
  <2>9. \A u \in Turns \ dismissed' :
           /\ native'.status[u] = "running" /\ ThreadOf[u] \in native'.subscribed =>
                \A n \in 1..native'.produced[u] :
                  /\ native.status[u] = "running" /\ ThreadOf[u] \in native.subscribed
                  /\ n \in 1..native.produced[u]
    <3>1. native.produced[t] = 0
      BY <1>0, <2>1 DEF NativeInv
    <3>2. \A n \in 1..native.produced[t] : FALSE
      BY <3>1
    <3> QED BY <2>2, <3>2
  <2> QED BY <1>1, <2>2, <2>3, <2>5, <2>6, <2>7, <2>8, <2>9, QuietEvents
<1> QED BY <1>2, <1>3

LEMMA StopSays ==
  ASSUME TurnBooks, NEW t \in Turns, Stop(t)
  PROVE  \E es \in Seq(ProperEvent) : Says(es, t) /\ \A k \in DOMAIN es : es[k].id = t
<1>1. NativeTyped /\ EventsTyped
  BY TypeParts DEF TurnBooks, DeliveryInv
<1>2. native'.subscribed = native.subscribed /\ native'.status[t] = "done"
  BY <1>1 DEF Stop, NativeTyped
<1>3. CASE UNCHANGED events
  <2>1. Says(<<>>, t) /\ <<>> \in Seq(ProperEvent) /\ DOMAIN <<>> = {}
    BY <1>1, <1>3, NothingSaid
  <2> QED BY <2>1
<1>4. CASE native.status[t] = "running" /\ ThreadOf[t] \in native.subscribed
           /\ events' = events \o Completion(t)
  <2> DEFINE es == Completion(t)
  <2>1. es \in Seq(ProperEvent) /\ DOMAIN es = {1} /\ es[1].id = t
    BY CompletionProper, LenProperties DEF Completion
  <2>2. TurnOf(t) = t
    BY TurnOfIds
  <2>3. events' = events \o es
    BY <1>4
  <2> HIDE DEF es
  <2>4. Says(es, t)
    BY <1>2, <1>4, <2>1, <2>2, <2>3 DEF Says
  <2> QED BY <2>1, <2>4
<1> QED BY <1>3, <1>4 DEF Stop, Send

LEMMA TurnStops ==
  ASSUME TurnBooks, DeliveryInv', NEW t \in Turns, Stop(t)
  PROVE  TurnBooks'
<1>0. /\ DeliveryInv /\ NativeTyped /\ NativeInv /\ QueueRest /\ svc \in Service /\ Good(mem)
      /\ EventsTyped /\ QueueTrue /\ AnswersComing /\ svc'.suppressed \subseteq Turns
      /\ mem.watches \subseteq Turns
  BY TypeParts, QueueParts DEF TurnBooks, TurnsInv, DeliveryInv, TypeOK, Service, Store
<1>1. /\ UNCHANGED <<disk, lane, ready, accepted, promised>> /\ t \in svc.active
      /\ svc' = [svc EXCEPT !.suppressed = svc.suppressed \cup {t},
                            !.active = svc.active \ {t}]
      /\ mem' = Discard(mem, t) /\ dismissed' = dismissed \cup {t}
      /\ native' = [native EXCEPT !.status[t] = "done"]
      /\ ready.phase = "idle"
  BY <1>0 DEF Stop, Service, CommandsRun
<1>2. /\ native'.conn = native.conn /\ native'.produced = native.produced
      /\ native'.subscribed = native.subscribed
      /\ \A u \in Turns : u # t => native'.status[u] = native.status[u]
      /\ native'.status[t] = "done" /\ native.status[t] \in {"running", "done"}
  BY <1>0, <1>1 DEF NativeTyped, NativeInv
<1>3. GoesOn
  BY <1>2 DEF GoesOn
<1>4. /\ mem'.outbox = mem.outbox /\ mem'.binding = mem.binding /\ mem'.acks \subseteq mem.acks
      /\ mem'.watches = mem.watches \ {t}
  BY <1>0, <1>1, DiscardKeeps
<1>5. /\ svc'.known = svc.known /\ svc'.completed = svc.completed
      /\ svc'.visible = svc.visible /\ svc'.recovered = svc.recovered
      /\ svc'.active \subseteq svc.active /\ svc'.suppressed = svc.suppressed \cup {t}
  BY <1>0, <1>1 DEF Service
<1>6. NativeInv'
  BY <1>0, <1>1, <1>2, <1>3, <1>4, <1>5, NativeGoes
<1>7. Books
  BY <1>1, <1>3, <1>4, <1>5 DEF Books, GoesOn
<1>8. QueueRest'
  BY <1>0, <1>1, <1>2, <1>4 DEF QueueRest, Bound
<1>9. PICK es \in Seq(ProperEvent) : Says(es, t) /\ \A k \in DOMAIN es : es[k].id = t
  BY StopSays
<1>10. QueueTrue'
  BY <1>0, <1>1, <1>2, <1>3, <1>5, <1>9, QueueGrows
<1>11. AnswersComing'
  <2>1. \A u \in Turns \ dismissed' :
          /\ native'.status[u] = "running" /\ ThreadOf[u] \in native'.subscribed =>
               \A n \in 1..native'.produced[u] :
                 /\ native.status[u] = "running" /\ ThreadOf[u] \in native.subscribed
                 /\ n \in 1..native.produced[u]
          /\ \A k \in DOMAIN es : es[k] # [kind |-> "turn_completed", id |-> u]
    BY <1>1, <1>2, <1>9
  <2> QED BY <1>0, <1>1, <1>4, <1>9, <2>1, AnswersGrow
<1> QED BY <1>0, <1>6, <1>7, <1>8, <1>10, <1>11, BooksKeep, QueueParts DEF TurnBooks, TurnsInv

LEMMA ConnectionTurns ==
  ASSUME TurnBooks, DeliveryInv', Connect \/ LoseConnection
  PROVE  TurnBooks'
<1>0. /\ DeliveryInv /\ NativeTyped /\ NativeInv /\ QueueTrue /\ QueueRest /\ AnswersComing
      /\ svc.suppressed \subseteq Turns
  BY TypeParts, QueueParts DEF TurnBooks, TurnsInv, DeliveryInv, TypeOK, Service
<1>1. UNCHANGED <<mem, disk, svc, accepted, promised, dismissed>>
  BY DEF Connect, LoseConnection
<1>2. CASE Connect
  <2>1. /\ ~native.conn /\ native' = [native EXCEPT !.conn = TRUE]
        /\ ready' = [Idle EXCEPT !.phase = "resume", !.routes = Routes]
        /\ UNCHANGED <<lane, events>>
    BY <1>2 DEF Connect
  <2>2. /\ native'.subscribed = {} /\ native'.status = native.status
        /\ native'.produced = native.produced /\ native.subscribed = {}
    BY <1>0, <2>1 DEF NativeTyped, QueueRest
  <2>3. ready'.found = {} /\ ready'.turns = {}
    BY <2>1 DEF Idle
  <2>4. GoesOn
    BY <2>2 DEF GoesOn
  <2>5. NativeInv'
    BY <1>0, <1>1, <2>1, <2>2, <2>3, <2>4, NativeGoes
  <2>6. Books
    BY <1>1, <2>1, <2>4 DEF Books, GoesOn
  <2>7. QueueRest'
    BY <2>2 DEF QueueRest
  <2> QED BY <1>1, <2>1, <2>2, <2>4, <2>5, <2>6, <2>7, QuietEvents
<1>3. CASE LoseConnection
  <2>1. /\ events' = <<>> /\ UNCHANGED ready /\ (lane' = lane \/ lane' = Free)
        /\ native' = [native EXCEPT !.conn = FALSE, !.subscribed = {},
             !.status = [t \in Turns |-> IF @[t] = "starting" THEN "running" ELSE @[t]]]
    BY <1>3 DEF LoseConnection
  <2>2. /\ native'.subscribed = {} /\ native'.produced = native.produced
        /\ \A t \in Turns : native'.status[t] =
              IF native.status[t] = "starting" THEN "running" ELSE native.status[t]
    BY <1>0, <2>1, StatusAfterLoss
  <2>3. lane' = lane \/ lane'.who = "free"
    BY <2>1 DEF Free
  <2>4. GoesOn
    BY <2>2 DEF GoesOn
  <2>5. NativeInv'
    BY <1>0, <1>1, <2>1, <2>2, <2>3, <2>4, NativeGoes
  <2>6. Books
    BY <1>1, <2>3, <2>4 DEF Books, GoesOn
  <2>7. QueueInv'
    <3>1. DOMAIN events' = {}
      BY <2>1
    <3>2. QueueRest'
      BY <2>2 DEF QueueRest
    <3>3. QueueTrue'
      BY <1>0, <1>1, <2>4, <3>1 DEF QueueTrue, GoesOn
    <3> QED BY <3>2, <3>3, QueueParts
  <2>8. AnswersComing'
    BY <2>1, <2>2 DEF AnswersComing
  <2> QED BY <2>5, <2>6, <2>7, <2>8, BooksKeep DEF TurnBooks, TurnsInv
<1> QED BY <1>2, <1>3

LEMMA CrashTurns ==
  ASSUME TurnBooks, DeliveryInv', Crash
  PROVE  TurnBooks'
<1>0. /\ DeliveryInv /\ NativeTyped /\ NativeInv /\ ReceiptsTrue /\ CompletedSettled
      /\ Good(disk) /\ svc.suppressed \subseteq Turns /\ promised \subseteq Turns
  BY TypeParts DEF TurnBooks, TurnsInv, DeliveryInv, TypeOK, Service
<1>1. /\ events' = <<>> /\ ready' = Idle /\ lane' = Free /\ svc' = FreshService
      /\ mem' = Loaded(disk) /\ UNCHANGED <<disk, accepted, promised, dismissed>>
      /\ native' = [native EXCEPT !.conn = FALSE, !.subscribed = {},
           !.status = [t \in Turns |-> IF @[t] = "starting" THEN "running" ELSE @[t]]]
  BY DEF Crash
<1>2. /\ native'.subscribed = {} /\ native'.produced = native.produced
      /\ \A t \in Turns : native'.status[t] =
            IF native.status[t] = "starting" THEN "running" ELSE native.status[t]
  BY <1>0, <1>1, StatusAfterLoss
<1>3. /\ mem'.outbox = disk.outbox /\ mem'.watches = disk.watches
      /\ mem'.acks \subseteq disk.acks
  BY <1>0, <1>1, LoadedKeeps
<1>4. /\ lane'.who = "free" /\ ready'.found = {} /\ ready'.turns = {} /\ ready'.phase = "idle"
      /\ svc'.known = {} /\ svc'.completed = {} /\ svc'.visible = {} /\ svc'.recovered = {}
      /\ svc'.active = {} /\ svc'.suppressed = {}
  BY <1>1 DEF Free, Idle, FreshService
<1>5. GoesOn
  BY <1>2 DEF GoesOn
<1>6. NativeInv'
  BY <1>0, <1>1, <1>2, <1>3, <1>4, <1>5, NativeGoes
<1>7. ReceiptsTrue'
  BY <1>0, <1>1, <1>3, <1>4 DEF ReceiptsTrue
<1>8. CompletedSettled'
  <2>1. ASSUME NEW t \in promised \ dismissed PROVE t \in disk.watches \/ (Settled(mem, t)' /\ Settled(disk, t)')
    <3>1. CASE Settled(disk, t)
      <4>1. native'.status[t] = "done"
        BY <1>0, <1>2, <2>1, <3>1 DEF Settled
      <4>2. \A id \in OwedIds(t) : InHand(mem, id)' /\ InHand(disk, id)'
        BY <1>1, <1>3, <3>1 DEF Settled, InHand, IdsIn
      <4> QED BY <4>1, <4>2 DEF Settled
    <3> QED BY <1>0, <2>1, <3>1 DEF CompletedSettled
  <2> QED BY <1>1, <1>3, <1>4, <2>1 DEF CompletedSettled
<1>9. QueueInv'
  <2>1. DOMAIN events' = {}
    BY <1>1
  <2>2. QueueRest' /\ QueueTrue'
    BY <1>2, <1>4, <2>1 DEF QueueRest, QueueTrue
  <2> QED BY <2>2, QueueParts
<1>10. AnswersComing'
  BY <1>1, <1>2 DEF AnswersComing
<1> QED BY <1>6, <1>7, <1>8, <1>9, <1>10 DEF TurnBooks, TurnsInv

(* A resume that subscribes a thread replays what its running turn has     *)
(* said, and nothing of other turns.                                       *)
Replayed(es, t, th) ==
  /\ Says(es, t) /\ \A k \in DOMAIN es : es[k].kind = "item_completed"
  /\ es # <<>> => t \in Running(th)
  /\ \A u \in Running(th) : \A n \in 1..native.produced[u] :
       th \notin native.subscribed =>
         \E j \in DOMAIN es : es[j] = ItemOf(AnswersOf[u][n])

LEMMA ReplaySays ==
  ASSUME TurnBooks, Replays = {"running"}, NEW th, ReplaysRunning(th),
         native' = [native EXCEPT !.subscribed = native.subscribed \cup {th}]
  PROVE  \E es \in Seq(ProperEvent) : \E t : Replayed(es, t, th)
<1>1. /\ NativeTyped /\ EventsTyped /\ NativeInv
  BY TypeParts DEF TurnBooks, TurnsInv, DeliveryInv
<1>2. /\ native'.subscribed = native.subscribed \cup {th} /\ native'.status = native.status
  BY <1>1 DEF NativeTyped
<1>3. CASE Running(th) = {} \/ th \in native.subscribed
  <2>1. Says(<<>>, None) /\ <<>> \in Seq(ProperEvent) /\ DOMAIN <<>> = {}
    BY <1>1, <1>3, NothingSaid DEF ReplaysRunning
  <2>2. Replayed(<<>>, None, th)
    BY <1>3, <2>1 DEF Replayed
  <2> QED BY <2>1, <2>2
<1>4. CASE Running(th) # {} /\ th \notin native.subscribed
  <2> DEFINE t == CHOOSE t \in Running(th) : TRUE
             n == native.produced[t]
             es == Items(t, n)
  <2>1. t \in Running(th)
    BY <1>4
  <2>7. events' = events \o es
    <3>1. "running" \in Replays
      OBVIOUS
    <3> QED BY <1>4, <3>1, Zenon DEF ReplaysRunning
  <2> HIDE DEF t
  <2>2. t \in Turns /\ native.status[t] = "running" /\ ThreadOf[t] = th
        /\ \A u \in Running(th) : u = t
    BY <1>1, <2>1 DEF Running, NativeInv
  <2>3. n \in Nat /\ n <= Len(AnswersOf[t])
    BY <1>1, <2>2 DEF NativeTyped, EventsTyped
  <2> HIDE DEF n
  <2>4. /\ es \in Seq(ProperEvent) /\ DOMAIN es = 1..n
        /\ \A j \in 1..n : /\ es[j] = ItemOf(AnswersOf[t][j])
                           /\ TurnOf(es[j].id) = t /\ es[j].kind = "item_completed"
    BY <2>2, <2>3, ItemsSay
  <2> HIDE DEF es
  <2>5. Says(es, t)
    BY <1>2, <2>2, <2>4, <2>7 DEF Says
  <2>6. \A u \in Running(th) : \A m \in 1..native.produced[u] :
           \E j \in DOMAIN es : es[j] = ItemOf(AnswersOf[u][m])
    BY <2>2, <2>4 DEF n
  <2>8. Replayed(es, t, th)
    BY <2>1, <2>4, <2>5, <2>6 DEF Replayed
  <2> QED BY <2>4, <2>8
<1> QED BY <1>3, <1>4

LEMMA ReplayTurns ==
  ASSUME TurnBooks, DeliveryInv', Replays = {"running"}, NEW th, ReplaysRunning(th),
         native' = [native EXCEPT !.subscribed = native.subscribed \cup {th}],
         Books, NativeInv', QueueRest', svc'.suppressed \subseteq Turns,
         \A u \in svc'.suppressed \ dismissed' :
           u \in svc.suppressed \/ (native.status[u] = "done"
                                    /\ ThreadOf[u] \notin native.subscribed)
  PROVE  TurnBooks'
<1>0. /\ DeliveryInv /\ NativeTyped /\ EventsTyped /\ NativeInv /\ QueueTrue /\ AnswersComing
  BY TypeParts, QueueParts DEF TurnBooks, TurnsInv, DeliveryInv
<1>1. /\ native'.conn = native.conn /\ native'.produced = native.produced
      /\ native'.subscribed = native.subscribed \cup {th} /\ native'.status = native.status
  BY <1>0 DEF NativeTyped
<1>2. GoesOn
  BY <1>1 DEF GoesOn
<1>3a. PICK es \in Seq(ProperEvent) : \E t : Replayed(es, t, th)
  BY ReplaySays
<1>3b. PICK t : Replayed(es, t, th)
  BY <1>3a
<1>3. /\ es \in Seq(ProperEvent)
      /\ Says(es, t) /\ \A k \in DOMAIN es : es[k].kind = "item_completed"
      /\ \A u \in Running(th) : \A n \in 1..native.produced[u] :
           th \notin native.subscribed =>
             \E j \in DOMAIN es : es[j] = ItemOf(AnswersOf[u][n])
  BY <1>3a, <1>3b DEF Replayed
<1>4. QueueTrue'
  BY <1>0, <1>1, <1>2, <1>3, QueueGrows DEF Books
<1>5. AnswersComing'
  <2>1. ASSUME NEW u \in Turns \ dismissed', native'.status[u] = "running",
               ThreadOf[u] \in native'.subscribed, NEW n \in 1..native'.produced[u]
        PROVE  \/ /\ native.status[u] = "running" /\ ThreadOf[u] \in native.subscribed
                  /\ n \in 1..native.produced[u]
               \/ \E j \in DOMAIN es : es[j] = ItemOf(AnswersOf[u][n])
    <3>1. CASE ThreadOf[u] \in native.subscribed
      BY <1>1, <2>1, <3>1
    <3>2. CASE ThreadOf[u] = th /\ th \notin native.subscribed
      <4>1. u \in Running(th)
        BY <1>1, <2>1, <3>2 DEF Running
      <4> QED BY <1>1, <1>3, <2>1, <3>2, <4>1
    <3> QED BY <1>1, <2>1, <3>1, <3>2
  <2>2. \A u \in Turns \ dismissed', k \in DOMAIN es :
          es[k] # [kind |-> "turn_completed", id |-> u]
    BY <1>3
  <2> QED BY <1>0, <1>3, <2>1, <2>2, AnswersGrow DEF Books
<1> QED BY <1>0, <1>4, <1>5, BooksKeep, QueueParts DEF TurnBooks, TurnsInv

LEMMA SelectTurns ==
  ASSUME TurnBooks, DeliveryInv', Replays = {"running"},
         NEW r \in Routes, NEW th \in Threads, Select(r, th)
  PROVE  TurnBooks'
<1>0. /\ DeliveryInv /\ NativeTyped /\ NativeInv /\ QueueRest /\ svc \in Service /\ Good(mem)
      /\ mem.watches \subseteq Turns /\ svc.suppressed \subseteq Turns
      /\ th # None
  <2>1. DeliveryInv /\ NativeInv /\ QueueRest /\ Good(mem) /\ TypeOK
    BY QueueParts DEF TurnBooks, TurnsInv, DeliveryInv
  <2>2. NativeTyped /\ svc \in Service /\ mem \in Store
    BY <2>1, TypeParts
  <2>3. th # None
    BY StoreAssumption
  <2> QED BY <2>1, <2>2, <2>3 DEF Service, Store
<1>1. /\ UNCHANGED <<disk, lane, ready, accepted, promised>> /\ ReplaysRunning(th)
      /\ dismissed' = dismissed \cup TurnsOf(mem.binding[r])
      /\ native' = [native EXCEPT !.subscribed = native.subscribed \cup {th}]
      /\ ready.phase = "idle" /\ native.conn
  BY <1>0 DEF Select, CommandsRun, NativeTyped
<1>2. /\ native'.conn = native.conn /\ native'.produced = native.produced
      /\ native'.subscribed = native.subscribed \cup {th} /\ native'.status = native.status
  BY <1>0, <1>1 DEF NativeTyped
<1> DEFINE s == Bind(mem, r, th)
<1>3. /\ Good(s) /\ s.outbox = mem.outbox /\ s.acks \subseteq mem.acks
      /\ \A q \in Routes : s.binding[q] =
              IF q = r THEN th ELSE IF mem.binding[q] = th THEN None ELSE mem.binding[q]
      /\ s.watches \subseteq mem.watches
      /\ \A t \in mem.watches : ThreadOf[t] # mem.binding[r] => t \in s.watches
  BY <1>0, BindKeeps
<1> HIDE DEF s
<1>4. /\ mem'.outbox = s.outbox /\ mem'.binding = s.binding /\ mem'.acks = s.acks
      /\ s.watches \subseteq mem'.watches /\ mem'.watches \subseteq s.watches \cup Running(th)
      /\ svc'.known = svc.known /\ svc'.completed = svc.completed
      /\ svc'.visible = svc.visible /\ svc'.recovered = svc.recovered
      /\ svc'.active \subseteq svc.active \cup Running(th)
      /\ svc'.suppressed \subseteq svc.suppressed
  <2>1. CASE mem' = s /\ svc' = [svc EXCEPT !.active = @ \ TurnsOf(th)]
    BY <1>0, <2>1 DEF Service
  <2>2. CASE \E t \in Running(th) : mem' = Watch(s, t) /\ svc' = NoteActive(svc, t)
    <3>1. PICK t \in Running(th) : mem' = Watch(s, t) /\ svc' = NoteActive(svc, t)
      BY <2>2
    <3>2. t \in Turns
      BY DEF Running
    <3>3. /\ mem'.outbox = s.outbox /\ mem'.binding = s.binding /\ mem'.acks = s.acks
          /\ s.watches \subseteq mem'.watches /\ mem'.watches \subseteq s.watches \cup {t}
      BY <1>3, <3>1, <3>2, WatchKeeps
    <3>4. /\ svc'.known = svc.known /\ svc'.completed = svc.completed
          /\ svc'.visible = svc.visible /\ svc'.recovered = svc.recovered
          /\ svc'.active \subseteq svc.active \cup {t}
          /\ svc'.suppressed \subseteq svc.suppressed
      BY <1>0, <3>1, <3>2, ServiceOps
    <3> QED BY <3>1, <3>3, <3>4
  <2>3. IF Running(th) = {}
          THEN mem' = Bind(mem, r, th) /\ svc' = [svc EXCEPT !.active = @ \ TurnsOf(th)]
          ELSE \E t \in Running(th) : mem' = Watch(Bind(mem, r, th), t)
                                      /\ svc' = NoteActive(svc, t)
    BY Zenon DEF Select
  <2> QED BY <2>1, <2>2, <2>3 DEF s
<1>5. \A t \in Running(th) : t \in Turns /\ native'.status[t] = "running"
  BY <1>2 DEF Running
<1>6. GoesOn
  BY <1>2 DEF GoesOn
<1>7. NativeInv'
  BY <1>0, <1>1, <1>2, <1>3, <1>4, <1>5, <1>6, NativeGoes
<1>8. Books
  <2>1. \A t \in mem.watches \ mem'.watches : t \in dismissed'
    BY <1>0, <1>1, <1>3, <1>4 DEF TurnsOf
  <2> QED BY <1>1, <1>2, <1>3, <1>4, <2>1 DEF Books
<1>9. QueueRest'
  <2>1. ASSUME NEW t \in Turns \ dismissed', ThreadOf[t] \in native'.subscribed
        PROVE  Bound(mem', ThreadOf[t])
    <3>1. CASE ThreadOf[t] = th
      BY <1>3, <1>4, <3>1 DEF Bound
    <3>2. CASE ThreadOf[t] # th
      <4>1. Bound(mem, ThreadOf[t]) /\ ThreadOf[t] # mem.binding[r]
        BY <1>0, <1>1, <1>2, <2>1, <3>2 DEF QueueRest, TurnsOf
      <4> QED BY <1>3, <1>4, <3>2, <4>1 DEF Bound
    <3> QED BY <3>1, <3>2
  <2> QED BY <1>1, <1>2, <2>1 DEF QueueRest
<1> QED BY <1>0, <1>1, <1>4, <1>7, <1>8, <1>9, ReplayTurns

LEMMA ResumeTurns ==
  ASSUME TurnBooks, DeliveryInv', Replays = {"running"}, NEW r \in Routes, ResumeReturns(r)
  PROVE  TurnBooks'
<1> DEFINE th == mem.binding[r]
<1>0. /\ DeliveryInv /\ NativeTyped /\ NativeInv /\ QueueRest /\ Delivery /\ ReadyTyped
      /\ mem.watches \subseteq Turns /\ svc.active \subseteq Turns /\ Good(mem)
  BY TypeParts, QueueParts, DeliveryParts
     DEF TurnBooks, TurnsInv, DeliveryInv, TypeOK, Service, Store, Surroundings
<1>1. /\ UNCHANGED <<disk, lane, accepted, promised, dismissed>> /\ ReplaysRunning(th)
      /\ th # None /\ native.conn /\ ready.phase = "resume" /\ r \in ready.routes
      /\ native' = [native EXCEPT !.subscribed = native.subscribed \cup {th}]
  <2>1. native' = [native EXCEPT !.subscribed = @ \cup {mem.binding[r]}]
    BY Zenon DEF ResumeReturns
  <2>2. native' = [native EXCEPT !.subscribed = native.subscribed \cup {th}]
    BY <1>0, <2>1 DEF NativeTyped
  <2> QED BY <2>2, Zenon DEF ResumeReturns
<1>2. /\ ready'.phase = ready.phase /\ ready'.routes = ready.routes \ {r}
      /\ ready'.turns = ready.turns
  <2>1. PICK found, dropped : ready' = [ready EXCEPT !.routes = @ \ {r},
                                         !.found = found, !.dropped = dropped]
    BY Zenon DEF ResumeReturns
  <2> QED BY <1>0, <2>1 DEF ReadyTyped
<1>3. /\ mem'.outbox = mem.outbox /\ mem'.binding = mem.binding
      /\ mem'.acks = mem.acks /\ mem.watches \subseteq mem'.watches
      /\ mem'.watches \subseteq mem.watches \cup Running(th)
      /\ svc' \in Service /\ svc'.known = svc.known /\ svc'.completed = svc.completed
      /\ svc'.visible = svc.visible /\ svc'.recovered = svc.recovered
      /\ svc'.active \subseteq svc.active \cup Running(th)
      /\ \A t \in svc'.suppressed :
           \/ t \in svc.suppressed
           \/ t \in TurnsOf(th) \ Running(th) /\ (t \in mem'.watches \/ t \in svc.active)
      /\ \A t \in ready'.found : t \in ready.found
           \/ t \in (mem'.watches \cap TurnsOf(th)) \ Running(th)
  BY <1>0, ResumeReturnsTo
<1> HIDE DEF th
<1>4. /\ native'.conn = native.conn /\ native'.produced = native.produced
      /\ native'.subscribed = native.subscribed \cup {th} /\ native'.status = native.status
  BY <1>0, <1>1 DEF NativeTyped
<1>5. \A t \in Running(th) : t \in Turns /\ native'.status[t] = "running"
  BY <1>4 DEF Running
<1>6. \A t \in TurnsOf(th) \ Running(th) :
        (t \in mem'.watches \/ t \in svc.active) =>
          native.status[t] = "done" /\ t \in Turns /\ ThreadOf[t] = th
  BY <1>0, <1>3 DEF NativeInv, TurnsOf, Running
<1>7. GoesOn
  BY <1>4 DEF GoesOn
<1>8. NativeInv'
  <2>1. \A t \in svc'.recovered \cup ready'.found \cup ready'.turns :
          \/ t \in svc.recovered \cup ready.found \cup ready.turns
          \/ native'.status[t] = "done"
    BY <1>2, <1>3, <1>4, <1>6
  <2> QED BY <1>0, <1>1, <1>3, <1>4, <1>5, <1>7, <2>1, NativeGoes
<1>9. Books
  BY <1>1, <1>3, <1>4 DEF Books
<1>10. th \notin native.subscribed
  BY <1>0, <1>1 DEF QueueRest, th
<1>11. QueueRest'
  <2>1. ASSUME NEW t \in Turns \ dismissed', ThreadOf[t] \in native'.subscribed
        PROVE  Bound(mem', ThreadOf[t])
    BY <1>0, <1>1, <1>3, <1>4, <2>1 DEF QueueRest, Bound, th
  <2>2. ASSUME NEW q \in ready'.routes PROVE mem'.binding[q] \notin native'.subscribed
    <3>1. q \in ready.routes /\ q # r /\ q \in Routes /\ r \in Routes
      BY <1>0, <1>2, <2>2 DEF ReadyTyped
    <3>2. mem.binding[q] # th
      BY <1>0, <1>1, <3>1 DEF Good, BoundOnce, th
    <3> QED BY <1>0, <1>1, <1>3, <1>4, <3>1, <3>2 DEF QueueRest
  <2> QED BY <1>1, <1>4, <2>1, <2>2 DEF QueueRest
<1>12. /\ svc'.suppressed \subseteq Turns
       /\ \A u \in svc'.suppressed \ dismissed' :
            u \in svc.suppressed \/ (native.status[u] = "done"
                                     /\ ThreadOf[u] \notin native.subscribed)
  <2>1. svc'.suppressed \subseteq Turns
    BY <1>3 DEF Service
  <2> QED BY <1>3, <1>6, <1>10, <2>1
<1> QED BY <1>1, <1>8, <1>9, <1>11, <1>12, ReplayTurns

-----------------------------------------------------------------------------
(* The head of the queue is taken. *)

LEMMA Taken ==
  ASSUME EventsTyped, events # <<>>, events' = Tail(events)
  PROVE  /\ 1 \in DOMAIN events /\ events[1] = Head(events)
         /\ \A i \in DOMAIN events' :
              i + 1 \in DOMAIN events /\ events'[i] = events[i + 1] /\ i >= 1 /\ i \in Nat
         /\ \A j \in DOMAIN events : j \in Nat /\
              (j = 1 \/ (j - 1 \in DOMAIN events' /\ events'[j - 1] = events[j] /\ j - 1 >= 1))
<1>1. DOMAIN events = 1..Len(events) /\ Len(events) \in Nat /\ Len(events) # 0
      /\ events[1] = Head(events)
  BY EventsPlaces, EmptySeq, HeadTailProperties DEF EventsTyped
<1>2. /\ events' \in Seq(ProperEvent) /\ Len(events') = Len(events) - 1
      /\ \A i \in 1..Len(Tail(events)) : Tail(events)[i] = events[i + 1]
  BY HeadTailProperties DEF EventsTyped
<1>3. DOMAIN events' = 1..(Len(events) - 1)
  BY <1>2, LenProperties
<1>4. \A i \in 1..(Len(events) - 1) : events'[i] = events[i + 1]
  BY <1>2
<1>5. \A j \in DOMAIN events : j \in Nat /\
        (j = 1 \/ (j - 1 \in DOMAIN events' /\ (j - 1) + 1 = j /\ j - 1 >= 1))
  BY <1>1, <1>3
<1> QED BY <1>1, <1>3, <1>4, <1>5

LEMMA QueueTaken ==
  ASSUME EventsTyped, QueueTrue, events # <<>>, events' = Tail(events),
         UNCHANGED <<native, dismissed>>, svc'.suppressed \subseteq svc.suppressed
  PROVE  QueueTrue'
<1>1. \A i \in DOMAIN events' : i + 1 \in DOMAIN events /\ events'[i] = events[i + 1]
  BY Taken
<1>2. \A i \in DOMAIN events : EventTurn(i) = TurnOf(events[i].id)
  BY DEF EventTurn
<1>3. \A i \in DOMAIN events' :
        /\ ThreadOf[TurnOf(events'[i].id)] \in native.subscribed
        /\ native.status[TurnOf(events'[i].id)] \in {"running", "done"}
        /\ events'[i].kind = "turn_completed" => native.status[TurnOf(events'[i].id)] = "done"
  BY <1>1, <1>2 DEF QueueTrue
<1>4. \A t \in svc'.suppressed \ dismissed' :
        native.status[t] = "done" /\ \A i \in DOMAIN events' : TurnOf(events'[i].id) # t
  BY <1>1, <1>2 DEF QueueTrue
<1> QED BY <1>3, <1>4 DEF QueueTrue, EventTurn

LEMMA AnswersTaken ==
  ASSUME DeliveryInv, AnswersComing, events # <<>>, events' = Tail(events),
         UNCHANGED <<native, dismissed, accepted>>, mem.outbox \subseteq mem'.outbox,
         \A t \in Turns \ dismissed : \A n \in DOMAIN AnswersOf[t] :
           Head(events) = ItemOf(AnswersOf[t][n]) => InHand(mem, AnswersOf[t][n])'
  PROVE  AnswersComing'
<1>0. EventsTyped /\ NativeTyped
  BY TypeParts DEF DeliveryInv
<1>1. /\ events[1] = Head(events)
      /\ \A i \in DOMAIN events' :
           i + 1 \in DOMAIN events /\ events'[i] = events[i + 1] /\ i >= 1 /\ i \in Nat
      /\ \A j \in DOMAIN events : j \in Nat /\
              (j = 1 \/ (j - 1 \in DOMAIN events' /\ events'[j - 1] = events[j] /\ j - 1 >= 1))
  BY <1>0, Taken
<1>2. \A id : InHand(mem, id) => InHand(mem, id)'
  BY HandsKept
<1>3. \A t \in Turns : \A n \in 1..native.produced[t] : n \in DOMAIN AnswersOf[t]
  BY <1>0, StoreAssumption, LenProperties DEF EventsTyped, NativeTyped
<1>4. ASSUME NEW t \in Turns \ dismissed', native'.status[t] = "running",
             ThreadOf[t] \in native'.subscribed, NEW n \in 1..native'.produced[t]
      PROVE  \/ InHand(mem, AnswersOf[t][n])'
             \/ \E j \in DOMAIN events' : events'[j] = ItemOf(AnswersOf[t][n])
  <2>1. n \in DOMAIN AnswersOf[t]
    BY <1>3, <1>4
  <2>2. CASE InHand(mem, AnswersOf[t][n])
    BY <1>2, <2>2
  <2>3. CASE \E j \in DOMAIN events : events[j] = ItemOf(AnswersOf[t][n])
    <3>1. PICK j \in DOMAIN events : events[j] = ItemOf(AnswersOf[t][n])
      BY <2>3
    <3>2. CASE j = 1
      BY <1>1, <1>4, <2>1, <3>1, <3>2
    <3>3. CASE j # 1
      BY <1>1, <3>1, <3>3
    <3> QED BY <3>2, <3>3
  <2> QED BY <1>4, <2>2, <2>3 DEF AnswersComing
<1>5. ASSUME NEW t \in Turns \ dismissed', NEW k \in DOMAIN events',
             events'[k] = [kind |-> "turn_completed", id |-> t], NEW n \in DOMAIN AnswersOf[t]
      PROVE  \/ InHand(mem, AnswersOf[t][n])'
             \/ \E j \in 1..(k - 1) : events'[j] = ItemOf(AnswersOf[t][n])
  <2>1. k + 1 \in DOMAIN events /\ events[k + 1] = events'[k] /\ k \in Nat
        /\ (k + 1) - 1 = k
    BY <1>1
  <2>2. \/ InHand(mem, AnswersOf[t][n])
        \/ \E j \in 1..k : events[j] = ItemOf(AnswersOf[t][n])
    BY <1>5, <2>1 DEF AnswersComing
  <2>3. CASE InHand(mem, AnswersOf[t][n])
    BY <1>2, <2>3
  <2>4. CASE \E j \in 1..k : events[j] = ItemOf(AnswersOf[t][n])
    <3>1. PICK j \in 1..k : events[j] = ItemOf(AnswersOf[t][n])
      BY <2>4
    <3>2. CASE j = 1
      BY <1>1, <1>5, <3>1, <3>2
    <3>3. CASE j # 1
      <4>1. j \in DOMAIN events
        BY <1>0, <2>1, EventsPlaces
      <4>2. j - 1 \in 1..(k - 1)
        BY <2>1, <3>3
      <4> QED BY <1>1, <3>1, <3>3, <4>1, <4>2
    <3> QED BY <3>2, <3>3
  <2> QED BY <2>2, <2>3, <2>4
<1> QED BY <1>4, <1>5 DEF AnswersComing

(* The notification at the head, once it is projected. *)
LEMMA LiveTurns ==
  ASSUME TurnBooks, DeliveryInv', events # <<>>, events' = Tail(events), Books,
         UNCHANGED <<ready, native, accepted, dismissed>>,
         mem'.binding = mem.binding, mem.outbox \subseteq mem'.outbox,
         svc'.suppressed \subseteq svc.suppressed, svc'.recovered \subseteq svc.recovered,
         \A t \in mem'.watches \cup disk'.watches \cup svc'.active :
           \/ t \in mem.watches \cup disk.watches \cup svc.active
           \/ native.status[t] \in {"running", "done"},
         lane'.who # "recover",
         \A t \in Turns \ dismissed : \A n \in DOMAIN AnswersOf[t] :
           Head(events) = ItemOf(AnswersOf[t][n]) => InHand(mem, AnswersOf[t][n])'
  PROVE  TurnBooks'
<1>0. /\ DeliveryInv /\ EventsTyped /\ NativeInv /\ QueueTrue /\ QueueRest /\ AnswersComing
  BY QueueParts DEF TurnBooks, TurnsInv, DeliveryInv
<1>1. GoesOn
  BY DEF GoesOn
<1>2. NativeInv'
  <2>1. \A t \in Turns :
           /\ native'.status[t] \in {"starting", "running"} =>
                native.status[t] \in {"starting", "running"}
           /\ native'.status[t] \in {"new", "starting"} =>
                /\ native.status[t] \in {"new", "starting"}
                /\ native'.produced[t] = native.produced[t]
    OBVIOUS
  <2> QED BY <1>0, <1>1, <2>1, NativeGoes
<1>3. QueueTrue'
  BY <1>0, QueueTaken
<1>4. QueueRest'
  BY <1>0 DEF QueueRest, Bound
<1>5. AnswersComing'
  BY <1>0, AnswersTaken
<1> QED BY <1>0, <1>2, <1>3, <1>4, <1>5, BooksKeep, QueueParts DEF TurnBooks, TurnsInv

(* What TurnBooks says of the notification at the head. *)
LEMMA HeadTurn ==
  ASSUME TurnBooks, events # <<>>
  PROVE  LET t == TurnOf(Head(events).id) IN
         /\ Head(events) \in ProperEvent /\ t \in Turns
         /\ native.status[t] \in {"running", "done"}
         /\ t \in dismissed \/ (Bound(mem, ThreadOf[t]) /\ t \notin svc.suppressed)
         /\ Head(events).kind # "item_completed" => t = Head(events).id
         /\ Head(events) = [kind |-> "turn_completed", id |-> t] =>
              /\ native.status[t] = "done"
              /\ t \in dismissed \/ \A n \in DOMAIN AnswersOf[t] : InHand(mem, AnswersOf[t][n])
<1>0. EventsTyped /\ QueueTrue /\ QueueRest /\ AnswersComing
  BY QueueParts DEF TurnBooks, TurnsInv, DeliveryInv
<1>1. 1 \in DOMAIN events /\ events[1] = Head(events)
  BY <1>0, EventsPlaces, EmptySeq DEF EventsTyped
<1> DEFINE t == EventTurn(1)
<1>2. t = TurnOf(Head(events).id) /\ t \in Turns /\ events[1] \in ProperEvent
  BY <1>0, <1>1, EventsPlaces DEF EventTurn
<1> HIDE DEF t
<1>3. /\ native.status[t] \in {"running", "done"} /\ ThreadOf[t] \in native.subscribed
      /\ events[1].kind = "turn_completed" => native.status[t] = "done"
      /\ t \in dismissed \/ t \notin svc.suppressed
  BY <1>0, <1>1 DEF QueueTrue, t
<1>4. t \in dismissed \/ Bound(mem, ThreadOf[t])
  BY <1>0, <1>2, <1>3 DEF QueueRest
<1>5. Head(events).kind # "item_completed" => t = Head(events).id
  <2>1. Head(events).kind # "item_completed" => Head(events).id \in Turns
    BY <1>1, <1>2 DEF ProperEvent
  <2> QED BY <1>2, <2>1, TurnOfIds
<1>6. ASSUME Head(events) = [kind |-> "turn_completed", id |-> t], t \notin dismissed,
             NEW n \in DOMAIN AnswersOf[t]
      PROVE  InHand(mem, AnswersOf[t][n])
  <2>1. \A j \in 1..(1 - 1) : FALSE
    OBVIOUS
  <2> QED BY <1>0, <1>1, <1>2, <1>6, <2>1 DEF AnswersComing
<1> QED BY <1>1, <1>2, <1>3, <1>4, <1>5, <1>6

LEMMA LiveItemStartedTurns ==
  ASSUME TurnBooks, DeliveryInv', LiveItemStarted
  PROVE  TurnBooks'
<1> DEFINE t == Head(events).id
<1>0. /\ UNCHANGED <<disk, ready, native, accepted, promised, dismissed>> /\ lane' = lane
      /\ lane = Free /\ events # <<>> /\ events' = Tail(events)
      /\ Head(events).kind = "item_started" /\ svc \in Service /\ Good(mem)
  BY DEF LiveItemStarted, HeadIs, TurnBooks, DeliveryInv, TypeOK
<1>1. t \in Turns /\ native.status[t] \in {"running", "done"}
  BY <1>0, HeadTurn
<1>2. \/ svc' = [NoteActive(svc, t) EXCEPT !.visible = @ \ {t}] /\ mem' = Watch(mem, t)
      \/ UNCHANGED <<svc, mem>>
  BY Zenon DEF LiveItemStarted
<1> HIDE DEF t
<1>3. /\ mem'.outbox = mem.outbox /\ mem'.binding = mem.binding /\ mem'.acks = mem.acks
      /\ mem.watches \subseteq mem'.watches /\ mem'.watches \subseteq mem.watches \cup {t}
      /\ svc'.known = svc.known /\ svc'.completed = svc.completed
      /\ svc'.visible \subseteq svc.visible /\ svc'.recovered = svc.recovered
      /\ svc'.active \subseteq svc.active \cup {t}
      /\ svc'.suppressed \subseteq svc.suppressed
  <2>1. CASE /\ svc' = [NoteActive(svc, t) EXCEPT !.visible = @ \ {t}]
             /\ mem' = Watch(mem, t)
    <3>1. PICK b \in Service :
            /\ b = NoteActive(svc, t)
            /\ b.active = {u \in svc.active : ThreadOf[u] # ThreadOf[t]} \cup {t}
            /\ b.suppressed = svc.suppressed \ {t}
            /\ b.known = svc.known /\ b.completed = svc.completed
            /\ b.visible = svc.visible /\ b.recovered = svc.recovered
      BY <1>0, <1>1, ServiceOps
    <3>2. svc' = [b EXCEPT !.visible = b.visible \ {t}]
      BY <2>1, <3>1 DEF Service
    <3>3. /\ svc'.known = b.known /\ svc'.completed = b.completed
          /\ svc'.visible = b.visible \ {t} /\ svc'.recovered = b.recovered
          /\ svc'.active = b.active /\ svc'.suppressed = b.suppressed
      BY <3>2 DEF Service
    <3> QED BY <1>0, <1>1, <2>1, <3>1, <3>3, WatchKeeps
  <2> QED BY <1>2, <2>1
<1>4. lane'.who = "free"
  BY <1>0 DEF Free
<1>5. Books
  BY <1>0, <1>3, <1>4 DEF Books
<1>6. \A u \in Turns \ dismissed : \A n \in DOMAIN AnswersOf[u] :
           Head(events) # ItemOf(AnswersOf[u][n])
  BY <1>0 DEF ItemOf
<1> QED BY <1>0, <1>1, <1>3, <1>4, <1>5, <1>6, LiveTurns

LEMMA LiveItemCompletedTurns ==
  ASSUME TurnBooks, DeliveryInv', LiveItemCompleted
  PROVE  TurnBooks'
<1> DEFINE id == Head(events).id
           t == TurnOf(id)
<1>0. /\ UNCHANGED <<disk, ready, native, accepted, promised, dismissed>>
      /\ lane = Free /\ events # <<>> /\ events' = Tail(events)
      /\ Head(events).kind = "item_completed" /\ svc \in Service /\ Good(mem)
      /\ ReceiptsTrue
  BY DEF LiveItemCompleted, HeadIs, TurnBooks, DeliveryInv, TypeOK
<1>1. /\ Head(events) \in ProperEvent /\ t \in Turns
      /\ t \in dismissed \/ (Bound(mem, ThreadOf[t]) /\ t \notin svc.suppressed)
  BY <1>0, HeadTurn
<1>2. id \in Answers /\ id \in Ids /\ id \notin Turns
  <2>1. id \in Answers
    BY <1>0, <1>1 DEF ProperEvent
  <2> QED BY <2>1, StoreAssumption DEF Answers, Ids
<1>3. AnswersOf[t] # <<>>
  <2>1. PICK u \in Turns : id \in Range(AnswersOf[u])
    BY <1>2 DEF Answers
  <2>2. t = u
    BY <2>1, TurnOfIds
  <2>3. DOMAIN AnswersOf[u] # {}
    BY <2>1 DEF Range
  <2> QED BY <2>2, <2>3
<1> DEFINE hidden == Known(mem, svc, id) \/ t \in svc.suppressed
           shown == [svc EXCEPT !.visible = svc.visible \cup {t}]
<1>4. \/ svc' = svc
      \/ ~hidden /\ svc' = [svc EXCEPT !.visible = @ \cup {t}]
  BY Zenon DEF LiveItemCompleted
<1>5. \/ (hidden \/ ~Bound(mem, ThreadOf[t])) /\ UNCHANGED <<mem, lane>>
      \/ /\ Bound(mem, ThreadOf[t]) /\ mem' = Stage(mem, id, RouteOf(mem, ThreadOf[t]))
         /\ lane' = [Free EXCEPT !.who = "live", !.step = "flush", !.id = id]
  BY Zenon DEF LiveItemCompleted
<1> HIDE DEF hidden, t, id
<1>6. /\ svc'.known = svc.known /\ svc'.completed = svc.completed
      /\ svc'.visible \subseteq svc.visible \cup {t} /\ svc'.recovered = svc.recovered
      /\ svc'.active = svc.active /\ svc'.suppressed = svc.suppressed
  BY <1>0, <1>4 DEF Service
<1>7. /\ mem.outbox \subseteq mem'.outbox /\ mem'.binding = mem.binding /\ mem'.acks = mem.acks
      /\ mem'.watches = mem.watches
      /\ (~hidden /\ Bound(mem, ThreadOf[t])) => id \in IdsIn(mem'.outbox)
      /\ lane' = Free \/ (lane'.who = "live" /\ lane'.step = "flush" /\ lane'.id = id)
  <2>1. CASE (hidden \/ ~Bound(mem, ThreadOf[t])) /\ UNCHANGED <<mem, lane>>
    BY <1>0, <2>1
  <2>2. CASE /\ Bound(mem, ThreadOf[t]) /\ mem' = Stage(mem, id, RouteOf(mem, ThreadOf[t]))
             /\ lane' = [Free EXCEPT !.who = "live", !.step = "flush", !.id = id]
    <3>1. PICK route \in Routes : route = RouteOf(mem, ThreadOf[t])
      BY <2>2, RouteBound
    <3>2. lane'.who = "live" /\ lane'.step = "flush" /\ lane'.id = id
      BY <2>2 DEF Free
    <3>3. mem' = Stage(mem, id, route)
      BY <2>2, <3>1
    <3> QED BY <1>0, <1>2, <3>2, <3>3, StageKeeps
  <2> QED BY <1>5, <2>1, <2>2
<1>8. lane'.who # "recover" /\ lane'.step # "receipt"
      /\ (lane'.who = "live" => lane'.id \notin Turns)
  BY <1>2, <1>7 DEF Free
<1>9. Books
  BY <1>0, <1>3, <1>6, <1>7, <1>8 DEF Books
<1>10. ASSUME NEW u \in Turns \ dismissed, NEW n \in DOMAIN AnswersOf[u],
              Head(events) = ItemOf(AnswersOf[u][n])
       PROVE  InHand(mem, AnswersOf[u][n])'
  <2>1. id = AnswersOf[u][n]
    BY <1>10 DEF id, ItemOf
  <2>2. t = u
    BY <1>10, <2>1, TurnOfIds DEF t, Range
  <2>3. CASE hidden
    <3>1. Known(mem, svc, id)
      BY <1>1, <1>10, <2>2, <2>3 DEF hidden
    <3>2. id \in IdsIn(accepted) \/ id \in IdsIn(mem.outbox)
      BY <1>0, <3>1 DEF Known, ReceiptsTrue
    <3> QED BY <1>0, <1>7, <2>1, <3>2 DEF InHand, IdsIn
  <2>4. CASE ~hidden
    <3>1. id \in IdsIn(mem'.outbox)
      BY <1>1, <1>7, <1>10, <2>2, <2>4
    <3> QED BY <2>1, <3>1 DEF InHand, IdsIn
  <2> QED BY <2>3, <2>4
<1> QED BY <1>0, <1>6, <1>7, <1>8, <1>9, <1>10, LiveTurns

(* A turn that ends without a message of its own has nothing left to say.  *)
LEMMA OwesNothing ==
  ASSUME TurnBooks, NEW t \in Turns, native.status[t] = "done", Bound(mem, ThreadOf[t]),
         t \notin svc.suppressed, ~OwesFallback(t),
         \A n \in DOMAIN AnswersOf[t] : InHand(mem, AnswersOf[t][n])
  PROVE  Settled(mem, t)
<1>1. CASE AnswersOf[t] # <<>>
  <2>1. \A id \in OwedIds(t) : InHand(mem, id)
    BY <1>1, OwedAre
  <2> QED BY <2>1 DEF Settled
<1>2. CASE AnswersOf[t] = <<>>
  <2>1. t \notin svc.visible
    BY <1>2 DEF TurnBooks, TurnsInv, CompletedSettled
  <2>2. Receipts(mem, t) # {} \/ Known(mem, svc, t)
    BY <2>1 DEF OwesFallback
  <2>3. t \in mem.acks \cup svc.known \cup IdsIn(mem.outbox)
    <3>1. CASE Known(mem, svc, t)
      BY <3>1 DEF Known
    <3>2. CASE Receipts(mem, t) # {}
      <4>1. PICK id \in mem.acks : TurnOf(id) = t
        BY <3>2 DEF Receipts
      <4>2. id \in Ids
        BY <4>1 DEF TurnBooks, DeliveryInv, TypeOK, Store
      <4>3. id \notin Answers
        <5>1. SUFFICES ASSUME id \in Answers PROVE FALSE
          OBVIOUS
        <5>2. PICK u \in Turns : id \in Range(AnswersOf[u])
          BY <5>1 DEF Answers
        <5>3. u = t
          BY <4>1, <5>2, TurnOfIds
        <5>4. DOMAIN AnswersOf[t] = {}
          BY <1>2
        <5> QED BY <5>2, <5>3, <5>4 DEF Range
      <4> QED BY <4>1, <4>2, <4>3, TurnOfIds DEF Ids
    <3> QED BY <2>2, <3>1, <3>2
  <2>4. InHand(mem, t)
    BY <2>3 DEF InHand, IdsIn, TurnBooks, ReceiptsTrue
  <2> QED BY <1>2, <2>4, OwedAre DEF Settled
<1> QED BY <1>1, <1>2

LEMMA LiveTurnCompletedTurns ==
  ASSUME TurnBooks, DeliveryInv', LiveTurnCompleted
  PROVE  TurnBooks'
<1>0. /\ UNCHANGED <<disk, ready, native, accepted, promised, dismissed>>
      /\ lane = Free /\ events # <<>> /\ events' = Tail(events)
      /\ Head(events).kind = "turn_completed" /\ svc \in Service /\ Good(mem)
  BY DEF LiveTurnCompleted, HeadIs, TurnBooks, DeliveryInv, TypeOK
<1>1. PICK t \in Turns :
      /\ t = Head(events).id /\ native.status[t] = "done"
      /\ t \in dismissed \/ (/\ Bound(mem, ThreadOf[t]) /\ t \notin svc.suppressed
                             /\ \A n \in DOMAIN AnswersOf[t] : InHand(mem, AnswersOf[t][n]))
  <2> DEFINE t == Head(events).id
  <2>1. Head(events) \in ProperEvent /\ TurnOf(Head(events).id) = t /\ t \in Turns
    BY <1>0, HeadTurn
  <2>2. Head(events) = [kind |-> "turn_completed", id |-> t]
    BY <1>0, <2>1 DEF ProperEvent
  <2>3. /\ native.status[t] = "done"
        /\ t \in dismissed \/ (/\ Bound(mem, ThreadOf[t]) /\ t \notin svc.suppressed
                               /\ \A n \in DOMAIN AnswersOf[t] : InHand(mem, AnswersOf[t][n]))
    BY <1>0, <2>1, <2>2, HeadTurn
  <2> QED BY <2>1, <2>3
<1>2. \/ t \in svc.completed /\ UNCHANGED <<mem, svc, lane>>
      \/ /\ OwesFallback(t) /\ mem' = Stage(mem, t, RouteOf(mem, ThreadOf[t]))
         /\ svc' = Close(svc, t)
         /\ lane' = [Free EXCEPT !.who = "live", !.step = "flush", !.id = t]
      \/ ~OwesFallback(t) /\ CompletionHandled(mem, Close(svc, t), t, FALSE)
  <2> DEFINE h == Head(events).id
  <2>1. \/ h \in svc.completed /\ UNCHANGED <<mem, svc, lane>>
        \/ /\ OwesFallback(h) /\ mem' = Stage(mem, h, RouteOf(mem, ThreadOf[h]))
           /\ svc' = Close(svc, h)
           /\ lane' = [Free EXCEPT !.who = "live", !.step = "flush", !.id = h]
        \/ ~OwesFallback(h) /\ CompletionHandled(mem, Close(svc, h), h, FALSE)
    BY Zenon DEF LiveTurnCompleted
  <2>2. h = t
    BY <1>1
  <2> HIDE DEF h
  <2> QED BY <2>1, <2>2
<1> DEFINE b == Close(svc, t)
<1>3. /\ b \in Service /\ b.known = svc.known /\ b.completed = svc.completed
      /\ b.visible \subseteq svc.visible /\ b.recovered = svc.recovered
      /\ b.active \subseteq svc.active /\ b.suppressed \subseteq svc.suppressed
  <2>1. t \in Turns
    BY <1>1
  <2> QED BY <1>0, <2>1, ServiceOps
<1> HIDE DEF b
<1>4. /\ mem'.binding = mem.binding /\ mem.outbox \subseteq mem'.outbox
      /\ mem'.acks \subseteq mem.acks /\ mem'.watches \subseteq mem.watches
      /\ svc'.known = svc.known /\ svc'.visible \subseteq svc.visible
      /\ svc'.suppressed \subseteq svc.suppressed /\ svc'.active \subseteq svc.active
      /\ svc'.recovered \subseteq svc.recovered
      /\ \A u \in (mem.watches \ mem'.watches) \cup (svc'.completed \ svc.completed) :
           u = t /\ Over(t)
      /\ \/ lane' = Free
         \/ /\ lane'.who = "live" /\ lane'.step = "flush" /\ lane'.id = t
            /\ t \in dismissed \/ Settled(mem, t)'
  <2>1. CASE t \in svc.completed /\ UNCHANGED <<mem, svc, lane>>
    BY <1>0, <2>1
  <2>2. CASE /\ OwesFallback(t) /\ mem' = Stage(mem, t, RouteOf(mem, ThreadOf[t]))
             /\ svc' = Close(svc, t)
             /\ lane' = [Free EXCEPT !.who = "live", !.step = "flush", !.id = t]
    <3>1. PICK route \in Routes : route = RouteOf(mem, ThreadOf[t])
      BY <2>2, RouteBound DEF OwesFallback
    <3>2. /\ mem'.binding = mem.binding /\ mem.outbox \subseteq mem'.outbox
          /\ mem'.acks = mem.acks /\ mem'.watches = mem.watches
          /\ t \in IdsIn(mem'.outbox)
      BY <1>0, <1>1, <2>2, <3>1, StageKeeps DEF Ids
    <3>3. lane'.who = "live" /\ lane'.step = "flush" /\ lane'.id = t
      BY <2>2 DEF Free
    <3>4. t \in dismissed \/ Settled(mem, t)'
      <4>1. InHand(mem, t)'
        BY <3>2 DEF InHand, IdsIn
      <4>2. \A id : InHand(mem, id) => InHand(mem, id)'
        BY <1>0, <3>2, HandsKept
      <4>3. t \in dismissed \/ \A id \in OwedIds(t) : InHand(mem, id)'
        BY <1>1, <4>1, <4>2, OwedAre
      <4> QED BY <1>0, <1>1, <4>3 DEF Settled
    <3> QED BY <1>3, <2>2, <3>2, <3>3, <3>4 DEF b
  <2>3. CASE ~OwesFallback(t) /\ CompletionHandled(mem, Close(svc, t), t, FALSE)
    <3>1. Over(t)
      BY <1>1, <2>3, OwesNothing DEF Over
    <3>2. LaneLeaves(b, t) /\ lane' = Free
      BY <1>0, <1>1, <1>3, <2>3, <3>1, CompletionLeaves DEF CompletionHandled, b
    <3> QED BY <1>3, <3>2 DEF LaneLeaves
  <2> QED BY <1>2, <2>1, <2>2, <2>3
<1>5. \A u \in Turns : Over(u) => u \in dismissed' \/ Settled(mem, u)'
  BY <1>0, <1>4, HandsKept DEF Over, Settled
<1>6. lane'.who # "recover" /\ lane'.step # "receipt"
      /\ (lane'.who = "live" => lane'.id = t /\ (t \in dismissed \/ Settled(mem, t)'))
  BY <1>4 DEF Free
<1>7. Books
  <2>1. \A u \in Turns : u \in (mem.watches \ mem'.watches) \cup (svc'.completed \ svc.completed)
                           => u \in dismissed' \/ Settled(mem, u)'
    BY <1>1, <1>4, <1>5
  <2>2. lane'.who = "live" /\ lane'.id \in Turns \ dismissed' => Settled(mem, lane.id)'
    <3>1. ASSUME lane'.who = "live", lane'.id \in Turns \ dismissed'
          PROVE  Settled(mem, lane.id)'
      <4>1. lane'.id = t /\ Settled(mem, t)'
        BY <1>0, <1>6, <3>1
      <4> QED BY <4>1 DEF Settled
    <3> QED BY <3>1
  <2> QED BY <1>0, <1>4, <1>6, <2>1, <2>2 DEF Books
<1>8. \A u \in Turns \ dismissed : \A n \in DOMAIN AnswersOf[u] :
           Head(events) # ItemOf(AnswersOf[u][n])
  BY <1>0 DEF ItemOf
<1>9. \A u \in mem'.watches \cup disk'.watches \cup svc'.active :
        u \in mem.watches \cup disk.watches \cup svc.active
  BY <1>0, <1>4
<1> QED BY <1>0, <1>4, <1>6, <1>7, <1>8, <1>9, LiveTurns

-----------------------------------------------------------------------------
(* TurnBooks holds always, where a resume replays what its running turn    *)
(* has said so far.                                                        *)
LEMMA TurnBooksKept ==
  ASSUME Replays = {"running"}, TurnBooks, DeliveryInv', [Next]_vars
  PROVE  TurnBooks'
<1>1. CASE Native
  BY <1>1, NativeTurns DEF Native
<1>2. CASE User \/ \E t \in Turns : Started(t)
  <2>1. CASE \E t \in Turns : StartTurn(t) \/ Started(t)
    BY <2>1, TurnBegins
  <2>2. CASE \E t \in Turns : Stop(t)
    BY <2>2, TurnStops
  <2>3. CASE \E r \in Routes, th \in Threads : Select(r, th)
    BY <2>3, SelectTurns
  <2>4. CASE \E r \in Routes : Detach(r)
    BY <2>4, GivenUpQuiet, QuietKeeps
  <2> QED BY <1>2, <2>1, <2>2, <2>3, <2>4 DEF User
<1>3. CASE Live
  BY <1>3, LiveItemStartedTurns, LiveItemCompletedTurns, LiveTurnCompletedTurns DEF Live
<1>4. CASE Deliver
  BY <1>4, DeliverQuiet, QuietKeeps DEF Deliver
<1>5. CASE Drain \/ Retry \/ Persist
  BY <1>5, DrainQuiet, QuietKeeps DEF Drain, Retry
<1>6. CASE Connect \/ LoseConnection
  BY <1>6, ConnectionTurns
<1>7. CASE \E r \in Routes :
             SkipUnbound(r) \/ ReplayThread(r) \/ ResumeReturns(r) \/ ResumeFails(r)
  <2>1. PICK r \in Routes :
          SkipUnbound(r) \/ ReplayThread(r) \/ ResumeReturns(r) \/ ResumeFails(r)
    BY <1>7
  <2>2. CASE SkipUnbound(r) \/ ResumeFails(r)
    BY <2>2, GivenUpQuiet, QuietKeeps
  <2>3. CASE ResumeReturns(r)
    BY <2>3, ResumeTurns
  <2>4. ~ReplayThread(r)
    <3>1. "done" \notin Replays
      OBVIOUS
    <3> QED BY <3>1, Zenon DEF ReplayThread
  <2> QED BY <2>1, <2>2, <2>3, <2>4
<1>8. CASE RehydrateEnds \/ Recover \/ RecoverTimesOut
  <2>1. PICK t : RehydrateEnds \/ (t \in Turns /\ RecoverTurn(t)) \/ ReadyDrains \/ RecoverTimesOut
    BY <1>8 DEF Recover
  <2> QED BY <2>1, RecoveryQuiet, QuietKeeps
<1>9. CASE Crash
  BY <1>9, CrashTurns
<1>10. CASE UNCHANGED vars
  <2>1. UNCHANGED <<mem, disk, svc, lane, ready, events, native, accepted, promised, dismissed>>
    BY <1>10 DEF vars
  <2>2. Quiet
    BY <2>1 DEF Quiet, Books, TurnBooks, TurnsInv, NativeInv
  <2> QED BY <2>2, QuietKeeps
<1> QED BY <1>1, <1>2, <1>3, <1>4, <1>5, <1>6, <1>7, <1>8, <1>9, <1>10 DEF Next, Rehydrate

LEMMA TurnBooksStart == Init => TurnBooks
<1> SUFFICES ASSUME Init PROVE TurnBooks
  OBVIOUS
<1>1. DeliveryInv
  BY DeliveryStarts
<1>2. /\ mem.watches = {} /\ mem.acks = {} /\ disk = mem
      /\ svc.known = {} /\ svc.completed = {} /\ svc.visible = {} /\ svc.recovered = {}
      /\ svc.active = {} /\ svc.suppressed = {}
      /\ lane.who = "free" /\ ready.found = {} /\ ready.turns = {} /\ ready.phase = "idle"
      /\ promised = {} /\ events = <<>> /\ DOMAIN events = {}
      /\ native.subscribed = {} /\ \A t \in Turns : native.status[t] = "new"
      /\ \A t \in Turns : native.produced[t] = 0
  BY DEF Init, EmptyStore, FreshService, Free, Idle
<1>3. ReceiptsTrue
  BY <1>2 DEF ReceiptsTrue
<1>4. NativeInv
  BY <1>2 DEF NativeInv
<1>5. QueueInv
  BY <1>2 DEF QueueInv
<1>6. AnswersComing
  BY <1>2 DEF AnswersComing
<1>7. CompletedSettled
  BY <1>2 DEF CompletedSettled
<1> QED BY <1>1, <1>3, <1>4, <1>5, <1>6, <1>7 DEF TurnBooks, TurnsInv

(* A turn that the bridge has promised on disk to follow stays followed    *)
(* until every answer of it, or its notice, is staged or taken, through    *)
(* crashes, failed flushes, lost connections and time-outs                 *)
(* (store_terminal_deliveries.py, rehydrate_bound_threads): given that     *)
(* native, when a thread is resumed, repeats what its running turn has     *)
(* said and nothing of turns that are over.                                *)
THEOREM AnswersAreNotForgotten ==
  ASSUME Replays = {"running"}
  PROVE  Spec => []AnswersNotForgotten
<1>1. TurnBooks => AnswersNotForgotten
  <2> SUFFICES ASSUME TurnBooks, NEW t \in promised \ dismissed, t \notin disk.watches
               PROVE  native.status[t] = "done" /\ OwedIds(t) \subseteq IdsIn(accepted \cup disk.outbox)
    BY DEF AnswersNotForgotten
  <2>1. Settled(disk, t)
    BY DEF TurnBooks, TurnsInv, CompletedSettled
  <2> QED BY <2>1 DEF Settled, InHand
<1>2. Init => TurnBooks
  BY TurnBooksStart
<1>3. TurnBooks /\ DeliveryInv' /\ [Next]_vars => TurnBooks'
  BY TurnBooksKept
<1> QED BY <1>1, <1>2, <1>3, DeliveryAlways, PTL DEF Spec

-----------------------------------------------------------------------------
(* What is remembered of a turn, through the queue, the lane, both copies  *)
(* of the store and the sinks.                                             *)

(* A notification of t is in the queue, or native may still say more of t. *)
About(t) == \E i \in DOMAIN events : EventTurn(i) = t
Heard(t) ==
  About(t) \/ (native.status[t] = "running" /\ ThreadOf[t] \in native.subscribed)

(* t waits to be recovered, or is being recovered. *)
Due(t) ==
  \/ t \in svc.recovered \cup ready.found \cup ready.turns
  \/ lane.who = "recover" /\ TurnOf(lane.id) = t
OnLane(t) == lane.who \in {"live", "recover"} /\ TurnOf(lane.id) = t

(* All there is to say of t is one message. *)
Single(t) == Len(AnswersOf[t]) <= 1 /\ (t \in Failing => AnswersOf[t] = <<>>)

(* The watch of t is given up in s, and with it the receipts. *)
Gone(s, t) == native.status[t] = "done" /\ t \notin s.watches

(* A turn that is heard of, or that is due, is watched. *)
Followed(t) ==
  /\ Heard(t) => t \in mem.watches
  /\ About(t) => ~Due(t) /\ t \notin svc.completed
  /\ Due(t) => t \in mem.watches \/ t \in svc.completed
  /\ \A id : TurnOf(id) = t =>
       /\ id \in IdsIn(mem.outbox) => t \in mem.watches \/ native.status[t] = "done"
       /\ id \in IdsIn(disk.outbox) => t \in disk.watches \/ native.status[t] = "done"

(* The notice of a turn is staged after everything else native said of it, *)
(* and the end of a turn is the last that native says of it.               *)
EndsLast(t) ==
  \A j, k \in DOMAIN events :
    j < k /\ events[j].kind = "turn_completed" /\ EventTurn(j) = t => EventTurn(k) # t
NoticeLast(t) ==
  /\ native.status[t] # "done" \/ About(t) =>
       /\ t \notin IdsIn(accepted)
       /\ t \notin IdsIn(mem.outbox) /\ t \notin IdsIn(disk.outbox)
  /\ EndsLast(t)

(* What the handler on the lane may count on. *)
Working(t) ==
  /\ OnLane(t) /\ lane.who = "live" =>
       /\ ThreadOf[t] \in native.subscribed /\ t \in mem.watches
       /\ ~Due(t) /\ t \notin svc.completed
       /\ lane.id = t => /\ ~About(t)
                         /\ Single(t) => Receipts(mem, t) \subseteq
                                           (IF lane.step = "receipt" THEN {t} ELSE {})
  /\ OnLane(t) /\ lane.who = "recover" =>
       /\ Single(t) => t \notin svc.completed
       /\ ready.phase = "recover" /\ t \notin ready.turns
  /\ t \in ready.found => ready.phase = "resume"

(* What a sink has taken has a receipt, waits in the outbox to be struck   *)
(* off, or is of a turn that is given up; it is staged again only for a    *)
(* turn with several messages.                                             *)
Remembered(t) ==
  \A id \in IdsIn(accepted) : TurnOf(id) = t =>
    /\ \/ id \in mem.acks /\ t \in mem.watches
       \/ id \in IdsIn(mem.outbox)
       \/ Gone(mem, t) /\ (Single(t) => id \in svc.known \/ ~Due(t))
    /\ \/ id \in disk.acks /\ t \in disk.watches
       \/ id \in IdsIn(disk.outbox)
       \/ Gone(disk, t)
    /\ id \in IdsIn(mem.outbox) =>
         id \in IdsIn(disk.outbox) \/ (~Single(t) /\ t \in svc.completed)

(* A receipt is of nothing staged; the receipts of a completed turn that   *)
(* still has a message staged are in the memory of the process.            *)
ReceiptsApart(t) ==
  /\ \A id : TurnOf(id) = t =>
       /\ ~(id \in mem.acks /\ id \in IdsIn(mem.outbox))
       /\ ~(id \in disk.acks /\ id \in IdsIn(disk.outbox))
  /\ t \in svc.completed /\ Single(t) /\ PendingTurn(mem, t)
       => Receipts(mem, t) \subseteq svc.known

TurnMemory(t) ==
  /\ Followed(t) /\ NoticeLast(t) /\ Working(t) /\ Remembered(t) /\ ReceiptsApart(t)

(* Most steps leave what is staged, taken and receipted of a turn alone.   *)
SameStore(u) ==
  /\ disk' = disk \/ disk' = mem
  /\ \A id : TurnOf(id) = u =>
       /\ id \in mem'.acks <=> id \in mem.acks
       /\ id \in IdsIn(mem'.outbox) <=> id \in IdsIn(mem.outbox)
       /\ id \in IdsIn(accepted') <=> id \in IdsIn(accepted)
  /\ u \in mem.watches => u \in mem'.watches
  /\ native'.status[u] = "done" /\ u \in mem'.watches => u \in mem.watches
SameTalk(u) ==
  /\ native.status[u] = "done" => native'.status[u] = "done"
  /\ Heard(u)' => Heard(u) \/ u \in mem'.watches
  /\ About(u)' => About(u) \/ native.status[u] = "running"
  /\ EndsLast(u) => EndsLast(u)'
SameWork(u) ==
  /\ svc.known \subseteq svc'.known
  /\ u \in svc.completed => u \in svc'.completed
  /\ u \in svc'.completed =>
       \/ u \in svc.completed
       \/ /\ ~About(u)' /\ ~OnLane(u)'
          /\ Single(u) => Receipts(mem, u)' \subseteq svc'.known
  /\ Due(u)' => Due(u) \/ (u \in mem'.watches /\ ~About(u)' /\ ~OnLane(u)')
  /\ OnLane(u)' =>
       /\ OnLane(u) /\ lane'.who = lane.who /\ lane'.id = lane.id
       /\ lane'.step = "receipt" <=> lane.step = "receipt"
       /\ lane.who = "live" =>
            (ThreadOf[u] \in native.subscribed => ThreadOf[u] \in native'.subscribed)
       /\ lane.who = "recover" =>
            ready'.phase = ready.phase /\ ready'.turns \subseteq ready.turns
  /\ u \in ready'.found => ready'.phase = "resume"
Gentle(u) == SameStore(u) /\ SameTalk(u) /\ SameWork(u)

LEMMA PendingIs == \A s, t : PendingTurn(s, t) <=> \E id : TurnOf(id) = t /\ id \in IdsIn(s.outbox)
BY DEF PendingTurn

(* A turn that runs, or is on the lane with its end, is neither due nor    *)
(* completed, resp. over.                                                  *)
LEMMA TurnsAre ==
  ASSUME TurnBooks, NEW u \in Turns \ dismissed
  PROVE  /\ native.status[u] # "done" => ~Due(u) /\ u \notin svc.completed
         /\ lane.who = "live" /\ lane.id = u => native.status[u] = "done"
         /\ u \in svc.completed => \A id \in OwedIds(u) : InHand(mem, id)
         /\ TurnOf(u) = u
  BY TurnOfIds DEF TurnBooks, TurnsInv, NativeInv, CompletedSettled, Settled, Due

LEMMA GentleKeeps ==
  ASSUME TurnBooks, NEW u \in Turns \ dismissed, TurnMemory(u), Gentle(u)
  PROVE  TurnMemory(u)'
<1> USE DEF Gentle
<1>1. /\ native.status[u] # "done" => ~Due(u) /\ u \notin svc.completed
      /\ lane.who = "live" /\ lane.id = u => native.status[u] = "done"
  BY TurnsAre
<1>2. About(u)' => ~Due(u)' /\ u \notin svc'.completed
  BY <1>1 DEF SameTalk, SameWork, TurnMemory, Followed
<1>3. Followed(u)'
  <2>1. Heard(u)' => u \in mem'.watches
    BY DEF SameStore, SameTalk, TurnMemory, Followed
  <2>2. Due(u)' => u \in mem'.watches \/ u \in svc'.completed
    BY DEF SameStore, SameWork, TurnMemory, Followed
  <2>3. \A id : TurnOf(id) = u =>
           /\ id \in IdsIn(mem'.outbox) => u \in mem'.watches \/ native'.status[u] = "done"
           /\ id \in IdsIn(disk'.outbox) => u \in disk'.watches \/ native'.status[u] = "done"
    BY DEF SameStore, SameTalk, TurnMemory, Followed
  <2> QED BY <1>2, <2>1, <2>2, <2>3 DEF Followed
<1>4. NoticeLast(u)'
  <2>1. native'.status[u] # "done" \/ About(u)' => native.status[u] # "done" \/ About(u)
    BY DEF SameTalk
  <2>2. TurnOf(u) = u
    BY TurnsAre
  <2> QED BY <2>1, <2>2 DEF SameStore, SameTalk, TurnMemory, NoticeLast
<1>5. Working(u)'
  <2>1. OnLane(u)' => ~Due(u)' \/ Due(u)
    BY DEF SameWork
  <2>2. OnLane(u)' => u \notin svc'.completed \/ u \in svc.completed
    BY DEF SameWork
  <2>3. Receipts(mem, u)' = Receipts(mem, u)
    BY DEF SameStore, Receipts
  <2>4. lane.who = "live" /\ lane.id = u /\ ~About(u) => ~About(u)'
    BY <1>1 DEF SameTalk
  <2>5. OnLane(u)' /\ lane'.who = "live" =>
       /\ ThreadOf[u] \in native'.subscribed /\ u \in mem'.watches
       /\ ~Due(u)' /\ u \notin svc'.completed
       /\ lane'.id = u => /\ ~About(u)'
                          /\ Single(u) => Receipts(mem, u)' \subseteq
                                            (IF lane'.step = "receipt" THEN {u} ELSE {})
    BY <2>1, <2>2, <2>3, <2>4 DEF SameWork, SameStore, TurnMemory, Working
  <2>6. OnLane(u)' /\ lane'.who = "recover" =>
       /\ Single(u) => u \notin svc'.completed
       /\ ready'.phase = "recover" /\ u \notin ready'.turns
    BY <2>2 DEF SameWork, TurnMemory, Working
  <2>7. u \in ready'.found => ready'.phase = "resume"
    BY DEF SameWork
  <2>8. Single(u)' <=> Single(u)
    BY DEF Single
  <2> QED BY <2>5, <2>6, <2>7, <2>8 DEF Working
<1>6. Remembered(u)'
  <2>1. SUFFICES ASSUME NEW id \in IdsIn(accepted'), TurnOf(id) = u
        PROVE  /\ \/ id \in mem'.acks /\ u \in mem'.watches
                  \/ id \in IdsIn(mem'.outbox)
                  \/ Gone(mem, u)' /\ (Single(u) => id \in svc'.known \/ ~Due(u)')
               /\ \/ id \in disk'.acks /\ u \in disk'.watches
                  \/ id \in IdsIn(disk'.outbox)
                  \/ Gone(disk, u)'
               /\ id \in IdsIn(mem'.outbox) =>
                    id \in IdsIn(disk'.outbox) \/ (~Single(u) /\ u \in svc'.completed)
    BY DEF Remembered, Single
  <2>2. id \in IdsIn(accepted)
    BY <2>1 DEF SameStore
  <2>3. /\ \/ id \in mem.acks /\ u \in mem.watches
           \/ id \in IdsIn(mem.outbox)
           \/ Gone(mem, u) /\ (Single(u) => id \in svc.known \/ ~Due(u))
        /\ \/ id \in disk.acks /\ u \in disk.watches
           \/ id \in IdsIn(disk.outbox)
           \/ Gone(disk, u)
        /\ id \in IdsIn(mem.outbox) =>
             id \in IdsIn(disk.outbox) \/ (~Single(u) /\ u \in svc.completed)
    BY <2>1, <2>2 DEF TurnMemory, Remembered
  <2>4. Gone(mem, u) => Gone(mem, u)' /\ u \notin mem'.watches
    BY DEF Gone, SameStore, SameTalk
  <2>5. \/ id \in mem'.acks /\ u \in mem'.watches
        \/ id \in IdsIn(mem'.outbox)
        \/ Gone(mem, u)' /\ (Single(u) => id \in svc'.known \/ ~Due(u)')
    BY <2>1, <2>3, <2>4 DEF SameStore, SameWork
  <2>6. \/ id \in disk'.acks /\ u \in disk'.watches
        \/ id \in IdsIn(disk'.outbox)
        \/ Gone(disk, u)'
    BY <2>3 DEF SameStore, SameTalk, Gone
  <2>7. id \in IdsIn(mem'.outbox) =>
           id \in IdsIn(disk'.outbox) \/ (~Single(u) /\ u \in svc'.completed)
    BY <2>1, <2>3 DEF SameStore, SameWork
  <2> QED BY <2>5, <2>6, <2>7
<1>7. ReceiptsApart(u)'
  <2>1. \A id : TurnOf(id) = u =>
           /\ ~(id \in mem'.acks /\ id \in IdsIn(mem'.outbox))
           /\ ~(id \in disk'.acks /\ id \in IdsIn(disk'.outbox))
    BY DEF SameStore, TurnMemory, ReceiptsApart
  <2>2. PendingTurn(mem, u)' <=> PendingTurn(mem, u)
    BY DEF PendingTurn, SameStore
  <2>3. Receipts(mem, u)' = Receipts(mem, u)
    BY DEF SameStore, Receipts
  <2>4. u \in svc'.completed /\ Single(u) /\ PendingTurn(mem, u)'
          => Receipts(mem, u)' \subseteq svc'.known
    BY <2>2, <2>3 DEF SameWork, TurnMemory, ReceiptsApart
  <2> QED BY <2>1, <2>4 DEF ReceiptsApart, Single
<1> QED BY <1>3, <1>4, <1>5, <1>6, <1>7 DEF TurnMemory

(* The watch of a turn that is over is given up.                           *)
LEMMA DiscardMemory ==
  ASSUME TurnBooks, NEW u \in Turns \ dismissed, TurnMemory(u),
         native'.status[u] = "done", UNCHANGED accepted, disk' = disk \/ disk' = mem,
         native.status[u] = "done", ~About(u)', EndsLast(u)', ~OnLane(u)', ~Due(u)',
         u \notin mem'.watches, mem'.outbox = mem.outbox,
         \A id : TurnOf(id) = u => id \notin mem'.acks,
         u \in svc.completed => u \in svc'.completed
  PROVE  TurnMemory(u)'
<1>1. Followed(u)'
  BY DEF Followed, Heard, TurnMemory
<1>2. NoticeLast(u)' /\ Working(u)'
  BY DEF NoticeLast, Working, Due
<1>3. Remembered(u)'
  BY DEF Remembered, TurnMemory, Gone, Single
<1>4. ReceiptsApart(u)'
  <2>1. Receipts(mem, u)' = {}
    BY DEF Receipts
  <2>2. \A id : TurnOf(id) = u =>
           /\ ~(id \in mem'.acks /\ id \in IdsIn(mem'.outbox))
           /\ ~(id \in disk'.acks /\ id \in IdsIn(disk'.outbox))
    BY DEF TurnMemory, ReceiptsApart
  <2> QED BY <2>1, <2>2 DEF ReceiptsApart
<1> QED BY <1>1, <1>2, <1>3, <1>4 DEF TurnMemory

(* A message of u is staged.                                               *)
LEMMA StageMemory ==
  ASSUME TurnBooks, NEW u \in Turns \ dismissed, TurnMemory(u), NEW id, TurnOf(id) = u,
         UNCHANGED <<native, accepted>>, disk' = disk \/ disk' = mem,
         IdsIn(mem'.outbox) = IdsIn(mem.outbox) \cup {id},
         mem'.acks = mem.acks, mem'.watches = mem.watches,
         id \notin mem.acks,
         id \in IdsIn(accepted) => ~Single(u) /\ u \in svc.completed,
         Single(u) => u \notin svc.completed,
         svc.known \subseteq svc'.known, u \in svc.completed <=> u \in svc'.completed,
         u \in mem.watches \/ native.status[u] = "done",
         id = u => native.status[u] = "done" /\ ~About(u)',
         About(u)' => About(u), EndsLast(u)', Due(u)' => Due(u),
         Working(u)'
  PROVE  TurnMemory(u)'
<1>1. Followed(u)'
  <2>1. Heard(u)' => u \in mem'.watches
    BY DEF Heard, TurnMemory, Followed
  <2>2. /\ About(u)' => ~Due(u)' /\ u \notin svc'.completed
        /\ Due(u)' => u \in mem'.watches \/ u \in svc'.completed
    BY DEF TurnMemory, Followed
  <2>3. \A i : TurnOf(i) = u =>
           /\ i \in IdsIn(mem'.outbox) => u \in mem'.watches \/ native'.status[u] = "done"
           /\ i \in IdsIn(disk'.outbox) => u \in disk'.watches \/ native'.status[u] = "done"
    BY DEF TurnMemory, Followed
  <2> QED BY <2>1, <2>2, <2>3 DEF Followed
<1>2. NoticeLast(u)'
  BY DEF NoticeLast, TurnMemory
<1>3. Remembered(u)'
  <2>1. SUFFICES ASSUME NEW i \in IdsIn(accepted), TurnOf(i) = u
        PROVE  /\ \/ i \in mem'.acks /\ u \in mem'.watches
                  \/ i \in IdsIn(mem'.outbox)
                  \/ Gone(mem, u)' /\ (Single(u) => i \in svc'.known \/ ~Due(u)')
               /\ \/ i \in disk'.acks /\ u \in disk'.watches
                  \/ i \in IdsIn(disk'.outbox)
                  \/ Gone(disk, u)'
               /\ i \in IdsIn(mem'.outbox) =>
                    i \in IdsIn(disk'.outbox) \/ (~Single(u) /\ u \in svc'.completed)
    BY DEF Remembered, Single
  <2>2. /\ \/ i \in mem.acks /\ u \in mem.watches
           \/ i \in IdsIn(mem.outbox)
           \/ Gone(mem, u) /\ (Single(u) => i \in svc.known \/ ~Due(u))
        /\ \/ i \in disk.acks /\ u \in disk.watches
           \/ i \in IdsIn(disk.outbox)
           \/ Gone(disk, u)
        /\ i \in IdsIn(mem.outbox) =>
             i \in IdsIn(disk.outbox) \/ (~Single(u) /\ u \in svc.completed)
    BY <2>1 DEF TurnMemory, Remembered
  <2>3. \/ i \in mem'.acks /\ u \in mem'.watches
        \/ i \in IdsIn(mem'.outbox)
        \/ Gone(mem, u)' /\ (Single(u) => i \in svc'.known \/ ~Due(u)')
    BY <2>2 DEF Gone
  <2>4. \/ i \in disk'.acks /\ u \in disk'.watches
        \/ i \in IdsIn(disk'.outbox)
        \/ Gone(disk, u)'
    BY <2>2 DEF Gone
  <2>5. i \in IdsIn(mem'.outbox) =>
           i \in IdsIn(disk'.outbox) \/ (~Single(u) /\ u \in svc'.completed)
    BY <2>2, <2>1
  <2> QED BY <2>3, <2>4, <2>5
<1>4. ReceiptsApart(u)'
  <2>1. \A i : TurnOf(i) = u =>
           /\ ~(i \in mem'.acks /\ i \in IdsIn(mem'.outbox))
           /\ ~(i \in disk'.acks /\ i \in IdsIn(disk'.outbox))
    BY DEF TurnMemory, ReceiptsApart
  <2> QED BY <2>1 DEF ReceiptsApart, Single
<1> QED BY <1>1, <1>2, <1>3, <1>4 DEF TurnMemory

(* A sink takes a message of u, which is struck off; with the last one of  *)
(* a completed turn the watch may be given up.                             *)
LEMMA AcceptMemory ==
  ASSUME TurnBooks, NEW u \in Turns \ dismissed, TurnMemory(u), NEW id, TurnOf(id) = u,
         UNCHANGED <<native, events, ready, disk>>, id \in IdsIn(mem.outbox) \cap IdsIn(disk.outbox),
         IdsIn(accepted') = IdsIn(accepted) \cup {id},
         IdsIn(mem'.outbox) = IdsIn(mem.outbox) \ {id},
         \/ mem'.acks = mem.acks \cup {id} /\ mem'.watches = mem.watches
         \/ /\ u \notin mem'.watches /\ ~PendingTurn(mem', u) /\ u \in svc.completed
            /\ \A i : TurnOf(i) = u => i \notin mem'.acks
            /\ ~OnLane(u)',
         svc.known \subseteq svc'.known, u \in svc.completed <=> u \in svc'.completed,
         u \in svc.completed /\ Single(u) => id \in svc'.known,
         Due(u)' => Due(u), Working(u)'
  PROVE  TurnMemory(u)'
<1>1. /\ native.status[u] # "done" => ~Due(u) /\ u \notin svc.completed
      /\ TurnOf(u) = u
  BY TurnsAre
<1>2. About(u)' <=> About(u)
  BY DEF About, EventTurn
<1>3. EndsLast(u)' <=> EndsLast(u)
  BY DEF EndsLast, EventTurn
<1>4. Heard(u)' <=> Heard(u)
  BY <1>2 DEF Heard
<1>5. Single(u)' <=> Single(u)
  BY DEF Single
<1>6. NoticeLast(u)'
  BY <1>1, <1>2, <1>3 DEF NoticeLast, TurnMemory
<1>7. CASE mem'.acks = mem.acks \cup {id} /\ mem'.watches = mem.watches
  <2>1. Followed(u)'
    BY <1>2, <1>4, <1>7 DEF Followed, TurnMemory
  <2>2. id \in IdsIn(accepted') => u \in mem.watches \/ (native.status[u] = "done"
             /\ (Single(u) => id \in svc'.known \/ ~Due(u)'))
    BY DEF TurnMemory, Followed
  <2>3. Remembered(u)'
    <3>1. SUFFICES ASSUME NEW i \in IdsIn(accepted'), TurnOf(i) = u
          PROVE  /\ \/ i \in mem'.acks /\ u \in mem'.watches
                    \/ i \in IdsIn(mem'.outbox)
                    \/ Gone(mem, u)' /\ (Single(u) => i \in svc'.known \/ ~Due(u)')
                 /\ \/ i \in disk'.acks /\ u \in disk'.watches
                    \/ i \in IdsIn(disk'.outbox)
                    \/ Gone(disk, u)'
                 /\ i \in IdsIn(mem'.outbox) =>
                      i \in IdsIn(disk'.outbox) \/ (~Single(u) /\ u \in svc'.completed)
      BY DEF Remembered, Single
    <3>2. CASE i = id
      BY <1>7, <2>2, <3>1, <3>2 DEF Gone
    <3>3. CASE i # id
      <4>1. i \in IdsIn(accepted)
        BY <3>1, <3>3
      <4>2. /\ \/ i \in mem.acks /\ u \in mem.watches
               \/ i \in IdsIn(mem.outbox)
               \/ Gone(mem, u) /\ (Single(u) => i \in svc.known \/ ~Due(u))
            /\ \/ i \in disk.acks /\ u \in disk.watches
               \/ i \in IdsIn(disk.outbox)
               \/ Gone(disk, u)
            /\ i \in IdsIn(mem.outbox) =>
                 i \in IdsIn(disk.outbox) \/ (~Single(u) /\ u \in svc.completed)
        BY <3>1, <4>1 DEF TurnMemory, Remembered
      <4> QED BY <1>7, <3>3, <4>2 DEF Gone
    <3> QED BY <3>2, <3>3
  <2>4. ReceiptsApart(u)'
    <3>1. \A i : TurnOf(i) = u =>
             /\ ~(i \in mem'.acks /\ i \in IdsIn(mem'.outbox))
             /\ ~(i \in disk'.acks /\ i \in IdsIn(disk'.outbox))
      BY <1>7 DEF TurnMemory, ReceiptsApart
    <3>2. u \in svc.completed /\ Single(u) => Receipts(mem, u) \subseteq svc.known
      BY PendingIs DEF TurnMemory, ReceiptsApart
    <3>3. Receipts(mem, u)' = Receipts(mem, u) \cup {id}
      BY <1>7 DEF Receipts
    <3> QED BY <3>1, <3>2, <3>3 DEF ReceiptsApart, Single
  <2> QED BY <1>6, <2>1, <2>3, <2>4 DEF TurnMemory
<1>8. CASE /\ u \notin mem'.watches /\ ~PendingTurn(mem', u) /\ u \in svc.completed
           /\ \A i : TurnOf(i) = u => i \notin mem'.acks
           /\ ~OnLane(u)'
  <2>0. \A i : TurnOf(i) = u => i \notin IdsIn(mem'.outbox)
    BY <1>8, PendingIs
  <2>1. native.status[u] = "done" /\ ~About(u)
    BY <1>1, <1>8 DEF TurnMemory, Followed
  <2>2. Followed(u)'
    BY <1>2, <1>4, <1>8, <2>0, <2>1 DEF Followed, TurnMemory, Heard
  <2>3. Remembered(u)'
    <3>1. SUFFICES ASSUME NEW i \in IdsIn(accepted'), TurnOf(i) = u
          PROVE  /\ Single(u) => i \in svc'.known \/ ~Due(u)'
                 /\ \/ i \in disk.acks /\ u \in disk.watches
                    \/ i \in IdsIn(disk.outbox)
                    \/ Gone(disk, u)
      BY <1>8, <2>0, <2>1 DEF Remembered, Single, Gone
    <3>2. CASE i = id
      BY <1>8, <3>2
    <3>3. CASE i # id
      <4>1. i \in IdsIn(accepted) /\ i \notin IdsIn(mem.outbox)
        BY <2>0, <3>1, <3>3
      <4>2. /\ \/ i \in mem.acks /\ u \in mem.watches
               \/ Gone(mem, u) /\ (Single(u) => i \in svc.known \/ ~Due(u))
            /\ \/ i \in disk.acks /\ u \in disk.watches
               \/ i \in IdsIn(disk.outbox)
               \/ Gone(disk, u)
        BY <3>1, <4>1 DEF TurnMemory, Remembered
      <4>3. Single(u) => Receipts(mem, u) \subseteq svc.known
        BY <1>8, PendingIs DEF TurnMemory, ReceiptsApart
      <4>4. i \in mem.acks => i \in Receipts(mem, u)
        BY <3>1 DEF Receipts
      <4> QED BY <4>2, <4>3, <4>4
    <3> QED BY <3>2, <3>3
  <2>4. ReceiptsApart(u)'
    <3>1. \A i : TurnOf(i) = u => ~(i \in disk'.acks /\ i \in IdsIn(disk'.outbox))
      BY DEF TurnMemory, ReceiptsApart
    <3> QED BY <1>8, <3>1 DEF ReceiptsApart
  <2> QED BY <1>6, <2>2, <2>3, <2>4 DEF TurnMemory
<1> QED BY <1>7, <1>8

(* The queue: nothing happens, it is dropped, grows, or loses its head.    *)
LEMMA TalkStays ==
  ASSUME UNCHANGED events
  PROVE  \A u : (About(u)' <=> About(u)) /\ (EndsLast(u)' <=> EndsLast(u))
  BY DEF About, EndsLast, EventTurn

LEMMA TalkDropped ==
  ASSUME events' = <<>>
  PROVE  \A u : ~About(u)' /\ EndsLast(u)'
<1>1. DOMAIN events' = {}
  OBVIOUS
<1> QED BY <1>1 DEF About, EndsLast

LEMMA TalkGrows ==
  ASSUME TurnBooks, NEW es, NEW t, Says(es, t), NEW u,
         u # t \/ \A j, k \in DOMAIN es : j < k => es[j].kind # "turn_completed"
  PROVE  /\ About(u)' => About(u) \/ (u = t /\ es # <<>>)
         /\ EndsLast(u) => EndsLast(u)'
<1>0. EventsTyped /\ QueueTrue /\ es \in Seq(ProperEvent) /\ events' = events \o es
  BY QueueParts DEF TurnBooks, TurnsInv, DeliveryInv, Says
<1>1. /\ DOMAIN es = 1..Len(es) /\ Len(es) \in Nat
      /\ \A i \in DOMAIN events : i \in DOMAIN events' /\ events'[i] = events[i]
      /\ \A j \in DOMAIN es : /\ Len(events) + j \in DOMAIN events'
                              /\ events'[Len(events) + j] = es[j]
      /\ \A i \in DOMAIN events' :
           i \in DOMAIN events \/ \E j \in DOMAIN es : i = Len(events) + j
  BY <1>0, Appended
<1>2. DOMAIN events = 1..Len(events) /\ Len(events) \in Nat
  BY <1>0, EventsPlaces
<1>3. \A j \in DOMAIN es : TurnOf(es[j].id) = t /\ es # <<>>
  BY DEF Says
<1>4. About(u)' => About(u) \/ (u = t /\ es # <<>>)
  <2>1. SUFFICES ASSUME NEW i \in DOMAIN events', EventTurn(i)' = u
        PROVE  About(u) \/ (u = t /\ es # <<>>)
    BY DEF About
  <2>2. CASE i \in DOMAIN events
    BY <1>1, <2>1, <2>2 DEF About, EventTurn
  <2>3. CASE \E j \in DOMAIN es : i = Len(events) + j
    BY <1>1, <1>3, <2>1, <2>3 DEF EventTurn
  <2> QED BY <1>1, <2>1, <2>2, <2>3
<1>5. ASSUME EndsLast(u) PROVE EndsLast(u)'
  <2>1. SUFFICES ASSUME NEW j \in DOMAIN events', NEW k \in DOMAIN events', j < k,
                        events'[j].kind = "turn_completed", EventTurn(j)' = u, EventTurn(k)' = u
        PROVE  FALSE
    BY DEF EndsLast
  <2>2. CASE k \in DOMAIN events
    <3>1. j \in DOMAIN events
      BY <1>1, <1>2, <2>1, <2>2
    <3> QED BY <1>1, <1>5, <2>1, <2>2, <3>1 DEF EndsLast, EventTurn
  <2>3. CASE k \notin DOMAIN events
    <3>1. PICK n \in DOMAIN es : k = Len(events) + n
      BY <1>1, <2>1, <2>3
    <3>2. u = t /\ native.status[u] = "running"
      BY <1>1, <1>3, <2>1, <3>1 DEF EventTurn, Says
    <3>3. CASE j \in DOMAIN events
      <4>1. EventTurn(j) = u /\ events[j].kind = "turn_completed"
        BY <1>1, <2>1, <3>3 DEF EventTurn
      <4> QED BY <1>0, <3>2, <3>3, <4>1 DEF QueueTrue
    <3>4. CASE j \notin DOMAIN events
      <4>1. PICK m \in DOMAIN es : j = Len(events) + m
        BY <1>1, <2>1, <3>4
      <4>2. m < n
        BY <1>1, <1>2, <2>1, <3>1, <4>1
      <4> QED BY <1>1, <2>1, <3>1, <3>2, <4>1, <4>2
    <3> QED BY <3>3, <3>4
  <2> QED BY <2>2, <2>3
<1> QED BY <1>4, <1>5

LEMMA TalkTaken ==
  ASSUME EventsTyped, events # <<>>, events' = Tail(events), NEW u
  PROVE  /\ About(u)' => About(u)
         /\ EndsLast(u) => EndsLast(u)'
         /\ TurnOf(Head(events).id) = u => About(u)
         /\ TurnOf(Head(events).id) = u /\ Head(events).kind = "turn_completed" /\ EndsLast(u)
              => ~About(u)'
<1>1. /\ 1 \in DOMAIN events /\ events[1] = Head(events)
      /\ \A i \in DOMAIN events' :
           i + 1 \in DOMAIN events /\ events'[i] = events[i + 1] /\ i >= 1 /\ i \in Nat
  BY Taken
<1>2. About(u)' => About(u)
  BY <1>1 DEF About, EventTurn
<1>3. EndsLast(u) => EndsLast(u)'
  <2>1. SUFFICES ASSUME EndsLast(u), NEW j \in DOMAIN events', NEW k \in DOMAIN events', j < k,
                        events'[j].kind = "turn_completed", EventTurn(j)' = u, EventTurn(k)' = u
        PROVE  FALSE
    BY DEF EndsLast
  <2>2. /\ j + 1 \in DOMAIN events /\ k + 1 \in DOMAIN events /\ j + 1 < k + 1
        /\ events[j + 1].kind = "turn_completed" /\ EventTurn(j + 1) = u /\ EventTurn(k + 1) = u
    BY <1>1, <2>1 DEF EventTurn
  <2> QED BY <2>1, <2>2 DEF EndsLast
<1>4. TurnOf(Head(events).id) = u => About(u)
  BY <1>1 DEF About, EventTurn
<1>5. TurnOf(Head(events).id) = u /\ Head(events).kind = "turn_completed" /\ EndsLast(u)
        => ~About(u)'
  <2>1. SUFFICES ASSUME events[1].kind = "turn_completed", EventTurn(1) = u, EndsLast(u),
                        NEW i \in DOMAIN events', EventTurn(i)' = u
        PROVE  FALSE
    BY <1>1 DEF About, EventTurn
  <2>2. i + 1 \in DOMAIN events /\ 1 < i + 1 /\ EventTurn(i + 1) = u
    BY <1>1, <2>1 DEF EventTurn
  <2> QED BY <1>1, <2>1, <2>2 DEF EndsLast
<1> QED BY <1>2, <1>3, <1>4, <1>5

(* The process dies: what the disk says is all that is left.               *)
LEMMA CrashMemory ==
  ASSUME TurnBooks, NEW u \in Turns \ dismissed, TurnMemory(u), Crash
  PROVE  TurnMemory(u)'
<1>0. Good(disk) /\ NativeTyped
  BY TypeParts DEF TurnBooks, DeliveryInv
<1>1. /\ events' = <<>> /\ ready' = Idle /\ lane' = Free /\ svc' = FreshService
      /\ mem' = Loaded(disk) /\ UNCHANGED <<disk, accepted>>
      /\ native' = [native EXCEPT !.conn = FALSE, !.subscribed = {},
           !.status = [t \in Turns |-> IF @[t] = "starting" THEN "running" ELSE @[t]]]
  BY DEF Crash
<1>2. /\ native'.subscribed = {}
      /\ native'.status[u] = IF native.status[u] = "starting" THEN "running" ELSE native.status[u]
  BY <1>0, <1>1, StatusAfterLoss
<1>3. /\ mem'.outbox = disk.outbox /\ mem'.watches = disk.watches
      /\ mem'.acks = {id \in disk.acks : TurnOf(id) \in disk.watches}
  BY <1>0, <1>1, LoadedKeeps
<1>4. /\ ~About(u)' /\ EndsLast(u)'
  BY <1>1, TalkDropped
<1>5. ~Heard(u)'
  BY <1>2, <1>4 DEF Heard
<1>6. /\ lane'.who = "free" /\ ready'.found = {} /\ ready'.turns = {}
      /\ svc'.completed = {} /\ svc'.recovered = {}
  BY <1>1 DEF Free, Idle, FreshService
<1>7. ~Due(u)' /\ ~OnLane(u)'
  BY <1>6 DEF Due, OnLane
<1>8. Followed(u)'
  BY <1>1, <1>2, <1>3, <1>4, <1>5, <1>7 DEF TurnMemory, Followed
<1>9. NoticeLast(u)'
  BY <1>1, <1>2, <1>3, <1>4 DEF TurnMemory, NoticeLast
<1>10. Working(u)'
  BY <1>6, <1>7 DEF Working
<1>11. Remembered(u)'
  BY <1>1, <1>2, <1>3, <1>7 DEF TurnMemory, Remembered, Gone
<1>12. ReceiptsApart(u)'
  BY <1>1, <1>3, <1>6 DEF TurnMemory, ReceiptsApart
<1> QED BY <1>8, <1>9, <1>10, <1>11, <1>12 DEF TurnMemory

-----------------------------------------------------------------------------
(* TurnMemory: what each step does to it.                                  *)

LEMMA StillKeeps ==
  ASSUME TurnBooks, NEW u \in Turns \ dismissed, TurnMemory(u),
         UNCHANGED <<mem, events, accepted>>, disk' = disk \/ disk' = mem,
         native'.status = native.status, native'.subscribed = native.subscribed,
         svc'.completed = svc.completed, svc.known \subseteq svc'.known,
         svc'.recovered \cup ready'.found \cup ready'.turns
           \subseteq svc.recovered \cup ready.found \cup ready.turns,
         \/ lane' = lane
         \/ lane'.who \notin {"live", "recover"}
         \/ /\ lane'.who = lane.who /\ lane'.id = lane.id
            /\ lane'.step = "receipt" <=> lane.step = "receipt",
         OnLane(u)' /\ lane.who = "recover" =>
           ready'.phase = ready.phase /\ ready'.turns \subseteq ready.turns,
         u \in ready'.found => ready'.phase = "resume"
  PROVE  TurnMemory(u)'
<1>1. SameStore(u)
  BY DEF SameStore
<1>2. SameTalk(u)
  <2>1. (About(u)' <=> About(u)) /\ (EndsLast(u)' <=> EndsLast(u))
    BY TalkStays
  <2> QED BY <2>1 DEF SameTalk, Heard
<1>3. SameWork(u)
  BY DEF SameWork, Due, OnLane
<1> QED BY <1>1, <1>2, <1>3, GentleKeeps DEF Gentle

LEMMA DrainMemory ==
  ASSUME TurnBooks, NEW u \in Turns \ dismissed, TurnMemory(u),
         \/ DrainFlushed \/ DrainNotFlushed \/ DrainRefused
         \/ DrainReceipts \/ DrainReceiptsNotFlushed \/ RetryPass \/ RetryReceipts
         \/ Persist
  PROVE  TurnMemory(u)'
<1>0. /\ svc \in Service /\ lane \in Lane
      /\ u \in ready.found => ready.phase = "resume"
  BY TypeParts DEF TurnBooks, DeliveryInv, TurnMemory, Working
<1>1. /\ UNCHANGED <<mem, events, accepted, native>> /\ (disk' = disk \/ disk' = mem)
      /\ svc'.completed = svc.completed /\ svc'.known = svc.known
      /\ svc'.recovered = svc.recovered
  <2>1. svc' = svc \/ svc' = [svc EXCEPT !.ackPending = TRUE]
        \/ svc' = [svc EXCEPT !.ackPending = FALSE]
    BY DEF DrainFlushed, DrainNotFlushed, DrainRefused, DrainReceipts,
           DrainReceiptsNotFlushed, RetryPass, RetryReceipts, Persist
  <2>2. /\ svc'.completed = svc.completed /\ svc'.known = svc.known
        /\ svc'.recovered = svc.recovered
    BY <1>0, <2>1 DEF Service
  <2>3. UNCHANGED <<mem, events, accepted, native>> /\ (disk' = disk \/ disk' = mem)
    BY DEF DrainFlushed, DrainNotFlushed, DrainRefused, DrainReceipts,
           DrainReceiptsNotFlushed, RetryPass, RetryReceipts, Persist, Flushed
  <2> QED BY <2>2, <2>3
<1>2. ready' = ready \/ ready' = Idle
  BY DEF DrainFlushed, DrainNotFlushed, DrainRefused, DrainReceipts,
         DrainReceiptsNotFlushed, RetryPass, RetryReceipts, Persist, DrainEnds
<1>3. (ready' = ready /\ lane' = lane) \/ lane'.who \notin {"live", "recover"}
  <2>1. CASE RetryPass \/ RetryReceipts \/ Persist
    <3>1. UNCHANGED ready
      BY <2>1 DEF RetryPass, RetryReceipts, Persist
    <3>2. lane' = lane \/ lane' = [Free EXCEPT !.who = "retry", !.step = "flush"]
      BY <2>1 DEF RetryPass, RetryReceipts, Persist
    <3> QED BY <3>1, <3>2 DEF Free
  <2>2. CASE \/ DrainFlushed \/ DrainNotFlushed \/ DrainRefused
             \/ DrainReceipts \/ DrainReceiptsNotFlushed
    <3>1. lane.who \in {"ready", "retry"}
      BY <2>2 DEF DrainFlushed, DrainNotFlushed, DrainRefused, DrainReceipts,
                  DrainReceiptsNotFlushed, Draining
    <3>2. CASE DrainFlushed
      <4>1. lane' = Free \/ lane' = [lane EXCEPT !.step = "emit", !.rest = mem.outbox]
        BY <3>2, Zenon DEF DrainFlushed, DrainEnds
      <4>2. lane' = [lane EXCEPT !.step = "emit", !.rest = mem.outbox] => lane'.who = lane.who
        BY <1>0 DEF Lane
      <4>3. lane' = Free => lane'.who = "free"
        BY DEF Free
      <4> QED BY <3>1, <4>1, <4>2, <4>3
    <3>3. CASE DrainRefused
      <4>1. lane'.who = lane.who
        BY <1>0, <3>3 DEF DrainRefused, DrainStep, Lane
      <4> QED BY <3>1, <4>1
    <3>4. CASE DrainNotFlushed \/ DrainReceipts \/ DrainReceiptsNotFlushed
      BY <3>4 DEF DrainNotFlushed, DrainReceipts, DrainReceiptsNotFlushed, DrainEnds, Free
    <3> QED BY <2>2, <3>2, <3>3, <3>4
  <2> QED BY <2>1, <2>2
<1>4. /\ svc'.recovered \cup ready'.found \cup ready'.turns
           \subseteq svc.recovered \cup ready.found \cup ready.turns
      /\ u \in ready'.found => ready'.phase = "resume"
  BY <1>0, <1>1, <1>2, ReadyValues
<1>5. OnLane(u)' => ready' = ready
  BY <1>3 DEF OnLane
<1> QED BY <1>1, <1>3, <1>4, <1>5, StillKeeps

LEMMA ConnectMemory ==
  ASSUME TurnBooks, NEW u \in Turns \ dismissed, TurnMemory(u),
         Connect \/ RehydrateEnds \/ ReadyDrains \/ RecoverTimesOut
         \/ \E r \in Routes : SkipUnbound(r)
  PROVE  TurnMemory(u)'
<1>0. /\ NativeTyped /\ ReadyTyped /\ svc \in Service
      /\ u \in ready.found => ready.phase = "resume"
      /\ OnLane(u) /\ lane.who = "recover" => ready.phase = "recover"
  BY TypeParts DEF TurnBooks, DeliveryInv, TurnMemory, Working, ReadyTyped
<1>1. CASE Connect
  <2>1. /\ native'.status = native.status /\ native'.subscribed = native.subscribed
        /\ UNCHANGED <<mem, events, accepted, disk, svc, lane>>
        /\ ready.phase = "idle"
        /\ ready' = [Idle EXCEPT !.phase = "resume", !.routes = Routes]
    BY <1>0, <1>1 DEF Connect, NativeTyped
  <2>2. ready'.found = {} /\ ready'.turns = {}
    BY <2>1 DEF Idle
  <2> QED BY <1>0, <2>1, <2>2, StillKeeps DEF OnLane
<1>2. CASE RehydrateEnds
  <2>1. /\ UNCHANGED <<native, mem, events, accepted, disk, lane>>
        /\ ready.phase = "resume"
        /\ svc' = [svc EXCEPT !.visible = @ \ ready.dropped, !.recovered = @ \cup ready.found]
        /\ ready' = [Idle EXCEPT !.phase = "recover", !.turns = svc'.recovered]
    BY <1>2, Zenon DEF RehydrateEnds
  <2>2. /\ svc'.completed = svc.completed /\ svc'.known = svc.known
        /\ svc'.recovered = svc.recovered \cup ready.found
    BY <1>0, <2>1 DEF Service
  <2>3. ready'.found = {} /\ ready'.turns = svc'.recovered
    BY <2>1 DEF Idle
  <2>4. svc'.recovered \cup ready'.found \cup ready'.turns
           \subseteq svc.recovered \cup ready.found \cup ready.turns
    BY <2>2, <2>3
  <2>5. ~(OnLane(u)' /\ lane.who = "recover")
    BY <1>0, <2>1 DEF OnLane
  <2> QED BY <1>0, <2>1, <2>2, <2>3, <2>4, <2>5, StillKeeps
<1>3. CASE ReadyDrains
  <2>1. /\ UNCHANGED <<native, mem, events, accepted, disk, svc>>
        /\ ready' = [Idle EXCEPT !.phase = "drain"]
        /\ lane' = [Free EXCEPT !.who = "ready", !.step = "flush"]
    BY <1>3, Zenon DEF ReadyDrains
  <2>2. ready'.found = {} /\ ready'.turns = {} /\ lane'.who = "ready"
    BY <2>1 DEF Idle, Free
  <2> QED BY <1>0, <2>1, <2>2, StillKeeps DEF OnLane
<1>4. CASE RecoverTimesOut
  <2>1. /\ UNCHANGED <<native, mem, events, accepted, disk, svc, ready>>
        /\ lane'.who = "free"
    BY <1>4 DEF RecoverTimesOut, Free
  <2> QED BY <1>0, <2>1, StillKeeps
<1>5. ASSUME NEW r \in Routes, SkipUnbound(r) PROVE TurnMemory(u)'
  <2>1. /\ UNCHANGED <<native, mem, events, accepted, disk, svc, lane>>
        /\ ready'.found = ready.found /\ ready'.turns = ready.turns
        /\ ready'.phase = ready.phase
    BY <1>0, <1>5 DEF SkipUnbound, ReadyTyped
  <2> QED BY <1>0, <2>1, StillKeeps
<1> QED BY <1>1, <1>2, <1>3, <1>4, <1>5

LEMMA WorkStays ==
  ASSUME NEW u, TurnMemory(u), UNCHANGED lane,
         svc'.completed = svc.completed, svc'.known = svc.known,
         svc'.recovered = svc.recovered,
         ready'.found = ready.found, ready'.turns = ready.turns, ready'.phase = ready.phase,
         native.subscribed \subseteq native'.subscribed
  PROVE  SameWork(u)
  BY DEF SameWork, Due, OnLane, TurnMemory, Working

LEMMA NativeMemory ==
  ASSUME TurnBooks, NEW u \in Turns \ dismissed, TurnMemory(u),
         NEW t \in Turns, Produce(t) \/ EndTurn(t)
  PROVE  TurnMemory(u)'
<1>1. UNCHANGED <<mem, disk, svc, lane, ready, accepted>> /\ native.status[t] = "running"
  BY DEF Produce, EndTurn
<1>2. PICK es \in Seq(ProperEvent), said \in Seq(ProperEvent) :
           /\ said = IF ThreadOf[t] \in native.subscribed THEN es ELSE <<>>
           /\ Says(said, t)
           /\ native'.subscribed = native.subscribed /\ native'.conn = native.conn
           /\ \A v \in Turns : v # t => native'.status[v] = native.status[v]
                                      /\ native'.produced[v] = native.produced[v]
           /\ \A j \in DOMAIN es : TurnOf(es[j].id) = t
           /\ \A j, k \in DOMAIN es : j < k => es[j].kind # "turn_completed"
           /\ \/ /\ native'.status[t] = "running"
                 /\ native'.produced[t] = native.produced[t] + 1
                 /\ es = <<ItemOf(AnswersOf[t][native.produced[t] + 1])>>
                 /\ \A j \in DOMAIN es : es[j].kind = "item_completed"
              \/ /\ native'.status[t] = "done" /\ native'.produced[t] = native.produced[t]
                 /\ native.produced[t] = Len(AnswersOf[t])
                 /\ \A j \in DOMAIN es : es[j].id = t
  BY NativeSays
<1>3. \A j, k \in DOMAIN said : j < k => said[j].kind # "turn_completed"
  BY <1>2
<1>4. /\ About(u)' => About(u) \/ (u = t /\ said # <<>>)
      /\ EndsLast(u) => EndsLast(u)'
  BY <1>2, <1>3, TalkGrows
<1>5. said # <<>> => ThreadOf[t] \in native.subscribed
  BY <1>2
<1>6. SameTalk(u)
  BY <1>1, <1>2, <1>4, <1>5 DEF SameTalk, Heard
<1>7. SameStore(u)
  BY <1>1 DEF SameStore
<1>8. SameWork(u)
  BY <1>1, <1>2, WorkStays
<1> QED BY <1>6, <1>7, <1>8, GentleKeeps DEF Gentle

LEMMA BeginMemory ==
  ASSUME TurnBooks, NEW u \in Turns \ dismissed, TurnMemory(u),
         NEW t \in Turns, StartTurn(t) \/ Started(t)
  PROVE  TurnMemory(u)'
<1>0. NativeTyped /\ svc \in Service /\ Good(mem) /\ QueueRest
  BY TypeParts, QueueParts DEF TurnBooks, TurnsInv, DeliveryInv
<1>1. CASE StartTurn(t)
  <2>1. /\ UNCHANGED <<mem, disk, svc, lane, ready, accepted, events>>
        /\ native'.subscribed = native.subscribed \cup {ThreadOf[t]}
        /\ native'.status = [native.status EXCEPT ![t] = "starting"]
        /\ native.status[t] = "new"
        /\ \A v \in Turns : ThreadOf[v] = ThreadOf[t] => native.status[v] # "running"
    BY <1>0, <1>1 DEF StartTurn, NativeTyped
  <2>2. (About(u)' <=> About(u)) /\ (EndsLast(u)' <=> EndsLast(u))
    BY <2>1, TalkStays
  <2>3. SameTalk(u)
    BY <1>0, <2>1, <2>2 DEF SameTalk, Heard, NativeTyped
  <2>4. SameStore(u)
    BY <2>1 DEF SameStore
  <2>5. SameWork(u)
    BY <2>1, WorkStays
  <2> QED BY <2>3, <2>4, <2>5, GentleKeeps DEF Gentle
<1>2. CASE Started(t)
  <2>1. /\ UNCHANGED <<disk, lane, ready, accepted, events>>
        /\ native'.subscribed = native.subscribed
        /\ native'.status = [native.status EXCEPT ![t] = "running"]
        /\ native.status[t] = "starting"
        /\ svc' = NoteActive(svc, t) /\ mem' = Watch(mem, t)
    BY <1>0, <1>2 DEF Started, NativeTyped
  <2>2. /\ mem'.outbox = mem.outbox /\ mem'.acks = mem.acks
        /\ mem.watches \subseteq mem'.watches /\ mem'.watches \subseteq mem.watches \cup {t}
        /\ Bound(mem, ThreadOf[t]) => t \in mem'.watches
    BY <1>0, <2>1, WatchKeeps
  <2>3. /\ svc'.completed = svc.completed /\ svc'.known = svc.known
        /\ svc'.recovered = svc.recovered
    BY <1>0, <2>1, ServiceOps
  <2>4. (About(u)' <=> About(u)) /\ (EndsLast(u)' <=> EndsLast(u))
    BY <2>1, TalkStays
  <2>5. u = t /\ ThreadOf[t] \in native.subscribed => u \in mem'.watches
    BY <1>0, <2>2 DEF QueueRest
  <2>6. /\ native'.status[t] = "running"
        /\ u # t => native'.status[u] = native.status[u]
    BY <1>0, <2>1 DEF NativeTyped
  <2>7. SameTalk(u)
    BY <2>1, <2>4, <2>5, <2>6 DEF SameTalk, Heard
  <2>8. SameStore(u)
    BY <2>1, <2>2, <2>6 DEF SameStore
  <2>9. SameWork(u)
    BY <2>1, <2>3, WorkStays
  <2> QED BY <2>7, <2>8, <2>9, GentleKeeps DEF Gentle
<1> QED BY <1>1, <1>2

(* The user stops a turn or gives up a thread.                             *)
LEMMA StopMemory ==
  ASSUME TurnBooks, NEW u \in Turns \ dismissed', TurnMemory(u), NEW t \in Turns, Stop(t)
  PROVE  TurnMemory(u)'
<1>0. NativeTyped /\ svc \in Service /\ Good(mem)
  BY TypeParts DEF TurnBooks, TurnsInv, DeliveryInv
<1>1. /\ UNCHANGED <<disk, lane, ready, accepted>>
      /\ native'.subscribed = native.subscribed
      /\ native'.status = [native.status EXCEPT ![t] = "done"]
      /\ svc' = [svc EXCEPT !.suppressed = @ \cup {t}, !.active = @ \ {t}]
      /\ mem' = Discard(mem, t)
      /\ dismissed' = dismissed \cup {t}
  BY <1>0 DEF Stop, NativeTyped
<1>2. u \in Turns \ dismissed /\ u # t
  BY <1>1
<1>3. /\ mem'.outbox = mem.outbox
      /\ mem'.watches = mem.watches \ {t}
      /\ mem'.acks = mem.acks \ Receipts(mem, t)
  BY <1>0, <1>1, DiscardKeeps
<1>4. /\ svc'.completed = svc.completed /\ svc'.known = svc.known
      /\ svc'.recovered = svc.recovered
  BY <1>0, <1>1 DEF Service
<1>5. PICK es \in Seq(ProperEvent) : Says(es, t)
  BY StopSays
<1>6. /\ About(u)' => About(u)
      /\ EndsLast(u) => EndsLast(u)'
  BY <1>2, <1>5, TalkGrows
<1>7. native'.status[u] = native.status[u]
  BY <1>0, <1>1, <1>2 DEF NativeTyped
<1>8. SameTalk(u)
  BY <1>1, <1>6, <1>7 DEF SameTalk, Heard
<1>9. SameStore(u)
  BY <1>1, <1>2, <1>3 DEF SameStore, Receipts
<1>10. SameWork(u)
  BY <1>1, <1>4, WorkStays
<1> QED BY <1>2, <1>8, <1>9, <1>10, GentleKeeps DEF Gentle

LEMMA GiveUpMemory ==
  ASSUME TurnBooks, NEW u \in Turns \ dismissed', TurnMemory(u), NEW r \in Routes,
         Detach(r) \/ ResumeFails(r)
  PROVE  TurnMemory(u)'
<1>0. ReadyTyped /\ svc \in Service /\ Good(mem)
  BY TypeParts DEF TurnBooks, TurnsInv, DeliveryInv, ReadyTyped
<1> DEFINE th == mem.binding[r]
           cleared == [svc EXCEPT !.active = @ \ TurnsOf(th)]
<1>1. /\ UNCHANGED <<disk, lane, events, native, accepted>>
      /\ ready'.found = ready.found /\ ready'.turns = ready.turns
      /\ ready'.phase = ready.phase
      /\ dismissed \subseteq dismissed'
  BY <1>0 DEF Detach, ResumeFails, ReadyTyped
<1>2. /\ \/ mem' = mem
         \/ mem' = Unbind(mem, r) /\ TurnsOf(th) \subseteq dismissed'
      /\ svc' = Forgotten(svc, th) \/ svc' = Forgotten(cleared, th) \/ svc' = cleared
  <2>1. CASE Detach(r)
    BY <2>1 DEF Detach
  <2>2. CASE ResumeFails(r)
    <3>1. \E stale \in {FALSE, native.conn} :
            /\ mem' = IF stale THEN Unbind(mem, r) ELSE mem
            /\ svc' = IF stale THEN Forgotten(cleared, th) ELSE cleared
            /\ dismissed' = dismissed \cup (IF stale THEN TurnsOf(th) ELSE {})
      BY <2>2, Zenon DEF ResumeFails
    <3> QED BY <3>1
  <2> QED BY <2>1, <2>2
<1>3. /\ svc'.completed = svc.completed /\ svc'.known = svc.known
      /\ svc'.recovered = svc.recovered
  <2>1. /\ cleared \in Service /\ cleared.completed = svc.completed
        /\ cleared.known = svc.known /\ cleared.recovered = svc.recovered
    BY <1>0 DEF Service
  <2> HIDE DEF cleared
  <2>2. Turns # {}
    OBVIOUS
  <2> QED BY <1>0, <1>2, <2>1, <2>2, ServiceOps
<1>4. /\ mem'.outbox = mem.outbox
      /\ \A id : TurnOf(id) = u => (id \in mem'.acks <=> id \in mem.acks)
      /\ u \in mem'.watches <=> u \in mem.watches
  <2>1. CASE mem' = mem
    BY <2>1
  <2>2. CASE mem' = Unbind(mem, r) /\ TurnsOf(th) \subseteq dismissed'
    <3>1. ThreadOf[u] # th
      BY <2>2 DEF TurnsOf
    <3>2. /\ Unbind(mem, r).outbox = mem.outbox
          /\ Unbind(mem, r).acks \subseteq mem.acks /\ Unbind(mem, r).watches \subseteq mem.watches
          /\ \A t \in mem.watches : ThreadOf[t] # mem.binding[r] => t \in Unbind(mem, r).watches
          /\ \A id \in mem.acks : ThreadOf[TurnOf(id)] # mem.binding[r] => id \in Unbind(mem, r).acks
      BY <1>0, UnbindKeeps
    <3> QED BY <2>2, <3>1, <3>2
  <2> QED BY <1>2, <2>1, <2>2
<1>5. (About(u)' <=> About(u)) /\ (EndsLast(u)' <=> EndsLast(u))
  BY <1>1, TalkStays
<1>6. SameTalk(u)
  BY <1>1, <1>5 DEF SameTalk, Heard
<1>7. SameStore(u)
  BY <1>1, <1>4 DEF SameStore
<1>8. SameWork(u)
  BY <1>1, <1>3, WorkStays
<1>9. u \in Turns \ dismissed
  BY <1>1
<1> QED BY <1>6, <1>7, <1>8, <1>9, GentleKeeps DEF Gentle

(* A resume subscribes a thread; its running turn is watched.              *)
LEMMA ReplayTalk ==
  ASSUME TurnBooks, Replays = {"running"}, NEW u \in Turns, NEW th, ReplaysRunning(th),
         native' = [native EXCEPT !.subscribed = native.subscribed \cup {th}],
         u \in Running(th) => u \in mem'.watches
  PROVE  SameTalk(u) /\ (About(u)' => About(u) \/ u \in Running(th))
<1>0. NativeTyped
  BY TypeParts DEF TurnBooks, DeliveryInv
<1>1. /\ native'.subscribed = native.subscribed \cup {th} /\ native'.status = native.status
  BY <1>0 DEF NativeTyped
<1>2. PICK es \in Seq(ProperEvent) : \E t : Replayed(es, t, th)
  BY ReplaySays
<1>3. PICK t : Replayed(es, t, th)
  BY <1>2
<1>4. /\ Says(es, t) /\ \A k \in DOMAIN es : es[k].kind = "item_completed"
      /\ es # <<>> => t \in Running(th)
  BY <1>3 DEF Replayed
<1>5. /\ About(u)' => About(u) \/ (u = t /\ es # <<>>)
      /\ EndsLast(u) => EndsLast(u)'
  <2>1. \A j, k \in DOMAIN es : j < k => es[j].kind # "turn_completed"
    BY <1>4
  <2> QED BY <1>4, <2>1, TalkGrows
<1>6. About(u)' => About(u) \/ u \in Running(th)
  BY <1>4, <1>5
<1>7. native.status[u] = "running" /\ ThreadOf[u] = th => u \in Running(th)
  BY DEF Running
<1>8. u \in Running(th) => native.status[u] = "running"
  BY DEF Running
<1>9. SameTalk(u)
  BY <1>1, <1>5, <1>6, <1>7, <1>8 DEF SameTalk, Heard
<1> QED BY <1>6, <1>9

LEMMA SelectMemory ==
  ASSUME TurnBooks, NEW u \in Turns \ dismissed', TurnMemory(u), Replays = {"running"},
         NEW r \in Routes, NEW th \in Threads, Select(r, th)
  PROVE  TurnMemory(u)'
<1>0. /\ NativeTyped /\ NativeInv /\ svc \in Service /\ Good(mem)
  BY TypeParts DEF TurnBooks, TurnsInv, DeliveryInv
<1>1. /\ UNCHANGED <<disk, lane, ready, accepted>> /\ ReplaysRunning(th)
      /\ dismissed' = dismissed \cup TurnsOf(mem.binding[r])
      /\ native' = [native EXCEPT !.subscribed = native.subscribed \cup {th}]
  BY <1>0 DEF Select, NativeTyped
<1>2. /\ native'.subscribed = native.subscribed \cup {th} /\ native'.status = native.status
  BY <1>0, <1>1 DEF NativeTyped
<1>3. u \in Turns \ dismissed /\ ThreadOf[u] # mem.binding[r]
  BY <1>1 DEF TurnsOf
<1> DEFINE s == Bind(mem, r, th)
<1>4. /\ Good(s) /\ s.outbox = mem.outbox
      /\ \A id : TurnOf(id) = u => (id \in s.acks <=> id \in mem.acks)
      /\ u \in s.watches <=> u \in mem.watches
      /\ Bound(s, th)
  <2>1. /\ Good(s) /\ s.outbox = mem.outbox /\ s.acks \subseteq mem.acks
        /\ s.binding[r] = th
        /\ s.watches \subseteq mem.watches
        /\ \A t \in mem.watches : ThreadOf[t] # mem.binding[r] => t \in s.watches
        /\ \A id \in mem.acks : ThreadOf[TurnOf(id)] # mem.binding[r] => id \in s.acks
    BY <1>0, BindKeeps
  <2> HIDE DEF s
  <2> QED BY <1>3, <2>1 DEF Bound
<1> HIDE DEF s
<1>5. /\ mem'.outbox = s.outbox /\ mem'.acks = s.acks
      /\ s.watches \subseteq mem'.watches /\ mem'.watches \subseteq s.watches \cup Running(th)
      /\ svc'.known = svc.known /\ svc'.completed = svc.completed
      /\ svc'.recovered = svc.recovered
      /\ u \in Running(th) => u \in mem'.watches
  <2>1. CASE /\ Running(th) = {} /\ mem' = s
             /\ svc' = [svc EXCEPT !.active = @ \ TurnsOf(th)]
    BY <1>0, <2>1 DEF Service
  <2>2. CASE \E t \in Running(th) : mem' = Watch(s, t) /\ svc' = NoteActive(svc, t)
    <3>1. PICK t \in Running(th) : mem' = Watch(s, t) /\ svc' = NoteActive(svc, t)
      BY <2>2
    <3>2. t \in Turns /\ ThreadOf[t] = th /\ (u \in Running(th) => u = t)
      BY <1>0, <3>1 DEF Running, NativeInv
    <3>3. /\ mem'.outbox = s.outbox /\ mem'.acks = s.acks
          /\ s.watches \subseteq mem'.watches /\ mem'.watches \subseteq s.watches \cup {t}
          /\ t \in mem'.watches
      BY <1>4, <3>1, <3>2, WatchKeeps
    <3>4. /\ svc'.known = svc.known /\ svc'.completed = svc.completed
          /\ svc'.recovered = svc.recovered
      BY <1>0, <3>1, <3>2, ServiceOps
    <3> QED BY <3>1, <3>2, <3>3, <3>4
  <2>3. IF Running(th) = {}
          THEN mem' = Bind(mem, r, th) /\ svc' = [svc EXCEPT !.active = @ \ TurnsOf(th)]
          ELSE \E t \in Running(th) : mem' = Watch(Bind(mem, r, th), t)
                                      /\ svc' = NoteActive(svc, t)
    BY Zenon DEF Select
  <2> QED BY <2>1, <2>2, <2>3 DEF s
<1>6. SameTalk(u)
  BY <1>1, <1>5, ReplayTalk
<1>7. u \in Running(th) => native.status[u] = "running"
  BY DEF Running
<1>8. SameStore(u)
  BY <1>1, <1>2, <1>4, <1>5, <1>7 DEF SameStore
<1>9. SameWork(u)
  BY <1>1, <1>2, <1>5, WorkStays
<1> QED BY <1>3, <1>6, <1>8, <1>9, GentleKeeps DEF Gentle

(* A turn found ended belongs to a thread that was not subscribed: nothing *)
(* of it is in the queue, and no handler is at it.                         *)
LEMMA ResumeMemory ==
  ASSUME TurnBooks, NEW u \in Turns \ dismissed, TurnMemory(u), Replays = {"running"},
         NEW r \in Routes, ResumeReturns(r)
  PROVE  TurnMemory(u)'
<1> DEFINE th == mem.binding[r]
<1>0. /\ NativeTyped /\ NativeInv /\ QueueRest /\ QueueTrue /\ Delivery /\ ReadyTyped
  BY TypeParts, QueueParts, DeliveryParts
     DEF TurnBooks, TurnsInv, DeliveryInv, Surroundings
<1>1. /\ UNCHANGED <<disk, lane, accepted, dismissed>> /\ ReplaysRunning(th)
      /\ ready.phase = "resume" /\ r \in ready.routes
      /\ native' = [native EXCEPT !.subscribed = native.subscribed \cup {th}]
  <2>1. native' = [native EXCEPT !.subscribed = @ \cup {mem.binding[r]}]
    BY Zenon DEF ResumeReturns
  <2>2. native' = [native EXCEPT !.subscribed = native.subscribed \cup {th}]
    BY <1>0, <2>1 DEF NativeTyped
  <2> QED BY <2>2, Zenon DEF ResumeReturns
<1>2. /\ ready'.phase = ready.phase /\ ready'.turns = ready.turns
  <2>1. PICK found, dropped : ready' = [ready EXCEPT !.routes = @ \ {r},
                                         !.found = found, !.dropped = dropped]
    BY Zenon DEF ResumeReturns
  <2> QED BY <1>0, <2>1 DEF ReadyTyped
<1>3. /\ mem'.outbox = mem.outbox
      /\ mem'.acks = mem.acks /\ mem.watches \subseteq mem'.watches
      /\ mem'.watches \subseteq mem.watches \cup Running(th)
      /\ Running(th) # {} => \E t \in Running(th) : t \in mem'.watches /\ t \in svc'.active
      /\ svc'.known = svc.known /\ svc'.completed = svc.completed
      /\ svc'.recovered = svc.recovered
      /\ \A t \in ready'.found : t \in ready.found
           \/ t \in (mem'.watches \cap TurnsOf(th)) \ Running(th)
  BY <1>0, ResumeReturnsTo
<1> HIDE DEF th
<1>4. /\ native'.subscribed = native.subscribed \cup {th} /\ native'.status = native.status
  BY <1>0, <1>1 DEF NativeTyped
<1>5. th \notin native.subscribed
  BY <1>0, <1>1 DEF QueueRest, th
<1>6. \A v, t \in Running(th) : v = t
  BY <1>0 DEF NativeInv, Running
<1>7. u \in Running(th) => u \in mem'.watches /\ native.status[u] = "running"
  BY <1>3, <1>6 DEF Running
<1>8. SameTalk(u) /\ (About(u)' => About(u) \/ u \in Running(th))
  BY <1>1, <1>7, ReplayTalk
<1>9. SameStore(u)
  BY <1>1, <1>3, <1>4, <1>7 DEF SameStore
<1>10. ThreadOf[u] = th => ~About(u) /\ ~OnLane(u)
  <2>1. ThreadOf[u] = th => ~About(u)
    BY <1>0, <1>5 DEF QueueTrue, About
  <2>2. OnLane(u) /\ lane.who = "live" => ThreadOf[u] # th
    BY <1>5 DEF TurnMemory, Working
  <2>3. ~(OnLane(u) /\ lane.who = "recover")
    BY <1>1 DEF TurnMemory, Working
  <2> QED BY <2>1, <2>2, <2>3 DEF OnLane
<1>11. Due(u)' => Due(u) \/ (u \in mem'.watches /\ ~About(u)' /\ ~OnLane(u)')
  <2>1. Due(u)' => Due(u) \/ u \in (mem'.watches \cap TurnsOf(th)) \ Running(th)
    BY <1>1, <1>2, <1>3 DEF Due
  <2>2. OnLane(u)' <=> OnLane(u)
    BY <1>1 DEF OnLane
  <2> QED BY <1>8, <1>10, <2>1, <2>2 DEF TurnsOf
<1>12. SameWork(u)
  <2>1. OnLane(u)' =>
       /\ OnLane(u) /\ lane'.who = lane.who /\ lane'.id = lane.id
       /\ lane'.step = "receipt" <=> lane.step = "receipt"
       /\ ThreadOf[u] \in native.subscribed => ThreadOf[u] \in native'.subscribed
       /\ lane.who = "recover" =>
            ready'.phase = ready.phase /\ ready'.turns \subseteq ready.turns
    BY <1>1, <1>2, <1>4 DEF OnLane
  <2>2. u \in ready'.found => ready'.phase = "resume"
    BY <1>1, <1>2
  <2> QED BY <1>3, <1>11, <2>1, <2>2 DEF SameWork
<1> QED BY <1>8, <1>9, <1>12, GentleKeeps DEF Gentle

LEMMA LossMemory ==
  ASSUME TurnBooks, NEW u \in Turns \ dismissed, TurnMemory(u), LoseConnection
  PROVE  TurnMemory(u)'
<1>0. NativeTyped
  BY TypeParts DEF TurnBooks, DeliveryInv
<1>1. /\ events' = <<>> /\ UNCHANGED <<mem, disk, svc, ready, accepted>>
      /\ lane' = (IF lane.who = "live" THEN Free ELSE lane)
      /\ native' = [native EXCEPT !.conn = FALSE, !.subscribed = {},
           !.status = [t \in Turns |-> IF @[t] = "starting" THEN "running" ELSE @[t]]]
  BY DEF LoseConnection
<1>2. /\ native'.subscribed = {}
      /\ native'.status[u] = IF native.status[u] = "starting" THEN "running" ELSE native.status[u]
  BY <1>0, <1>1, StatusAfterLoss
<1>3. ~About(u)' /\ EndsLast(u)'
  BY <1>1, TalkDropped
<1>4. SameTalk(u)
  BY <1>2, <1>3 DEF SameTalk, Heard
<1>5. SameStore(u)
  BY <1>1, <1>2 DEF SameStore
<1>6. lane'.who # "live" /\ (lane' = lane \/ lane'.who = "free")
  BY <1>1 DEF Free
<1>7. SameWork(u)
  <2>1. Due(u)' => Due(u)
    BY <1>1, <1>6 DEF Due
  <2>2. OnLane(u)' => OnLane(u) /\ lane' = lane /\ lane.who = "recover"
    BY <1>6 DEF OnLane
  <2>3. u \in ready'.found => ready'.phase = "resume"
    BY <1>1 DEF TurnMemory, Working
  <2> QED BY <1>1, <2>1, <2>2, <2>3 DEF SameWork
<1> QED BY <1>4, <1>5, <1>7, GentleKeeps DEF Gentle

-----------------------------------------------------------------------------
(* A message is staged, or the handling of a turn ends.                    *)

LEMMA IdsOfTurn ==
  ASSUME NEW u \in Turns
  PROVE  /\ \A id \in Ids : TurnOf(id) = u => id = u \/ id \in Range(AnswersOf[u])
         /\ Single(u) => \A i, j \in Range(AnswersOf[u]) : i = j
         /\ Single(u) /\ u \in Failing => Range(AnswersOf[u]) = {}
<1>1. \A id \in Ids : TurnOf(id) = u => id = u \/ id \in Range(AnswersOf[u])
  BY TurnOfIds DEF Ids, Answers
<1>2. AnswersOf[u] \in Seq(Range(AnswersOf[u]))
  BY StoreAssumption
<1>3. DOMAIN AnswersOf[u] = 1..Len(AnswersOf[u]) /\ Len(AnswersOf[u]) \in Nat
  BY <1>2
<1>4. Range(AnswersOf[u]) = {AnswersOf[u][n] : n \in DOMAIN AnswersOf[u]}
  BY DEF Range
<1>5. Single(u) => \A n, m \in DOMAIN AnswersOf[u] : n = m
  BY <1>3 DEF Single
<1>6. Single(u) => \A i, j \in Range(AnswersOf[u]) : i = j
  BY <1>4, <1>5
<1>7. AnswersOf[u] = <<>> => Range(AnswersOf[u]) = {}
  BY <1>4
<1> QED BY <1>1, <1>6, <1>7 DEF Single

(* What the bridge does not know of was not taken, or is of a turn that    *)
(* was given up while it still has other messages.                         *)
LEMMA Fresh ==
  ASSUME TurnBooks, NEW u \in Turns \ dismissed, TurnMemory(u), NEW id, TurnOf(id) = u,
         ~Known(mem, svc, id)
  PROVE  /\ id \notin mem.acks /\ id \notin IdsIn(mem.outbox)
         /\ Heard(u) => id \notin IdsIn(accepted)
         /\ Due(u) /\ id \in IdsIn(accepted) => ~Single(u) /\ u \in svc.completed
  BY DEF Known, TurnMemory, Followed, Remembered, Gone

LEMMA StageIds ==
  ASSUME NEW s, Good(s), NEW id \in Ids, NEW route \in Routes
  PROVE  /\ IdsIn(Stage(s, id, route).outbox) = IdsIn(s.outbox) \cup {id}
         /\ Stage(s, id, route).watches = s.watches /\ Stage(s, id, route).acks = s.acks
<1> DEFINE new == Stage(s, id, route)
<1>1. /\ new.watches = s.watches /\ new.acks = s.acks
      /\ s.outbox \subseteq new.outbox /\ id \in IdsIn(new.outbox)
      /\ \A e \in new.outbox \ s.outbox : e.id = id
  BY StageKeeps
<1> HIDE DEF new
<1>2. IdsIn(new.outbox) = IdsIn(s.outbox) \cup {id}
  BY <1>1 DEF IdsIn
<1> QED BY <1>1, <1>2 DEF new

LEMMA StageOthers ==
  ASSUME TurnBooks, NEW u \in Turns \ dismissed, TurnMemory(u),
         NEW id \in Ids, NEW route \in Routes, mem' = Stage(mem, id, route), TurnOf(id) # u,
         UNCHANGED <<native, accepted>>, disk' = disk \/ disk' = mem,
         About(u)' => About(u), EndsLast(u) => EndsLast(u)',
         svc'.completed = svc.completed, svc.known \subseteq svc'.known, Due(u)' => Due(u),
         lane'.id = id, u \in ready'.found => ready'.phase = "resume"
  PROVE  TurnMemory(u)'
<1>1. /\ IdsIn(mem'.outbox) = IdsIn(mem.outbox) \cup {id}
      /\ mem'.watches = mem.watches /\ mem'.acks = mem.acks
  BY StageIds DEF TurnBooks, DeliveryInv
<1>2. SameStore(u)
  BY <1>1 DEF SameStore
<1>3. SameTalk(u)
  BY DEF SameTalk, Heard
<1>4. SameWork(u)
  BY DEF SameWork, OnLane
<1> QED BY <1>2, <1>3, <1>4, GentleKeeps DEF Gentle

LEMMA LiveStageMemory ==
  ASSUME TurnBooks, NEW u \in Turns \ dismissed, TurnMemory(u),
         NEW id \in Ids, NEW route \in Routes, mem' = Stage(mem, id, route), TurnOf(id) = u,
         UNCHANGED <<native, accepted, disk, ready>>, ~Known(mem, svc, id),
         About(u), About(u)' => About(u), EndsLast(u)',
         svc'.completed = svc.completed, svc'.known = svc.known, svc'.recovered = svc.recovered,
         lane'.who = "live", lane'.id = id, lane'.step = "flush",
         id = u => /\ native.status[u] = "done" /\ ~About(u)'
                   /\ Single(u) => Receipts(mem, u) = {}
  PROVE  TurnMemory(u)'
<1>1. /\ IdsIn(mem'.outbox) = IdsIn(mem.outbox) \cup {id}
      /\ mem'.watches = mem.watches /\ mem'.acks = mem.acks
  BY StageIds DEF TurnBooks, DeliveryInv
<1>2. /\ u \in mem.watches /\ ~Due(u) /\ u \notin svc.completed
      /\ u \in ready.found => ready.phase = "resume"
  BY DEF TurnMemory, Followed, Heard, Working
<1>3. id \notin mem.acks /\ id \notin IdsIn(accepted)
  BY Fresh DEF Heard
<1>4. ~Due(u)'
  BY <1>2 DEF Due
<1>5. ThreadOf[u] \in native.subscribed
  BY QueueParts DEF TurnBooks, TurnsInv, QueueTrue, About
<1>6. Receipts(mem, u)' = Receipts(mem, u)
  BY <1>1 DEF Receipts
<1>7. Working(u)'
  BY <1>1, <1>2, <1>4, <1>5, <1>6 DEF Working, Single
<1> QED BY <1>1, <1>2, <1>3, <1>4, <1>7, StageMemory

LEMMA RecoverStageMemory ==
  ASSUME TurnBooks, NEW u \in Turns \ dismissed, TurnMemory(u),
         NEW id \in OwedIds(u), NEW route \in Routes, mem' = Stage(mem, id, route),
         UNCHANGED <<native, accepted, events>>, disk' = disk \/ disk' = mem,
         ~Known(mem, svc, id), Due(u), native.status[u] = "done",
         svc'.completed = svc.completed, svc.known \subseteq svc'.known,
         lane'.who = "recover", lane'.id = id, lane'.step = "flush",
         ready'.found = ready.found, ready.phase = "recover", ready'.phase = "recover",
         u \notin ready'.turns
  PROVE  TurnMemory(u)'
<1>0. id \in Ids /\ TurnOf(id) = u
  BY OwedAre
<1>1. /\ IdsIn(mem'.outbox) = IdsIn(mem.outbox) \cup {id}
      /\ mem'.watches = mem.watches /\ mem'.acks = mem.acks
  BY <1>0, StageIds DEF TurnBooks, DeliveryInv
<1>2. /\ id \notin mem.acks /\ id \notin IdsIn(mem.outbox)
      /\ id \in IdsIn(accepted) => ~Single(u) /\ u \in svc.completed
  BY <1>0, Fresh
<1>3. Single(u) => u \notin svc.completed
  <2>1. u \in svc.completed => InHand(mem, id)
    BY TurnsAre
  <2>2. InHand(mem, id) => id \in IdsIn(accepted) \/ id \in IdsIn(mem.outbox)
    BY DEF InHand, IdsIn
  <2> QED BY <1>2, <2>1, <2>2
<1>4. ~About(u) /\ ~About(u)' /\ EndsLast(u)'
  <2>1. (About(u)' <=> About(u)) /\ (EndsLast(u)' <=> EndsLast(u))
    BY TalkStays
  <2> QED BY <2>1 DEF TurnMemory, Followed, NoticeLast
<1>5. u \notin ready'.found
  BY DEF TurnMemory, Working
<1>6. Working(u)'
  BY <1>3, <1>5 DEF Working, Single
<1> QED BY <1>0, <1>1, <1>2, <1>3, <1>4, <1>6, StageMemory

(* The end of the handling of t: its watch is given up, or kept while a    *)
(* message of it is staged.                                                *)
LEMMA GiveUpWatch ==
  ASSUME TurnBooks, NEW u \in Turns \ dismissed, TurnMemory(u), NEW t \in Turns,
         mem' = Discard(mem, t), UNCHANGED <<native, accepted>>, disk' = disk \/ disk' = mem,
         About(u)' => About(u), EndsLast(u) => EndsLast(u)',
         \/ u # t /\ SameWork(u)
         \/ /\ u = t /\ native.status[t] = "done" /\ ~About(u)' /\ ~OnLane(u)' /\ ~Due(u)'
            /\ u \in svc.completed => u \in svc'.completed
  PROVE  TurnMemory(u)'
<1>1. /\ mem'.outbox = mem.outbox /\ mem'.watches = mem.watches \ {t}
      /\ mem'.acks = mem.acks \ Receipts(mem, t)
  BY DiscardKeeps DEF TurnBooks, DeliveryInv
<1>2. CASE u # t /\ SameWork(u)
  <2>1. SameStore(u)
    BY <1>1, <1>2 DEF SameStore, Receipts
  <2>2. SameTalk(u)
    BY DEF SameTalk, Heard
  <2> QED BY <1>2, <2>1, <2>2, GentleKeeps DEF Gentle
<1>3. CASE /\ u = t /\ native.status[t] = "done" /\ ~About(u)' /\ ~OnLane(u)' /\ ~Due(u)'
           /\ u \in svc.completed => u \in svc'.completed
  <2>1. \A id : TurnOf(id) = u => id \notin mem'.acks
    BY <1>1, <1>3 DEF Receipts
  <2>2. EndsLast(u)'
    BY DEF TurnMemory, NoticeLast
  <2>3. u \notin mem'.watches
    BY <1>1, <1>3
  <2>4. native.status[u] = "done"
    BY <1>3
  <2> QED BY <1>1, <1>3, <2>1, <2>2, <2>3, <2>4, DiscardMemory
<1> QED BY <1>2, <1>3

LEMMA CompletionMemory ==
  ASSUME TurnBooks, NEW u \in Turns \ dismissed, TurnMemory(u), NEW t \in Turns,
         NEW b \in Service, svc.known \subseteq b.known, b.completed = svc.completed,
         b.recovered = svc.recovered, NEW durable, CompletionHandled(mem, b, t, durable),
         UNCHANGED <<native, accepted, ready>>, disk' = disk \/ disk' = mem,
         About(u)' => About(u), EndsLast(u) => EndsLast(u)', lane.who # "recover",
         u = t => /\ native.status[t] = "done" /\ ~About(u)' /\ ~Due(u)
                  /\ Single(u) /\ PendingTurn(mem, u) => Receipts(mem, u) \subseteq b.known
  PROVE  TurnMemory(u)'
<1>1. /\ svc'.known = b.known /\ svc'.completed = b.completed \cup {t}
      /\ svc'.recovered = b.recovered /\ lane' = Free
  BY DEF CompletionHandled, Service
<1>2. lane'.who = "free" /\ ~OnLane(u)'
  BY <1>1 DEF Free, OnLane
<1>3. Due(u)' <=> Due(u)
  BY <1>1, <1>2 DEF Due
<1>4. u \in ready'.found => ready'.phase = "resume"
  BY DEF TurnMemory, Working
<1>5. u # t => SameWork(u)
  BY <1>1, <1>2, <1>3, <1>4 DEF SameWork
<1>6. CASE mem' = Discard(mem, t)
  BY <1>1, <1>2, <1>3, <1>5, <1>6, GiveUpWatch
<1>7. CASE mem' = mem /\ PendingTurn(mem, t)
  <2>1. SameStore(u)
    BY <1>7 DEF SameStore
  <2>2. SameTalk(u)
    BY DEF SameTalk, Heard
  <2>3. Receipts(mem, u)' = Receipts(mem, u)
    BY <1>7 DEF Receipts
  <2>4. SameWork(u)
    BY <1>1, <1>2, <1>3, <1>4, <1>5, <1>7, <2>3 DEF SameWork, Single
  <2> QED BY <2>1, <2>2, <2>4, GentleKeeps DEF Gentle
<1> QED BY <1>6, <1>7 DEF CompletionHandled

LEMMA RecoverOnMemory ==
  ASSUME TurnBooks, NEW u \in Turns \ dismissed, TurnMemory(u), NEW t \in Turns,
         NEW b \in Service, svc.known \subseteq b.known, b.completed = svc.completed,
         b.recovered = svc.recovered, NEW route \in Routes, NEW ok \in BOOLEAN,
         RecoverOn(mem, b, t, route, ok), native.status[t] = "done",
         UNCHANGED <<native, accepted, events>>, disk' = disk \/ disk' = mem,
         ready'.found = ready.found, ready'.phase = ready.phase, ready'.turns \subseteq ready.turns,
         u = t => ready.phase = "recover" /\ t \notin ready'.turns, Due(t),
         lane.who = "recover" => TurnOf(lane.id) = t, lane.who # "live"
  PROVE  TurnMemory(u)'
<1>0. (About(u)' <=> About(u)) /\ (EndsLast(u)' <=> EndsLast(u))
  BY TalkStays
<1> DEFINE ids == RecoveredIds(t)
           known == KnownOf(mem, b, ids)
<1>1. /\ u \in ready'.found => ready'.phase = "resume"
      /\ u = t => u \notin ready.found
  BY DEF TurnMemory, Working
<1>2. CASE \E i \in DOMAIN ids \ known :
             /\ mem' = Stage(mem, ids[i], route)
             /\ svc' = b
             /\ lane' = [Free EXCEPT !.who = "recover", !.step = "flush",
                                     !.id = ids[i], !.route = route, !.ok = ok]
  <2>1. PICK i \in DOMAIN ids \ known :
             /\ mem' = Stage(mem, ids[i], route)
             /\ svc' = b
             /\ lane' = [Free EXCEPT !.who = "recover", !.step = "flush",
                                     !.id = ids[i], !.route = route, !.ok = ok]
    BY <1>2
  <2>2. ids[i] \in Ids /\ TurnOf(ids[i]) = t /\ ids[i] \in OwedIds(t)
    <3>1. ids[i] \in Range(ids)
      BY <2>1 DEF Range
    <3> QED BY <2>1, <3>1, RecoveredAre
  <2>3. ~Known(mem, b, ids[i])
    BY <2>1 DEF KnownOf
  <2>4. ~Known(mem, svc, ids[i])
    BY <2>3 DEF Known
  <2>5. lane'.who = "recover" /\ lane'.id = ids[i] /\ lane'.step = "flush"
    BY <2>1 DEF Free
  <2> HIDE DEF ids, known
  <2>6. CASE u = t
    BY <2>1, <2>2, <2>4, <2>5, <2>6, RecoverStageMemory
  <2>7. CASE u # t
    <3>1. Due(u)' => Due(u)
      BY <2>1, <2>2, <2>5, <2>7 DEF Due
    <3> QED BY <1>0, <1>1, <2>1, <2>2, <2>5, <2>7, <3>1, StageOthers
  <2> QED BY <2>6, <2>7
<1>3. CASE /\ known = DOMAIN ids
           /\ mem' = IF ok THEN Discard(mem, t) ELSE mem
           /\ svc' = IF ok THEN [b EXCEPT !.recovered = @ \ {t}] ELSE b
           /\ lane' = Free
  <2>1. /\ svc'.known = b.known /\ svc'.completed = b.completed
        /\ svc'.recovered = IF ok THEN b.recovered \ {t} ELSE b.recovered
    BY <1>3 DEF Service
  <2>2. lane'.who = "free" /\ ~OnLane(u)'
    BY <1>3 DEF Free, OnLane
  <2>3. Due(u)' => Due(u)
    BY <2>1, <2>2 DEF Due
  <2>4. SameWork(u)
    BY <1>1, <2>1, <2>2, <2>3 DEF SameWork
  <2>5. CASE ok
    <3>1. mem' = Discard(mem, t)
      BY <1>3, <2>5
    <3>2. u = t => ~Due(u)' /\ ~About(u)'
      <4>1. u = t => ~Due(u)'
        BY <1>1, <2>1, <2>2, <2>5 DEF Due
      <4> QED BY <1>0, <4>1 DEF TurnMemory, Followed
    <3> QED BY <1>0, <2>1, <2>2, <2>4, <3>1, <3>2, GiveUpWatch
  <2>6. CASE ~ok
    <3>1. mem' = mem
      BY <1>3, <2>6
    <3>2. SameStore(u)
      BY <3>1 DEF SameStore
    <3>3. SameTalk(u)
      BY <1>0 DEF SameTalk, Heard
    <3> QED BY <2>4, <3>2, <3>3, GentleKeeps DEF Gentle
  <2> QED BY <2>5, <2>6
<1> QED BY <1>2, <1>3, Zenon DEF RecoverOn

-----------------------------------------------------------------------------
(* The live handlers.                                                      *)

LEMMA LiveStartedMemory ==
  ASSUME TurnBooks, NEW u \in Turns \ dismissed, TurnMemory(u), LiveItemStarted
  PROVE  TurnMemory(u)'
<1> DEFINE t == Head(events).id
<1>0. Good(mem) /\ EventsTyped /\ svc \in Service /\ HeadIs("item_started")
  BY TypeParts DEF TurnBooks, DeliveryInv, LiveItemStarted
<1>1. /\ UNCHANGED <<disk, ready, native, accepted, lane>>
      /\ events # <<>> /\ events' = Tail(events)
  BY DEF LiveItemStarted, HeadIs
<1>2. \/ svc' = svc /\ mem' = mem
      \/ svc' = [NoteActive(svc, t) EXCEPT !.visible = @ \ {t}] /\ mem' = Watch(mem, t)
  BY Zenon DEF LiveItemStarted
<1>3. t \in Turns /\ TurnOf(t) = t
  BY <1>0, HeadProper, TurnOfIds
<1>5. About(u)' => About(u)
  BY <1>0, <1>1, TalkTaken
<1>6. EndsLast(u) => EndsLast(u)'
  BY <1>0, <1>1, TalkTaken
<1>7. u = t => u \in mem.watches
  <2>1. u = t => About(u)
    BY <1>0, <1>1, <1>3, TalkTaken
  <2> QED BY <2>1 DEF TurnMemory, Followed, Heard
<1> HIDE DEF t
<1>8. /\ mem'.outbox = mem.outbox /\ mem'.acks = mem.acks
      /\ mem.watches \subseteq mem'.watches /\ mem'.watches \subseteq mem.watches \cup {t}
  BY <1>0, <1>2, <1>3, WatchKeeps
<1>9. /\ svc'.completed = svc.completed /\ svc'.known = svc.known
      /\ svc'.recovered = svc.recovered
  <2>1. /\ NoteActive(svc, t) \in Service /\ NoteActive(svc, t).completed = svc.completed
        /\ NoteActive(svc, t).known = svc.known /\ NoteActive(svc, t).recovered = svc.recovered
    BY <1>0, <1>3, ServiceOps
  <2> QED BY <1>2, <2>1 DEF Service
<1>10. SameTalk(u)
  BY <1>1, <1>5, <1>6 DEF SameTalk, Heard
<1>11. SameStore(u)
  BY <1>1, <1>7, <1>8 DEF SameStore
<1>12. SameWork(u)
  BY <1>1, <1>9, WorkStays
<1> QED BY <1>10, <1>11, <1>12, GentleKeeps DEF Gentle

LEMMA LiveItemMemory ==
  ASSUME TurnBooks, NEW u \in Turns \ dismissed, TurnMemory(u), LiveItemCompleted
  PROVE  TurnMemory(u)'
<1> DEFINE id == Head(events).id
           t == TurnOf(id)
           hidden == Known(mem, svc, id) \/ t \in svc.suppressed
<1>0. /\ Good(mem) /\ EventsTyped /\ svc \in Service /\ HeadIs("item_completed")
      /\ \A v : ~OnLane(v)
  BY TypeParts DEF TurnBooks, DeliveryInv, LiveItemCompleted, HeadIs, OnLane, Free
<1>1. /\ UNCHANGED <<disk, ready, native, accepted>>
      /\ events # <<>> /\ events' = Tail(events)
  BY DEF LiveItemCompleted, HeadIs
<1>2. /\ svc' = IF hidden THEN svc ELSE [svc EXCEPT !.visible = @ \cup {t}]
      /\ \/ mem' = mem /\ lane' = lane
         \/ /\ ~hidden /\ Bound(mem, ThreadOf[t])
            /\ mem' = Stage(mem, id, RouteOf(mem, ThreadOf[t]))
            /\ lane' = [Free EXCEPT !.who = "live", !.step = "flush", !.id = id]
  BY Zenon DEF LiveItemCompleted
<1>3. id \in Answers /\ id \in Ids /\ t \in Turns /\ id \notin Turns
  <2>1. id \in Answers /\ id \in Ids /\ t \in Turns
    BY <1>0, HeadProper, TurnOfIds
  <2> QED BY <2>1, StoreAssumption DEF Answers
<1>4. /\ About(u)' => About(u)
      /\ EndsLast(u) => EndsLast(u)'
      /\ t = u => About(u)
  BY <1>0, <1>1, TalkTaken
<1>5. /\ svc'.completed = svc.completed /\ svc'.known = svc.known
      /\ svc'.recovered = svc.recovered
  BY <1>0, <1>2 DEF Service
<1>6. EndsLast(u)'
  BY <1>4 DEF TurnMemory, NoticeLast
<1> HIDE DEF id
<1>7. CASE mem' = mem /\ lane' = lane
  <2>1. SameTalk(u)
    BY <1>1, <1>4 DEF SameTalk, Heard
  <2>2. SameStore(u)
    BY <1>1, <1>7 DEF SameStore
  <2>3. SameWork(u)
    BY <1>1, <1>5, <1>7, WorkStays
  <2> QED BY <2>1, <2>2, <2>3, GentleKeeps DEF Gentle
<1>8. CASE /\ ~hidden /\ Bound(mem, ThreadOf[t])
           /\ mem' = Stage(mem, id, RouteOf(mem, ThreadOf[t]))
           /\ lane' = [Free EXCEPT !.who = "live", !.step = "flush", !.id = id]
  <2>1. RouteOf(mem, ThreadOf[t]) \in Routes
    BY <1>8, RouteBound
  <2>2. lane'.who = "live" /\ lane'.id = id /\ lane'.step = "flush"
    BY <1>8 DEF Free
  <2>3. CASE t = u
    <3>1. id # u
      BY <1>3
    <3> QED BY <1>1, <1>3, <1>4, <1>5, <1>6, <1>8, <2>1, <2>2, <2>3, <3>1, LiveStageMemory
  <2>4. CASE t # u
    <3>1. Due(u)' => Due(u)
      BY <1>1, <1>5, <2>2 DEF Due
    <3>2. u \in ready'.found => ready'.phase = "resume"
      BY <1>1 DEF TurnMemory, Working
    <3> QED BY <1>1, <1>3, <1>4, <1>5, <1>8, <2>1, <2>2, <2>4, <3>1, <3>2, StageOthers
  <2> QED BY <2>3, <2>4
<1> QED BY <1>2, <1>7, <1>8

LEMMA LiveEndMemory ==
  ASSUME TurnBooks, NEW u \in Turns \ dismissed, TurnMemory(u), LiveTurnCompleted
  PROVE  TurnMemory(u)'
<1> DEFINE t == Head(events).id
<1>0. /\ Good(mem) /\ EventsTyped /\ svc \in Service /\ HeadIs("turn_completed")
      /\ (\A v : ~OnLane(v)) /\ lane.who = "free"
  BY TypeParts DEF TurnBooks, DeliveryInv, LiveTurnCompleted, HeadIs, OnLane, Free
<1>1. /\ UNCHANGED <<disk, ready, native, accepted>>
      /\ events # <<>> /\ events' = Tail(events) /\ Head(events).kind = "turn_completed"
  BY DEF LiveTurnCompleted, HeadIs
<1>2. \/ mem' = mem /\ svc' = svc /\ lane' = lane
      \/ /\ OwesFallback(t)
         /\ mem' = Stage(mem, t, RouteOf(mem, ThreadOf[t]))
         /\ svc' = Close(svc, t)
         /\ lane' = [Free EXCEPT !.who = "live", !.step = "flush", !.id = t]
      \/ CompletionHandled(mem, Close(svc, t), t, FALSE)
  BY Zenon DEF LiveTurnCompleted
<1>3. t \in Turns /\ TurnOf(t) = t /\ t \in Ids
  BY <1>0, HeadProper, TurnOfIds
<1>4. /\ About(u)' => About(u)
      /\ EndsLast(u) => EndsLast(u)'
      /\ t = u => About(u)
      /\ t = u /\ EndsLast(u) => ~About(u)'
  BY <1>0, <1>1, <1>3, TalkTaken
<1>5. EndsLast(u)' /\ EndsLast(u)
  BY <1>4 DEF TurnMemory, NoticeLast
<1>6. native.status[t] = "done"
  <2>1. 1 \in DOMAIN events /\ events[1] = Head(events)
    BY <1>0, <1>1, Taken
  <2> QED BY <1>1, <1>3, <2>1, QueueParts DEF TurnBooks, TurnsInv, QueueTrue, EventTurn
<1>7. /\ Close(svc, t) \in Service /\ Close(svc, t).completed = svc.completed
      /\ Close(svc, t).known = svc.known /\ Close(svc, t).recovered = svc.recovered
  BY <1>0, <1>3, ServiceOps
<1> HIDE DEF t
<1>8. t = u => /\ ~Due(u) /\ u \notin IdsIn(accepted) /\ u \notin IdsIn(mem.outbox)
               /\ u \notin mem.acks
  <2>1. t = u => ~Due(u) /\ u \notin IdsIn(accepted) /\ u \notin IdsIn(mem.outbox)
    BY <1>4 DEF TurnMemory, Followed, NoticeLast
  <2> QED BY <2>1 DEF TurnBooks, ReceiptsTrue
<1>9. CASE mem' = mem /\ svc' = svc /\ lane' = lane
  <2>1. SameTalk(u)
    BY <1>1, <1>4 DEF SameTalk, Heard
  <2>2. SameStore(u)
    BY <1>1, <1>9 DEF SameStore
  <2>3. SameWork(u)
    BY <1>1, <1>9, WorkStays
  <2> QED BY <2>1, <2>2, <2>3, GentleKeeps DEF Gentle
<1>10. CASE /\ OwesFallback(t)
            /\ mem' = Stage(mem, t, RouteOf(mem, ThreadOf[t]))
            /\ svc' = Close(svc, t)
            /\ lane' = [Free EXCEPT !.who = "live", !.step = "flush", !.id = t]
  <2>1. RouteOf(mem, ThreadOf[t]) \in Routes /\ ~Known(mem, svc, t)
    BY <1>10, RouteBound DEF OwesFallback
  <2>2. lane'.who = "live" /\ lane'.id = t /\ lane'.step = "flush"
    BY <1>10 DEF Free
  <2>3. CASE t = u
    <3>1. Single(u) => Receipts(mem, u) = {}
      <4>1. CASE u \in Failing
        <5>1. mem.acks \subseteq Ids
          BY <1>0 DEF Good, Store
        <5>2. Single(u) => \A id \in Receipts(mem, u) : id = u
          BY <4>1, <5>1, IdsOfTurn DEF Receipts
        <5> QED BY <1>8, <2>3, <5>2 DEF Receipts
      <4>2. CASE u \notin Failing
        BY <1>10, <2>3, <4>2 DEF OwesFallback
      <4> QED BY <4>1, <4>2
    <3> QED BY <1>1, <1>3, <1>4, <1>5, <1>6, <1>7, <1>10, <2>1, <2>2, <2>3, <3>1, LiveStageMemory
  <2>4. CASE t # u
    <3>1. Due(u)' => Due(u)
      BY <1>1, <1>7, <1>10, <2>2 DEF Due
    <3>2. u \in ready'.found => ready'.phase = "resume"
      BY <1>1 DEF TurnMemory, Working
    <3> QED BY <1>1, <1>3, <1>4, <1>7, <1>10, <2>1, <2>2, <2>4, <3>1, <3>2, StageOthers
  <2> QED BY <2>3, <2>4
<1>11. CASE CompletionHandled(mem, Close(svc, t), t, FALSE)
  <2>1. u = t /\ Single(u) /\ PendingTurn(mem, u) => Receipts(mem, u) \subseteq svc.known
    <3>1. SUFFICES ASSUME u = t, Single(u), PendingTurn(mem, u), NEW id \in Receipts(mem, u)
                   PROVE  FALSE
      OBVIOUS
    <3>2. mem.acks \subseteq Ids /\ IdsIn(mem.outbox) \subseteq Ids
      BY <1>0 DEF Good, Store, IdsIn, Entry
    <3>3. PICK p \in IdsIn(mem.outbox) : TurnOf(p) = u
      BY <3>1 DEF PendingTurn
    <3>4. p # u /\ p \in Range(AnswersOf[u])
      BY <1>8, <3>1, <3>2, <3>3, IdsOfTurn
    <3>5. id \in mem.acks /\ TurnOf(id) = u /\ id # u
      BY <1>8, <3>1 DEF Receipts
    <3>6. id = p
      BY <3>1, <3>2, <3>4, <3>5, IdsOfTurn
    <3> QED BY <3>3, <3>5, <3>6 DEF TurnMemory, ReceiptsApart
  <2> DEFINE b == Close(svc, t)
  <2>2. b \in Service /\ svc.known \subseteq b.known /\ b.completed = svc.completed
        /\ b.recovered = svc.recovered /\ b.known = svc.known
        /\ CompletionHandled(mem, b, t, FALSE)
    BY <1>7, <1>11
  <2> HIDE DEF b
  <2>3. u = t => /\ native.status[t] = "done" /\ ~About(u)' /\ ~Due(u)
                 /\ Single(u) /\ PendingTurn(mem, u) => Receipts(mem, u) \subseteq b.known
    BY <1>4, <1>5, <1>6, <1>8, <2>1, <2>2
  <2> QED BY <1>0, <1>1, <1>3, <1>4, <2>2, <2>3, CompletionMemory
<1> QED BY <1>2, <1>9, <1>10, <1>11

-----------------------------------------------------------------------------
(* The delivery of a message.                                              *)

LEMMA ReturnsMemory ==
  ASSUME TurnBooks, NEW u \in Turns \ dismissed, TurnMemory(u),
         lane.who \in {"live", "recover"},
         NEW b \in Service, svc.known \subseteq b.known, b.completed = svc.completed,
         b.recovered = svc.recovered, lane.step = "receipt" => lane.id \in b.known,
         NEW ok \in BOOLEAN, NEW durable,
         \/ lane.who = "recover" /\ RecoverOn(mem, b, TurnOf(lane.id), lane.route, ok)
         \/ /\ lane.who = "live" /\ lane.id \in Turns
            /\ CompletionHandled(mem, b, TurnOf(lane.id), durable)
         \/ lane.who = "live" /\ mem' = mem /\ svc' = b /\ lane' = Free,
         UNCHANGED <<native, accepted, events, ready>>, disk' = disk \/ disk' = mem
  PROVE  TurnMemory(u)'
<1> DEFINE t == TurnOf(lane.id)
<1>0. /\ (About(u)' <=> About(u)) /\ (EndsLast(u)' <=> EndsLast(u))
  BY TalkStays
<1>1. /\ LaneTyped /\ NativeInv /\ lane.id \in Ids /\ t \in Turns
  BY TurnOfIds DEF TurnBooks, TurnsInv, DeliveryInv, LaneTyped
<1>2. CASE lane.who = "recover" /\ RecoverOn(mem, b, t, lane.route, ok)
  <2>1. lane.route \in Routes /\ native.status[t] = "done" /\ Due(t)
    BY <1>1, <1>2 DEF LaneTyped, NativeInv, Due
  <2>2. u = t => ready.phase = "recover" /\ t \notin ready'.turns
    BY <1>2 DEF TurnMemory, Working, OnLane
  <2> HIDE DEF t
  <2>3. lane.who = "recover" => TurnOf(lane.id) = t
    BY DEF t
  <2> QED BY <1>1, <1>2, <2>1, <2>2, <2>3, RecoverOnMemory
<1>3. CASE lane.who = "live" /\ lane.id \in Turns /\ CompletionHandled(mem, b, t, durable)
  <2>1. t = lane.id
    BY <1>3, TurnOfIds
  <2>2. u = t => native.status[t] = "done"
    BY <1>3, <2>1, TurnsAre
  <2>3. u = t => /\ ~About(u) /\ ~Due(u)
                 /\ Single(u) => Receipts(mem, u) \subseteq
                                   (IF lane.step = "receipt" THEN {u} ELSE {})
    BY <1>3, <2>1 DEF TurnMemory, Working, OnLane
  <2>4. u = t => /\ native.status[t] = "done" /\ ~About(u)' /\ ~Due(u)
                 /\ Single(u) /\ PendingTurn(mem, u) => Receipts(mem, u) \subseteq b.known
    BY <1>0, <2>1, <2>2, <2>3
  <2>5. lane.who # "recover"
    BY <1>3
  <2> HIDE DEF t
  <2> QED BY <1>0, <1>1, <1>3, <2>4, <2>5, CompletionMemory
<1>4. CASE lane.who = "live" /\ mem' = mem /\ svc' = b /\ lane' = Free
  <2>1. lane'.who \notin {"live", "recover"}
    BY <1>4 DEF Free
  <2>2. u \in ready'.found => ready'.phase = "resume"
    BY DEF TurnMemory, Working
  <2> QED BY <1>4, <2>1, <2>2, StillKeeps
<1> QED BY <1>2, <1>3, <1>4

LEMMA CompleteIds ==
  ASSUME NEW s, Good(s), NEW id \in Ids, id \in IdsIn(s.outbox)
  PROVE  /\ IdsIn(Complete(s, id).outbox) = IdsIn(s.outbox) \ {id}
         /\ Complete(s, id).watches = s.watches /\ Complete(s, id).acks = s.acks \cup {id}
         /\ Good(Complete(s, id))
<1> DEFINE new == Complete(s, id)
<1>1. /\ new.watches = s.watches /\ new.acks = s.acks \cup {id} /\ Good(new)
      /\ new.outbox = {e \in s.outbox : e.id # id}
  BY CompleteKeeps
<1> HIDE DEF new
<1>2. IdsIn(new.outbox) = IdsIn(s.outbox) \ {id}
  BY <1>1 DEF IdsIn
<1> QED BY <1>1, <1>2 DEF new

LEMMA AcceptedMemory ==
  ASSUME TurnBooks, NEW u \in Turns \ dismissed, TurnMemory(u), StagedAccepted
  PROVE  TurnMemory(u)'
<1> DEFINE id == lane.id
           e == EntryOf(mem, lane.id)
<1>0. /\ Delivery /\ Good(mem) /\ lane \in Lane
      /\ lane.who \in {"live", "recover"} /\ lane.step = "emit"
      /\ u \in ready.found => ready.phase = "resume"
  BY TypeParts, DeliveryParts DEF TurnBooks, DeliveryInv, StagedAccepted, Delivering,
                                  TurnMemory, Working
<1>1. /\ UNCHANGED <<disk, svc, ready, events, native>>
      /\ mem' = Complete(mem, id) /\ accepted' = accepted \cup {e}
      /\ lane' = [lane EXCEPT !.step = "receipt"]
  BY DEF StagedAccepted, SinkTakes
<1>2. /\ id \in Ids /\ id \in IdsIn(mem.outbox) /\ e \in disk.outbox /\ e.id = id
  BY <1>0, HeadOfRoute
<1> HIDE DEF e
<1>3. /\ IdsIn(accepted') = IdsIn(accepted) \cup {id} /\ id \in IdsIn(disk.outbox)
  BY <1>1, <1>2 DEF IdsIn
<1>4. /\ IdsIn(mem'.outbox) = IdsIn(mem.outbox) \ {id}
      /\ mem'.watches = mem.watches /\ mem'.acks = mem.acks \cup {id}
  BY <1>0, <1>1, <1>2, CompleteIds
<1>5. lane'.who = lane.who /\ lane'.id = lane.id /\ lane'.step = "receipt"
  BY <1>0, <1>1 DEF Lane
<1>6. Due(u)' <=> Due(u)
  BY <1>1, <1>5 DEF Due
<1>7. (About(u)' <=> About(u)) /\ (EndsLast(u)' <=> EndsLast(u))
  BY <1>1, TalkStays
<1>8. CASE TurnOf(id) = u
  <2>1. Single(u) => u \notin svc.completed
    BY <1>0, <1>8 DEF TurnMemory, Working, OnLane
  <2>2. Receipts(mem, u)' = Receipts(mem, u) \cup {id}
    BY <1>4, <1>8 DEF Receipts
  <2>3. Working(u)'
    <3>1. OnLane(u)
      BY <1>0, <1>8 DEF OnLane
    <3> QED BY <1>0, <1>1, <1>4, <1>5, <1>6, <1>7, <2>2, <3>1 DEF TurnMemory, Working, Single
  <2> HIDE DEF id
  <2> QED BY <1>1, <1>2, <1>3, <1>4, <1>6, <1>8, <2>1, <2>3, AcceptMemory
<1>9. CASE TurnOf(id) # u
  <2>1. SameStore(u)
    BY <1>1, <1>3, <1>4, <1>9 DEF SameStore
  <2>2. SameTalk(u)
    BY <1>1, <1>7 DEF SameTalk, Heard
  <2>3. SameWork(u)
    BY <1>0, <1>1, <1>5, <1>6, <1>9 DEF SameWork, OnLane
  <2> QED BY <2>1, <2>2, <2>3, GentleKeeps DEF Gentle
<1> QED BY <1>8, <1>9

LEMMA DeliverMemory ==
  ASSUME TurnBooks, NEW u \in Turns \ dismissed, TurnMemory(u),
         StagedFlushed \/ StagedNotFlushed \/ StagedRefused \/ ReceiptFlushed
           \/ ReceiptNotFlushed
  PROVE  TurnMemory(u)'
<1> DEFINE t == TurnOf(lane.id)
           same == UNCHANGED <<native, accepted, events, ready>> /\ (disk' = disk \/ disk' = mem)
<1>0. /\ lane \in Lane /\ svc \in Service
      /\ lane.who \in {"live", "recover"} => lane.id \in Ids
      /\ u \in ready.found => ready.phase = "resume"
  BY TypeParts DEF TurnBooks, DeliveryInv, LaneTyped, TurnMemory, Working
<1>1. ASSUME NEW delivered \in BOOLEAN, NEW durable \in BOOLEAN,
             Returns(mem, delivered, durable), lane.who \in {"live", "recover"},
             lane.step = "receipt" => delivered, same
      PROVE  TurnMemory(u)'
  <2> DEFINE b == IF delivered THEN [svc EXCEPT !.known = @ \cup {lane.id}] ELSE svc
  <2>1. /\ b \in Service /\ svc.known \subseteq b.known /\ b.completed = svc.completed
        /\ b.recovered = svc.recovered /\ (delivered => lane.id \in b.known)
    BY <1>0, <1>1 DEF Service
  <2>2. \/ lane.who = "recover" /\ RecoverOn(mem, b, t, lane.route, lane.ok /\ durable)
        \/ /\ lane.who = "live" /\ lane.id \in Turns
           /\ CompletionHandled(mem, b, t, durable)
        \/ lane.who = "live" /\ mem' = mem /\ svc' = b /\ lane' = Free
    BY <1>1, Zenon DEF Returns
  <2>3. (lane.ok /\ durable) \in BOOLEAN
    OBVIOUS
  <2> HIDE DEF b
  <2> QED BY <1>1, <2>1, <2>2, <2>3, ReturnsMemory
<1>2. CASE StagedFlushed
  <2>1. /\ same /\ lane.who \in {"live", "recover"} /\ lane.step = "flush"
    BY <1>2 DEF StagedFlushed, Delivering, Flushed
  <2>2. CASE lane' = [lane EXCEPT !.step = "emit"] /\ UNCHANGED <<mem, svc, retry>>
    <3>1. /\ lane'.who = lane.who /\ lane'.id = lane.id
          /\ lane'.step = "receipt" <=> lane.step = "receipt"
      BY <1>0, <2>1, <2>2 DEF Lane
    <3> QED BY <1>0, <2>1, <2>2, <3>1, StillKeeps
  <2>3. CASE Returns(mem, FALSE, TRUE)
    BY <1>1, <2>1, <2>3
  <2> QED BY <1>2, <2>2, <2>3, Zenon DEF StagedFlushed
<1>3. CASE StagedNotFlushed
  <2>1. /\ same /\ lane.who \in {"live", "recover"} /\ lane.step = "flush"
    BY <1>3 DEF StagedNotFlushed, Delivering, Flushed
  <2>2. PICK durable \in BOOLEAN : Returns(mem, FALSE, durable)
    BY <1>3, Zenon DEF StagedNotFlushed
  <2> QED BY <1>1, <2>1, <2>2
<1>4. CASE StagedRefused
  <2>1. /\ same /\ lane.who \in {"live", "recover"} /\ lane.step = "emit"
        /\ Returns(mem, FALSE, TRUE)
    BY <1>4 DEF StagedRefused, Delivering
  <2> QED BY <1>1, <2>1
<1>5. CASE ReceiptFlushed
  <2>1. /\ same /\ lane.who \in {"live", "recover"} /\ Returns(mem, TRUE, TRUE)
    BY <1>5 DEF ReceiptFlushed, Delivering, Flushed
  <2> QED BY <1>1, <2>1
<1>6. CASE ReceiptNotFlushed
  <2> DEFINE b == [svc EXCEPT !.ackPending = TRUE, !.known = @ \cup {lane.id}]
  <2>1. /\ same /\ lane.who \in {"live", "recover"}
    BY <1>6 DEF ReceiptNotFlushed, Delivering
  <2>2. \/ lane.who = "recover" /\ RecoverOn(mem, b, t, lane.route, lane.ok)
        \/ /\ lane.who = "live" /\ lane.id \in Turns
           /\ CompletionHandled(mem, b, t, TRUE)
        \/ lane.who = "live" /\ mem' = mem /\ svc' = b /\ lane' = Free
    BY <1>6, <2>1, Zenon DEF ReceiptNotFlushed
  <2>3. /\ b \in Service /\ svc.known \subseteq b.known /\ b.completed = svc.completed
        /\ b.recovered = svc.recovered /\ lane.id \in b.known
    BY <1>0, <2>1 DEF Service
  <2>4. lane.ok \in BOOLEAN
    BY <1>0 DEF Lane
  <2> HIDE DEF b
  <2> QED BY <2>1, <2>2, <2>3, <2>4, ReturnsMemory
<1> QED BY <1>2, <1>3, <1>4, <1>5, <1>6

(* A drain hands over the message e; the last message of a completed turn  *)
(* takes the watch with it.                                                *)
LEMMA DrainAcceptedMemory ==
  ASSUME TurnBooks, NEW u \in Turns \ dismissed, TurnMemory(u), DrainAccepted
  PROVE  TurnMemory(u)'
<1>0. /\ Good(mem) /\ lane \in Lane /\ svc \in Service /\ LaneHoldsStaged
      /\ u \in ready.found => ready.phase = "resume"
  BY TypeParts DEF TurnBooks, DeliveryInv, TurnMemory, Working
<1>1. PICK e \in lane.rest :
        /\ SinkTakes(e)
        /\ mem' = Released(Complete(mem, e.id), svc, TurnOf(e.id))
        /\ svc' = [svc EXCEPT !.known = @ \cup {e.id}]
        /\ DrainStep(lane.rest \ {e})
  BY DEF DrainAccepted
<1>2. UNCHANGED <<disk, ready, events, native>> /\ accepted' = accepted \cup {e}
  BY <1>1 DEF DrainAccepted, SinkTakes
<1>3. /\ lane.who \in {"ready", "retry"} /\ e \in mem.outbox /\ e \in disk.outbox
      /\ e.id \in Ids
  <2>1. Draining("emit")
    BY DEF DrainAccepted
  <2>2. lane.who \in {"ready", "retry"} /\ e \in mem.outbox /\ e \in disk.outbox
    BY <1>0, <1>1, <2>1 DEF Draining, LaneHoldsStaged
  <2> QED BY <1>0, <2>2 DEF Good, Store, Entry
<1>4. lane'.who = lane.who
  BY <1>0, <1>1 DEF DrainStep, Lane
<1>5. ~OnLane(u) /\ ~OnLane(u)'
  BY <1>3, <1>4 DEF OnLane
<1>6. /\ svc'.known = svc.known \cup {e.id} /\ svc'.completed = svc.completed
      /\ svc'.recovered = svc.recovered
  BY <1>0, <1>1 DEF Service
<1> DEFINE id == e.id
           s == Complete(mem, id)
<1>7. /\ id \in IdsIn(mem.outbox) /\ id \in IdsIn(disk.outbox)
      /\ IdsIn(accepted') = IdsIn(accepted) \cup {id}
  BY <1>2, <1>3 DEF IdsIn
<1>8. /\ IdsIn(s.outbox) = IdsIn(mem.outbox) \ {id}
      /\ s.watches = mem.watches /\ s.acks = mem.acks \cup {id} /\ Good(s)
  BY <1>0, <1>3, <1>7, CompleteIds
<1>9. mem' = Released(s, svc, TurnOf(id))
  BY <1>1
<1>10. Due(u)' <=> Due(u)
  BY <1>2, <1>3, <1>4, <1>6 DEF Due
<1>11. (About(u)' <=> About(u)) /\ (EndsLast(u)' <=> EndsLast(u))
  BY <1>2, TalkStays
<1>12. svc.known \subseteq svc'.known /\ id \in svc'.known
  BY <1>6
<1> HIDE DEF s, id
<1>13. /\ mem'.outbox = s.outbox
       /\ \/ mem'.acks = s.acks /\ mem'.watches = s.watches
          \/ /\ TurnOf(id) \in svc.completed /\ ~PendingTurn(s, TurnOf(id))
             /\ mem'.acks = s.acks \ Receipts(s, TurnOf(id))
             /\ mem'.watches = s.watches \ {TurnOf(id)}
  BY <1>8, <1>9, DiscardKeeps DEF Released
<1>14. CASE TurnOf(id) = u
  <2>1. Working(u)'
    BY <1>0, <1>2, <1>5 DEF Working
  <2>2. \/ mem'.acks = mem.acks \cup {id} /\ mem'.watches = mem.watches
        \/ /\ u \notin mem'.watches /\ ~PendingTurn(mem', u) /\ u \in svc.completed
           /\ \A i : TurnOf(i) = u => i \notin mem'.acks
           /\ ~OnLane(u)'
    BY <1>5, <1>8, <1>13, <1>14 DEF PendingTurn, Receipts
  <2> QED BY <1>2, <1>6, <1>7, <1>8, <1>10, <1>12, <1>13, <1>14, <2>1, <2>2, AcceptMemory
<1>15. CASE TurnOf(id) # u
  <2>1. SameStore(u)
    BY <1>2, <1>7, <1>8, <1>13, <1>15 DEF SameStore, Receipts
  <2>2. SameTalk(u)
    BY <1>2, <1>11 DEF SameTalk, Heard
  <2>3. SameWork(u)
    BY <1>0, <1>2, <1>5, <1>6, <1>10, <1>12 DEF SameWork
  <2> QED BY <2>1, <2>2, <2>3, GentleKeeps DEF Gentle
<1> QED BY <1>14, <1>15

LEMMA RecoverMemory ==
  ASSUME TurnBooks, NEW u \in Turns \ dismissed, TurnMemory(u), NEW t \in Turns, RecoverTurn(t)
  PROVE  TurnMemory(u)'
<1> DEFINE b == [svc EXCEPT !.visible = @ \ {t}]
<1>0. /\ svc \in Service /\ ReadyTyped /\ NativeInv
  BY TypeParts DEF TurnBooks, TurnsInv, DeliveryInv, ReadyTyped
<1>1. /\ UNCHANGED <<disk, events, native, accepted>>
      /\ ready.phase = "recover" /\ t \in ready.turns /\ lane = Free
      /\ ready' = [ready EXCEPT !.turns = @ \ {t}]
      /\ \/ /\ Bound(mem, ThreadOf[t])
            /\ RecoverOn(mem, b, t, RouteOf(mem, ThreadOf[t]), TRUE)
         \/ /\ svc' = [b EXCEPT !.recovered = @ \ {t}]
            /\ UNCHANGED <<mem, lane>>
  BY Zenon DEF RecoverTurn
<1>2. /\ ready'.found = ready.found /\ ready'.phase = ready.phase
      /\ ready'.turns = ready.turns \ {t}
  BY <1>0, <1>1 DEF ReadyTyped
<1>3. /\ b \in Service /\ b.known = svc.known /\ b.completed = svc.completed
      /\ b.recovered = svc.recovered
  BY <1>0 DEF Service
<1>4. /\ lane.who = "free" /\ Due(t) /\ native.status[t] = "done"
  BY <1>0, <1>1 DEF Free, Due, NativeInv
<1> HIDE DEF b
<1>5. CASE /\ Bound(mem, ThreadOf[t])
           /\ RecoverOn(mem, b, t, RouteOf(mem, ThreadOf[t]), TRUE)
  <2>1. RouteOf(mem, ThreadOf[t]) \in Routes
    BY <1>5, RouteBound
  <2> QED BY <1>1, <1>2, <1>3, <1>4, <1>5, <2>1, RecoverOnMemory
<1>6. CASE svc' = [b EXCEPT !.recovered = @ \ {t}] /\ UNCHANGED <<mem, lane>>
  <2>1. /\ svc'.known = svc.known /\ svc'.completed = svc.completed
        /\ svc'.recovered = svc.recovered \ {t}
    BY <1>3, <1>6 DEF Service
  <2>2. ~OnLane(u)'
    BY <1>4, <1>6 DEF OnLane
  <2>3. u \in ready'.found => ready'.phase = "resume"
    BY <1>2 DEF TurnMemory, Working
  <2> QED BY <1>1, <1>2, <1>6, <2>1, <2>2, <2>3, StillKeeps
<1> QED BY <1>1, <1>5, <1>6

-----------------------------------------------------------------------------
MemoryBooks == TurnBooks /\ \A t \in Turns \ dismissed : TurnMemory(t)

LEMMA MemoryOfStep ==
  ASSUME Replays = {"running"}, TurnBooks, NEW u \in Turns \ dismissed', u \notin dismissed,
         TurnMemory(u), Next
  PROVE  TurnMemory(u)'
<1>1. CASE Native
  BY <1>1, NativeMemory DEF Native
<1>2. CASE User
  <2>1. ASSUME NEW t \in Turns, StartTurn(t) PROVE TurnMemory(u)'
    BY <2>1, BeginMemory
  <2>2. ASSUME NEW t \in Turns, Stop(t) PROVE TurnMemory(u)'
    BY <2>2, StopMemory
  <2>3. ASSUME NEW r \in Routes, Detach(r) PROVE TurnMemory(u)'
    BY <2>3, GiveUpMemory
  <2>4. ASSUME NEW r \in Routes, NEW th \in Threads, Select(r, th) PROVE TurnMemory(u)'
    BY <2>4, SelectMemory
  <2> QED BY <1>2, <2>1, <2>2, <2>3, <2>4 DEF User
<1>3. CASE \E t \in Turns : Started(t)
  BY <1>3, BeginMemory
<1>4. CASE Live
  BY <1>4, LiveStartedMemory, LiveItemMemory, LiveEndMemory DEF Live
<1>5. CASE Deliver
  BY <1>5, DeliverMemory, AcceptedMemory DEF Deliver
<1>6. CASE Drain
  BY <1>6, DrainMemory, DrainAcceptedMemory DEF Drain
<1>7. CASE Retry \/ Persist
  BY <1>7, DrainMemory DEF Retry
<1>8. CASE Connect \/ RecoverTimesOut
  BY <1>8, ConnectMemory
<1>9. CASE LoseConnection
  BY <1>9, LossMemory
<1>10. CASE Rehydrate
  <2>1. ASSUME NEW r \in Routes, SkipUnbound(r) PROVE TurnMemory(u)'
    BY <2>1, ConnectMemory
  <2>2. ASSUME NEW r \in Routes, ReplayThread(r) PROVE TurnMemory(u)'
    BY <2>2 DEF ReplayThread
  <2>3. ASSUME NEW r \in Routes, ResumeReturns(r) PROVE TurnMemory(u)'
    BY <2>3, ResumeMemory
  <2>4. ASSUME NEW r \in Routes, ResumeFails(r) PROVE TurnMemory(u)'
    BY <2>4, GiveUpMemory
  <2>5. CASE RehydrateEnds
    BY <2>5, ConnectMemory
  <2> QED BY <1>10, <2>1, <2>2, <2>3, <2>4, <2>5 DEF Rehydrate
<1>11. CASE Recover
  BY <1>11, RecoverMemory, ConnectMemory DEF Recover
<1>12. CASE Crash
  BY <1>12, CrashMemory
<1> QED BY <1>1, <1>2, <1>3, <1>4, <1>5, <1>6, <1>7, <1>8, <1>9, <1>10, <1>11, <1>12 DEF Next

LEMMA DismissedGrows ==
  ASSUME [Next]_vars
  PROVE  dismissed \subseteq dismissed'
<1>1. CASE Native
  BY <1>1 DEF Native, Produce, EndTurn
<1>2. CASE User
  <2>1. ASSUME NEW t \in Turns, StartTurn(t) \/ Stop(t) PROVE dismissed \subseteq dismissed'
    BY <2>1 DEF StartTurn, Stop
  <2>2. ASSUME NEW r \in Routes, Detach(r) \/ \E th \in Threads : Select(r, th)
        PROVE  dismissed \subseteq dismissed'
    BY <2>2 DEF Detach, Select
  <2> QED BY <1>2, <2>1, <2>2 DEF User
<1>3. CASE \E t \in Turns : Started(t)
  BY <1>3 DEF Started
<1>4. CASE Live
  BY <1>4 DEF Live, LiveItemStarted, LiveItemCompleted, LiveTurnCompleted
<1>5. CASE Deliver
  BY <1>5 DEF Deliver, StagedFlushed, StagedNotFlushed, StagedAccepted, StagedRefused,
              ReceiptFlushed, ReceiptNotFlushed
<1>6. CASE Drain \/ Retry \/ Persist
  BY <1>6 DEF Drain, DrainFlushed, DrainNotFlushed, DrainAccepted, DrainRefused,
              DrainReceipts, DrainReceiptsNotFlushed, Retry, RetryPass, RetryReceipts, Persist
<1>7. CASE Connect \/ LoseConnection \/ RecoverTimesOut \/ Crash
  BY <1>7 DEF Connect, LoseConnection, RecoverTimesOut, Crash
<1>8. CASE Rehydrate
  <2>1. ASSUME NEW r \in Routes,
               SkipUnbound(r) \/ ReplayThread(r) \/ ResumeReturns(r) \/ ResumeFails(r)
        PROVE  dismissed \subseteq dismissed'
    BY <2>1, Zenon DEF SkipUnbound, ReplayThread, ResumeReturns, ResumeFails
  <2>2. RehydrateEnds => dismissed \subseteq dismissed'
    BY DEF RehydrateEnds
  <2> QED BY <1>8, <2>1, <2>2 DEF Rehydrate
<1>9. CASE Recover
  BY <1>9 DEF Recover, RecoverTurn, ReadyDrains
<1>10. CASE UNCHANGED vars
  BY <1>10 DEF vars
<1> QED BY <1>1, <1>2, <1>3, <1>4, <1>5, <1>6, <1>7, <1>8, <1>9, <1>10 DEF Next

LEMMA MemoryBooksKept ==
  ASSUME Replays = {"running"}, MemoryBooks, DeliveryInv', [Next]_vars
  PROVE  MemoryBooks'
<1>1. TurnBooks /\ TurnBooks'
  BY TurnBooksKept DEF MemoryBooks
<1>2. ASSUME NEW u \in Turns \ dismissed' PROVE TurnMemory(u)'
  <2>1. u \notin dismissed /\ u \in Turns \ dismissed
    BY DismissedGrows
  <2>2. TurnMemory(u)
    BY <2>1 DEF MemoryBooks
  <2>3. CASE Next
    BY <1>1, <2>1, <2>2, <2>3, MemoryOfStep
  <2>4. CASE UNCHANGED vars
    <3>1. UNCHANGED <<mem, disk, svc, lane, ready, events, native, accepted>>
      BY <2>4 DEF vars
    <3>2. u \in ready.found => ready.phase = "resume"
      BY <2>2 DEF TurnMemory, Working
    <3> QED BY <1>1, <2>1, <2>2, <3>1, <3>2, StillKeeps
  <2> QED BY <2>3, <2>4
<1> QED BY <1>1, <1>2 DEF MemoryBooks

LEMMA MemoryBooksStart == Init => MemoryBooks
<1> SUFFICES ASSUME Init PROVE MemoryBooks
  OBVIOUS
<1>1. TurnBooks
  BY TurnBooksStart
<1>2. /\ mem.watches = {} /\ mem.acks = {} /\ mem.outbox = {} /\ disk = mem
      /\ svc.completed = {} /\ svc.recovered = {}
      /\ lane.who = "free" /\ ready.found = {} /\ ready.turns = {}
      /\ accepted = {} /\ DOMAIN events = {} /\ native.subscribed = {}
  BY DEF Init, EmptyStore, FreshService, Free, Idle
<1>3. ASSUME NEW t \in Turns PROVE TurnMemory(t)
  <2>1. ~About(t) /\ EndsLast(t) /\ ~Heard(t) /\ ~Due(t) /\ ~OnLane(t)
    BY <1>2 DEF About, EndsLast, Heard, Due, OnLane
  <2>2. IdsIn(mem.outbox) = {} /\ IdsIn(disk.outbox) = {} /\ IdsIn(accepted) = {}
    BY <1>2 DEF IdsIn
  <2> QED BY <1>2, <2>1, <2>2 DEF TurnMemory, Followed, NoticeLast, Working, Remembered,
                                  ReceiptsApart
<1> QED BY <1>1, <1>3 DEF MemoryBooks

LEMMA MemoryAlways ==
  ASSUME Replays = {"running"}
  PROVE  Spec => []MemoryBooks
<1>1. MemoryBooks /\ DeliveryInv' /\ [Next]_vars => MemoryBooks'
  BY MemoryBooksKept
<1>2. Init => MemoryBooks
  BY MemoryBooksStart
<1>3. Spec => []DeliveryInv
  BY DeliveryAlways
<1> QED BY <1>1, <1>2, <1>3, PTL DEF Spec

-----------------------------------------------------------------------------
(* A message that is settled, and the notice of an empty turn.             *)

(* The file is rewritten as a whole, from memory.                          *)
LEMMA StepDisk ==
  ASSUME [Next]_vars
  PROVE  disk' = disk \/ disk' = mem
<1> DEFINE Written == disk' = disk \/ disk' = mem
<1>1. CASE Native
  BY <1>1 DEF Native, Produce, EndTurn
<1>2. CASE User
  <2>1. ASSUME NEW t \in Turns, StartTurn(t) \/ Stop(t) PROVE Written
    BY <2>1 DEF StartTurn, Stop
  <2>2. ASSUME NEW r \in Routes, Detach(r) \/ \E th \in Threads : Select(r, th)
        PROVE  Written
    BY <2>2 DEF Detach, Select
  <2> QED BY <1>2, <2>1, <2>2 DEF User
<1>3. CASE \E t \in Turns : Started(t)
  BY <1>3 DEF Started
<1>4. CASE Live
  BY <1>4 DEF Live, LiveItemStarted, LiveItemCompleted, LiveTurnCompleted
<1>5. CASE Deliver
  BY <1>5 DEF Deliver, StagedFlushed, StagedNotFlushed, StagedAccepted, StagedRefused,
              ReceiptFlushed, ReceiptNotFlushed, Flushed
<1>6. CASE Drain \/ Retry \/ Persist
  BY <1>6 DEF Drain, DrainFlushed, DrainNotFlushed, DrainAccepted, DrainRefused, DrainReceipts,
              DrainReceiptsNotFlushed, Retry, RetryPass, RetryReceipts, Persist, Flushed
<1>7. CASE Connect \/ LoseConnection \/ RecoverTimesOut \/ Crash
  BY <1>7 DEF Connect, LoseConnection, RecoverTimesOut, Crash
<1>8. CASE Rehydrate
  <2>1. ASSUME NEW r \in Routes,
               SkipUnbound(r) \/ ReplayThread(r) \/ ResumeReturns(r) \/ ResumeFails(r)
        PROVE  Written
    BY <2>1, Zenon DEF SkipUnbound, ReplayThread, ResumeReturns, ResumeFails
  <2>2. RehydrateEnds => Written
    BY DEF RehydrateEnds
  <2> QED BY <1>8, <2>1, <2>2 DEF Rehydrate
<1>9. CASE Recover
  BY <1>9, Zenon DEF Recover, RecoverTurn, ReadyDrains
<1>10. CASE UNCHANGED vars
  BY <1>10 DEF vars
<1> QED BY <1>1, <1>2, <1>3, <1>4, <1>5, <1>6, <1>7, <1>8, <1>9, <1>10 DEF Next

(* What is settled is put back on the disk only from memory, where it is   *)
(* staged again only for a turn of several messages.                       *)
LEMMA SettledKept ==
  ASSUME MemoryBooks, [Next]_vars, NEW id \in IdsIn(accepted) \ IdsIn(disk.outbox),
         id \in IdsIn(disk'.outbox), TurnOf(id) \notin dismissed
  PROVE  ~Single(TurnOf(id)) /\ TurnOf(id) \in svc.completed
<1>1. disk' = mem
  BY StepDisk
<1>2. accepted \in SUBSET Entry
  BY DEF MemoryBooks, TurnBooks, DeliveryInv, TypeOK
<1>3. TurnOf(id) \in Turns
  BY <1>2, TurnOfIds DEF IdsIn, Entry
<1>4. Remembered(TurnOf(id))
  BY <1>3 DEF MemoryBooks, TurnMemory
<1> QED BY <1>1, <1>4 DEF Remembered

(* Whatever has one message to give: what a sink has taken and the disk no *)
(* longer owes is not staged on disk again, unless the user detaches.      *)
OneMessageSettled ==
  [][\A id \in IdsIn(accepted) \ IdsIn(disk.outbox) :
       id \in IdsIn(disk'.outbox) =>
         TurnOf(id) \in dismissed \/ ~Single(TurnOf(id))]_vars

(* Which steps put the notice of t into the outbox.                        *)
ByHandler(t) == About(t) /\ OwesFallback(t)
ByRecovery(t) == Due(t) /\ t \in OwedIds(t) /\ ~Known(mem, svc, t)

LEMMA RecoveryNotices ==
  ASSUME Good(mem), NEW b, svc.known \subseteq b.known, NEW u \in Turns,
         NEW t \in Turns, NEW route \in Routes, NEW ok, RecoverOn(mem, b, u, route, ok), Due(u),
         t \in IdsIn(mem'.outbox) \ IdsIn(mem.outbox)
  PROVE  ByRecovery(t)
<1> DEFINE ids == RecoveredIds(u)
           known == KnownOf(mem, b, ids)
<1>1. CASE \E i \in DOMAIN ids \ known : mem' = Stage(mem, ids[i], route)
  <2>1. PICK i \in DOMAIN ids \ known : mem' = Stage(mem, ids[i], route)
    BY <1>1
  <2>2. ids[i] \in Ids /\ TurnOf(ids[i]) = u /\ ids[i] \in OwedIds(u)
    <3>1. ids[i] \in Range(ids)
      BY <2>1 DEF Range
    <3> QED BY <2>1, <3>1, RecoveredAre
  <2>3. ~Known(mem, b, ids[i])
    BY <2>1 DEF KnownOf
  <2>4. ~Known(mem, svc, ids[i])
    BY <2>3 DEF Known
  <2> HIDE DEF ids, known
  <2>5. t = ids[i]
    BY <2>1, <2>2, StageIds
  <2>6. t = u
    BY <2>2, <2>5, TurnOfIds
  <2> QED BY <2>2, <2>4, <2>5, <2>6 DEF ByRecovery
<1>2. CASE mem' = IF ok THEN Discard(mem, u) ELSE mem
  <2>1. mem'.outbox = mem.outbox
    BY <1>2, DiscardKeeps
  <2> QED BY <2>1
<1> QED BY <1>1, <1>2, Zenon DEF RecoverOn

LEMMA CompletionNotices ==
  ASSUME Good(mem), NEW b, NEW u, NEW durable, CompletionHandled(mem, b, u, durable)
  PROVE  mem'.outbox = mem.outbox
BY DiscardKeeps DEF CompletionHandled

LEMMA LiveNotices ==
  ASSUME TurnBooks, NEW t \in Turns, Live, t \in IdsIn(mem'.outbox) \ IdsIn(mem.outbox)
  PROVE  ByHandler(t)
<1> DEFINE id == Head(events).id
<1>0. /\ Good(mem) /\ EventsTyped
  BY DEF TurnBooks, DeliveryInv
<1>1. CASE LiveItemStarted
  <2>1. mem' = mem \/ mem' = Watch(mem, id)
    BY <1>1, Zenon DEF LiveItemStarted
  <2>2. HeadIs("item_started")
    BY <1>1 DEF LiveItemStarted
  <2>3. id \in Turns
    BY <1>0, <2>2, HeadProper
  <2> HIDE DEF id
  <2>4. mem'.outbox = mem.outbox
    BY <1>0, <2>1, <2>3, WatchKeeps
  <2> QED BY <2>4
<1>2. CASE LiveItemCompleted
  <2>1. \/ mem' = mem
        \/ /\ Bound(mem, ThreadOf[TurnOf(id)])
           /\ mem' = Stage(mem, id, RouteOf(mem, ThreadOf[TurnOf(id)]))
    BY <1>2, Zenon DEF LiveItemCompleted
  <2>2. HeadIs("item_completed")
    BY <1>2 DEF LiveItemCompleted
  <2>3. id \in Ids /\ id \notin Turns
    <3>1. id \in Answers
      BY <1>0, <2>2, HeadProper
    <3> QED BY <3>1, StoreAssumption DEF Answers, Ids
  <2> HIDE DEF id
  <2>4. \A x \in IdsIn(mem'.outbox) : x \in IdsIn(mem.outbox) \/ x = id
    BY <1>0, <2>1, <2>3, StageIds, RouteBound
  <2> QED BY <2>3, <2>4
<1>3. CASE LiveTurnCompleted
  <2>1. \/ mem' = mem
        \/ OwesFallback(id) /\ mem' = Stage(mem, id, RouteOf(mem, ThreadOf[id]))
        \/ CompletionHandled(mem, Close(svc, id), id, FALSE)
    BY <1>3, Zenon DEF LiveTurnCompleted
  <2>2. HeadIs("turn_completed")
    BY <1>3 DEF LiveTurnCompleted
  <2>3. id \in Turns /\ TurnOf(id) = id /\ id \in Ids
    BY <1>0, <2>2, HeadProper, TurnOfIds
  <2>4. About(id)
    <3>1. 1 \in DOMAIN events /\ events[1] = Head(events)
      BY <1>0, <2>2, Taken DEF HeadIs
    <3> QED BY <2>3, <3>1 DEF About, EventTurn
  <2> HIDE DEF id
  <2>5. OwesFallback(id) /\ mem' = Stage(mem, id, RouteOf(mem, ThreadOf[id]))
    BY <1>0, <2>1, CompletionNotices
  <2>6. RouteOf(mem, ThreadOf[id]) \in Routes
    BY <2>5, RouteBound DEF OwesFallback
  <2>7. t = id
    BY <1>0, <2>3, <2>5, <2>6, StageIds
  <2> QED BY <2>4, <2>5, <2>7 DEF ByHandler
<1> QED BY <1>1, <1>2, <1>3 DEF Live

LEMMA CompleteDrops ==
  ASSUME NEW s, Good(s), NEW id \in Ids
  PROVE  Good(Complete(s, id)) /\ Complete(s, id).outbox \subseteq s.outbox
<1> DEFINE new == Complete(s, id)
<1>1. Good(new) /\ new.outbox = {e \in s.outbox : e.id # id}
  BY CompleteKeeps
<1> HIDE DEF new
<1>2. Good(new) /\ new.outbox \subseteq s.outbox
  BY <1>1
<1> QED BY <1>2 DEF new

LEMMA DeliverNotices ==
  ASSUME TurnBooks, NEW t \in Turns, Deliver, t \in IdsIn(mem'.outbox) \ IdsIn(mem.outbox)
  PROVE  ByRecovery(t)
<1> DEFINE u == TurnOf(lane.id)
<1>0. Good(mem) /\ svc \in Service
  BY TypeParts DEF TurnBooks, DeliveryInv
<1>1. lane.who \in {"live", "recover"} /\ lane.id \in Ids /\ u \in Turns
  <2>1. lane.who \in {"live", "recover"}
    BY DEF Deliver, StagedFlushed, StagedNotFlushed, StagedAccepted, StagedRefused,
           ReceiptFlushed, ReceiptNotFlushed, Delivering
  <2> QED BY <2>1, TurnOfIds DEF TurnBooks, TurnsInv, DeliveryInv, LaneTyped
<1>2. ASSUME NEW b, svc.known \subseteq b.known, NEW ok, NEW durable,
             \/ lane.who = "recover" /\ RecoverOn(mem, b, u, lane.route, ok)
             \/ CompletionHandled(mem, b, u, durable)
             \/ mem' = mem
      PROVE  ByRecovery(t)
  <2>1. lane.who = "recover" /\ RecoverOn(mem, b, u, lane.route, ok)
    BY <1>0, <1>2, CompletionNotices
  <2>2. lane.route \in Routes /\ Due(u)
    BY <1>1, <2>1 DEF TurnBooks, TurnsInv, DeliveryInv, LaneTyped, Due
  <2> HIDE DEF u
  <2> QED BY <1>0, <1>1, <1>2, <2>1, <2>2, RecoveryNotices
<1>3. ASSUME NEW delivered, NEW durable, Returns(mem, delivered, durable) PROVE ByRecovery(t)
  <2> DEFINE b == IF delivered THEN [svc EXCEPT !.known = @ \cup {lane.id}] ELSE svc
  <2>1. svc.known \subseteq b.known
    BY <1>0 DEF Service
  <2>2. \/ lane.who = "recover" /\ RecoverOn(mem, b, u, lane.route, lane.ok /\ durable)
        \/ CompletionHandled(mem, b, u, durable)
        \/ mem' = mem
    BY <1>3, Zenon DEF Returns
  <2> HIDE DEF b
  <2> QED BY <1>2, <2>1, <2>2
<1>4. CASE StagedFlushed
  <2>1. mem' = mem \/ Returns(mem, FALSE, TRUE)
    BY <1>4, Zenon DEF StagedFlushed
  <2> QED BY <1>3, <2>1
<1>5. CASE StagedNotFlushed
  <2>1. PICK durable \in BOOLEAN : Returns(mem, FALSE, durable)
    BY <1>5, Zenon DEF StagedNotFlushed
  <2> QED BY <1>3, <2>1
<1>6. CASE StagedAccepted
  <2>1. mem' = Complete(mem, lane.id)
    BY <1>6 DEF StagedAccepted
  <2>2. mem'.outbox \subseteq mem.outbox
    BY <1>0, <1>1, <2>1, CompleteDrops
  <2> QED BY <2>2 DEF IdsIn
<1>7. CASE StagedRefused \/ ReceiptFlushed
  <2>1. \E delivered \in BOOLEAN : Returns(mem, delivered, TRUE)
    BY <1>7 DEF StagedRefused, ReceiptFlushed
  <2> QED BY <1>3, <2>1
<1>8. CASE ReceiptNotFlushed
  <2> DEFINE b == [svc EXCEPT !.ackPending = TRUE, !.known = @ \cup {lane.id}]
  <2>1. \/ lane.who = "recover" /\ RecoverOn(mem, b, u, lane.route, lane.ok)
        \/ CompletionHandled(mem, b, u, TRUE)
        \/ mem' = mem
    BY <1>8, Zenon DEF ReceiptNotFlushed
  <2>2. svc.known \subseteq b.known
    BY <1>0 DEF Service
  <2> HIDE DEF b
  <2> QED BY <1>2, <2>1, <2>2
<1> QED BY <1>4, <1>5, <1>6, <1>7, <1>8 DEF Deliver

(* Nothing else puts a notice into the outbox but the death of the         *)
(* process, with what is on disk.                                          *)
LEMMA NoticeStaged ==
  ASSUME TurnBooks, [Next]_vars, NEW t \in Turns,
         t \in IdsIn(mem'.outbox) \ IdsIn(mem.outbox \cup disk.outbox)
  PROVE  ByHandler(t) \/ ByRecovery(t)
<1> DEFINE Kept == mem'.outbox \subseteq mem.outbox
<1>0. Good(mem) /\ Good(disk)
  BY DEF TurnBooks, DeliveryInv
<1>1. ~Kept /\ t \in IdsIn(mem'.outbox) \ IdsIn(mem.outbox)
  BY DEF IdsIn
<1>2. CASE Native
  BY <1>1, <1>2 DEF Native, Produce, EndTurn
<1>3. CASE User
  <2>1. ASSUME NEW u \in Turns, StartTurn(u) \/ Stop(u) PROVE Kept
    BY <1>0, <2>1, DiscardKeeps DEF StartTurn, Stop
  <2>2. ASSUME NEW r \in Routes, Detach(r) PROVE Kept
    BY <1>0, <2>2, UnbindKeeps DEF Detach
  <2>3. ASSUME NEW r \in Routes, NEW th \in Threads, Select(r, th) PROVE Kept
    <3>1. mem' = Bind(mem, r, th) \/ \E u \in Running(th) : mem' = Watch(Bind(mem, r, th), u)
      BY <2>3, Zenon DEF Select
    <3>2. Good(Bind(mem, r, th)) /\ Bind(mem, r, th).outbox = mem.outbox
      BY <1>0, BindKeeps
    <3>3. \A u \in Running(th) : Watch(Bind(mem, r, th), u).outbox = Bind(mem, r, th).outbox
      BY <3>2, WatchKeeps DEF Running
    <3> QED BY <3>1, <3>2, <3>3
  <2> QED BY <1>1, <1>3, <2>1, <2>2, <2>3 DEF User
<1>4. CASE \E u \in Turns : Started(u)
  <2>1. PICK u \in Turns : mem' = Watch(mem, u)
    BY <1>4 DEF Started
  <2> QED BY <1>0, <1>1, <2>1, WatchKeeps
<1>5. CASE Live
  BY <1>1, <1>5, LiveNotices
<1>6. CASE Deliver
  BY <1>1, <1>6, DeliverNotices
<1>7. CASE Drain
  <2>1. CASE DrainAccepted
    <3>1. PICK e \in lane.rest :
             mem' = Released(Complete(mem, e.id), svc, TurnOf(e.id))
      BY <2>1 DEF DrainAccepted
    <3>2. e.id \in Ids
      BY <3>1, TypeParts DEF TurnBooks, DeliveryInv, Lane, Entry
    <3>3. Good(Complete(mem, e.id)) /\ Complete(mem, e.id).outbox \subseteq mem.outbox
      BY <1>0, <3>2, CompleteDrops
    <3>4. mem'.outbox = Complete(mem, e.id).outbox
      BY <3>1, <3>3, ReleasedKeeps
    <3> QED BY <1>1, <3>3, <3>4
  <2>2. CASE DrainFlushed \/ DrainNotFlushed \/ DrainRefused
               \/ DrainReceipts \/ DrainReceiptsNotFlushed
    BY <1>1, <2>2 DEF DrainFlushed, DrainNotFlushed, DrainRefused, DrainReceipts,
                      DrainReceiptsNotFlushed
  <2> QED BY <1>7, <2>1, <2>2 DEF Drain
<1>8. CASE Retry \/ Persist \/ Connect \/ LoseConnection \/ RecoverTimesOut
  BY <1>1, <1>8 DEF Retry, RetryPass, RetryReceipts, Persist, Connect, LoseConnection,
                    RecoverTimesOut
<1>9. CASE Crash
  <2>1. mem' = Loaded(disk)
    BY <1>9 DEF Crash
  <2>2. mem'.outbox = disk.outbox
    BY <1>0, <2>1, LoadedKeeps
  <2> QED BY <2>2 DEF IdsIn
<1>10. CASE Rehydrate
  <2>1. ASSUME NEW r \in Routes, SkipUnbound(r) \/ ReplayThread(r) PROVE Kept
    BY <2>1, Zenon DEF SkipUnbound, ReplayThread
  <2>2. ASSUME NEW r \in Routes, ResumeReturns(r) PROVE Kept
    <3> DEFINE th == mem.binding[r]
    <3>1. mem' = IF Running(th) = {} THEN mem ELSE Watch(mem, CHOOSE u \in Running(th) : TRUE)
      BY <2>2, Zenon DEF ResumeReturns
    <3>2. Running(th) # {} => (CHOOSE u \in Running(th) : TRUE) \in Turns
      BY DEF Running
    <3> HIDE DEF th
    <3> QED BY <1>0, <3>1, <3>2, WatchKeeps
  <2>3. ASSUME NEW r \in Routes, ResumeFails(r) PROVE Kept
    <3>1. mem' = mem \/ mem' = Unbind(mem, r)
      BY <2>3, Zenon DEF ResumeFails
    <3> QED BY <1>0, <3>1, UnbindKeeps
  <2>4. CASE RehydrateEnds
    BY <1>1, <2>4 DEF RehydrateEnds
  <2> QED BY <1>1, <1>10, <2>1, <2>2, <2>3, <2>4 DEF Rehydrate
<1>11. CASE Recover
  <2>1. ASSUME NEW u \in Turns, RecoverTurn(u) PROVE Kept \/ ByRecovery(t)
    <3> DEFINE b == [svc EXCEPT !.visible = @ \ {u}]
    <3>1. \/ /\ Bound(mem, ThreadOf[u])
             /\ RecoverOn(mem, b, u, RouteOf(mem, ThreadOf[u]), TRUE)
          \/ mem' = mem
      BY <2>1, Zenon DEF RecoverTurn
    <3>2. svc.known \subseteq b.known
      BY TypeParts DEF TurnBooks, DeliveryInv, Service
    <3>3. Due(u)
      BY <2>1 DEF RecoverTurn, Due
    <3> HIDE DEF b
    <3> QED BY <1>0, <1>1, <3>1, <3>2, <3>3, RouteBound, RecoveryNotices
  <2>2. ReadyDrains => Kept
    BY DEF ReadyDrains
  <2> QED BY <1>1, <1>11, <2>1, <2>2 DEF Recover
<1>12. CASE UNCHANGED vars
  BY <1>1, <1>12 DEF vars
<1> QED BY <1>2, <1>3, <1>4, <1>5, <1>6, <1>7, <1>8, <1>9, <1>10, <1>11, <1>12 DEF Next

(* A turn that is told to have given no answer has no receipt on disk: the *)
(* live handler asks for the receipts in memory, which hold those on disk  *)
(* as long as the turn is heard of, and the recovery owes such a notice    *)
(* only to a turn that has no message but that one.                        *)
LEMMA NoticeWithoutReceipt ==
  ASSUME MemoryBooks, [Next]_vars, NEW t \in Turns \ (Failing \cup dismissed),
         t \in IdsIn(mem'.outbox) \ IdsIn(mem.outbox \cup disk.outbox)
  PROVE  Receipts(disk, t) = {}
<1>1. SUFFICES ASSUME NEW id \in disk.acks, TurnOf(id) = t PROVE FALSE
  BY DEF Receipts
<1>2. TurnBooks /\ TurnMemory(t)
  BY DEF MemoryBooks
<1>3. id \in IdsIn(accepted) /\ id \in Ids
  <2>1. disk.acks \subseteq Ids
    BY <1>2 DEF TurnBooks, DeliveryInv, TypeOK, Store
  <2> QED BY <1>1, <1>2, <2>1 DEF TurnBooks, ReceiptsTrue
<1>4. id \notin IdsIn(disk.outbox)
  BY <1>1, <1>2 DEF TurnMemory, ReceiptsApart
<1>5. CASE ByHandler(t)
  <2>1. id \notin mem.acks
    BY <1>1, <1>5 DEF ByHandler, OwesFallback, Receipts
  <2>2. t \in mem.watches /\ t \notin svc.completed
    BY <1>2, <1>5 DEF ByHandler, TurnMemory, Followed, Heard
  <2> QED BY <1>1, <1>2, <1>3, <1>4, <2>1, <2>2 DEF TurnMemory, Remembered, Gone
<1>6. CASE ByRecovery(t)
  <2>1. AnswersOf[t] = <<>>
    <3>1. t \notin Range(AnswersOf[t])
      BY StoreAssumption
    <3> QED BY <1>6, <3>1 DEF ByRecovery, OwedIds
  <2>2. Single(t) /\ Range(AnswersOf[t]) = {}
    BY <2>1 DEF Single, Range
  <2>3. id = t
    BY <1>1, <1>3, <2>2, IdsOfTurn
  <2> QED BY <1>2, <1>3, <1>6, <2>2, <2>3, TurnOfIds, Fresh DEF ByRecovery
<1> QED BY <1>2, <1>5, <1>6, NoticeStaged

(* SettledStaysSettled for every turn that has one message to give, and    *)
(* with it for every instance in which each turn has: what a sink has      *)
(* taken and the disk no longer owes is not staged on disk again, whatever *)
(* crashes, failed flushes, lost connections and resumptions follow.       *)
(* Receipts and consumed watches (store_terminal_deliveries.py) outlive    *)
(* them all.  A turn of several answers may be told again: its watch, and  *)
(* its receipts with it, go with the last one.                             *)
THEOREM OneMessageStaysSettled ==
  ASSUME Replays = {"running"}
  PROVE  Spec => OneMessageSettled
<1>1. MemoryBooks /\ [Next]_vars =>
        [\A id \in IdsIn(accepted) \ IdsIn(disk.outbox) :
           id \in IdsIn(disk'.outbox) =>
             TurnOf(id) \in dismissed \/ ~Single(TurnOf(id))]_vars
  BY SettledKept
<1>2. Spec => []MemoryBooks
  BY MemoryAlways
<1> QED BY <1>1, <1>2, PTL DEF Spec, OneMessageSettled

THEOREM SettledForGood ==
  ASSUME Replays = {"running"}, \A t \in Turns : Single(t)
  PROVE  Spec => SettledStaysSettled
<1>1. MemoryBooks /\ [Next]_vars =>
        [\A id \in IdsIn(accepted) \ IdsIn(disk.outbox) :
           id \in IdsIn(disk'.outbox) => TurnOf(id) \in dismissed]_vars
  <2>1. SUFFICES ASSUME MemoryBooks, [Next]_vars,
                        NEW id \in IdsIn(accepted) \ IdsIn(disk.outbox),
                        id \in IdsIn(disk'.outbox), TurnOf(id) \notin dismissed
                 PROVE  FALSE
    OBVIOUS
  <2>2. accepted \in SUBSET Entry
    BY <2>1 DEF MemoryBooks, TurnBooks, DeliveryInv, TypeOK
  <2>3. TurnOf(id) \in Turns
    BY <2>2, TurnOfIds DEF IdsIn, Entry
  <2> QED BY <2>1, <2>3, SettledKept
<1>2. Spec => []MemoryBooks
  BY MemoryAlways
<1> QED BY <1>1, <1>2, PTL DEF Spec, SettledStaysSettled

(* The notice that a turn gave no answer is not staged for a turn that has *)
(* a receipt on disk (has_acknowledged_terminal_delivery), neither by the  *)
(* handler of turn_completed nor by the recovery after a connection.       *)
THEOREM NoNoticeAfterReceipt ==
  ASSUME Replays = {"running"}
  PROVE  Spec => NoEmptyNoticeAfterReceipt
<1>1. MemoryBooks /\ [Next]_vars =>
        [\A t \in Turns \ (Failing \cup dismissed) :
           t \in IdsIn(mem'.outbox) \ IdsIn(mem.outbox \cup disk.outbox)
             => Receipts(disk, t) = {}]_vars
  BY NoticeWithoutReceipt
<1>2. Spec => []MemoryBooks
  BY MemoryAlways
<1> QED BY <1>1, <1>2, PTL DEF Spec, NoEmptyNoticeAfterReceipt
==============================================================================
