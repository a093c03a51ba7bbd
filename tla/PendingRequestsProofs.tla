------------------------ MODULE PendingRequestsProofs ------------------------
(***************************************************************************)
(* For any requests, ids, turns, connections and faults: an answer goes to *)
(* the request it was made for, is begun once, and is not given for a peer *)
(* that has answered.                                                      *)
(***************************************************************************)
EXTENDS PendingRequests, FiniteSetTheorems, WellFoundedInduction, TLAPS

SomeTurn == Turns \cup {TurnOf[c] : c \in Asked} \cup {Nothing}
Frames == [call : Asked, is : {"request", "resolved"}]
News == [call : Asked \cup {Nothing}, turn : SomeTurn]
Whose == {Sort[c] : c \in Asked} \cup {"responds", "rejects", "user"}
Awake == {"sleeps", "calls", "replies"}
Handling == [call : Asked \cup {Nothing}, todo : SUBSET Ids,
             at : {"idle", "emits", "posting", "rejects", "responds"}]
Commanding == [call : Asked \cup {Nothing}, todo : SUBSET Ids,
               at : {"idle", "waits", "sends", "stops"}]
Gates == [at : {"none", "holds", "drains", "discards"}, of : SUBSET (Turns \cup Unbound),
          held : Seq(Frames), over : SUBSET SomeTurn]

RequestsTyped ==
  /\ conn \in Nat \ {0} /\ link \in {"up", "down", "clean"}
  /\ native \in [Asked -> {"new", "open", "settled"}] /\ asked \in [Asked -> Nat]
  /\ lane \in Seq(Frames) /\ news \in Seq(News) /\ active \in SomeTurn
  /\ routes \in [Ids -> Asked \cup {Nothing}]
  /\ \A i \in Ids : routes[i] # Nothing => Id[routes[i]] = i
  /\ gate \in Gates /\ handler \in [Handlers -> Handling] /\ command \in Commanding
  /\ task \in [Asked -> Awake \cup {"none", "done", "cancelled"}]
  /\ recentCalls \in Seq(Asked \cup {Nothing}) /\ recentTurns \in Seq(SomeTurn)
  /\ answers \in [Asked -> Seq([by : Whose, on : Nat])]

-----------------------------------------------------------------------------
(* A request is asked once; on one connection its id is its own.           *)
AskedOnce ==
  /\ \A c \in Asked : asked[c] <= conn /\ (native[c] = "new" => asked[c] = 0)
  /\ \A c, d \in Asked : Id[c] = Id[d] /\ asked[c] = asked[d] /\ asked[c] # 0 => c = d

(* It was asked on this connection, or the gate carried it over a reset.   *)
Standing(c) == asked[c] # 0 /\ ((asked[c] = conn /\ link # "clean") \/ c \in late)

(* The bridge has not seen it yet.                                         *)
Untouched(c) ==
  routes[Id[c]] # c /\ command.call # c /\ task[c] = "none" /\ answers[c] = <<>>
InHand(c) == \E w \in Handlers : handler[w].call = c
InLane(k) == lane[k].is = "request"
Asking(k) == gate.held[k].is = "request"
NotHeld(c) == \A k \in DOMAIN gate.held : Asking(k) => gate.held[k].call # c
Unseen(c) == Untouched(c) /\ ~InHand(c) /\ NotHeld(c)
LaneInv ==
  /\ link # "up" => lane = <<>>
  /\ \A k \in DOMAIN lane : InLane(k) =>
       /\ \A c \in Asked : lane[k].call = c => asked[c] = conn /\ Unseen(c)
       /\ \A j \in DOMAIN lane : InLane(j) /\ lane[j].call = lane[k].call => j = k

(* What the gate has set aside is new to the rest of the bridge, unless    *)
(* its handling was cut short.                                             *)
HeldOne(c) == Standing(c) /\ ~InHand(c) /\ (Untouched(c) \/ (c \in cut /\ ~Tool(c)))
HeldInv ==
  \A k \in DOMAIN gate.held : Asking(k) =>
    /\ \A c \in Asked : gate.held[k].call = c => HeldOne(c)
    /\ \A j \in DOMAIN gate.held : Asking(j) /\ gate.held[j].call = gate.held[k].call => j = k

Decidable(c) == Sort[c] \in {"approval", "question"}
Handled(w, c) ==
  /\ Standing(c) /\ ~Tool(c)
  /\ w = "lane" => asked[c] = conn /\ link = "up"
  /\ handler[w].at \in {"rejects", "responds"} => routes[Id[c]] # c
  /\ handler[w].at = "responds" => Untouched(c) \/ c \in cut
  /\ handler[w].at \in {"emits", "posting", "rejects"} => Decidable(c)
HandlerInv ==
  /\ \A w \in Handlers : /\ handler[w].call = Nothing <=> handler[w].at = "idle"
                         /\ handler[w].at = "idle" => handler[w] = AtRest
                         /\ \A c \in Asked : handler[w].call = c => Handled(w, c)
  /\ handler["lane"].call = handler["gate"].call => handler["lane"].call = Nothing

CommandInv ==
  /\ command.at \in {"idle", "stops"} => command.call = Nothing
  /\ command.at \in {"waits", "sends"} =>
       command.call # Nothing /\ asked[command.call] # 0 /\ Decidable(command.call)
  /\ command.at = "sends" => asked[command.call] = conn /\ link = "up"

(* A route stands, and is not answered.                                    *)
RoutesInv ==
  \A c \in Asked : routes[Id[c]] = c =>
    Standing(c) /\ Decidable(c) /\ (answers[c] = <<>> \/ c \in cut)

(* A delegated call stands, and nobody has completed it.    *)
TasksInv ==
  \A c \in Asked :
    /\ task[c] # "none" => asked[c] # 0 /\ Tool(c)
    /\ task[c] \in Awake =>
         /\ Standing(c) /\ answers[c] = <<>>
         /\ c \notin ToSet(recentCalls) /\ TurnOf[c] \notin ToSet(recentTurns)

AnswersInv ==
  \A c \in Asked :
    /\ \A k \in DOMAIN answers[c] : answers[c][k].on = asked[c]
    /\ answers[c] # <<>> => asked[c] # 0

RequestsInv ==
  /\ RequestsTyped /\ AskedOnce /\ LaneInv /\ HeldInv /\ HandlerInv /\ CommandInv
  /\ RoutesInv /\ TasksInv /\ AnswersInv

-----------------------------------------------------------------------------
(* Sequences.                                                              *)

LEMMA Least ==
  ASSUME NEW I, I # {}, I \subseteq Nat
  PROVE  \E m \in I : \A i \in I : m <= i
<1> DEFINE R == OpToRel(<, Nat)
<1>1. IsWellFoundedOn(R, Nat)
  BY NatLessThanWellFounded, Zenon
<1>2. R = {ss \in Nat \X Nat : ss[1] < ss[2]}
  BY DEF OpToRel
<1> HIDE DEF R
<1>3. PICK m \in I : \A i \in I : ~(<<i, m>> \in R)
  BY <1>1, WFMin
<1>4. \A i \in I : ~(i < m)
  BY <1>2, <1>3
<1> QED BY <1>4

LEMMA RemoveFirstFacts ==
  ASSUME NEW S, NEW s \in Seq(S), NEW x
  PROVE  /\ RemoveFirst(s, x) \in Seq(S)
         /\ ToSet(RemoveFirst(s, x)) \subseteq ToSet(s)
<1>1. CASE \E i \in 1..Len(s) : s[i] = x
  <2> DEFINE I == {i \in 1..Len(s) : s[i] = x}
             n == Min(I)
             a == SubSeq(s, 1, n - 1)
             b == SubSeq(s, n + 1, Len(s))
  <2>1. \E m \in I : \A i \in I : m <= i
    <3>1. I # {} /\ I \subseteq Nat
      BY <1>1
    <3> QED BY <3>1, Least
  <2>2. n \in I
    BY <2>1 DEF Min
  <2>3. n \in 1..Len(s)
    BY <2>2
  <2>4. RemoveFirst(s, x) = a \o b
    BY <1>1 DEF RemoveFirst, RemoveAt, SelectInSeq
  <2> HIDE DEF n, I
  <2>5. /\ a \in Seq(S) /\ Len(a) = n - 1 /\ \A i \in 1..(n - 1) : a[i] = s[i]
        /\ b \in Seq(S) /\ Len(b) = Len(s) - n
        /\ \A i \in 1..(Len(s) - n) : b[i] = s[n + i]
    BY <2>3
  <2> HIDE DEF a, b
  <2>6. a \o b \in Seq(S)
    BY <2>5
  <2>7. ASSUME NEW k \in DOMAIN (a \o b)
        PROVE  (a \o b)[k] \in ToSet(s)
    <3>1. CASE k <= n - 1
      BY <2>3, <2>5, <3>1 DEF ToSet
    <3>2. CASE ~(k <= n - 1)
      <4> DEFINE m == k - (n - 1)
      <4>1. k \in 1..(Len(s) - 1)
        BY <2>3, <2>5
      <4>2. m \in 1..(Len(s) - n) /\ n + m \in DOMAIN s
        BY <2>3, <3>2, <4>1
      <4>3. (a \o b)[k] = b[m]
        BY <2>3, <2>5, <3>2, <4>1
      <4>4. b[m] = s[n + m]
        BY <2>5, <4>2
      <4> QED BY <4>2, <4>3, <4>4 DEF ToSet
    <3> QED BY <3>1, <3>2
  <2> QED BY <2>4, <2>6, <2>7 DEF ToSet
<1>2. CASE ~\E i \in 1..Len(s) : s[i] = x
  BY <1>2 DEF RemoveFirst
<1> QED BY <1>1, <1>2

LEMMA RememberFacts ==
  ASSUME RequestsAssumed, NEW S, NEW s \in Seq(S), NEW x \in S
  PROVE  /\ Remember(s, x) \in Seq(S)
         /\ ToSet(Remember(s, x)) \subseteq ToSet(s) \cup {x}
<1> DEFINE r == RemoveFirst(s, x)
           q == IF Len(r) >= RecentHost THEN Tail(r) ELSE r
<1>1. r \in Seq(S) /\ ToSet(r) \subseteq ToSet(s)
  BY RemoveFirstFacts
<1>2. Remember(s, x) = Append(q, x)
  BY DEF Remember
<1> HIDE DEF r
<1>3. q \in Seq(S) /\ ToSet(q) \subseteq ToSet(s)
  <2>1. CASE Len(r) >= RecentHost
    <3>1. r # <<>> /\ q = Tail(r)
      BY <2>1 DEF RequestsAssumed
    <3>2. /\ Tail(r) \in Seq(S) /\ Len(Tail(r)) = Len(r) - 1
          /\ \A k \in 1..(Len(r) - 1) : Tail(r)[k] = r[k + 1]
      BY <1>1, <3>1
    <3>3. ToSet(Tail(r)) \subseteq ToSet(r)
      <4>1. DOMAIN Tail(r) = 1..(Len(r) - 1) /\ DOMAIN r = 1..Len(r)
        BY <1>1, <3>2
      <4>2. \A k \in 1..(Len(r) - 1) : k + 1 \in 1..Len(r)
        BY <1>1
      <4> QED BY <3>2, <4>1, <4>2 DEF ToSet
    <3> HIDE DEF q
    <3> QED BY <1>1, <3>1, <3>2, <3>3
  <2>2. CASE ~(Len(r) >= RecentHost)
    BY <1>1, <2>2
  <2> QED BY <2>1, <2>2
<1> HIDE DEF q
<1>4. Append(q, x) \in Seq(S)
  BY <1>3
<1>5. ASSUME NEW k \in DOMAIN Append(q, x)
      PROVE  Append(q, x)[k] \in ToSet(s) \cup {x}
  BY <1>3 DEF ToSet
<1> QED BY <1>2, <1>4, <1>5 DEF ToSet

LEMMA ListsAll ==
  ASSUME NEW F, IsFiniteSet(F)
  PROVE  SetToSeq(F) \in Seq(F)
<1> DEFINE n == Cardinality(F)
<1>1. n \in Nat /\ ExistsBijection(1..n, F)
  BY FS_CardinalityType
<1>2. \E f \in [1..n -> F] : IsInjective(f)
  BY <1>1 DEF ExistsBijection, Bijection, Injection, IsInjective
<1>3. SetToSeq(F) \in [1..n -> F]
  BY <1>2 DEF SetToSeq
<1> QED BY <1>1, <1>3

(* What the app-server adds to the lane when it settles something.         *)
Settled(s) == s \in Seq(Frames) /\ \A k \in DOMAIN s : s[k].is = "resolved"

LEMMA TellFacts ==
  ASSUME RequestsAssumed, NEW S \in SUBSET Asked, Tell(S)
  PROVE  \E s : Settled(s) /\ lane' = lane \o s
<1> DEFINE F == {[call |-> c, is |-> "resolved"] : c \in Open(S)}
           s == SetToSeq(F)
<1>1. IsFiniteSet(F)
  <2>1. Open(S) \in SUBSET Asked
    BY DEF Open
  <2>2. IsFiniteSet(Open(S))
    BY <2>1, FS_Subset DEF RequestsAssumed
  <2> DEFINE f == [c \in Open(S) |-> [call |-> c, is |-> "resolved"]]
  <2>3. f \in Surjection(Open(S), F)
    BY DEF Surjection
  <2> QED BY <2>2, <2>3, FS_Surjection
<1>2. s \in Seq(F)
  BY <1>1, ListsAll
<1>3. \A f \in F : f \in Frames /\ f.is = "resolved"
  BY DEF Frames, Open
<1>4. lane' = lane \o s
  BY DEF Tell
<1> HIDE DEF F, s
<1>5. Settled(s)
  BY <1>2, <1>3 DEF Settled
<1> QED BY <1>4, <1>5

-----------------------------------------------------------------------------
(* Steps.  Most of them move what is there along: they ask and answer      *)
(* nothing, and take the connection as it is.                              *)

(* The lane is taken from, or something that is settled is added.          *)
LaneFollows ==
  \/ lane' = lane
  \/ lane # <<>> /\ lane' = Tail(lane)
  \/ link = "up" /\ \E s : Settled(s) /\ lane' = lane \o s

LEMMA FramesTyped ==
  ASSUME NEW s \in Seq(Frames), NEW k \in DOMAIN s
  PROVE  s[k].call \in Asked /\ s[k].is \in {"request", "resolved"}
<1>1. s[k] \in Frames
  OBVIOUS
<1> QED BY <1>1 DEF Frames

LEMMA LaneKept ==
  ASSUME lane \in Seq(Frames), LaneInv, LaneFollows, UNCHANGED <<conn, link>>,
         \A k \in DOMAIN lane : \A c \in Asked :
           InLane(k) /\ lane[k].call = c =>
             \/ lane' = Tail(lane) /\ k = 1
             \/ asked'[c] = asked[c] /\ Unseen(c)'
  PROVE  LaneInv' /\ lane' \in Seq(Frames)
<1>1. CASE lane' = lane
  <2>1. \A k \in DOMAIN lane : ~(lane' = Tail(lane) /\ k = 1)
    BY <1>1
  <2>2. ASSUME NEW k \in DOMAIN lane', InLane(k)', NEW c \in Asked, lane'[k].call = c
        PROVE  asked'[c] = conn' /\ Unseen(c)'
    BY <1>1, <2>1, <2>2 DEF LaneInv, InLane
  <2> QED BY <1>1, <2>2 DEF LaneInv, InLane
<1>2. CASE lane # <<>> /\ lane' = Tail(lane)
  <2>1. /\ lane' \in Seq(Frames) /\ DOMAIN lane' = 1..(Len(lane) - 1)
        /\ \A k \in 1..(Len(lane) - 1) : lane'[k] = lane[k + 1]
        /\ DOMAIN lane = 1..Len(lane) /\ Len(lane) \in Nat
    BY <1>2
  <2>2. \A k \in 1..(Len(lane) - 1) : k + 1 \in 1..Len(lane) /\ k + 1 # 1
    BY <2>1
  <2>3. link = "up"
    BY <1>2 DEF LaneInv
  <2>4. ASSUME NEW k \in DOMAIN lane', InLane(k)'
        PROVE  /\ k + 1 \in DOMAIN lane /\ InLane(k + 1)
               /\ lane'[k] = lane[k + 1]
               /\ asked'[lane[k + 1].call] = asked[lane[k + 1].call]
               /\ \A c \in Asked : lane[k + 1].call = c => Unseen(c)'
    <3>1. k \in 1..(Len(lane) - 1) /\ k + 1 \in DOMAIN lane /\ k + 1 # 1
      BY <2>1, <2>2, <2>4
    <3>2. lane'[k] = lane[k + 1] /\ InLane(k + 1)
      BY <2>1, <2>4, <3>1 DEF InLane
    <3>3. lane[k + 1].call \in Asked
      BY <3>1, FramesTyped
    <3> QED BY <3>1, <3>2, <3>3
  <2>5. ASSUME NEW k \in DOMAIN lane', NEW j \in DOMAIN lane',
               InLane(k)', InLane(j)', lane'[j].call = lane'[k].call
        PROVE  j = k
    <3>1. j + 1 = k + 1
      BY <2>4, <2>5 DEF LaneInv
    <3>2. j \in Nat /\ k \in Nat
      BY <2>1
    <3> QED BY <3>1, <3>2
  <2>6. ASSUME NEW k \in DOMAIN lane', InLane(k)', NEW c \in Asked, lane'[k].call = c
        PROVE  asked'[c] = conn' /\ Unseen(c)'
    BY <2>4, <2>6 DEF LaneInv
  <2> QED BY <2>1, <2>3, <2>5, <2>6 DEF LaneInv
<1>3. CASE link = "up" /\ \E s : Settled(s) /\ lane' = lane \o s
  <2>1. PICK s : Settled(s) /\ lane' = lane \o s
    BY <1>3
  <2> DEFINE m == Len(lane)
             n == Len(s)
  <2>2. /\ lane' \in Seq(Frames) /\ DOMAIN lane' = 1..(m + n)
        /\ DOMAIN lane = 1..m /\ m \in Nat /\ n \in Nat /\ DOMAIN s = 1..n
        /\ Len(lane') = m + n
    BY <2>1 DEF Settled
  <2>5. \A k \in 1..m : lane'[k] = lane[k]
    BY <2>1 DEF Settled
  <2>6. \A k \in 1..(m + n) : k > m => lane'[k] = s[k - m]
    BY <2>1 DEF Settled
  <2>7. lane # <<>> => Len(Tail(lane)) = m - 1
    OBVIOUS
  <2> HIDE DEF m, n
  <2>3. ASSUME NEW k \in DOMAIN lane', InLane(k)'
        PROVE  k \in DOMAIN lane /\ lane'[k] = lane[k] /\ InLane(k)
    <3>1. CASE k <= m
      BY <2>2, <2>3, <2>5, <3>1 DEF InLane
    <3>2. CASE k > m
      <4>1. k - m \in DOMAIN s /\ lane'[k] = s[k - m]
        BY <2>2, <2>6, <3>2
      <4> QED BY <2>1, <2>3, <4>1 DEF Settled, InLane
    <3> QED BY <2>2, <3>1, <3>2
  <2>4. \A k \in DOMAIN lane : ~(lane' = Tail(lane) /\ k = 1)
    <3>1. CASE lane = <<>> BY <3>1
    <3>2. CASE lane # <<>> BY <2>2, <2>7, <3>2
    <3> QED BY <3>1, <3>2
  <2>8. ASSUME NEW k \in DOMAIN lane', InLane(k)', NEW c \in Asked, lane'[k].call = c
        PROVE  asked'[c] = conn' /\ Unseen(c)'
    BY <2>3, <2>4, <2>8 DEF LaneInv
  <2>9. link' = "up"
    BY <1>3
  <2> QED BY <2>2, <2>3, <2>8, <2>9 DEF LaneInv
<1> QED BY <1>1, <1>2, <1>3 DEF LaneFollows

LEMMA TailFacts ==
  ASSUME NEW S, NEW s \in Seq(S), s # <<>>
  PROVE  /\ Tail(s) \in Seq(S) /\ Tail(s) # s
         /\ Len(s) \in Nat /\ DOMAIN s = 1..Len(s) /\ DOMAIN Tail(s) = 1..(Len(s) - 1)
         /\ \A k \in 1..(Len(s) - 1) : k \in Nat /\ k + 1 \in DOMAIN s /\ Tail(s)[k] = s[k + 1]
<1>1. Tail(s) \in Seq(S) /\ Len(s) \in Nat /\ Len(Tail(s)) = Len(s) - 1
  OBVIOUS
<1>4. Tail(s) # s
  <2>0. \A n \in Nat : n # n - 1
    OBVIOUS
  <2>1. Len(s) # Len(s) - 1
    BY <1>1, <2>0, Zenon
  <2> QED BY <1>1, <2>1, Zenon
<1>2. DOMAIN s = 1..Len(s) /\ DOMAIN Tail(s) = 1..(Len(s) - 1)
  BY <1>1
<1>3. \A k \in 1..(Len(s) - 1) : k \in Nat /\ k + 1 \in DOMAIN s /\ Tail(s)[k] = s[k + 1]
  BY <1>1, <1>2
<1> QED BY <1>1, <1>2, <1>3, <1>4

(* The gate is taken from, or emptied.                                     *)
GateFollows ==
  \/ gate'.held = gate.held
  \/ gate'.held = <<>>
  \/ gate.held # <<>> /\ gate'.held = Tail(gate.held)

LEMMA HeldMoves ==
  ASSUME gate.held \in Seq(Frames), GateFollows, NEW k \in DOMAIN gate'.held
  PROVE  \E m \in Nat :
           /\ m \in {0, 1} /\ k + m \in DOMAIN gate.held /\ gate'.held[k] = gate.held[k + m]
           /\ (m = 1 <=> gate'.held = Tail(gate.held))
           /\ \A j \in DOMAIN gate'.held :
                j + m \in DOMAIN gate.held /\ gate'.held[j] = gate.held[j + m] /\ j \in Nat
<1>1. CASE gate'.held = gate.held
  <2>0. gate.held # <<>>
    BY <1>1
  <2>2. gate'.held # Tail(gate.held)
    BY <1>1, <2>0, TailFacts
  <2>1. /\ k + 0 \in DOMAIN gate.held /\ gate'.held[k] = gate.held[k + 0]
        /\ \A j \in DOMAIN gate'.held :
             j + 0 \in DOMAIN gate.held /\ gate'.held[j] = gate.held[j + 0] /\ j \in Nat
    BY <1>1
  <2> QED BY <2>1, <2>2
<1>2. CASE gate'.held = <<>>
  BY <1>2
<1>3. CASE gate.held # <<>> /\ gate'.held = Tail(gate.held)
  <2>1. /\ k + 1 \in DOMAIN gate.held /\ gate'.held[k] = gate.held[k + 1]
        /\ \A j \in DOMAIN gate'.held :
             j + 1 \in DOMAIN gate.held /\ gate'.held[j] = gate.held[j + 1] /\ j \in Nat
    BY <1>3, TailFacts
  <2> QED BY <1>3, <2>1
<1> QED BY <1>1, <1>2, <1>3 DEF GateFollows

LEMMA HeldKept ==
  ASSUME gate.held \in Seq(Frames), HeldInv, GateFollows,
         \A k \in DOMAIN gate.held : \A c \in Asked :
           Asking(k) /\ gate.held[k].call = c =>
             \/ gate'.held = Tail(gate.held) /\ k = 1
             \/ HeldOne(c)'
  PROVE  HeldInv'
<1>1. ASSUME NEW k \in DOMAIN gate'.held, Asking(k)'
      PROVE  /\ \A c \in Asked : gate'.held[k].call = c => HeldOne(c)'
             /\ \A j \in DOMAIN gate'.held :
                  Asking(j)' /\ gate'.held[j].call = gate'.held[k].call => j = k
  <2>1. PICK m \in Nat :
          /\ m \in {0, 1} /\ k + m \in DOMAIN gate.held /\ gate'.held[k] = gate.held[k + m]
          /\ (m = 1 <=> gate'.held = Tail(gate.held))
          /\ \A j \in DOMAIN gate'.held :
               j + m \in DOMAIN gate.held /\ gate'.held[j] = gate.held[j + m] /\ j \in Nat
    BY <1>1, HeldMoves
  <2>2. Asking(k + m) /\ k \in Nat
    BY <1>1, <2>1 DEF Asking
  <2>3. ASSUME NEW c \in Asked, gate'.held[k].call = c
        PROVE  HeldOne(c)'
    <3>1. ~(gate'.held = Tail(gate.held) /\ k + m = 1)
      <4>1. k # 0
        <5>1. CASE gate'.held = gate.held
          BY <5>1
        <5>2. CASE gate.held # <<>> /\ gate'.held = Tail(gate.held)
          BY <5>2, TailFacts
        <5> QED BY <5>1, <5>2 DEF GateFollows
      <4> QED BY <2>1, <2>2, <4>1
    <3> QED BY <2>1, <2>2, <2>3, <3>1
  <2>4. ASSUME NEW j \in DOMAIN gate'.held, Asking(j)', gate'.held[j].call = gate'.held[k].call
        PROVE  j = k
    <3>1. Asking(j + m) /\ gate.held[j + m].call = gate.held[k + m].call /\ j \in Nat
      BY <2>1, <2>4 DEF Asking
    <3>2. j + m = k + m
      BY <2>1, <2>2, <3>1 DEF HeldInv
    <3> QED BY <2>2, <3>1, <3>2
  <2> QED BY <2>3, <2>4
<1> QED BY <1>1 DEF HeldInv

LEMMA NotHeldKept ==
  ASSUME gate.held \in Seq(Frames), GateFollows, NEW c \in Asked, NotHeld(c)
  PROVE  NotHeld(c)'
<1> SUFFICES ASSUME NEW k \in DOMAIN gate'.held, Asking(k)'
             PROVE  gate'.held[k].call # c
  BY DEF NotHeld
<1>1. PICK m \in Nat : k + m \in DOMAIN gate.held /\ gate'.held[k] = gate.held[k + m]
  BY HeldMoves
<1> QED BY <1>1 DEF NotHeld, Asking

HandlerFollows ==
  \A w \in Handlers :
    \/ handler'[w] = handler[w]
    \/ handler'[w] = AtRest
    \/ /\ handler'[w].call = handler[w].call
       /\ {handler[w].at, handler'[w].at} \subseteq {"emits", "posting"}
CommandFollows ==
  \/ command' = command
  \/ command'.at \in {"idle", "stops"} /\ command'.call = Nothing
  \/ /\ command'.at = "waits" /\ command'.call # Nothing
     /\ routes[Id[command'.call]] = command'.call
  \/ /\ command.at = "waits" /\ command'.at = "sends"
     /\ command'.call = command.call
     /\ asked[command.call] = conn /\ link = "up"
HistoryGrows == late \subseteq late' /\ cut \subseteq cut'

LEMMA HandsKept ==
  ASSUME RequestsAssumed, HandlerFollows, NEW c \in Asked, ~InHand(c)
  PROVE  ~InHand(c)'
<1> SUFFICES ASSUME NEW w \in Handlers PROVE handler'[w].call # c
  BY DEF InHand
<1>1. handler[w].call # c /\ AtRest.call # c
  BY DEF InHand, AtRest, RequestsAssumed
<1> QED BY <1>1 DEF HandlerFollows

LEMMA CommandKept ==
  ASSUME RequestsInv, RequestsTyped', CommandFollows, UNCHANGED <<conn, link, asked>>
  PROVE  CommandInv'
<1>1. CASE command'.at = "waits" /\ command'.call # Nothing
           /\ routes[Id[command'.call]] = command'.call
  <2>1. command'.call \in Asked
    BY <1>1 DEF RequestsTyped, Commanding
  <2> QED BY <1>1, <2>1 DEF RequestsInv, RequestsTyped, RoutesInv, Standing, CommandInv
<1>2. CASE command' = command
  BY <1>2 DEF RequestsInv, CommandInv
<1>3. CASE command'.at \in {"idle", "stops"} /\ command'.call = Nothing
  BY <1>3 DEF CommandInv
<1>4. CASE /\ command.at = "waits" /\ command'.at = "sends"
           /\ command'.call = command.call
           /\ asked[command.call] = conn /\ link = "up"
  BY <1>4 DEF RequestsInv, CommandInv
<1> QED BY <1>1, <1>2, <1>3, <1>4 DEF CommandFollows

LEMMA QuietKeeps ==
  ASSUME RequestsAssumed, RequestsInv, RequestsTyped', LaneFollows, GateFollows, HistoryGrows,
         UNCHANGED <<conn, link, asked, answers, recentCalls, recentTurns>>,
         \A c \in Asked :
           /\ native'[c] = "new" => native[c] = "new"
           /\ routes'[Id[c]] = c => routes[Id[c]] = c
           /\ task'[c] = task[c] \/ (task[c] # "none" /\ task'[c] # "none"
                                     /\ (task'[c] \in Awake => task[c] \in Awake)),
         HandlerFollows, CommandFollows
  PROVE  RequestsInv'
<1>1. AskedOnce'
  BY DEF RequestsInv, AskedOnce
<1>0. \A c \in Asked : Standing(c) => Standing(c)'
  BY DEF Standing, HistoryGrows
<1>u. ASSUME NEW c \in Asked, Untouched(c) PROVE Untouched(c)'
  <2>1. command'.call # c
    BY <1>u DEF CommandFollows, Untouched, RequestsAssumed
  <2> QED BY <1>u, <2>1 DEF Untouched
<1>2. HandlerInv'
  <2>1. ASSUME NEW w \in Handlers
        PROVE  /\ handler'[w].call = Nothing <=> handler'[w].at = "idle"
               /\ handler'[w].at = "idle" => handler'[w] = AtRest
               /\ \A c \in Asked : handler'[w].call = c => Handled(w, c)'
               /\ handler'[w].call \in {handler[w].call, Nothing}
    <3>0. /\ handler[w].call = Nothing <=> handler[w].at = "idle"
          /\ handler[w].at = "idle" => handler[w] = AtRest
          /\ \A c \in Asked : handler[w].call = c => Handled(w, c)
      BY DEF RequestsInv, HandlerInv
    <3>1. CASE handler'[w] = AtRest
      BY <3>1 DEF AtRest, RequestsAssumed
    <3>2. CASE handler'[w] = handler[w]
      <4>1. ASSUME NEW c \in Asked, handler[w].call = c PROVE Handled(w, c)'
        BY <1>0, <1>u, <3>0, <3>2, <4>1 DEF Handled, HistoryGrows
      <4> QED BY <3>0, <3>2, <4>1
    <3>3. CASE /\ handler'[w].call = handler[w].call
               /\ {handler[w].at, handler'[w].at} \subseteq {"emits", "posting"}
      <4>1. ASSUME NEW c \in Asked, handler[w].call = c PROVE Handled(w, c)'
        BY <1>0, <3>0, <3>3, <4>1 DEF Handled
      <4> QED BY <3>0, <3>3, <4>1
    <3> QED BY <3>1, <3>2, <3>3 DEF HandlerFollows
  <2>2. "lane" \in Handlers /\ "gate" \in Handlers
    BY DEF Handlers
  <2>3. handler'["lane"].call = handler'["gate"].call => handler'["lane"].call = Nothing
    BY <2>1, <2>2 DEF RequestsInv, HandlerInv
  <2> QED BY <2>1, <2>3 DEF HandlerInv
<1>3. CommandInv'
  BY CommandKept
<1>h. gate.held \in Seq(Frames)
  BY DEF RequestsInv, RequestsTyped, Gates
<1>4. LaneInv'
  <2>1. ASSUME NEW c \in Asked, Unseen(c) PROVE Unseen(c)'
    BY <1>u, <1>h, <2>1, HandsKept, NotHeldKept DEF Unseen
  <2>2. \A k \in DOMAIN lane : \A c \in Asked :
          InLane(k) /\ lane[k].call = c => asked'[c] = asked[c] /\ Unseen(c)'
    BY <2>1 DEF RequestsInv, LaneInv
  <2> QED BY <2>2, LaneKept DEF RequestsInv, RequestsTyped
<1>5. RoutesInv'
  BY <1>0 DEF RequestsInv, RoutesInv, HistoryGrows
<1>6. TasksInv'
  BY <1>0 DEF RequestsInv, TasksInv, Awake
<1>7. AnswersInv'
  BY DEF RequestsInv, AnswersInv
<1>8. HeldInv'
  <2>1. ASSUME NEW c \in Asked, HeldOne(c) PROVE HeldOne(c)'
    BY <1>0, <1>u, <2>1, HandsKept DEF HeldOne, HistoryGrows
  <2>2. \A k \in DOMAIN gate.held : \A c \in Asked :
          Asking(k) /\ gate.held[k].call = c => HeldOne(c)'
    BY <2>1 DEF RequestsInv, HeldInv
  <2> QED BY <1>h, <2>2, HeldKept DEF RequestsInv
<1> QED BY <1>1, <1>2, <1>3, <1>4, <1>5, <1>6, <1>7, <1>8 DEF RequestsInv

-----------------------------------------------------------------------------
(* The app-server.                                                         *)

LEMMA IdsTyped == \A c \in Asked : Id[c] \in Ids
  BY DEF Ids

LEMMA SettleFacts ==
  ASSUME native \in [Asked -> {"new", "open", "settled"}], NEW S, Settle(S)
  PROVE  /\ native' \in [Asked -> {"new", "open", "settled"}]
         /\ \A c \in Asked : native'[c] = "new" => native[c] = "new"
  BY DEF Settle

LEMMA LaneFollowsTold ==
  ASSUME RequestsAssumed, lane \in Seq(Frames), link = "up",
         NEW S \in SUBSET Asked, Tell(S)
  PROVE  LaneFollows /\ lane' \in Seq(Frames)
<1>1. PICK s : Settled(s) /\ lane' = lane \o s
  BY TellFacts
<1>2. lane \o s \in Seq(Frames)
  BY <1>1 DEF Settled
<1> QED BY <1>1, <1>2 DEF LaneFollows

LEMMA NewsTyped ==
  ASSUME news \in Seq(News), NEW c \in Asked \cup {Nothing}, NEW t \in SomeTurn
  PROVE  Append(news, [call |-> c, turn |-> t]) \in Seq(News)
<1>1. [call |-> c, turn |-> t] \in News
  BY DEF News
<1> QED BY <1>1

LEMMA TurnStartsKeeps ==
  ASSUME RequestsAssumed, RequestsInv, NEW t \in Turns, TurnStarts(t)
  PROVE  RequestsInv'
<1>1. RequestsTyped'
  BY DEF TurnStarts, RequestsInv, RequestsTyped, SomeTurn, bridgeSide, gateSide
<1> QED BY <1>1, QuietKeeps
        DEF TurnStarts, LaneFollows, HandlerFollows, CommandFollows, bridgeSide, gateSide,
            GateFollows, HistoryGrows

LEMMA ResolvesKeeps ==
  ASSUME RequestsAssumed, RequestsInv, NEW c \in Asked, Resolves(c)
  PROVE  RequestsInv'
<1>1. LaneFollows /\ lane' \in Seq(Frames)
  BY LaneFollowsTold DEF Resolves, RequestsInv, RequestsTyped
<1>2. /\ native' \in [Asked -> {"new", "open", "settled"}]
      /\ \A d \in Asked : native'[d] = "new" => native[d] = "new"
  BY SettleFacts DEF Resolves, RequestsInv, RequestsTyped
<1>3. news' \in Seq(News)
  BY NewsTyped DEF Resolves, RequestsInv, RequestsTyped, SomeTurn
<1>4. RequestsTyped'
  BY <1>1, <1>2, <1>3 DEF Resolves, RequestsInv, RequestsTyped, bridgeSide, gateSide
<1> QED BY <1>1, <1>2, <1>4, QuietKeeps
        DEF Resolves, HandlerFollows, CommandFollows, bridgeSide, gateSide, GateFollows,
            HistoryGrows

LEMMA TurnEndsKeeps ==
  ASSUME RequestsAssumed, RequestsInv, NEW t \in Turns, TurnEnds(t)
  PROVE  RequestsInv'
<1>0. InTurn(t) \in SUBSET Asked
  BY DEF InTurn
<1>1. LaneFollows /\ lane' \in Seq(Frames)
  BY <1>0, LaneFollowsTold DEF TurnEnds, RequestsInv, RequestsTyped
<1>2. /\ native' \in [Asked -> {"new", "open", "settled"}]
      /\ \A d \in Asked : native'[d] = "new" => native[d] = "new"
  BY SettleFacts DEF TurnEnds, RequestsInv, RequestsTyped
<1>3. news' \in Seq(News)
  BY NewsTyped DEF TurnEnds, RequestsInv, RequestsTyped, SomeTurn
<1>4. RequestsTyped'
  BY <1>1, <1>2, <1>3 DEF TurnEnds, RequestsInv, RequestsTyped, bridgeSide, gateSide
<1> QED BY <1>1, <1>2, <1>4, QuietKeeps
        DEF TurnEnds, HandlerFollows, CommandFollows, bridgeSide, gateSide, GateFollows,
            HistoryGrows

(* A request is new to everybody when it is asked.                         *)
LEMMA AsksKeeps ==
  ASSUME RequestsAssumed, RequestsInv, NEW c \in Asked, Asks(c)
  PROVE  RequestsInv'
<1>1. asked[c] = 0 /\ conn \in Nat /\ conn # 0
  BY DEF Asks, RequestsInv, RequestsTyped, AskedOnce
<1>2. /\ asked' = [asked EXCEPT ![c] = conn]
      /\ asked'[c] = conn /\ \A d \in Asked \ {c} : asked'[d] = asked[d]
  BY DEF Asks, RequestsInv, RequestsTyped
<1>3. RequestsTyped'
  <2>1. [call |-> c, is |-> "request"] \in Frames
    BY DEF Frames
  <2>2. lane' \in Seq(Frames)
    BY <2>1 DEF Asks, RequestsInv, RequestsTyped
  <2>3. native' \in [Asked -> {"new", "open", "settled"}] /\ asked' \in [Asked -> Nat]
    BY <1>1 DEF Asks, RequestsInv, RequestsTyped
  <2> QED BY <2>2, <2>3 DEF Asks, RequestsInv, RequestsTyped, bridgeSide, gateSide
<1>4. AskedOnce'
  BY <1>1, <1>2 DEF Asks, RequestsInv, RequestsTyped, AskedOnce
<1>5. Unseen(c) /\ \A k \in DOMAIN lane : InLane(k) => lane[k].call # c
  <2>0. ~Standing(c)
    BY <1>1 DEF Standing
  <2>1. ~InHand(c)
    BY <2>0 DEF RequestsInv, HandlerInv, Handled, InHand
  <2>2. command.call # c
    BY <1>1 DEF RequestsInv, RequestsTyped, Commanding, CommandInv, RequestsAssumed
  <2>3. NotHeld(c)
    BY <2>0 DEF RequestsInv, HeldInv, HeldOne, NotHeld
  <2>4. Untouched(c)
    BY <1>1, <2>0, <2>2 DEF RequestsInv, RoutesInv, TasksInv, AnswersInv, Untouched
  <2>5. \A k \in DOMAIN lane : InLane(k) => lane[k].call # c
    BY <1>1 DEF RequestsInv, LaneInv
  <2> QED BY <2>1, <2>3, <2>4, <2>5 DEF Unseen
<1>6. LaneInv'
  <2> DEFINE m == Len(lane)
  <2>1. /\ m \in Nat /\ DOMAIN lane = 1..m /\ DOMAIN lane' = 1..(m + 1)
        /\ \A k \in 1..m : lane'[k] = lane[k]
        /\ lane'[m + 1] = [call |-> c, is |-> "request"]
    BY DEF Asks, RequestsInv, RequestsTyped
  <2> HIDE DEF m
  <2>2. \A d \in Asked : Unseen(d)' <=> Unseen(d)
    BY DEF Asks, Unseen, Untouched, InHand, NotHeld, Asking, bridgeSide, gateSide
  <2>3. ASSUME NEW k \in 1..m, InLane(k)'
        PROVE  InLane(k) /\ lane[k].call # c /\ lane[k].call \in Asked
    BY <1>5, <2>1, <2>3, FramesTyped DEF InLane, RequestsInv, RequestsTyped
  <2>4. ASSUME NEW k \in DOMAIN lane', InLane(k)', NEW d \in Asked, lane'[k].call = d
        PROVE  asked'[d] = conn' /\ Unseen(d)'
    <3>1. CASE k = m + 1
      <4>1. c = d
        BY <2>1, <2>4, <3>1
      <4> QED BY <1>2, <1>5, <2>2, <4>1 DEF Asks
    <3>2. CASE k \in 1..m
      <4>1. InLane(k) /\ d # c /\ lane[k].call = d
        BY <2>1, <2>3, <2>4, <3>2
      <4> QED BY <1>2, <2>1, <2>2, <3>2, <4>1 DEF Asks, RequestsInv, LaneInv
    <3> QED BY <2>1, <3>1, <3>2
  <2>5. ASSUME NEW k \in DOMAIN lane', NEW j \in DOMAIN lane',
               InLane(k)', InLane(j)', lane'[j].call = lane'[k].call
        PROVE  j = k
    <3>1. k \in 1..(m + 1) /\ j \in 1..(m + 1)
      BY <2>1
    <3>2. CASE k \in 1..m /\ j \in 1..m
      BY <2>1, <2>3, <2>5, <3>2 DEF RequestsInv, LaneInv
    <3>3. CASE k = m + 1 \/ j = m + 1
      BY <2>1, <2>3, <2>5, <3>1, <3>3
    <3> QED BY <2>1, <3>1, <3>2, <3>3
  <2> QED BY <2>4, <2>5 DEF Asks, LaneInv
<1>s. \A d \in Asked : Standing(d) => d # c /\ Standing(d)'
  BY <1>1, <1>2 DEF Asks, Standing, gateSide
<1>u. \A d \in Asked : /\ Untouched(d)' <=> Untouched(d)
                       /\ InHand(d)' <=> InHand(d)
  BY DEF Asks, Untouched, InHand, bridgeSide
<1>7. HandlerInv'
  <2>1. ASSUME NEW w \in Handlers, NEW d \in Asked, handler[w].call = d
        PROVE  Handled(w, d)'
    <3>1. Handled(w, d) /\ d # c /\ Standing(d)'
      BY <2>1, <1>s DEF RequestsInv, HandlerInv, Handled
    <3> QED BY <3>1, <1>2, <1>u DEF Asks, Handled, bridgeSide, gateSide
  <2> QED BY <2>1 DEF Asks, RequestsInv, HandlerInv
<1>8. CommandInv'
  BY <1>1, <1>2 DEF Asks, RequestsInv, RequestsTyped, CommandInv, Commanding
<1>9. RoutesInv' /\ TasksInv' /\ AnswersInv'
  <2>1. RoutesInv'
    BY <1>s DEF Asks, RequestsInv, RoutesInv, bridgeSide, gateSide
  <2>2. TasksInv'
    BY <1>2, <1>s DEF Asks, RequestsInv, RequestsTyped, TasksInv
  <2>3. AnswersInv'
    BY <1>1, <1>2 DEF Asks, RequestsInv, AnswersInv
  <2> QED BY <2>1, <2>2, <2>3
<1>10. HeldInv'
  <2>1. \A d \in Asked : HeldOne(d) => HeldOne(d)'
    BY <1>s, <1>u DEF Asks, HeldOne, gateSide
  <2>2. gate.held \in Seq(Frames) /\ GateFollows
    BY DEF Asks, gateSide, GateFollows, RequestsInv, RequestsTyped, Gates
  <2>3. \A k \in DOMAIN gate.held : \A d \in Asked :
          Asking(k) /\ gate.held[k].call = d => HeldOne(d)'
    BY <2>1 DEF RequestsInv, HeldInv
  <2> QED BY <2>2, <2>3, HeldKept DEF RequestsInv
<1> QED BY <1>3, <1>4, <1>6, <1>7, <1>8, <1>9, <1>10 DEF RequestsInv

-----------------------------------------------------------------------------
(* The gate.                                                               *)

LEMMA GateTyped ==
  ASSUME gate \in Gates
  PROVE  /\ gate.held \in Seq(Frames) /\ gate.over \in SUBSET SomeTurn
         /\ \A how \in {"none", "holds", "drains", "discards"} :
              [gate EXCEPT !.at = how] \in Gates
         /\ \A s \in Seq(Frames) : /\ [gate EXCEPT !.held = s] \in Gates
                                  /\ [gate EXCEPT !.at = "discards", !.held = s] \in Gates
         /\ \A t \in SomeTurn : [gate EXCEPT !.over = @ \cup {t}] \in Gates
         /\ NoGate \in Gates /\ NoGate.held = <<>>
<1>1. gate.held \in Seq(Frames) /\ gate.over \in SUBSET SomeTurn
  BY DEF Gates
<1>2. ASSUME NEW how \in {"none", "holds", "drains", "discards"}
      PROVE  [gate EXCEPT !.at = how] \in Gates
  BY DEF Gates
<1>3. ASSUME NEW s \in Seq(Frames)
      PROVE  /\ [gate EXCEPT !.held = s] \in Gates
             /\ [gate EXCEPT !.at = "discards", !.held = s] \in Gates
  BY DEF Gates
<1>4. ASSUME NEW t \in SomeTurn
      PROVE  [gate EXCEPT !.over = @ \cup {t}] \in Gates
  BY DEF Gates
<1>5. NoGate \in Gates /\ NoGate.held = <<>>
  <2>1. <<>> \in Seq(Frames) /\ {} \in SUBSET SomeTurn /\ {} \in SUBSET (Turns \cup Unbound)
    OBVIOUS
  <2> QED BY <2>1 DEF Gates, NoGate
<1> QED BY <1>1, <1>2, <1>3, <1>4, <1>5

LEMMA RestTyped ==
  ASSUME RequestsTyped, NEW w \in Handlers, Rests(w)
  PROVE  /\ handler' \in [Handlers -> Handling] /\ handler'[w] = AtRest
         /\ \A v \in Handlers \ {w} : handler'[v] = handler[v]
         /\ HandlerFollows
<1>1. AtRest \in Handling
  BY DEF AtRest, Handling
<1>2. /\ handler' \in [Handlers -> Handling] /\ handler'[w] = AtRest
      /\ \A v \in Handlers \ {w} : handler'[v] = handler[v]
  BY <1>1 DEF Rests, RequestsTyped
<1> QED BY <1>2 DEF HandlerFollows

(* The gate is closed, opened, removed, cut off.                           *)
LEMMA GateMoves ==
  ASSUME RequestsAssumed, RequestsInv, GateHolds \/ GateOpens \/ Emptied \/ DiscardCancelled
  PROVE  RequestsInv'
<1>1. /\ UNCHANGED <<conn, link, native, asked, lane, news, routes, command, task, recentCalls,
                     recentTurns, answers>>
      /\ active' \in {active, Nothing} /\ HistoryGrows
  BY DEF GateHolds, GateOpens, Emptied, DiscardCancelled, nativeSide, bridgeSide, HistoryGrows
<1>2. gate' \in Gates /\ GateFollows
  <2>0. gate \in Gates
    BY DEF RequestsInv, RequestsTyped
  <2>1. CASE GateHolds
    <3>1. PICK T \in {Unbound, Turns \ Unbound} :
            gate' = [NoGate EXCEPT !.at = "holds", !.of = T]
      BY <2>1 DEF GateHolds
    <3>2. gate' \in Gates /\ gate'.held = <<>>
      <4>1. NoGate \in Gates /\ NoGate.held = <<>> /\ T \in SUBSET (Turns \cup Unbound)
        BY <2>0, GateTyped
      <4> QED BY <3>1, <4>1 DEF Gates
    <3> QED BY <3>2 DEF GateFollows
  <2>2. CASE GateOpens
    <3>1. PICK how \in {"drains", "discards"} : gate' = [gate EXCEPT !.at = how]
      BY <2>2 DEF GateOpens
    <3>2. gate'.held = gate.held
      BY <2>0, <3>1 DEF Gates
    <3> QED BY <2>0, <3>1, <3>2, GateTyped DEF GateFollows
  <2>3. CASE Emptied \/ DiscardCancelled
    <3>1. gate' = NoGate
      BY <2>3 DEF Emptied, DiscardCancelled
    <3> QED BY <2>0, <3>1, GateTyped DEF GateFollows, NoGate
  <2> QED BY <2>1, <2>2, <2>3
<1>3. handler' \in [Handlers -> Handling] /\ HandlerFollows
  <2>1. CASE DiscardCancelled
    <3>1. Rests("gate") /\ "gate" \in Handlers
      BY <2>1 DEF DiscardCancelled, Handlers
    <3> QED BY <3>1, RestTyped DEF RequestsInv
  <2>2. CASE ~DiscardCancelled
    BY <2>2 DEF GateHolds, GateOpens, Emptied, HandlerFollows, RequestsInv, RequestsTyped
  <2> QED BY <2>1, <2>2
<1>4. RequestsTyped'
  BY <1>1, <1>2, <1>3 DEF RequestsInv, RequestsTyped, SomeTurn
<1> QED BY <1>1, <1>2, <1>3, <1>4, QuietKeeps DEF LaneFollows, CommandFollows

LEMMA GateMovesKeepsCommand ==
  ASSUME GateHolds \/ GateOpens \/ Emptied \/ DiscardCancelled \/ DrainCancelled \/ SetsAside
  PROVE  command' = command /\ answers' = answers /\ conn' = conn
BY Zenon DEF GateHolds, GateOpens, Emptied, DiscardCancelled, DrainCancelled, SetsAside

(* What the lane takes goes to the end of what is held.                    *)
LEMMA SetsAsideKeeps ==
  ASSUME RequestsAssumed, RequestsInv, SetsAside
  PROVE  RequestsInv'
<1>0. PICK f \in Frames : f = Head(lane) /\ f = lane[1]
  <2>1. lane \in Seq(Frames) /\ lane # <<>>
    BY DEF SetsAside, RequestsInv, RequestsTyped
  <2> QED BY <2>1
<1>1. /\ link = "up" /\ lane # <<>> /\ lane' = Tail(lane)
      /\ gate' = [gate EXCEPT !.held = Append(@, f)]
      /\ UNCHANGED <<conn, link, native, asked, news, active, routes, handler, command, task,
                     recentCalls, recentTurns, answers, late, cut>>
  BY <1>0 DEF SetsAside, nativeSide, bridgeSide
<1>2. /\ gate \in Gates /\ gate.held \in Seq(Frames) /\ lane \in Seq(Frames)
      /\ lane' \in Seq(Frames) /\ 1 \in DOMAIN lane /\ f = lane[1]
  <2>1. gate \in Gates /\ lane \in Seq(Frames)
    BY DEF RequestsInv, RequestsTyped
  <2>2. gate.held \in Seq(Frames)
    BY <2>1, GateTyped
  <2> QED BY <1>0, <1>1, <2>1, <2>2
<1>3. f.call \in Asked
  BY DEF Frames
<1>4. Append(gate.held, f) \in Seq(Frames)
  BY <1>2
<1>5. gate' \in Gates /\ gate'.held = Append(gate.held, f)
  BY <1>1, <1>2, <1>4, GateTyped DEF Gates
<1>6. RequestsTyped'
  BY <1>1, <1>2, <1>5 DEF RequestsInv, RequestsTyped
<1>7. AskedOnce' /\ CommandInv' /\ RoutesInv' /\ TasksInv' /\ AnswersInv'
  BY <1>1 DEF RequestsInv, AskedOnce, CommandInv, RoutesInv, TasksInv, AnswersInv, Standing
<1>8. HandlerInv'
  BY <1>1 DEF RequestsInv, HandlerInv, Handled, Standing, Untouched
<1> DEFINE n == Len(gate.held)
<1>9. /\ n \in Nat /\ DOMAIN gate.held = 1..n /\ DOMAIN gate'.held = 1..(n + 1)
      /\ \A k \in 1..n : gate'.held[k] = gate.held[k]
      /\ gate'.held[n + 1] = f
  BY <1>2, <1>5
<1> HIDE DEF n
<1>10. ASSUME NEW c \in Asked, Unseen(c), f.is = "request" => f.call # c PROVE Unseen(c)'
  <2>1. NotHeld(c)'
    <3> SUFFICES ASSUME NEW k \in DOMAIN gate'.held, Asking(k)'
                 PROVE  gate'.held[k].call # c
      BY DEF NotHeld
    <3>1. CASE k = n + 1 BY <1>9, <1>10, <3>1 DEF Asking
    <3>2. CASE k \in 1..n BY <1>9, <1>10, <3>2 DEF Asking, Unseen, NotHeld
    <3> QED BY <1>9, <3>1, <3>2
  <2> QED BY <1>1, <1>10, <2>1 DEF Unseen, Untouched, InHand
<1>11. LaneInv'
  <2>1. \A k \in DOMAIN lane : \A c \in Asked :
          InLane(k) /\ lane[k].call = c =>
            \/ lane' = Tail(lane) /\ k = 1
            \/ asked'[c] = asked[c] /\ Unseen(c)'
    BY <1>1, <1>2, <1>10 DEF RequestsInv, LaneInv, InLane
  <2> QED BY <1>1, <1>2, <2>1, LaneKept DEF RequestsInv, LaneFollows
<1>12. ASSUME f.is = "request" PROVE HeldOne(f.call)' /\ NotHeld(f.call)
  <2>1. asked[f.call] = conn /\ Unseen(f.call)
    BY <1>2, <1>3, <1>12 DEF RequestsInv, LaneInv, InLane
  <2>2. conn # 0
    BY DEF RequestsInv, RequestsTyped
  <2>3. Untouched(f.call)' /\ ~InHand(f.call)'
    BY <1>1, <2>1 DEF Unseen, Untouched, InHand
  <2>4. Standing(f.call)'
    BY <1>1, <2>1, <2>2 DEF Standing
  <2> QED BY <2>1, <2>3, <2>4 DEF HeldOne, Unseen
<1>13. HeldInv'
  <2>1. ASSUME NEW c \in Asked, HeldOne(c) PROVE HeldOne(c)'
    BY <1>1, <2>1 DEF HeldOne, Standing, Untouched, InHand
  <2>2. ASSUME NEW k \in DOMAIN gate'.held, Asking(k)', NEW c \in Asked, gate'.held[k].call = c
        PROVE  HeldOne(c)'
    <3>1. CASE k = n + 1
      <4>1. f.is = "request" /\ c = f.call
        BY <1>9, <2>2, <3>1 DEF Asking
      <4> QED BY <1>12, <4>1
    <3>2. CASE k \in 1..n
      BY <1>9, <2>1, <2>2, <3>2 DEF RequestsInv, HeldInv, Asking
    <3> QED BY <1>9, <3>1, <3>2
  <2>3. ASSUME NEW k \in DOMAIN gate'.held, NEW j \in DOMAIN gate'.held,
               Asking(k)', Asking(j)', gate'.held[j].call = gate'.held[k].call
        PROVE  j = k
    <3>1. CASE k \in 1..n /\ j \in 1..n
      BY <1>9, <2>3, <3>1 DEF RequestsInv, HeldInv, Asking
    <3>2. CASE k = n + 1 /\ j \in 1..n
      BY <1>9, <1>12, <2>3, <3>2 DEF NotHeld, Asking
    <3>3. CASE j = n + 1 /\ k \in 1..n
      BY <1>9, <1>12, <2>3, <3>3 DEF NotHeld, Asking
    <3> QED BY <1>9, <3>1, <3>2, <3>3
  <2> QED BY <2>2, <2>3 DEF HeldInv
<1> QED BY <1>6, <1>7, <1>8, <1>11, <1>13 DEF RequestsInv

(* What was in hand goes back to the head of what is held.                 *)
LEMMA PutBackKeeps ==
  ASSUME RequestsAssumed, RequestsInv, RequestsTyped', HistoryGrows, NEW c \in Asked,
         handler["gate"].call = c, Rests("gate"), gate'.held = Again(c),
         UNCHANGED <<conn, link, native, asked, lane, active, routes, command, task,
                     recentCalls, recentTurns>>,
         \A d \in Asked \ {c} : answers'[d] = answers[d],
         answers'[c] = answers[c] \/ routes[Id[c]] # c,
         AnswersInv', c \in cut' \/ Untouched(c)'
  PROVE  RequestsInv'
<1>1. "gate" \in Handlers /\ "lane" \in Handlers
  BY DEF Handlers
<1>2. HandlerFollows /\ handler'["gate"] = AtRest /\ handler'["lane"] = handler["lane"]
  BY <1>1, RestTyped DEF RequestsInv
<1>3. Standing(c) /\ ~Tool(c) /\ handler["lane"].call # c
  BY <1>1 DEF RequestsInv, HandlerInv, Handled, RequestsAssumed
<1>4. ~InHand(c)'
  BY <1>2, <1>3 DEF InHand, Handlers, AtRest, RequestsAssumed
<1>s. \A d \in Asked : Standing(d) => Standing(d)'
  BY DEF Standing, HistoryGrows
<1>u. \A d \in Asked \ {c} : Untouched(d) => Untouched(d)'
  BY DEF Untouched
<1>5. AskedOnce' /\ CommandInv'
  BY DEF RequestsInv, AskedOnce, CommandInv
<1>6. RoutesInv' /\ TasksInv'
  BY <1>3, <1>s DEF RequestsInv, RoutesInv, TasksInv, HistoryGrows, Awake
<1>7. HandlerInv'
  <2>1. handler["lane"].call # c
    BY <1>3
  <2>2. \A d \in Asked : handler["lane"].call = d => Handled("lane", d)'
    <3> SUFFICES ASSUME NEW d \in Asked, handler["lane"].call = d PROVE Handled("lane", d)'
      OBVIOUS
    <3>1. Handled("lane", d) /\ d # c
      BY <1>1, <2>1 DEF RequestsInv, HandlerInv
    <3> QED BY <1>2, <1>s, <1>u, <3>1 DEF Handled, HistoryGrows
  <2> QED BY <1>1, <1>2, <2>2 DEF RequestsInv, HandlerInv, AtRest, RequestsAssumed, Handlers
<1> DEFINE f == [call |-> c, is |-> "request"]
           n == Len(gate.held)
<1>8. /\ n \in Nat /\ DOMAIN gate.held = 1..n /\ DOMAIN gate'.held = 1..(n + 1)
      /\ \A k \in 1..n : gate'.held[k + 1] = gate.held[k]
      /\ gate'.held[1] = f
  <2>1. gate.held \in Seq(Frames) /\ <<f>> \in Seq(Frames)
    BY DEF RequestsInv, RequestsTyped, Gates, Frames
  <2>2. gate'.held = <<f>> \o gate.held
    BY DEF Again
  <2> HIDE DEF f
  <2> QED BY <2>1, <2>2
<1>0. f.call = c
  OBVIOUS
<1> HIDE DEF n, f
<1>m. \A k \in 1..(n + 1) : k # 1 => k - 1 \in 1..n /\ gate'.held[k] = gate.held[k - 1]
  <2> SUFFICES ASSUME NEW k \in 1..(n + 1), k # 1
               PROVE  k - 1 \in 1..n /\ gate'.held[k] = gate.held[k - 1]
    OBVIOUS
  <2>1. k - 1 \in 1..n /\ (k - 1) + 1 = k
    BY <1>8
  <2> QED BY <1>8, <2>1
<1>9. ASSUME NEW d \in Asked, d # c, NotHeld(d) PROVE NotHeld(d)'
  <2> SUFFICES ASSUME NEW k \in DOMAIN gate'.held, Asking(k)'
               PROVE  gate'.held[k].call # d
    BY DEF NotHeld
  <2>1. CASE k = 1 BY <1>0, <1>8, <1>9, <2>1
  <2>2. CASE k # 1
    <3>1. k - 1 \in DOMAIN gate.held /\ gate'.held[k] = gate.held[k - 1]
      BY <1>8, <1>m, <2>2
    <3> QED BY <1>9, <3>1 DEF NotHeld, Asking
  <2> QED BY <2>1, <2>2
<1>10. LaneInv'
  <2>1. ASSUME NEW d \in Asked, Unseen(d) PROVE Unseen(d)'
    <3>1. d # c
      BY <1>1, <2>1 DEF Unseen, InHand
    <3> QED BY <1>2, <1>9, <1>u, <2>1, <3>1, HandsKept DEF Unseen
  <2>2. \A k \in DOMAIN lane : \A d \in Asked :
          InLane(k) /\ lane[k].call = d => asked'[d] = asked[d] /\ Unseen(d)'
    BY <2>1 DEF RequestsInv, LaneInv
  <2> QED BY <2>2, LaneKept DEF RequestsInv, RequestsTyped, LaneFollows
<1>11. HeldInv'
  <2>1. ASSUME NEW d \in Asked, HeldOne(d) PROVE d # c /\ HeldOne(d)'
    <3>1. d # c
      BY <1>1, <2>1 DEF HeldOne, InHand
    <3> QED BY <1>2, <1>s, <1>u, <2>1, <3>1, HandsKept DEF HeldOne, HistoryGrows
  <2>2. HeldOne(c)'
    BY <1>3, <1>4, <1>s DEF HeldOne
  <2>3. ASSUME NEW k \in DOMAIN gate'.held, Asking(k)', NEW d \in Asked, gate'.held[k].call = d
        PROVE  HeldOne(d)' /\ (k # 1 => d # c)
    <3>1. CASE k = 1 BY <1>0, <1>8, <2>2, <2>3, <3>1
    <3>2. CASE k # 1
      <4>1. k - 1 \in DOMAIN gate.held /\ gate'.held[k] = gate.held[k - 1]
        BY <1>8, <1>m, <3>2
      <4>2. Asking(k - 1)
        BY <2>3, <4>1 DEF Asking
      <4>3. HeldOne(d)
        BY <2>3, <4>1, <4>2 DEF RequestsInv, HeldInv
      <4> QED BY <2>1, <4>3
    <3> QED BY <3>1, <3>2
  <2>4. ASSUME NEW k \in DOMAIN gate'.held, NEW j \in DOMAIN gate'.held,
               Asking(k)', Asking(j)', gate'.held[j].call = gate'.held[k].call
        PROVE  j = k
    <3>1. CASE k # 1 /\ j # 1
      <4>0. /\ k - 1 \in DOMAIN gate.held /\ gate'.held[k] = gate.held[k - 1]
            /\ j - 1 \in DOMAIN gate.held /\ gate'.held[j] = gate.held[j - 1]
        BY <1>8, <1>m, <3>1
      <4>2. Asking(k - 1) /\ Asking(j - 1)
        BY <2>4, <4>0 DEF Asking
      <4>1. j - 1 = k - 1
        BY <2>4, <4>0, <4>2 DEF RequestsInv, HeldInv
      <4> QED BY <1>8, <4>1
    <3>2. CASE k = 1 \/ j = 1
      BY <1>0, <1>8, <2>3, <2>4, <3>2
    <3> QED BY <3>1, <3>2
  <2> QED BY <2>3, <2>4 DEF HeldInv
<1> QED BY <1>5, <1>6, <1>7, <1>10, <1>11 DEF RequestsInv

LEMMA AgainTyped ==
  ASSUME gate \in Gates, NEW c \in Asked
  PROVE  Again(c) \in Seq(Frames)
<1>1. <<[call |-> c, is |-> "request"]>> \in Seq(Frames)
  BY DEF Frames
<1>2. gate.held \in Seq(Frames)
  BY GateTyped
<1> QED BY <1>1, <1>2 DEF Again

LEMMA DrainCancelledKeeps ==
  ASSUME RequestsAssumed, RequestsInv, DrainCancelled
  PROVE  RequestsInv'
<1> DEFINE c == handler["gate"].call
<1>1. /\ UNCHANGED <<conn, link, native, asked, lane, news, active, routes, command, task,
                     recentCalls, recentTurns, answers, late>>
      /\ c \in Asked \cup {Nothing} /\ gate \in Gates /\ "gate" \in Handlers
  BY DEF DrainCancelled, nativeSide, bridgeSide, RequestsInv, RequestsTyped, Handling, Handlers
<1>2. CASE c = Nothing
  <2>1. gate' = [gate EXCEPT !.at = "discards"] /\ handler' = handler /\ cut' = cut
    BY <1>2 DEF DrainCancelled
  <2>2. gate' \in Gates /\ gate'.held = gate.held
    BY <1>1, <2>1, GateTyped DEF Gates
  <2>3. RequestsTyped'
    BY <1>1, <2>1, <2>2 DEF RequestsInv, RequestsTyped
  <2> QED BY <1>1, <2>1, <2>2, <2>3, QuietKeeps
          DEF LaneFollows, GateFollows, HistoryGrows, HandlerFollows, CommandFollows
<1>3. CASE c # Nothing
  <2>1. PICK held \in {gate.held, Again(c)} :
          gate' = [gate EXCEPT !.at = "discards", !.held = held]
    BY <1>3 DEF DrainCancelled
  <2>2. Rests("gate") /\ cut' = cut \cup {c} /\ c \in Asked
    BY <1>1, <1>3 DEF DrainCancelled
  <2> HIDE DEF c
  <2>3. held \in Seq(Frames)
    <3>1. gate.held \in Seq(Frames)
      BY <1>1, GateTyped
    <3>2. Again(c) \in Seq(Frames)
      BY <1>1, <2>2, AgainTyped
    <3> QED BY <2>1, <3>1, <3>2
  <2>4. gate' \in Gates /\ gate'.held = held
    BY <1>1, <2>1, <2>3, GateTyped DEF Gates
  <2>5. handler' \in [Handlers -> Handling] /\ HandlerFollows
    BY <1>1, <2>2, RestTyped DEF RequestsInv
  <2>6. RequestsTyped'
    BY <1>1, <2>4, <2>5 DEF RequestsInv, RequestsTyped
  <2>7. HistoryGrows
    BY <1>1, <2>2 DEF HistoryGrows
  <2>8. CASE held = gate.held
    BY <1>1, <2>4, <2>5, <2>6, <2>7, <2>8, QuietKeeps
       DEF LaneFollows, GateFollows, CommandFollows
  <2>9. CASE held = Again(c)
    <3>1. AnswersInv'
      BY <1>1 DEF RequestsInv, AnswersInv
    <3> QED BY <1>1, <2>2, <2>4, <2>6, <2>7, <2>9, <3>1, PutBackKeeps DEF c
  <2> QED BY <2>1, <2>8, <2>9
<1> QED BY <1>2, <1>3

(* What is late is given up, dropped, or put back.                         *)
LEMMA HandlerExpiresKeeps ==
  ASSUME RequestsAssumed, RequestsInv, NEW c \in Asked, HandlerExpires(c)
  PROVE  RequestsInv'
<1>1. /\ UNCHANGED <<conn, link, native, asked, lane, news, active, routes, command, task,
                     recentCalls, recentTurns, answers, late, cut>>
      /\ handler["gate"].call = c /\ Rests("gate") /\ gate \in Gates /\ "gate" \in Handlers
  BY DEF HandlerExpires, nativeSide, bridgeSide, RequestsInv, RequestsTyped, Handlers
<1>2. handler' \in [Handlers -> Handling] /\ HandlerFollows
  BY <1>1, RestTyped DEF RequestsInv
<1>3. HistoryGrows
  BY <1>1 DEF HistoryGrows
<1>4. CASE gate' = gate
  <2>1. RequestsTyped'
    BY <1>1, <1>2, <1>4 DEF RequestsInv, RequestsTyped
  <2> QED BY <1>1, <1>2, <1>3, <1>4, <2>1, QuietKeeps
          DEF LaneFollows, GateFollows, CommandFollows
<1>5. CASE gate' = [gate EXCEPT !.held = Again(c)] /\ handler["gate"].at = "responds"
  <2>1. Again(c) \in Seq(Frames)
    BY <1>1, AgainTyped
  <2>2. gate' \in Gates /\ gate'.held = Again(c)
    BY <1>1, <1>5, <2>1, GateTyped DEF Gates
  <2>3. RequestsTyped'
    BY <1>1, <1>2, <2>2 DEF RequestsInv, RequestsTyped
  <2>4. AnswersInv'
    BY <1>1 DEF RequestsInv, AnswersInv
  <2>5. c \in cut' \/ Untouched(c)'
    BY <1>1, <1>5 DEF RequestsInv, HandlerInv, Handled, Untouched
  <2> QED BY <1>1, <1>3, <2>2, <2>3, <2>4, <2>5, PutBackKeeps
<1> QED BY <1>4, <1>5 DEF HandlerExpires

-----------------------------------------------------------------------------
(* The dispatchers.                                                        *)

(* What a dispatcher reads is taken from the lane, or from what is held.   *)
LEMMA ReadsFacts ==
  ASSUME RequestsAssumed, RequestsInv, NEW w \in Handlers, NEW c \in Asked, NEW what,
         ReadsOn(w, c, what)
  PROVE  /\ handler[w] = AtRest /\ lane' \in Seq(Frames) /\ gate' \in Gates
         /\ LaneFollows /\ GateFollows
<1>1. CASE w = "lane" /\ lane # <<>> /\ lane' = Tail(lane) /\ gate' = gate
  BY <1>1 DEF RequestsInv, RequestsTyped, ReadsOn, LaneFollows, GateFollows
<1>2. CASE w = "gate" /\ gate.held # <<>> /\ gate' = [gate EXCEPT !.held = Tail(@)]
           /\ lane' = lane
  <2>1. gate \in Gates /\ lane \in Seq(Frames)
    BY DEF RequestsInv, RequestsTyped
  <2>2. Tail(gate.held) \in Seq(Frames)
    <3>1. gate.held \in Seq(Frames)
      BY <2>1, GateTyped
    <3> QED BY <1>2, <3>1, TailFacts
  <2>3. gate' \in Gates /\ gate'.held = Tail(gate.held)
    BY <1>2, <2>1, <2>2, GateTyped DEF Gates
  <2> QED BY <1>2, <2>1, <2>3 DEF ReadsOn, LaneFollows, GateFollows
<1> QED BY <1>1, <1>2 DEF ReadsOn

LEMMA TakesResolvedKeeps ==
  ASSUME RequestsAssumed, RequestsInv, NEW w \in Handlers, NEW c \in Asked, TakesResolved(w, c)
  PROVE  RequestsInv'
<1>1. lane' \in Seq(Frames) /\ gate' \in Gates /\ LaneFollows /\ GateFollows
  BY ReadsFacts DEF TakesResolved
<1>2. /\ routes' \in [Ids -> Asked \cup {Nothing}]
      /\ \A i \in Ids : routes'[i] \in {routes[i], Nothing}
  BY DEF TakesResolved, RequestsInv, RequestsTyped
<1>3. RequestsTyped'
  BY <1>1, <1>2 DEF TakesResolved, RequestsInv, RequestsTyped, nativeSide
<1>4. \A d \in Asked : routes'[Id[d]] = d => routes[Id[d]] = d
  BY <1>2, IdsTyped DEF RequestsAssumed
<1> QED BY <1>1, <1>3, <1>4, QuietKeeps
        DEF TakesResolved, HandlerFollows, CommandFollows, nativeSide, HistoryGrows

LEMMA PostsFollow ==
  ASSUME RequestsInv, NEW w \in Handlers, NEW c \in Asked,
         FindsGone(w, c) \/ Posts(w, c) \/ Posted(w, c) \/ PostFails(w, c)
  PROVE  handler' \in [Handlers -> Handling] /\ HandlerFollows
<1>1. handler' \in [Handlers -> Handling] /\ HandlerFollows
  <2>1. CASE Rests(w)
    BY <2>1, RestTyped DEF RequestsInv
  <2>2. ASSUME NEW at \in {"emits", "posting"}, handler' = [handler EXCEPT ![w].at = at],
               handler[w].at \in {"emits", "posting"}
        PROVE  handler' \in [Handlers -> Handling] /\ HandlerFollows
    <3>0. handler \in [Handlers -> Handling] /\ handler[w] \in Handling
      BY DEF RequestsInv, RequestsTyped
    <3> DEFINE h == [handler[w] EXCEPT !.at = at]
    <3>1. h \in Handling /\ h.call = handler[w].call /\ h.at = at
      BY <3>0 DEF Handling
    <3>2. handler' = [handler EXCEPT ![w] = h]
      BY <2>2
    <3> HIDE DEF h
    <3>3. /\ handler' \in [Handlers -> Handling] /\ handler'[w] = h
          /\ \A v \in Handlers \ {w} : handler'[v] = handler[v]
      BY <3>0, <3>1, <3>2
    <3> QED BY <2>2, <3>1, <3>3 DEF HandlerFollows
  <2>3. CASE Posts(w, c)
    BY <2>2, <2>3 DEF Posts, HandlerAt
  <2>4. CASE PostFails(w, c)
    BY <2>2, <2>4 DEF PostFails, HandlerAt
  <2> QED BY <2>1, <2>3, <2>4 DEF FindsGone, Posted
<1> QED BY <1>1

LEMMA PostsKeeps ==
  ASSUME RequestsAssumed, RequestsInv, NEW w \in Handlers, NEW c \in Asked,
         FindsGone(w, c) \/ Posts(w, c) \/ Posted(w, c) \/ PostFails(w, c)
  PROVE  RequestsInv'
<1>1. handler' \in [Handlers -> Handling] /\ HandlerFollows
  BY PostsFollow
<1>2. /\ UNCHANGED <<conn, link, native, asked, lane, news, active, routes, command, task,
                     recentCalls, recentTurns, answers, gate, late, cut>>
  BY DEF FindsGone, Posts, Posted, PostFails, nativeSide, bridgeSide, gateSide
<1>3. RequestsTyped'
  BY <1>1, <1>2 DEF RequestsInv, RequestsTyped
<1> QED BY <1>1, <1>2, <1>3, QuietKeeps
        DEF LaneFollows, GateFollows, HistoryGrows, CommandFollows

(* A request that is taken gets a route, a task, or a response at once.    *)
LEMMA TakenIsNew ==
  ASSUME RequestsAssumed, RequestsInv, NEW w \in Handlers, NEW c \in Asked,
         ReadsOn(w, c, "request")
  PROVE  /\ Standing(c) /\ ~InHand(c) /\ (w = "lane" => asked[c] = conn /\ link = "up")
         /\ Untouched(c) \/ (c \in cut /\ ~Tool(c))
         /\ \A k \in DOMAIN lane : InLane(k) /\ lane[k].call = c => lane' = Tail(lane) /\ k = 1
         /\ \A k \in DOMAIN gate.held : Asking(k) /\ gate.held[k].call = c =>
              gate'.held = Tail(gate.held) /\ k = 1
<1>1. CASE /\ w = "lane" /\ link = "up" /\ lane # <<>> /\ lane' = Tail(lane)
           /\ Head(lane) = [call |-> c, is |-> "request"]
  <2>1. 1 \in DOMAIN lane /\ InLane(1) /\ lane[1].call = c
    BY <1>1 DEF InLane, RequestsInv, RequestsTyped
  <2>2. asked[c] = conn /\ Unseen(c) /\ conn # 0
    BY <2>1 DEF RequestsInv, LaneInv, RequestsTyped
  <2>3. \A k \in DOMAIN lane : InLane(k) /\ lane[k].call = c => k = 1
    BY <2>1 DEF RequestsInv, LaneInv
  <2> QED BY <1>1, <2>2, <2>3 DEF Standing, Unseen, NotHeld
<1>2. CASE /\ w = "gate" /\ gate.held # <<>> /\ gate' = [gate EXCEPT !.held = Tail(@)]
           /\ Head(gate.held) = [call |-> c, is |-> "request"]
  <2>0. gate \in Gates /\ gate.held \in Seq(Frames)
    BY GateTyped DEF RequestsInv, RequestsTyped
  <2>1. /\ 1 \in DOMAIN gate.held /\ Asking(1) /\ gate.held[1].call = c
        /\ gate'.held = Tail(gate.held)
    BY <1>2, <2>0 DEF Asking, Gates
  <2>2. HeldOne(c)
    BY <2>1 DEF RequestsInv, HeldInv
  <2>3. \A k \in DOMAIN gate.held : Asking(k) /\ gate.held[k].call = c => k = 1
    BY <2>1 DEF RequestsInv, HeldInv
  <2>4. \A k \in DOMAIN lane : InLane(k) => lane[k].call # c
    BY <2>1 DEF RequestsInv, LaneInv, Unseen, NotHeld
  <2> QED BY <1>2, <2>1, <2>2, <2>3, <2>4 DEF HeldOne
<1> QED BY <1>1, <1>2 DEF ReadsOn

LEMMA TakesRequestKeeps ==
  ASSUME RequestsAssumed, RequestsInv, NEW w \in Handlers, NEW c \in Asked, TakesRequest(w, c)
  PROVE  RequestsInv'
<1>1. /\ lane' \in Seq(Frames) /\ gate' \in Gates /\ LaneFollows /\ GateFollows
      /\ handler[w] = AtRest
  BY ReadsFacts DEF TakesRequest
<1>2. /\ Standing(c) /\ ~InHand(c) /\ (w = "lane" => asked[c] = conn /\ link = "up")
      /\ Untouched(c) \/ (c \in cut /\ ~Tool(c))
      /\ \A k \in DOMAIN lane : InLane(k) /\ lane[k].call = c => lane' = Tail(lane) /\ k = 1
      /\ \A k \in DOMAIN gate.held : Asking(k) /\ gate.held[k].call = c =>
           gate'.held = Tail(gate.held) /\ k = 1
  BY TakenIsNew DEF TakesRequest
<1>3. UNCHANGED <<conn, link, native, asked, news, active, command, recentCalls,
                  recentTurns, answers, late, cut>>
  BY DEF TakesRequest, nativeSide
<1> DEFINE Emitting == [AtRest EXCEPT !.call = c, !.at = "emits"]
           Responding == [AtRest EXCEPT !.call = c, !.at = "responds"]
<1>4. \/ /\ Routed(c) /\ routes' = [routes EXCEPT ![Id[c]] = c]
         /\ handler' = [handler EXCEPT ![w] = Emitting] /\ task' = task
      \/ /\ Tool(c) /\ routes' = routes /\ handler' = handler
         /\ \E s \in {"done", "sleeps"} :
              /\ task' = [task EXCEPT ![c] = s]
              /\ s = "sleeps" => /\ c \notin ToSet(recentCalls)
                                 /\ TurnOf[c] \notin ToSet(recentTurns)
      \/ /\ ~Tool(c) /\ routes' = routes /\ task' = task
         /\ \/ handler' = handler
            \/ handler' = [handler EXCEPT ![w] = Responding] /\ routes[Id[c]] # c
  <2>1. ~Decidable(c) => routes[Id[c]] # c
    BY DEF RequestsInv, RoutesInv
  <2>2. Sort[c] = "clock" => ~Decidable(c)
    BY DEF Decidable
  <2>3. c # Nothing
    BY DEF RequestsAssumed
  <2> QED BY <2>1, <2>2, <2>3 DEF TakesRequest, Delegates
<1>e. /\ Emitting \in Handling /\ Emitting.call = c /\ Emitting.at = "emits"
      /\ Responding \in Handling /\ Responding.call = c /\ Responding.at = "responds"
  BY DEF AtRest, Handling
<1> HIDE DEF Emitting, Responding
<1>5. /\ routes' \in [Ids -> Asked \cup {Nothing}]
      /\ \A i \in Ids : routes'[i] # Nothing => Id[routes'[i]] = i
      /\ \A d \in Asked \ {c} : routes'[Id[d]] = d => routes[Id[d]] = d
      /\ routes'[Id[c]] = c => Decidable(c)
  <2>1. CASE routes' = routes
    BY <2>1 DEF RequestsInv, RequestsTyped, RoutesInv
  <2>2. CASE Routed(c) /\ routes' = [routes EXCEPT ![Id[c]] = c]
    <3>2. /\ routes' \in [Ids -> Asked \cup {Nothing}] /\ routes'[Id[c]] = c
          /\ \A i \in Ids : i # Id[c] => routes'[i] = routes[i]
      BY <2>2, IdsTyped DEF RequestsInv, RequestsTyped
    <3>3. \A i \in Ids : routes'[i] # Nothing => Id[routes'[i]] = i
      BY <3>2 DEF RequestsInv, RequestsTyped
    <3>4. \A d \in Asked \ {c} : routes'[Id[d]] = d => routes[Id[d]] = d
      BY <3>2, IdsTyped
    <3> QED BY <2>2, <3>2, <3>3, <3>4 DEF Routed, Decidable
  <2> QED BY <1>4, <2>1, <2>2
<1>6. /\ handler' \in [Handlers -> Handling]
      /\ \A v \in Handlers \ {w} : handler'[v] = handler[v]
      /\ \/ handler' = handler
         \/ handler'[w] = Emitting /\ Decidable(c) /\ ~Tool(c)
         \/ /\ handler'[w] = Responding /\ ~Tool(c) /\ routes' = routes /\ task' = task
            /\ routes[Id[c]] # c
  <2>0. handler \in [Handlers -> Handling]
    BY DEF RequestsInv, RequestsTyped
  <2>1. CASE handler' = handler
    BY <2>0, <2>1
  <2>2. CASE Routed(c) /\ handler' = [handler EXCEPT ![w] = Emitting]
    BY <1>e, <2>0, <2>2 DEF Routed, Decidable, Tool
  <2>3. CASE /\ ~Tool(c) /\ handler' = [handler EXCEPT ![w] = Responding]
             /\ routes[Id[c]] # c /\ routes' = routes /\ task' = task
    BY <1>e, <2>0, <2>3
  <2> QED BY <1>4, <2>1, <2>2, <2>3
<1>7. /\ task' \in [Asked -> Awake \cup {"none", "done", "cancelled"}]
      /\ \A d \in Asked \ {c} : task'[d] = task[d]
      /\ task'[c] # "none" => Tool(c)
      /\ task'[c] \in Awake => /\ c \notin ToSet(recentCalls)
                               /\ TurnOf[c] \notin ToSet(recentTurns)
                               /\ answers[c] = <<>>
  <2>1. CASE task' = task
    BY <2>1 DEF RequestsInv, RequestsTyped, TasksInv
  <2>2. ASSUME Tool(c), NEW t \in {"done", "sleeps"}, task' = [task EXCEPT ![c] = t],
               t = "sleeps" => /\ c \notin ToSet(recentCalls)
                               /\ TurnOf[c] \notin ToSet(recentTurns)
        PROVE  /\ task' \in [Asked -> Awake \cup {"none", "done", "cancelled"}]
               /\ \A d \in Asked \ {c} : task'[d] = task[d]
               /\ task'[c] # "none" => Tool(c)
               /\ task'[c] \in Awake => /\ c \notin ToSet(recentCalls)
                                        /\ TurnOf[c] \notin ToSet(recentTurns)
                                        /\ answers[c] = <<>>
    BY <1>2, <2>2 DEF RequestsInv, RequestsTyped, Awake, Untouched
  <2> QED BY <1>4, <2>1, <2>2
<1>9. RequestsTyped'
  BY <1>1, <1>3, <1>5, <1>6, <1>7 DEF RequestsInv, RequestsTyped
<1>10. AskedOnce' /\ CommandInv' /\ AnswersInv'
  BY <1>3 DEF RequestsInv, AskedOnce, CommandInv, AnswersInv
<1>s. \A d \in Asked : Standing(d)' <=> Standing(d)
  BY <1>3 DEF Standing
<1>u. \A d \in Asked \ {c} : Untouched(d) => Untouched(d)'
  BY <1>3, <1>5, <1>7 DEF Untouched
<1>n. \A v \in Handlers : handler[v].call # c
  BY <1>2 DEF InHand
<1>11. HandlerInv'
  <2>1. ASSUME NEW v \in Handlers, handler'[v] = handler[v], NEW d \in Asked,
               handler[v].call = d
        PROVE  Handled(v, d)'
    <3>1. d # c /\ Handled(v, d)
      BY <1>n, <2>1 DEF RequestsInv, HandlerInv
    <3> QED BY <1>3, <1>5, <1>s, <1>u, <2>1, <3>1 DEF Handled
  <2>2. CASE handler' = handler
    BY <2>1, <2>2 DEF RequestsInv, HandlerInv
  <2>3. CASE handler'[w] = Emitting /\ Decidable(c) /\ ~Tool(c)
    <3>1. Handled(w, c)'
      BY <1>2, <1>3, <1>e, <1>s, <2>3 DEF Handled
    <3>2. handler'[w].call = c /\ handler'[w].at = "emits" /\ c # Nothing
      BY <1>e, <2>3 DEF RequestsAssumed
    <3> QED BY <1>6, <1>n, <2>1, <3>1, <3>2 DEF RequestsInv, HandlerInv, Handlers
  <2>4. CASE /\ handler'[w] = Responding /\ ~Tool(c) /\ routes' = routes /\ task' = task
             /\ routes[Id[c]] # c
    <3>1. Handled(w, c)'
      BY <1>2, <1>3, <1>e, <1>s, <2>4 DEF Handled, Untouched
    <3>2. handler'[w].call = c /\ handler'[w].at = "responds" /\ c # Nothing
      BY <1>e, <2>4 DEF RequestsAssumed
    <3> QED BY <1>6, <1>n, <2>1, <3>1, <3>2 DEF RequestsInv, HandlerInv, Handlers
  <2> QED BY <1>6, <2>2, <2>3, <2>4
<1>12. RoutesInv'
  BY <1>2, <1>3, <1>5, <1>s DEF RoutesInv, RequestsInv, Untouched
<1>13. TasksInv'
  BY <1>2, <1>3, <1>7, <1>s DEF TasksInv, RequestsInv, Standing
<1>h. ASSUME NEW d \in Asked, d # c, ~InHand(d) PROVE ~InHand(d)'
  <2> SUFFICES ASSUME NEW v \in Handlers PROVE handler'[v].call # d
    BY DEF InHand
  <2>1. handler[v].call # d
    BY <1>h DEF InHand
  <2> QED BY <1>6, <1>e, <1>h, <2>1
<1>g. gate.held \in Seq(Frames)
  BY GateTyped DEF RequestsInv, RequestsTyped
<1>14. LaneInv'
  <2>1. ASSUME NEW d \in Asked, d # c, Unseen(d) PROVE Unseen(d)'
    BY <1>1, <1>g, <1>h, <1>u, <2>1, NotHeldKept DEF Unseen
  <2>3. \A k \in DOMAIN lane : \A d \in Asked :
          InLane(k) /\ lane[k].call = d =>
            \/ lane' = Tail(lane) /\ k = 1
            \/ asked'[d] = asked[d] /\ Unseen(d)'
    BY <1>2, <1>3, <2>1 DEF RequestsInv, LaneInv
  <2> QED BY <1>1, <1>3, <2>3, LaneKept DEF RequestsInv, RequestsTyped
<1>15. HeldInv'
  <2>1. ASSUME NEW d \in Asked, d # c, HeldOne(d) PROVE HeldOne(d)'
    BY <1>3, <1>h, <1>s, <1>u, <2>1 DEF HeldOne
  <2>3. \A k \in DOMAIN gate.held : \A d \in Asked :
          Asking(k) /\ gate.held[k].call = d =>
            \/ gate'.held = Tail(gate.held) /\ k = 1
            \/ HeldOne(d)'
    BY <1>2, <2>1 DEF RequestsInv, HeldInv
  <2> QED BY <1>1, <1>g, <2>3, HeldKept DEF RequestsInv
<1> QED BY <1>9, <1>10, <1>11, <1>12, <1>13, <1>14, <1>15 DEF RequestsInv

(* The route of a request that cannot be shown goes before the rejection.  *)
LEMMA TimesOutKeeps ==
  ASSUME RequestsAssumed, RequestsInv, NEW w \in Handlers, NEW c \in Asked, TimesOut(w, c)
  PROVE  RequestsInv'
<1>0. UNCHANGED <<conn, link, native, asked, lane, news, active, command, task,
                  recentCalls, recentTurns, answers, gate, late, cut>>
  BY DEF TimesOut, nativeSide, gateSide
<1>1. CASE Rests(w) /\ UNCHANGED routes
  <2>0. handler' \in [Handlers -> Handling] /\ HandlerFollows
    BY <1>1, RestTyped DEF RequestsInv
  <2>1. RequestsTyped'
    BY <1>0, <1>1, <2>0 DEF RequestsInv, RequestsTyped
  <2> QED BY <1>0, <1>1, <2>0, <2>1, QuietKeeps DEF LaneFollows, GateFollows, HistoryGrows,
        CommandFollows
<1>2. CASE /\ handler' = [handler EXCEPT ![w].at = "rejects"]
           /\ routes' = [routes EXCEPT ![Id[c]] = Nothing]
  <2>1. /\ handler[w].call = c /\ handler[w].at \in {"emits", "posting"}
        /\ handler \in [Handlers -> Handling] /\ handler[w] \in Handling
    BY DEF TimesOut, RequestsInv, RequestsTyped
  <2>2. /\ handler' \in [Handlers -> Handling]
        /\ handler'[w].call = c /\ handler'[w].at = "rejects"
        /\ \A v \in Handlers \ {w} : handler'[v] = handler[v]
    <3> DEFINE h == [handler[w] EXCEPT !.at = "rejects"]
    <3>1. h \in Handling /\ h.call = c /\ h.at = "rejects"
      BY <2>1 DEF Handling
    <3>2. handler' = [handler EXCEPT ![w] = h]
      BY <1>2
    <3> HIDE DEF h
    <3> QED BY <2>1, <3>1, <3>2
  <2>3. /\ routes' \in [Ids -> Asked \cup {Nothing}] /\ routes'[Id[c]] = Nothing
        /\ \A i \in Ids : routes'[i] \in {routes[i], Nothing}
    BY <1>2, IdsTyped DEF RequestsInv, RequestsTyped
  <2>4. \A d \in Asked : routes'[Id[d]] = d => routes[Id[d]] = d
    BY <2>3, IdsTyped DEF RequestsAssumed
  <2>5. RequestsTyped'
    BY <1>0, <2>2, <2>3 DEF RequestsInv, RequestsTyped
  <2>6. AskedOnce' /\ CommandInv' /\ AnswersInv' /\ RoutesInv' /\ TasksInv'
    BY <1>0, <2>4 DEF RequestsInv, AskedOnce, CommandInv, AnswersInv, RoutesInv, TasksInv,
       Standing
  <2>u. \A d \in Asked : Untouched(d) => Untouched(d)'
    BY <1>0, <2>4 DEF Untouched
  <2>i. \A d \in Asked : InHand(d)' <=> InHand(d)
    BY <2>1, <2>2 DEF InHand
  <2>7. HandlerInv'
    <3>1. ASSUME NEW v \in Handlers, NEW d \in Asked, handler'[v].call = d
          PROVE  Handled(v, d)'
      <4>1. Handled(v, d)
        BY <2>1, <2>2, <3>1 DEF RequestsInv, HandlerInv
      <4>2. CASE v = w
        BY <1>0, <2>1, <2>2, <2>3, <3>1, <4>1, <4>2 DEF Handled, Standing, RequestsAssumed
      <4>3. CASE v # w
        BY <1>0, <2>2, <2>4, <2>u, <4>1, <4>3 DEF Handled, Standing
      <4> QED BY <4>2, <4>3
    <3>2. c # Nothing /\ \A v \in Handlers : handler'[v].call = handler[v].call
      BY <2>1, <2>2 DEF RequestsAssumed
    <3> QED BY <2>2, <3>1, <3>2 DEF RequestsInv, HandlerInv, Handlers
  <2>8. LaneInv'
    <3>1. \A d \in Asked : Unseen(d) => Unseen(d)'
      BY <1>0, <2>u, <2>i DEF Unseen, NotHeld, Asking
    <3>2. \A k \in DOMAIN lane : \A d \in Asked :
            InLane(k) /\ lane[k].call = d => asked'[d] = asked[d] /\ Unseen(d)'
      BY <1>0, <3>1 DEF RequestsInv, LaneInv
    <3> QED BY <1>0, <3>2, LaneKept DEF RequestsInv, RequestsTyped, LaneFollows
  <2>9. HeldInv'
    <3>1. \A d \in Asked : HeldOne(d) => HeldOne(d)'
      BY <1>0, <2>u, <2>i DEF HeldOne, Standing
    <3>2. \A k \in DOMAIN gate.held : \A d \in Asked :
            Asking(k) /\ gate.held[k].call = d => HeldOne(d)'
      BY <3>1 DEF RequestsInv, HeldInv
    <3> QED BY <1>0, <3>2, HeldKept DEF RequestsInv, RequestsTyped, Gates, GateFollows
  <2> QED BY <2>5, <2>6, <2>7, <2>8, <2>9 DEF RequestsInv
<1> QED BY <1>1, <1>2 DEF TimesOut

-----------------------------------------------------------------------------
(* Responses.                                                              *)

LEMMA RespondsFacts ==
  ASSUME RequestsInv, NEW c \in Asked, NEW who \in Whose, Responds(c, who)
  PROVE  /\ answers' \in [Asked -> Seq([by : Whose, on : Nat])]
         /\ \A d \in Asked \ {c} : answers'[d] = answers[d]
         /\ asked[c] = conn => \A k \in DOMAIN answers'[c] : answers'[c][k].on = asked[c]
<1> DEFINE a == [by |-> who, on |-> conn]
<1>1. a \in [by : Whose, on : Nat]
  BY DEF RequestsInv, RequestsTyped
<1>2. answers[c] \in Seq([by : Whose, on : Nat])
  BY DEF RequestsInv, RequestsTyped
<1>3. answers'[c] = Append(answers[c], a) /\ Append(answers[c], a) \in Seq([by : Whose, on : Nat])
  BY <1>1, <1>2 DEF Responds, RequestsInv, RequestsTyped
<1>4. /\ answers' \in [Asked -> Seq([by : Whose, on : Nat])]
      /\ \A d \in Asked \ {c} : answers'[d] = answers[d]
  BY <1>3 DEF Responds, RequestsInv, RequestsTyped
<1>5. ASSUME asked[c] = conn, NEW k \in DOMAIN answers'[c]
      PROVE  answers'[c][k].on = asked[c]
  <2> DEFINE n == Len(answers[c])
  <2>1. /\ n \in Nat /\ DOMAIN answers[c] = 1..n /\ DOMAIN answers'[c] = 1..(n + 1)
        /\ \A j \in 1..n : answers'[c][j] = answers[c][j]
        /\ answers'[c][n + 1] = a
    BY <1>1, <1>2, <1>3
  <2> HIDE DEF n
  <2>2. CASE k = n + 1 BY <1>5, <2>1, <2>2
  <2>3. CASE k \in 1..n BY <2>1, <2>3 DEF RequestsInv, AnswersInv
  <2> QED BY <1>5, <2>1, <2>2, <2>3
<1> QED BY <1>4, <1>5

(* A response that is given for a request that is asked, and has no route  *)
(* or task any more.                                                       *)
LEMMA AnsweredKeeps ==
  ASSUME RequestsAssumed, RequestsInv, RequestsTyped',
         UNCHANGED <<conn, link, native, asked, lane, gate, late, cut, recentCalls, recentTurns>>,
         NEW c \in Asked, NEW who \in Whose, Responds(c, who),
         asked[c] = conn, InHand(c) \/ ~Untouched(c), routes'[Id[c]] # c, task'[c] \notin Awake,
         \A d \in Asked :
           /\ routes'[Id[d]] = d => routes[Id[d]] = d
           /\ task'[d] = task[d] \/ (task[d] # "none" /\ task'[d] \notin Awake \cup {"none"}),
         HandlerFollows, \A v \in Handlers : handler'[v].call = c => ~Untouched(c),
         CommandFollows
  PROVE  RequestsInv'
<1>1. /\ \A d \in Asked \ {c} : answers'[d] = answers[d]
      /\ \A k \in DOMAIN answers'[c] : answers'[c][k].on = asked[c]
  BY RespondsFacts
<1>2. conn # 0
  BY DEF RequestsInv, RequestsTyped
<1>3. AskedOnce' /\ AnswersInv'
  BY <1>1, <1>2 DEF RequestsInv, AskedOnce, AnswersInv
<1>s. \A d \in Asked : Standing(d)' <=> Standing(d)
  BY DEF Standing
<1>4. RoutesInv' /\ TasksInv'
  BY <1>1, <1>s DEF RequestsInv, RoutesInv, TasksInv, Awake
<1>u. ASSUME NEW d \in Asked, d # c, Untouched(d) PROVE Untouched(d)'
  <2>1. command'.call # d
    BY <1>u DEF CommandFollows, Untouched, RequestsAssumed
  <2> QED BY <1>1, <1>u, <2>1 DEF Untouched
<1>5. HandlerInv'
  <2>1. ASSUME NEW v \in Handlers
        PROVE  /\ handler'[v].call = Nothing <=> handler'[v].at = "idle"
               /\ handler'[v].at = "idle" => handler'[v] = AtRest
               /\ \A d \in Asked : handler'[v].call = d => Handled(v, d)'
               /\ handler'[v].call \in {handler[v].call, Nothing}
    <3>0. /\ handler[v].call = Nothing <=> handler[v].at = "idle"
          /\ handler[v].at = "idle" => handler[v] = AtRest
          /\ \A d \in Asked : handler[v].call = d => Handled(v, d)
      BY DEF RequestsInv, HandlerInv
    <3>1. CASE handler'[v] = AtRest
      BY <3>1 DEF AtRest, RequestsAssumed
    <3>2. CASE handler'[v] = handler[v]
      <4>1. ASSUME NEW d \in Asked, handler[v].call = d PROVE Handled(v, d)'
        <5>1. Handled(v, d)
          BY <3>0, <4>1
        <5>2. handler'[v].at = "responds" => Untouched(d)' \/ d \in cut'
          <6>1. CASE d = c BY <3>2, <4>1, <5>1, <6>1 DEF Handled
          <6>2. CASE d # c BY <1>u, <3>2, <5>1, <6>2 DEF Handled
          <6> QED BY <6>1, <6>2
        <5> QED BY <1>s, <3>2, <5>1, <5>2 DEF Handled
      <4> QED BY <3>0, <3>2, <4>1
    <3>3. CASE /\ handler'[v].call = handler[v].call
               /\ {handler[v].at, handler'[v].at} \subseteq {"emits", "posting"}
      <4>1. ASSUME NEW d \in Asked, handler[v].call = d PROVE Handled(v, d)'
        BY <1>s, <3>0, <3>3, <4>1 DEF Handled
      <4> QED BY <3>0, <3>3, <4>1
    <3> QED BY <3>1, <3>2, <3>3 DEF HandlerFollows
  <2>2. "lane" \in Handlers /\ "gate" \in Handlers
    BY DEF Handlers
  <2>3. handler'["lane"].call = handler'["gate"].call => handler'["lane"].call = Nothing
    BY <2>1, <2>2 DEF RequestsInv, HandlerInv
  <2> QED BY <2>1, <2>3 DEF HandlerInv
<1>6. CommandInv'
  BY CommandKept
<1>7. LaneInv'
  <2>1. ASSUME NEW d \in Asked, Unseen(d) PROVE Unseen(d)'
    <3>1. d # c
      BY <2>1 DEF Unseen
    <3>2. NotHeld(d)'
      BY <2>1 DEF Unseen, NotHeld, Asking
    <3> QED BY <1>u, <2>1, <3>1, <3>2, HandsKept DEF Unseen
  <2>2. \A k \in DOMAIN lane : \A d \in Asked :
          InLane(k) /\ lane[k].call = d => asked'[d] = asked[d] /\ Unseen(d)'
    BY <2>1 DEF RequestsInv, LaneInv
  <2> QED BY <2>2, LaneKept DEF RequestsInv, RequestsTyped, LaneFollows
<1>8. HeldInv'
  <2>1. ASSUME NEW d \in Asked, HeldOne(d) PROVE HeldOne(d)'
    <3>1. CASE d = c
      BY <1>s, <2>1, <3>1, HandsKept DEF HeldOne
    <3>2. CASE d # c
      BY <1>s, <1>u, <2>1, <3>2, HandsKept DEF HeldOne
    <3> QED BY <3>1, <3>2
  <2>2. \A k \in DOMAIN gate.held : \A d \in Asked :
          Asking(k) /\ gate.held[k].call = d => HeldOne(d)'
    BY <2>1 DEF RequestsInv, HeldInv
  <2> QED BY <2>2, HeldKept DEF RequestsInv, RequestsTyped, Gates, GateFollows
<1> QED BY <1>3, <1>4, <1>5, <1>6, <1>7, <1>8 DEF RequestsInv

LEMMA HandFacts ==
  ASSUME RequestsAssumed, RequestsInv, NEW w \in Handlers, NEW c \in Asked,
         handler[w].call = c, handler[w].at \in {"responds", "rejects"}
  PROVE  /\ ~Tool(c) /\ routes[Id[c]] # c /\ task[c] \notin Awake
         /\ \A v \in Handlers \ {w} : handler[v].call # c
<1>1. Handled(w, c)
  BY DEF RequestsInv, HandlerInv
<1>2. ~Tool(c) /\ routes[Id[c]] # c
  BY <1>1 DEF Handled
<1>3. task[c] \notin Awake
  BY <1>2 DEF RequestsInv, TasksInv, Awake
<1>4. \A v \in Handlers \ {w} : handler[v].call # c
  BY DEF RequestsInv, HandlerInv, Handlers, RequestsAssumed
<1> QED BY <1>2, <1>3, <1>4

LEMMA HandlerRespondsKeeps ==
  ASSUME RequestsAssumed, RequestsInv, NEW w \in Handlers, NEW c \in Asked,
         HandlerResponds(w, c)
  PROVE  RequestsInv'
<1> DEFINE who == handler[w].at
<1>1. /\ handler[w].call = c /\ who \in {"responds", "rejects"}
      /\ asked[c] = conn /\ Rests(w) /\ Responds(c, who)
      /\ UNCHANGED <<conn, link, native, asked, lane, news, active, routes, command, task,
                     recentCalls, recentTurns, gate, late, cut>>
  BY DEF HandlerResponds, Expired, nativeSide, bridgeSide, gateSide
<1>2. who \in Whose
  BY <1>1 DEF Whose
<1> HIDE DEF who
<1>3. answers' \in [Asked -> Seq([by : Whose, on : Nat])]
  BY <1>1, <1>2, RespondsFacts
<1>4. /\ handler' \in [Handlers -> Handling] /\ handler'[w] = AtRest
      /\ \A v \in Handlers \ {w} : handler'[v] = handler[v]
      /\ HandlerFollows
  BY <1>1, RestTyped DEF RequestsInv
<1>5. RequestsTyped'
  BY <1>1, <1>3, <1>4 DEF RequestsInv, RequestsTyped
<1>6. /\ routes[Id[c]] # c /\ task[c] \notin Awake
      /\ \A v \in Handlers \ {w} : handler[v].call # c
  BY <1>1, HandFacts DEF who
<1>7. InHand(c) /\ \A v \in Handlers : handler'[v].call # c
  BY <1>1, <1>4, <1>6 DEF InHand, AtRest, RequestsAssumed
<1> QED BY <1>1, <1>2, <1>4, <1>5, <1>6, <1>7, AnsweredKeeps DEF CommandFollows

LEMMA NoticeFailsKeeps ==
  ASSUME RequestsAssumed, RequestsInv, NEW c \in Asked, NoticeFails(c)
  PROVE  RequestsInv'
<1>1. /\ handler["gate"].call = c /\ handler["gate"].at = "responds"
      /\ asked[c] = conn /\ Rests("gate") /\ Responds(c, "responds")
      /\ gate' = [gate EXCEPT !.held = Again(c)] /\ cut' = cut \cup {c}
      /\ UNCHANGED <<conn, link, native, asked, lane, news, active, routes, command, task,
                     recentCalls, recentTurns, late>>
  BY DEF NoticeFails, HandlerAt, Expired, nativeSide, bridgeSide
<1>2. "gate" \in Handlers /\ "responds" \in Whose /\ gate \in Gates
  BY DEF Handlers, Whose, RequestsInv, RequestsTyped
<1>3. /\ answers' \in [Asked -> Seq([by : Whose, on : Nat])]
      /\ \A d \in Asked \ {c} : answers'[d] = answers[d]
      /\ \A k \in DOMAIN answers'[c] : answers'[c][k].on = asked[c]
  BY <1>1, <1>2, RespondsFacts
<1>4. handler' \in [Handlers -> Handling]
  BY <1>1, <1>2, RestTyped DEF RequestsInv
<1>5. Again(c) \in Seq(Frames)
  BY <1>2, AgainTyped
<1>6. gate' \in Gates /\ gate'.held = Again(c)
  BY <1>1, <1>2, <1>5, GateTyped DEF Gates
<1>7. RequestsTyped'
  BY <1>1, <1>3, <1>4, <1>6 DEF RequestsInv, RequestsTyped
<1>8. conn # 0
  BY DEF RequestsInv, RequestsTyped
<1>9. AnswersInv'
  BY <1>1, <1>3, <1>8 DEF RequestsInv, AnswersInv
<1>10. routes[Id[c]] # c
  BY <1>1, <1>2, HandFacts
<1> QED BY <1>1, <1>3, <1>6, <1>7, <1>9, <1>10, PutBackKeeps DEF HistoryGrows

-----------------------------------------------------------------------------
(* Delegated tasks.                                                        *)

LEMMA TaskStepsKeep ==
  ASSUME RequestsAssumed, RequestsInv, NEW c \in Asked, TaskWakes(c) \/ TaskCalled(c)
  PROVE  RequestsInv'
<1>1. /\ task[c] \in Awake
      /\ \E s \in {"calls", "replies"} : task' = [task EXCEPT ![c] = s]
  BY DEF TaskWakes, TaskCalled, Awake
<1>2. /\ task' \in [Asked -> Awake \cup {"none", "done", "cancelled"}]
      /\ task'[c] \in Awake /\ \A d \in Asked \ {c} : task'[d] = task[d]
  BY <1>1 DEF RequestsInv, RequestsTyped, Awake
<1>3. UNCHANGED <<conn, link, native, asked, lane, news, active, routes, handler, command,
                  recentCalls, recentTurns, answers, gate, late, cut>>
  BY DEF TaskWakes, TaskCalled, nativeSide, bridgeSide, gateSide
<1>4. RequestsTyped'
  BY <1>2, <1>3 DEF RequestsInv, RequestsTyped
<1> QED BY <1>1, <1>2, <1>3, <1>4, QuietKeeps
        DEF LaneFollows, GateFollows, HistoryGrows, HandlerFollows, CommandFollows, Awake

LEMMA TaskRepliesKeeps ==
  ASSUME RequestsAssumed, RequestsInv, NEW c \in Asked, TaskReplies(c)
  PROVE  RequestsInv'
<1>1. /\ task[c] = "replies" /\ task' = [task EXCEPT ![c] = "done"]
      /\ task' \in [Asked -> Awake \cup {"none", "done", "cancelled"}]
      /\ task'[c] = "done" /\ \A d \in Asked \ {c} : task'[d] = task[d]
  BY DEF TaskReplies, RequestsInv, RequestsTyped
<1>2. Tool(c) /\ Sort[c] \in Whose
  BY <1>1 DEF RequestsInv, TasksInv, Whose
<1>3. UNCHANGED <<conn, link, native, asked, lane, news, active, routes, handler, command,
                  recentCalls, recentTurns, gate, late, cut>>
  BY DEF TaskReplies, nativeSide, bridgeSide, gateSide
<1>4. CASE Expired(c)
  <2>1. answers' = answers
    BY <1>4 DEF TaskReplies
  <2>2. RequestsTyped'
    BY <1>1, <1>3, <2>1 DEF RequestsInv, RequestsTyped
  <2> QED BY <1>1, <1>3, <2>1, <2>2, QuietKeeps
          DEF LaneFollows, GateFollows, HistoryGrows, HandlerFollows, CommandFollows, Awake
<1>5. CASE ~Expired(c)
  <2>1. Responds(c, Sort[c]) /\ asked[c] = conn
    BY <1>5 DEF TaskReplies, Expired
  <2>2. answers' \in [Asked -> Seq([by : Whose, on : Nat])]
    BY <1>2, <2>1, RespondsFacts
  <2>3. RequestsTyped'
    BY <1>1, <1>3, <2>2 DEF RequestsInv, RequestsTyped
  <2>4. routes[Id[c]] # c
    BY <1>2 DEF RequestsInv, RoutesInv, Decidable, Tool
  <2>5. ~Untouched(c)
    BY <1>1 DEF Untouched
  <2> QED BY <1>1, <1>2, <1>3, <2>1, <2>3, <2>4, <2>5, AnsweredKeeps
          DEF HandlerFollows, CommandFollows, Awake
<1> QED BY <1>4, <1>5

(* A completion ends the tasks that it is about, and is remembered.        *)
LEMMA ObservesKeeps ==
  ASSUME RequestsAssumed, RequestsInv, Observes
  PROVE  RequestsInv'
<1> DEFINE n == Head(news)
           S == IF n.call = Nothing THEN InTurn(n.turn) ELSE {n.call}
<1>1. n \in News /\ news' \in Seq(News) /\ n.call \in Asked \cup {Nothing} /\ n.turn \in SomeTurn
  <2>1. n \in News /\ news' \in Seq(News)
    BY DEF Observes, RequestsInv, RequestsTyped
  <2> QED BY <2>1 DEF News
<1>2. /\ task' = Cancelled(S)
      /\ IF n.call = Nothing
           THEN recentTurns' = Remember(recentTurns, n.turn) /\ recentCalls' = recentCalls
                /\ active' \in {active, Nothing}
           ELSE recentCalls' = Remember(recentCalls, n.call) /\ recentTurns' = recentTurns
                /\ active' = active
  BY DEF Observes
<1>3. /\ recentCalls' \in Seq(Asked \cup {Nothing}) /\ recentTurns' \in Seq(SomeTurn)
      /\ active' \in SomeTurn
      /\ \A c \in Asked \ S :
           /\ c \in ToSet(recentCalls') => c \in ToSet(recentCalls)
           /\ TurnOf[c] \in ToSet(recentTurns') => TurnOf[c] \in ToSet(recentTurns)
  <2>1. CASE n.call = Nothing
    <3>1. /\ recentTurns' \in Seq(SomeTurn)
          /\ ToSet(recentTurns') \subseteq ToSet(recentTurns) \cup {n.turn}
      BY <1>1, <1>2, <2>1, RememberFacts DEF RequestsInv, RequestsTyped
    <3> QED BY <1>2, <2>1, <3>1 DEF RequestsInv, RequestsTyped, InTurn, SomeTurn
  <2>2. CASE n.call # Nothing
    <3> DEFINE Calls == Asked \cup {Nothing}
    <3>0. recentCalls \in Seq(Calls) /\ n.call \in Calls
      BY <1>1 DEF RequestsInv, RequestsTyped
    <3> HIDE DEF Calls
    <3>1. /\ recentCalls' \in Seq(Calls)
          /\ ToSet(recentCalls') \subseteq ToSet(recentCalls) \cup {n.call}
      BY <1>2, <2>2, <3>0, RememberFacts
    <3>2. S = {n.call}
      BY <2>2
    <3> QED BY <1>2, <2>2, <3>1, <3>2 DEF RequestsInv, RequestsTyped, Calls
  <2> QED BY <2>1, <2>2
<1> HIDE DEF S, n
<1>4. /\ task' \in [Asked -> Awake \cup {"none", "done", "cancelled"}]
      /\ \A c \in Asked :
           /\ task'[c] \in Awake => c \notin S /\ task[c] \in Awake
           /\ task'[c] = "none" <=> task[c] = "none"
  BY <1>2 DEF Cancelled, RequestsInv, RequestsTyped, Awake
<1>5. UNCHANGED <<conn, link, native, asked, lane, routes, handler, command, answers, late, cut>>
  BY DEF Observes, nativeSide
<1>g. gate' \in Gates /\ gate'.held = gate.held
  <2>1. gate \in Gates
    BY DEF RequestsInv, RequestsTyped
  <2>2. CASE gate' = gate
    BY <2>1, <2>2
  <2>3. CASE gate' = [gate EXCEPT !.over = @ \cup {n.turn}]
    <3>1. gate' \in Gates
      BY <1>1, <2>1, <2>3, GateTyped
    <3> QED BY <2>1, <2>3, <3>1 DEF Gates
  <2> QED BY <2>2, <2>3 DEF Observes, n
<1>6. RequestsTyped'
  BY <1>1, <1>3, <1>4, <1>5, <1>g DEF RequestsInv, RequestsTyped
<1>s. \A c \in Asked : Standing(c)' <=> Standing(c)
  BY <1>5 DEF Standing
<1>u. \A c \in Asked :
        /\ Untouched(c)' <=> Untouched(c)
        /\ InHand(c)' <=> InHand(c)
        /\ NotHeld(c)' <=> NotHeld(c)
  BY <1>4, <1>5, <1>g DEF Untouched, InHand, NotHeld, Asking
<1>7. AskedOnce' /\ CommandInv' /\ RoutesInv' /\ AnswersInv'
  BY <1>5, <1>s DEF RequestsInv, AskedOnce, CommandInv, RoutesInv, AnswersInv
<1>h. HandlerInv'
  <2>1. \A w \in Handlers : \A c \in Asked : Handled(w, c) => Handled(w, c)'
    BY <1>5, <1>s, <1>u DEF Handled
  <2> QED BY <1>5, <2>1 DEF RequestsInv, HandlerInv
<1>8. TasksInv'
  BY <1>3, <1>4, <1>5, <1>s DEF RequestsInv, TasksInv
<1>10. HeldInv'
  <2>1. \A k \in DOMAIN gate.held : \A d \in Asked :
          Asking(k) /\ gate.held[k].call = d => HeldOne(d)'
    BY <1>5, <1>s, <1>u DEF RequestsInv, HeldInv, HeldOne
  <2> QED BY <1>g, <2>1, HeldKept DEF RequestsInv, RequestsTyped, Gates, GateFollows
<1>9. LaneInv'
  <2>1. \A c \in Asked : Unseen(c) => Unseen(c)'
    BY <1>u DEF Unseen
  <2>2. \A k \in DOMAIN lane : \A d \in Asked :
          InLane(k) /\ lane[k].call = d => asked'[d] = asked[d] /\ Unseen(d)'
    BY <1>5, <2>1 DEF RequestsInv, LaneInv
  <2> QED BY <1>5, <2>2, LaneKept DEF RequestsInv, RequestsTyped, LaneFollows
<1> QED BY <1>6, <1>7, <1>8, <1>9, <1>10, <1>h DEF RequestsInv

-----------------------------------------------------------------------------
(* Commands.                                                               *)

LEMMA ProceedsFacts ==
  ASSUME NEW table \in [Ids -> Asked \cup {Nothing}], NEW todo \in SUBSET Ids,
         \A i \in Ids : table[i] # Nothing => Id[table[i]] = i,
         Proceeds(todo, table)
  PROVE  /\ command' \in Commanding
         /\ \/ command'.at \in {"idle", "stops"} /\ command'.call = Nothing
            \/ /\ command'.at = "waits" /\ command'.call # Nothing
               /\ table[Id[command'.call]] = command'.call
<1>0. AtRest \in Commanding /\ AtRest.call = Nothing /\ AtRest.at = "idle"
  BY DEF AtRest, Commanding
<1>1. CASE command' = AtRest
  BY <1>0, <1>1
<1>2. ASSUME NEW i \in todo, table[i] # Nothing,
             command' = [call |-> table[i], at |-> "waits", todo |-> todo \ {i}]
      PROVE  /\ command' \in Commanding
             /\ command'.at = "waits" /\ command'.call # Nothing
             /\ table[Id[command'.call]] = command'.call
  BY <1>2 DEF Commanding
<1>3. ASSUME NEW i \in todo, command' = [AtRest EXCEPT !.at = "stops", !.todo = {i}]
      PROVE  /\ command' \in Commanding
             /\ command'.at = "stops" /\ command'.call = Nothing
  BY <1>3 DEF Commanding, AtRest
<1> QED BY <1>1, <1>2, <1>3 DEF Proceeds

LEMMA CommandsKeep ==
  ASSUME RequestsAssumed, RequestsInv, Decides \/ Answers \/ Stops \/ Connects
  PROVE  RequestsInv' /\ CommandFollows
<1>1. /\ CommandFollows
      /\ command' \in Commanding
  <2>1. CASE Decides \/ Answers
    <3>1. \E S \in SUBSET Ids : Proceeds(S, routes)
      BY <2>1 DEF Decides, Answers, Pending
    <3> QED BY <3>1, ProceedsFacts DEF RequestsInv, RequestsTyped, CommandFollows
  <2>2. CASE Stops
    BY <2>2 DEF Stops, CommandFollows, AtRest, Commanding
  <2>3. CASE Connects
    <3>1. CASE Expired(command.call)
      BY <2>3, <3>1 DEF Connects, CommandFollows, AtRest, Commanding
    <3>2. CASE ~Expired(command.call)
      BY <2>3, <3>2 DEF Connects, CommandFollows, Expired, RequestsInv, RequestsTyped, Commanding
    <3> QED BY <3>1, <3>2
  <2> QED BY <2>1, <2>2, <2>3
<1>2. UNCHANGED <<conn, link, native, asked, lane, news, active, routes, handler, task,
                  recentCalls, recentTurns, answers, gate, late, cut>>
  BY DEF Decides, Answers, Stops, Connects, nativeSide, bridgeSide, gateSide
<1>3. RequestsTyped'
  BY <1>1, <1>2 DEF RequestsInv, RequestsTyped
<1> QED BY <1>1, <1>2, <1>3, QuietKeeps
        DEF LaneFollows, GateFollows, HistoryGrows, HandlerFollows

(* The answer of the user: the route goes with it.                         *)
LEMMA SentKeeps ==
  ASSUME RequestsAssumed, RequestsInv, Sent
  PROVE  RequestsInv' /\ CommandFollows
<1> DEFINE c == command.call
<1>1. /\ command.at = "sends" /\ c \in Asked /\ asked[c] = conn /\ Decidable(c)
      /\ command.todo \in SUBSET Ids
  BY DEF Sent, RequestsInv, RequestsTyped, CommandInv, Commanding
<1>2. Responds(c, "user") /\ "user" \in Whose
  BY DEF Sent, Whose
<1>3. answers' \in [Asked -> Seq([by : Whose, on : Nat])]
  BY <1>1, <1>2, RespondsFacts
<1>4. /\ routes' \in [Ids -> Asked \cup {Nothing}] /\ routes'[Id[c]] = Nothing
      /\ \A i \in Ids : routes'[i] \in {routes[i], Nothing}
  BY <1>1, IdsTyped DEF Sent, RequestsInv, RequestsTyped
<1>5. \A i \in Ids : routes'[i] # Nothing => Id[routes'[i]] = i
  BY <1>4 DEF RequestsInv, RequestsTyped
<1>6. /\ command' \in Commanding
      /\ \/ command'.at \in {"idle", "stops"} /\ command'.call = Nothing
         \/ /\ command'.at = "waits" /\ command'.call # Nothing
            /\ routes'[Id[command'.call]] = command'.call
  <2> DEFINE table == routes'
  <2>1. Proceeds(command.todo, table)
    BY DEF Sent
  <2> HIDE DEF table
  <2>2. /\ table \in [Ids -> Asked \cup {Nothing}]
        /\ \A i \in Ids : table[i] # Nothing => Id[table[i]] = i
    BY <1>4, <1>5 DEF table
  <2> QED BY <1>1, <2>1, <2>2, ProceedsFacts DEF table
<1>7. \A d \in Asked : routes'[Id[d]] = d => routes[Id[d]] = d
  BY <1>4, IdsTyped DEF RequestsAssumed
<1>8. CommandFollows
  BY <1>6, <1>7 DEF CommandFollows, Commanding
<1>9. RequestsTyped'
  BY <1>3, <1>4, <1>5, <1>6 DEF Sent, RequestsInv, RequestsTyped, nativeSide, gateSide
<1>10. task[c] \notin Awake /\ routes'[Id[c]] # c
  BY <1>1, <1>4 DEF RequestsInv, TasksInv, Decidable, Tool, Awake, RequestsAssumed
<1>11. ~Untouched(c)
  BY DEF Untouched
<1>12. UNCHANGED <<conn, link, native, asked, lane, recentCalls, recentTurns, task, handler,
                   gate, late, cut>>
  BY DEF Sent, nativeSide, gateSide
<1> HIDE DEF c
<1> QED BY <1>1, <1>2, <1>7, <1>8, <1>9, <1>10, <1>11, <1>12, AnsweredKeeps DEF HandlerFollows

LEMMA StoppedKeeps ==
  ASSUME RequestsAssumed, RequestsInv, Stopped
  PROVE  RequestsInv'
<1>1. CommandFollows /\ command' = AtRest
  BY DEF Stopped, CommandFollows, AtRest
<1>0. /\ command' \in Commanding
      /\ UNCHANGED <<conn, link, asked, handler, task, recentCalls, recentTurns, answers,
                     gate, late, cut>>
  BY <1>1 DEF Stopped, AtRest, Commanding, gateSide
<1>4. /\ routes' \in [Ids -> Asked \cup {Nothing}]
      /\ \A i \in Ids : routes'[i] \in {routes[i], Nothing}
  BY DEF Stopped, RequestsInv, RequestsTyped
<1>6. \A d \in Asked : routes'[Id[d]] = d => routes[Id[d]] = d
  BY <1>4, IdsTyped DEF RequestsAssumed
<1>7. \A i \in Ids : routes'[i] # Nothing => Id[routes'[i]] = i
  BY <1>4 DEF RequestsInv, RequestsTyped
<1>2. CASE active = Nothing
  <2>0. UNCHANGED <<native, lane, news, active>>
    BY <1>2 DEF Stopped
  <2>1. RequestsTyped'
    BY <1>0, <1>4, <1>7, <2>0 DEF RequestsInv, RequestsTyped
  <2> QED BY <1>0, <1>1, <1>6, <2>0, <2>1, QuietKeeps
          DEF LaneFollows, GateFollows, HistoryGrows, HandlerFollows
<1>3. CASE active # Nothing
  <2>0. InTurn(active) \in SUBSET Asked
    BY DEF InTurn
  <2>1. LaneFollows /\ lane' \in Seq(Frames)
    BY <1>3, <2>0, LaneFollowsTold DEF Stopped, RequestsInv, RequestsTyped
  <2>2. /\ native' \in [Asked -> {"new", "open", "settled"}]
        /\ \A d \in Asked : native'[d] = "new" => native[d] = "new"
    BY <1>3, SettleFacts DEF Stopped, RequestsInv, RequestsTyped
  <2>3. news' \in Seq(News)
    <3> DEFINE n == [call |-> Nothing, turn |-> active]
    <3>1. n \in News
      BY DEF News, RequestsInv, RequestsTyped
    <3>2. news' = news \/ news' = Append(news, n)
      BY <1>3 DEF Stopped
    <3>3. news \in Seq(News)
      BY DEF RequestsInv, RequestsTyped
    <3> HIDE DEF n
    <3> QED BY <3>1, <3>2, <3>3
  <2>5. active' \in SomeTurn
    BY <1>3 DEF Stopped, SomeTurn
  <2>8. RequestsTyped'
    BY <1>0, <1>4, <1>7, <2>1, <2>2, <2>3, <2>5 DEF RequestsInv, RequestsTyped
  <2> QED BY <1>0, <1>1, <1>6, <2>1, <2>2, <2>8, QuietKeeps
          DEF GateFollows, HistoryGrows, HandlerFollows
<1> QED BY <1>2, <1>3

-----------------------------------------------------------------------------
(* The connection.                                                         *)

(* What the drain has in hand survives the loss.                           *)
LEMMA LostKeeps ==
  ASSUME RequestsAssumed, RequestsInv, Lost
  PROVE  RequestsInv'
<1>1. /\ UNCHANGED <<conn, native, asked, active, routes, task, recentCalls, recentTurns,
                     answers, gate, late, cut>>
      /\ link = "up" /\ link' = "down" /\ lane' = <<>> /\ news' = <<>> /\ Rests("lane")
      /\ command' = AtRest \/ (command' = command /\ command.at \notin {"sends", "stops"})
  BY DEF Lost, nativeSide, bridgeSide, gateSide
<1>2. "lane" \in Handlers /\ "gate" \in Handlers
  BY DEF Handlers
<1>3. /\ handler' \in [Handlers -> Handling] /\ handler'["lane"] = AtRest
      /\ handler'["gate"] = handler["gate"] /\ HandlerFollows
  <2>1. "gate" \in Handlers \ {"lane"}
    BY DEF Handlers
  <2> QED BY <1>1, <1>2, <2>1, RestTyped DEF RequestsInv
<1>4. RequestsTyped'
  <2>1. command' \in Commanding
    BY <1>1 DEF RequestsInv, RequestsTyped, AtRest, Commanding
  <2>2. lane' \in Seq(Frames) /\ news' \in Seq(News)
    BY <1>1
  <2> QED BY <1>1, <1>3, <2>1, <2>2 DEF RequestsInv, RequestsTyped
<1>s. \A c \in Asked : Standing(c)' <=> Standing(c)
  BY <1>1 DEF Standing
<1>u. \A c \in Asked : Untouched(c) => Untouched(c)'
  BY <1>1 DEF Untouched, AtRest, RequestsAssumed
<1>5. AskedOnce' /\ RoutesInv' /\ TasksInv' /\ AnswersInv'
  BY <1>1, <1>s DEF RequestsInv, AskedOnce, RoutesInv, TasksInv, AnswersInv
<1>6. LaneInv'
  BY <1>1 DEF LaneInv
<1>7. HandlerInv'
  <2>1. ASSUME NEW c \in Asked, handler["gate"].call = c PROVE Handled("gate", c)'
    <3>1. Handled("gate", c)
      BY <1>2, <2>1 DEF RequestsInv, HandlerInv
    <3> QED BY <1>1, <1>3, <1>s, <1>u, <3>1 DEF Handled
  <2>2. AtRest.call = Nothing /\ AtRest.at = "idle"
    BY DEF AtRest
  <2> QED BY <1>2, <1>3, <2>1, <2>2 DEF RequestsInv, HandlerInv, Handlers, RequestsAssumed
<1>8. CommandInv'
  BY <1>1 DEF RequestsInv, CommandInv, AtRest
<1>9. HeldInv'
  <2>1. ASSUME NEW c \in Asked, HeldOne(c) PROVE HeldOne(c)'
    BY <1>1, <1>3, <1>s, <1>u, <2>1, HandsKept DEF HeldOne
  <2>2. \A k \in DOMAIN gate.held : \A c \in Asked :
          Asking(k) /\ gate.held[k].call = c => HeldOne(c)'
    BY <2>1 DEF RequestsInv, HeldInv
  <2> QED BY <1>1, <2>2, HeldKept DEF RequestsInv, RequestsTyped, Gates, GateFollows
<1> QED BY <1>4, <1>5, <1>6, <1>7, <1>8, <1>9 DEF RequestsInv

(* Nothing is left of a connection that has been reset, but what the gate  *)
(* has.                                                                    *)
LEMMA HandlesResetKeeps ==
  ASSUME RequestsAssumed, RequestsInv, HandlesReset
  PROVE  RequestsInv'
<1>1. /\ link = "down" /\ link' = "clean" /\ task' = Cancelled(OfConnection)
      /\ routes' = [i \in Ids |-> IF routes[i] \in OfConnection THEN Nothing ELSE routes[i]]
      /\ late' = late \cup InGate
      /\ UNCHANGED <<conn, asked, lane, news, handler, command, recentCalls, recentTurns,
                     answers, gate, cut>>
  BY DEF HandlesReset
<1>2. PICK T \in SUBSET {TurnOf[routes[i]] : i \in {j \in Ids : routes[j] \in OfConnection}} :
        active' = (IF active \in T THEN Nothing ELSE active) /\ Settle(UNION {InTurn(t) : t \in T})
  BY DEF HandlesReset
<1>3. /\ native' \in [Asked -> {"new", "open", "settled"}]
      /\ \A d \in Asked : native'[d] = "new" => native[d] = "new"
  <2> DEFINE U == UNION {InTurn(t) : t \in T}
  <2>1. Settle(U) /\ U \in SUBSET Asked
    BY <1>2 DEF InTurn
  <2> HIDE DEF U
  <2> QED BY <2>1, SettleFacts DEF RequestsInv, RequestsTyped
<1>4. /\ routes' \in [Ids -> Asked \cup {Nothing}]
      /\ \A i \in Ids : routes'[i] # Nothing => Id[routes'[i]] = i
      /\ \A i \in Ids : routes'[i] \notin OfConnection
  BY <1>1 DEF RequestsInv, RequestsTyped, OfConnection, RequestsAssumed
<1>5. /\ task' \in [Asked -> Awake \cup {"none", "done", "cancelled"}]
      /\ \A c \in Asked : /\ task'[c] \in Awake => task[c] \in Awake /\ c \notin OfConnection
                          /\ task'[c] = "none" <=> task[c] = "none"
  BY <1>1 DEF Cancelled, RequestsInv, RequestsTyped, Awake
<1>6. active' \in SomeTurn
  BY <1>2 DEF RequestsInv, RequestsTyped, SomeTurn
<1>7. RequestsTyped'
  BY <1>1, <1>3, <1>4, <1>5, <1>6 DEF RequestsInv, RequestsTyped
<1>8. AskedOnce' /\ AnswersInv'
  BY <1>1, <1>3 DEF RequestsInv, AskedOnce, AnswersInv
<1>9. LaneInv' /\ CommandInv' /\ handler["lane"] = AtRest
  <2>1. lane' = <<>> /\ command.at # "sends"
    BY <1>1 DEF RequestsInv, LaneInv, CommandInv
  <2>2. handler["lane"] = AtRest
    <3>1. "lane" \in Handlers /\ handler["lane"] \in Handling
      BY DEF Handlers, RequestsInv, RequestsTyped
    <3>2. handler["lane"].call \notin Asked
      BY <1>1, <3>1 DEF RequestsInv, HandlerInv, Handled
    <3> QED BY <3>1, <3>2 DEF RequestsInv, HandlerInv, Handling
  <2> QED BY <1>1, <2>1, <2>2 DEF RequestsInv, LaneInv, CommandInv
<1>r. \A c \in Asked : routes'[Id[c]] = c => routes[Id[c]] = c /\ c \notin OfConnection
  BY <1>1, <1>4, IdsTyped DEF RequestsAssumed
<1>s. \A c \in Asked : Standing(c) /\ (c \in InGate \/ c \notin OfConnection) => Standing(c)'
  BY <1>1 DEF Standing, OfConnection
<1>u. \A c \in Asked : Untouched(c) => Untouched(c)'
  BY <1>1, <1>5, <1>r DEF Untouched
<1>10. HandlerInv'
  <2>1. ASSUME NEW c \in Asked, handler["gate"].call = c PROVE Handled("gate", c)'
    <3>1. Handled("gate", c) /\ c \in InGate
      BY <2>1 DEF RequestsInv, HandlerInv, InGate, Handlers
    <3> QED BY <1>1, <1>r, <1>s, <1>u, <3>1 DEF Handled
  <2>2. AtRest.call = Nothing /\ AtRest.at = "idle"
    BY DEF AtRest
  <2> QED BY <1>1, <1>9, <2>1, <2>2 DEF RequestsInv, HandlerInv, Handlers, RequestsAssumed
<1>11. HeldInv'
  <2>1. ASSUME NEW k \in DOMAIN gate.held, NEW c \in Asked, Asking(k), gate.held[k].call = c
        PROVE  HeldOne(c)'
    <3>1. HeldOne(c) /\ c \in InGate
      BY <2>1 DEF RequestsInv, HeldInv, InGate
    <3> QED BY <1>1, <1>s, <1>u, <3>1 DEF HeldOne, InHand
  <2> QED BY <1>1, <2>1, HeldKept DEF RequestsInv, RequestsTyped, Gates, GateFollows
<1>12. RoutesInv' /\ TasksInv'
  BY <1>1, <1>5, <1>r, <1>s DEF RequestsInv, RoutesInv, TasksInv
<1> QED BY <1>7, <1>8, <1>9, <1>10, <1>11, <1>12 DEF RequestsInv

LEMMA ReconnectsKeeps ==
  ASSUME RequestsAssumed, RequestsInv, Reconnects
  PROVE  RequestsInv'
<1>1. /\ link = "clean" /\ link' = "up" /\ conn' = conn + 1
      /\ UNCHANGED <<native, asked, lane, news, active, routes, handler, command, task,
                     recentCalls, recentTurns, answers, gate, late, cut>>
  BY DEF Reconnects, nativeSide, bridgeSide, gateSide
<1>2. conn \in Nat \ {0} /\ asked \in [Asked -> Nat]
  BY DEF RequestsInv, RequestsTyped
<1>3. RequestsTyped'
  <2>1. conn' \in Nat \ {0} /\ link' \in {"up", "down", "clean"}
    BY <1>1, <1>2
  <2> QED BY <1>1, <2>1 DEF RequestsInv, RequestsTyped
<1>4. AskedOnce' /\ AnswersInv'
  BY <1>1, <1>2 DEF RequestsInv, AskedOnce, AnswersInv
<1>5. lane' = <<>> /\ command'.at # "sends"
  BY <1>1 DEF RequestsInv, LaneInv, CommandInv
<1>s. \A c \in Asked : Standing(c) => Standing(c)'
  BY <1>1 DEF Standing
<1>u. \A c \in Asked : Untouched(c) => Untouched(c)'
  BY <1>1 DEF Untouched
<1>6. LaneInv'
  BY <1>5 DEF LaneInv
<1>9. HandlerInv'
  <2>1. \A w \in Handlers : \A c \in Asked : Handled(w, c) => Handled(w, c)'
    BY <1>1, <1>s, <1>u DEF Handled
  <2> QED BY <1>1, <2>1 DEF RequestsInv, HandlerInv
<1>10. HeldInv'
  <2>1. \A k \in DOMAIN gate.held : \A d \in Asked :
          Asking(k) /\ gate.held[k].call = d => HeldOne(d)'
    BY <1>1, <1>s, <1>u DEF RequestsInv, HeldInv, HeldOne, InHand
  <2> QED BY <1>1, <2>1, HeldKept DEF RequestsInv, RequestsTyped, Gates, GateFollows
<1>7. CommandInv'
  BY <1>1, <1>5 DEF RequestsInv, CommandInv
<1>8. RoutesInv' /\ TasksInv'
  BY <1>1, <1>s DEF RequestsInv, RoutesInv, TasksInv
<1> QED BY <1>3, <1>4, <1>6, <1>7, <1>8, <1>9, <1>10 DEF RequestsInv

-----------------------------------------------------------------------------
(* The bridge's side of the requests keeps the invariant.                  *)

LEMMA InitSound ==
  ASSUME RequestsAssumed, NEW calls, NEW faults, NEW switches,
         RequestsInit(calls, faults, switches)
  PROVE  RequestsInv
<1>1. RequestsTyped
  <2>1. AtRest \in Handling /\ AtRest \in Commanding
    BY DEF AtRest, Handling, Commanding
  <2>2. answers \in [Asked -> Seq([by : Whose, on : Nat])]
    BY DEF RequestsInit
  <2>3. handler \in [Handlers -> Handling] /\ command \in Commanding /\ gate \in Gates
    <3>1. NoGate \in Gates
      <4>1. <<>> \in Seq(Frames) /\ {} \in SUBSET SomeTurn /\ {} \in SUBSET (Turns \cup Unbound)
        OBVIOUS
      <4> QED BY <4>1 DEF Gates, NoGate
    <3> QED BY <2>1, <3>1 DEF RequestsInit
  <2>4. /\ lane \in Seq(Frames) /\ news \in Seq(News)
        /\ recentCalls \in Seq(Asked \cup {Nothing}) /\ recentTurns \in Seq(SomeTurn)
    BY DEF RequestsInit
  <2>5. /\ native \in [Asked -> {"new", "open", "settled"}] /\ asked \in [Asked -> Nat]
        /\ routes \in [Ids -> Asked \cup {Nothing}]
        /\ \A i \in Ids : routes[i] = Nothing
        /\ task \in [Asked -> Awake \cup {"none", "done", "cancelled"}]
        /\ active \in SomeTurn
    BY DEF RequestsInit, SomeTurn
  <2>6. conn \in Nat \ {0} /\ link \in {"up", "down", "clean"}
    BY DEF RequestsInit
  <2> QED BY <2>2, <2>3, <2>4, <2>5, <2>6 DEF RequestsTyped
<1>2. /\ conn = 1 /\ lane = <<>> /\ command = AtRest /\ gate.held = <<>>
      /\ \A w \in Handlers : handler[w] = AtRest
      /\ \A c \in Asked : asked[c] = 0 /\ task[c] = "none" /\ answers[c] = <<>>
      /\ \A i \in Ids : routes[i] = Nothing
  BY DEF RequestsInit, NoGate
<1>3. AskedOnce /\ LaneInv /\ CommandInv /\ AnswersInv
  BY <1>2 DEF AskedOnce, LaneInv, CommandInv, AnswersInv, AtRest
<1>6. HandlerInv /\ HeldInv
  BY <1>2 DEF HandlerInv, HeldInv, AtRest, RequestsAssumed, Handlers
<1>4. RoutesInv
  <2> SUFFICES ASSUME NEW c \in Asked, routes[Id[c]] = c
               PROVE  FALSE
    BY DEF RoutesInv
  <2> QED BY <1>2, IdsTyped DEF RequestsAssumed
<1>5. TasksInv
  BY <1>2 DEF TasksInv, Awake
<1> QED BY <1>1, <1>3, <1>4, <1>5, <1>6 DEF RequestsInv

LEMMA NextKeeps ==
  ASSUME RequestsAssumed, RequestsInv, [RequestsNext]_requestVars
  PROVE  RequestsInv'
<1>1. CASE \E t \in Turns : TurnStarts(t) \/ TurnEnds(t)
  BY <1>1, TurnStartsKeeps, TurnEndsKeeps
<1>2. CASE \E c \in Asked : \/ Asks(c) \/ Resolves(c) \/ Works(c) \/ NoticeFails(c)
                           \/ \E w \in Handlers : HandlingFails(w, c)
  BY <1>2, AsksKeeps, ResolvesKeeps, NoticeFailsKeeps, PostsKeeps, TimesOutKeeps,
     TaskStepsKeep, TaskRepliesKeeps DEF Works, HandlingFails
<1>3. CASE \E w \in Handlers : Handles(w)
  BY <1>3, TakesRequestKeeps, TakesResolvedKeeps, PostsKeeps, HandlerRespondsKeeps,
     SetsAsideKeeps, GateMoves, HandlerExpiresKeeps DEF Handles
<1>8. CASE GateHolds \/ DrainCancelled \/ DiscardCancelled
  BY <1>8, GateMoves, DrainCancelledKeeps
<1>4. CASE Observes
  BY <1>4, ObservesKeeps
<1>5. CASE Decides \/ Answers \/ Stops \/ CommandRuns
  BY <1>5, CommandsKeep, SentKeeps, StoppedKeeps DEF CommandRuns
<1>6. CASE Lost \/ HandlesReset \/ Reconnects
  BY <1>6, LostKeeps, HandlesResetKeeps, ReconnectsKeeps
<1>7. CASE UNCHANGED requestVars
  <2>1. RequestsTyped'
    BY <1>7 DEF requestVars, RequestsInv, RequestsTyped
  <2> QED BY <1>7, <2>1, QuietKeeps
          DEF requestVars, LaneFollows, GateFollows, HistoryGrows, HandlerFollows, CommandFollows
<1> QED BY <1>1, <1>2, <1>3, <1>4, <1>5, <1>6, <1>7, <1>8 DEF RequestsNext

(* Whatever happens, the command goes on to a request that stands.         *)
LEMMA CommandMoves ==
  ASSUME RequestsAssumed, RequestsInv, [RequestsNext]_requestVars
  PROVE  CommandFollows
<1>1. CASE Decides \/ Answers \/ Stops \/ Connects \/ Sent
  BY <1>1, CommandsKeep, SentKeeps
<1>2. CASE Stopped \/ Lost
  BY <1>2 DEF Stopped, Lost, CommandFollows, AtRest
<1>3. CASE \E t \in Turns : TurnStarts(t) \/ TurnEnds(t)
  BY <1>3 DEF TurnStarts, TurnEnds, CommandFollows
<1>4. ASSUME NEW c \in Asked, Asks(c) \/ Resolves(c) \/ Works(c) \/ NoticeFails(c)
      PROVE  CommandFollows
  BY <1>4 DEF Asks, Resolves, NoticeFails, Works, TaskWakes, TaskCalled, TaskReplies,
              CommandFollows
<1>7. ASSUME NEW c \in Asked, NEW w \in Handlers, HandlingFails(w, c)
      PROVE  CommandFollows
  BY <1>7 DEF HandlingFails, PostFails, TimesOut, CommandFollows
<1>5. ASSUME NEW w \in Handlers, Handles(w) PROVE CommandFollows
  <2>1. CASE w = "lane" /\ SetsAside
    BY <2>1 DEF SetsAside, CommandFollows
  <2>2. CASE w = "gate" /\ (GateOpens \/ Emptied \/ \E c \in Asked : HandlerExpires(c))
    BY <2>2 DEF GateOpens, Emptied, HandlerExpires, CommandFollows
  <2>3. ASSUME NEW c \in Asked,
               \/ TakesRequest(w, c) \/ TakesResolved(w, c) \/ FindsGone(w, c)
               \/ Posts(w, c) \/ Posted(w, c) \/ HandlerResponds(w, c)
        PROVE  CommandFollows
    BY <2>3 DEF TakesRequest, TakesResolved, FindsGone, Posts, Posted, HandlerResponds,
                CommandFollows
  <2> QED BY <1>5, <2>1, <2>2, <2>3 DEF Handles
<1>6. CASE Observes \/ HandlesReset \/ Reconnects \/ UNCHANGED requestVars
  BY <1>6 DEF Observes, HandlesReset, Reconnects, requestVars, CommandFollows
<1>8. CASE GateHolds \/ DrainCancelled \/ DiscardCancelled
  BY <1>8 DEF GateHolds, DrainCancelled, DiscardCancelled, CommandFollows
<1> QED BY <1>1, <1>2, <1>3, <1>4, <1>5, <1>6, <1>7, <1>8 DEF RequestsNext, CommandRuns

(* A dispatcher begins an answer as it takes a request or gives one up.    *)
LEMMA HandlerMoves ==
  ASSUME RequestsInv, [RequestsNext]_requestVars
  PROVE  HandlerFollows \/ \E v \in Handlers, c \in Asked : TakesRequest(v, c) \/ TimesOut(v, c)
<1>0. "lane" \in Handlers /\ "gate" \in Handlers
  BY DEF Handlers
<1>1. ASSUME NEW t \in Turns, TurnStarts(t) \/ TurnEnds(t) PROVE HandlerFollows
  BY <1>1 DEF TurnStarts, TurnEnds, HandlerFollows
<1>2. ASSUME NEW c \in Asked, Asks(c) \/ Resolves(c) \/ Works(c) PROVE HandlerFollows
  BY <1>2 DEF Asks, Resolves, Works, TaskWakes, TaskCalled, TaskReplies, HandlerFollows
<1>3. ASSUME NEW w \in Handlers, Rests(w) PROVE HandlerFollows
  BY <1>3, RestTyped DEF RequestsInv
<1>4. ASSUME NEW c \in Asked, NoticeFails(c) \/ HandlerExpires(c) PROVE HandlerFollows
  BY <1>0, <1>3, <1>4 DEF NoticeFails, HandlerExpires
<1>5. ASSUME NEW w \in Handlers, NEW c \in Asked,
             \/ FindsGone(w, c) \/ Posts(w, c) \/ Posted(w, c) \/ PostFails(w, c)
             \/ TakesResolved(w, c) \/ HandlerResponds(w, c)
      PROVE  HandlerFollows
  <2>1. CASE TakesResolved(w, c)
    BY <2>1 DEF TakesResolved, HandlerFollows
  <2>2. CASE HandlerResponds(w, c)
    BY <1>3, <2>2 DEF HandlerResponds
  <2> QED BY <1>5, <2>1, <2>2, PostsFollow
<1>6. ASSUME SetsAside \/ GateOpens \/ Emptied \/ GateHolds PROVE HandlerFollows
  BY <1>6 DEF SetsAside, GateOpens, Emptied, GateHolds, HandlerFollows
<1>7. CASE DrainCancelled \/ DiscardCancelled
  <2>1. Rests("gate") \/ handler' = handler
    BY <1>7 DEF DrainCancelled, DiscardCancelled
  <2> QED BY <1>0, <1>3, <2>1 DEF HandlerFollows
<1>8. CASE Decides \/ Answers \/ Stops \/ CommandRuns
  BY <1>8 DEF Decides, Answers, Stops, CommandRuns, Connects, Sent, Stopped, HandlerFollows
<1>9. CASE Observes \/ HandlesReset \/ Reconnects \/ UNCHANGED requestVars
  BY <1>9 DEF Observes, HandlesReset, Reconnects, requestVars, HandlerFollows
<1>10. CASE Lost
  BY <1>0, <1>3, <1>10 DEF Lost
<1>11. ASSUME NEW w \in Handlers, Handles(w)
       PROVE  HandlerFollows \/ \E c \in Asked : TakesRequest(w, c)
  BY <1>4, <1>5, <1>6, <1>11 DEF Handles
<1>12. ASSUME NEW w \in Handlers, NEW c \in Asked, HandlingFails(w, c)
       PROVE  HandlerFollows \/ TimesOut(w, c)
  BY <1>5, <1>12 DEF HandlingFails
<1> QED BY <1>1, <1>2, <1>4, <1>6, <1>7, <1>8, <1>9, <1>10, <1>11, <1>12 DEF RequestsNext

(* What is written, and for whom.                                          *)
LEMMA AnswersMove ==
  ASSUME [RequestsNext]_requestVars, answers' # answers
  PROVE  \/ \E c \in Asked : NoticeFails(c) \/ TaskReplies(c)
         \/ \E w \in Handlers, c \in Asked : HandlerResponds(w, c)
         \/ Sent
<1>1. ASSUME NEW t \in Turns, TurnStarts(t) \/ TurnEnds(t)
      PROVE  answers' = answers
  BY <1>1 DEF TurnStarts, TurnEnds
<1>2. ASSUME NEW c \in Asked,
             Asks(c) \/ Resolves(c) \/ TaskWakes(c) \/ TaskCalled(c) \/ HandlerExpires(c)
      PROVE  answers' = answers
  BY <1>2 DEF Asks, Resolves, TaskWakes, TaskCalled, HandlerExpires
<1>3. ASSUME NEW w \in Handlers, NEW c \in Asked,
             \/ TakesRequest(w, c) \/ TakesResolved(w, c) \/ FindsGone(w, c)
             \/ Posts(w, c) \/ Posted(w, c) \/ PostFails(w, c) \/ TimesOut(w, c)
      PROVE  answers' = answers
  BY <1>3 DEF TakesRequest, TakesResolved, FindsGone, Posts, Posted, PostFails, TimesOut
<1>4. ~(Decides \/ Answers \/ Stops \/ Connects \/ Stopped)
  BY DEF Decides, Answers, Stops, Connects, Stopped
<1>5. ~(Observes \/ Lost \/ HandlesReset \/ Reconnects \/ UNCHANGED requestVars)
  BY DEF Observes, Lost, HandlesReset, Reconnects, requestVars
<1>6. ~(GateHolds \/ GateOpens \/ Emptied \/ DiscardCancelled \/ DrainCancelled \/ SetsAside)
  BY GateMovesKeepsCommand
<1> QED BY <1>1, <1>2, <1>3, <1>4, <1>5, <1>6
        DEF RequestsNext, Handles, HandlingFails, Works, CommandRuns

(* A response is only written to the connection its request came from,     *)
(* and neither a route nor a task is left of one that has been reset, but  *)
(* those of a request that the gate had set aside at the reset:            *)
(* _reply_transport, handle_connection_reset and the lanes of the client.  *)
THEOREM AnswersGoHomeAlways ==
  ASSUME NEW calls, NEW faults, NEW switches
  PROVE  RequestsInit(calls, faults, switches) /\ [][RequestsNext]_requestVars => []AnswersGoHome
<1>1. RequestsInit(calls, faults, switches) => RequestsInv
  BY RequestsAssumption, InitSound
<1>2. RequestsInv /\ [RequestsNext]_requestVars => RequestsInv'
  BY RequestsAssumption, NextKeeps
<1>3. RequestsInv => AnswersGoHome
  BY DEF RequestsInv, RoutesInv, TasksInv, AnswersInv, AnswersGoHome, Awake, Standing
<1> QED BY <1>1, <1>2, <1>3, PTL

(* No response is begun for a request that has one: the dispatcher that    *)
(* gives a request up, the command that answers several, the tasks.        *)
THEOREM AnsweredOnceAlways ==
  ASSUME NEW calls, NEW faults, NEW switches
  PROVE  RequestsInit(calls, faults, switches) /\ [][RequestsNext]_requestVars => AnsweredOnce
<1>1. RequestsInit(calls, faults, switches) => RequestsInv
  BY RequestsAssumption, InitSound
<1>2. RequestsInv /\ [RequestsNext]_requestVars => RequestsInv'
  BY RequestsAssumption, NextKeeps
<1>3. RequestsInv /\ [RequestsNext]_requestVars
        => [\A c \in Asked : Begins(c) => answers[c] = <<>> \/ Hindered(c)]_requestVars
  <2> SUFFICES ASSUME RequestsInv, [RequestsNext]_requestVars, NEW c \in Asked, Begins(c),
                      ~Hindered(c)
               PROVE  answers[c] = <<>>
    OBVIOUS
  <2>0. c \notin cut /\ \A d \in late : Id[d] # Id[c]
    BY DEF Hindered
  <2>1. CASE command'.call = c /\ command.call # c
    <3>1. CommandFollows
      BY RequestsAssumption, CommandMoves
    <3>2. routes[Id[c]] = c
      BY <2>1, <3>1, RequestsAssumption DEF CommandFollows, RequestsAssumed
    <3> QED BY <2>0, <3>2 DEF RequestsInv, RoutesInv
  <2>2. ASSUME NEW w \in Handlers,
               handler'[w].call = c, handler'[w].at \in {"rejects", "responds"},
               handler[w].at # handler'[w].at
        PROVE  answers[c] = <<>>
    <3>0. ~HandlerFollows
      BY <2>2 DEF HandlerFollows, AtRest
    <3>1. PICK v \in Handlers, d \in Asked : TakesRequest(v, d) \/ TimesOut(v, d)
      BY <3>0, HandlerMoves
    <3>2. CASE TakesRequest(v, d)
      <4>1. w = v /\ handler'[v].call = d
        <5>1. handler' = handler \/ \E at \in {"emits", "responds"} :
                handler' = [handler EXCEPT ![v] = [AtRest EXCEPT !.call = d, !.at = at]]
          BY <3>2 DEF TakesRequest
        <5>2. PICK at \in {"emits", "responds"} :
                handler' = [handler EXCEPT ![v] = [AtRest EXCEPT !.call = d, !.at = at]]
          BY <2>2, <5>1
        <5> QED BY <2>2, <5>2 DEF RequestsInv, RequestsTyped, AtRest
      <4>2. Untouched(d) \/ d \in cut
        BY <3>2, RequestsAssumption, TakenIsNew DEF TakesRequest
      <4> QED BY <2>0, <2>2, <4>1, <4>2 DEF Untouched
    <3>3. CASE TimesOut(v, d)
      <4>1. /\ handler[v].call = d /\ handler[v].at \in {"emits", "posting"} /\ ~Gone(d)
            /\ handler' = [handler EXCEPT ![v].at = "rejects"]
        <5>1. ~Rests(v)
          BY <3>0, RestTyped DEF RequestsInv
        <5> QED BY <3>3, <5>1 DEF TimesOut
      <4>2. w = v /\ c = d
        BY <2>2, <4>1 DEF RequestsInv, RequestsTyped, Handling
      <4>3. Standing(c) /\ c \notin late
        BY <2>0, <4>1, <4>2 DEF RequestsInv, HandlerInv, Handled
      <4>4. PICK e \in Asked : e = routes[Id[c]]
        BY <4>1, <4>2, IdsTyped DEF Gone, RequestsInv, RequestsTyped
      <4>5. Id[e] = Id[c] /\ routes[Id[e]] = e
        BY <4>4, IdsTyped, RequestsAssumption DEF RequestsInv, RequestsTyped, RequestsAssumed
      <4>6. Standing(e) /\ e \notin late /\ (answers[e] = <<>> \/ e \in cut)
        BY <2>0, <4>5 DEF RequestsInv, RoutesInv
      <4>7. e = c
        BY <4>3, <4>5, <4>6 DEF RequestsInv, AskedOnce, Standing
      <4> QED BY <2>0, <4>6, <4>7
    <3> QED BY <3>1, <3>2, <3>3
  <2>3. CASE task'[c] \in {"calls", "replies"} /\ task[c] = "sleeps"
    BY <2>3 DEF RequestsInv, TasksInv, Awake
  <2> QED BY <2>1, <2>2, <2>3 DEF Begins
<1> QED BY <1>1, <1>2, <1>3, PTL DEF AnsweredOnce

(* A call of a tool whose completion has been seen is left to the peer     *)
(* that answered: the observation cancels the task, or keeps it from       *)
(* starting.                                                               *)
THEOREM PeerKeepsItsCallAlways ==
  ASSUME NEW calls, NEW faults, NEW switches
  PROVE  RequestsInit(calls, faults, switches) /\ [][RequestsNext]_requestVars => PeerKeepsItsCall
<1>1. RequestsInit(calls, faults, switches) => RequestsInv
  BY RequestsAssumption, InitSound
<1>2. RequestsInv /\ [RequestsNext]_requestVars => RequestsInv'
  BY RequestsAssumption, NextKeeps
<1>3. RequestsInv /\ [RequestsNext]_requestVars
        => [\A c \in Asked : Tool(c) /\ answers'[c] # answers[c] =>
              c \notin ToSet(recentCalls) /\ TurnOf[c] \notin ToSet(recentTurns)]_requestVars
  <2> SUFFICES ASSUME RequestsInv, [RequestsNext]_requestVars, NEW c \in Asked,
                      Tool(c), answers'[c] # answers[c]
               PROVE  c \notin ToSet(recentCalls) /\ TurnOf[c] \notin ToSet(recentTurns)
    OBVIOUS
  <2>1. CASE Sent
    <3>1. command.call \in Asked /\ Decidable(command.call)
      BY <2>1 DEF Sent, RequestsInv, RequestsTyped, CommandInv, Commanding
    <3>2. c # command.call
      BY <3>1 DEF Decidable, Tool
    <3>3. answers'[c] = answers[c]
      BY <2>1, <3>1, <3>2 DEF Sent, Responds, RequestsInv, RequestsTyped
    <3> QED BY <3>3
  <2>2. ASSUME NEW d \in Asked, NEW w \in Handlers, handler[w].call = d,
               handler[w].at \in {"responds", "rejects"}, NEW who, Responds(d, who)
        PROVE  answers'[c] = answers[c]
    <3>1. c # d
      BY <2>2, RequestsAssumption, HandFacts
    <3> QED BY <2>2, <3>1 DEF Responds, RequestsInv, RequestsTyped
  <2>4. ASSUME NEW d \in Asked, NEW w \in Handlers, HandlerResponds(w, d)
        PROVE  answers'[c] = answers[c]
    BY <2>2, <2>4 DEF HandlerResponds
  <2>5. ASSUME NEW d \in Asked, NoticeFails(d)
        PROVE  answers'[c] = answers[c]
    <3>1. "gate" \in Handlers
      BY DEF Handlers
    <3> QED BY <2>2, <2>5, <3>1 DEF NoticeFails, HandlerAt
  <2>3. ASSUME NEW d \in Asked, TaskReplies(d)
        PROVE  c \notin ToSet(recentCalls) /\ TurnOf[c] \notin ToSet(recentTurns)
    <3>1. c = d
      BY <2>3 DEF TaskReplies, Responds, RequestsInv, RequestsTyped
    <3> QED BY <2>3, <3>1 DEF TaskReplies, RequestsInv, TasksInv, Awake
  <2> QED BY <2>1, <2>3, <2>4, <2>5, AnswersMove
<1> QED BY <1>1, <1>2, <1>3, PTL DEF PeerKeepsItsCall

(* Together: whatever the user, the commands, the time-outs and the peers  *)
(* do, a request is answered once, and by the peer that serves it.         *)
THEOREM RequestsAreAnsweredOnceAlways ==
  ASSUME NEW calls, NEW faults, NEW switches
  PROVE  RequestsInit(calls, faults, switches) /\ [][RequestsNext]_requestVars
         => RequestsAreAnsweredOnce
BY AnsweredOnceAlways, PeerKeepsItsCallAlways, PTL DEF RequestsAreAnsweredOnce
-----------------------------------------------------------------------------
(* Only a new connection has a new epoch.                                  *)
LEMMA EpochStays ==
  ASSUME RequestsNext
  PROVE  conn' = conn \/ (conn < Connections /\ conn' = conn + 1)
<1>1. ASSUME NEW t \in Turns, TurnStarts(t) \/ TurnEnds(t) PROVE conn' = conn
  BY <1>1, Zenon DEF TurnStarts, TurnEnds
<1>2. ASSUME NEW c \in Asked, Asks(c) \/ Resolves(c) \/ NoticeFails(c) PROVE conn' = conn
  BY <1>2, Zenon DEF Asks, Resolves, NoticeFails
<1>10. ASSUME NEW w \in Handlers, NEW c \in Asked, HandlingFails(w, c) PROVE conn' = conn
  BY <1>10, Zenon DEF HandlingFails, PostFails, TimesOut
<1>3. ASSUME NEW c \in Asked, Works(c) PROVE conn' = conn
  BY <1>3, Zenon DEF Works, TaskWakes, TaskCalled, TaskReplies
<1>11. ASSUME GateHolds \/ GateOpens \/ Emptied \/ DiscardCancelled \/ DrainCancelled \/ SetsAside
       PROVE  conn' = conn
  BY <1>11, GateMovesKeepsCommand
<1>4. ASSUME NEW w \in Handlers, Handles(w) PROVE conn' = conn
  <2>1. ASSUME NEW c \in Asked,
               \/ TakesRequest(w, c) \/ TakesResolved(w, c) \/ FindsGone(w, c) \/ Posts(w, c)
               \/ Posted(w, c) \/ HandlerResponds(w, c) \/ HandlerExpires(c)
        PROVE  conn' = conn
    BY <2>1, Zenon DEF TakesRequest, TakesResolved, FindsGone, Posts, Posted,
                       HandlerResponds, HandlerExpires
  <2> QED BY <1>4, <1>11, <2>1 DEF Handles
<1>5. CASE Observes
  BY <1>5, Zenon DEF Observes
<1>6. CASE Decides \/ Answers \/ Stops
  BY <1>6, Zenon DEF Decides, Answers, Stops
<1>7. CASE CommandRuns
  BY <1>7, Zenon DEF CommandRuns, Connects, Sent, Stopped
<1>8. CASE Lost \/ HandlesReset
  BY <1>8, Zenon DEF Lost, HandlesReset
<1>9. CASE Reconnects
  BY <1>9 DEF Reconnects
<1> QED BY <1>1, <1>2, <1>3, <1>4, <1>5, <1>6, <1>7, <1>8, <1>9, <1>10, <1>11
        DEF RequestsNext

(* Native requests keep to their types: a route is of a request with its id, and
   the dispatcher and the command are at a step of theirs (client.py,
   message_pump.py, core.py). *)
THEOREM RequestsKeepTheirTypes ==
  ASSUME NEW calls, NEW faults, NEW switches
  PROVE  RequestsInit(calls, faults, switches) /\ [][RequestsNext]_requestVars => []RequestsTypeOK
<1> DEFINE Bounded == conn <= Connections
<1>1. RequestsInit(calls, faults, switches) => RequestsInv /\ Bounded
  <2>1. RequestsInit(calls, faults, switches) => Bounded
    BY ConnectionsAssumption DEF RequestsInit
  <2> QED BY <2>1, RequestsAssumption, InitSound
<1>2. RequestsInv /\ Bounded /\ [RequestsNext]_requestVars => RequestsInv' /\ Bounded'
  <2> SUFFICES ASSUME RequestsInv, Bounded, [RequestsNext]_requestVars
               PROVE  RequestsInv' /\ Bounded'
    OBVIOUS
  <2>1. conn' = conn \/ (conn < Connections /\ conn' = conn + 1)
    BY EpochStays DEF requestVars
  <2>2. conn \in Nat
    BY DEF RequestsInv, RequestsTyped
  <2>3. Bounded'
    BY <2>1, <2>2, ConnectionsAssumption
  <2> QED BY <2>3, RequestsAssumption, NextKeeps
<1>3. RequestsInv /\ Bounded => RequestsTypeOK
  BY ConnectionsAssumption
     DEF RequestsInv, RequestsTyped, RequestsTypeOK, Gates, Handling, Commanding
<1> QED BY <1>1, <1>2, <1>3, PTL
==============================================================================
