---------------------------- MODULE ChannelsProofs ----------------------------
(***************************************************************************)
(* For any messages, callers, conversations, limits, gateways and faults:  *)
(* a message is executed once for every time its marker is lost and once   *)
(* more, the notice that an answer has expired is for old messages only,   *)
(* and no cursor passes a message that is not done.                        *)
(***************************************************************************)
EXTENDS ChannelAdapters, FiniteSetTheorems, WellFoundedInduction, TLAPS

-----------------------------------------------------------------------------
(* The middleware.                                                         *)

Working == {"preparing", "executing", "committing", "replaying", "sending"}
CallTyped ==
  call \in [Callers -> [msg : Messages \union {None},
                        at : {"idle", "admission"} \union Places,
                        reply : {None, "answer", "expired"}]]
Marks == [Conversations -> [ids : Seq(Messages), replies : Seq(Messages)]]
MiddlewareTyped ==
  /\ CallTyped /\ \A w \in Callers : call[w].at # "idle" => call[w].msg \in Messages
  /\ lockQueue \in [Conversations -> Seq(Callers)]
  /\ markers \in Marks /\ disk \in Marks
  /\ executed \in [Messages -> Nat] /\ forgotten \in [Messages -> Nat]

(* Whoever works on a message has the lock of its conversation; whoever is *)
(* left to execute or record it has found no marker of it.                 *)
LockIsHeld == \A w \in Callers : call[w].at \in Working => HoldsLock(w)
NotYetMarked ==
  \A w \in Callers :
    call[w].at \in {"preparing", "executing", "committing"} => ~IsDuplicate(call[w].msg)
(* An upload is held until its message is executed.                        *)
UploadsHeld ==
  \A w \in Callers :
    /\ w \in held => call[w].at \in {"waiting", "preparing"} /\ call[w].msg \in Media
    /\ call[w].at = "admission" => call[w].msg \in Media /\ w \notin held

InExecution(m) == \E w \in Callers : call[w].msg = m /\ call[w].at \in {"executing", "committing"}
(* An execution too many is one that is marked, or is about to be.         *)
ExecutionsCounted ==
  \A m \in Messages :
    /\ executed[m] <= 1 + forgotten[m]
    /\ executed[m] > forgotten[m] => IsDuplicate(m) \/ InExecution(m)

(* The kept replies are those of the newest ids.                           *)
Suffix(r, s, n) ==
  /\ Len(r) = (IF Len(s) > n THEN n ELSE Len(s))
  /\ \A k \in 1..Len(r) : r[k] = s[Len(s) - Len(r) + k]
RepliesAreNewest ==
  \A c \in Conversations : /\ Suffix(markers[c].replies, markers[c].ids, ReplyLimit)
                           /\ Suffix(disk[c].replies, disk[c].ids, ReplyLimit)

ReturnedIsTold == \A w \in Callers : call[w].at = "returned" => Told(call[w].msg)
Answering == \A w \in Callers : call[w].at = "sending" => call[w].reply \in {"answer", "expired"}

MiddlewareInv ==
  /\ MiddlewareTyped /\ LockIsHeld /\ NotYetMarked /\ UploadsHeld /\ ExecutionsCounted
  /\ RepliesAreNewest /\ NoticeOnlyWhenOld /\ ReturnedIsTold /\ Answering

-----------------------------------------------------------------------------
(* The adapters.                                                           *)

Entries == [msg : Messages, seq : Nat, epoch : Nat]
AdapterTyped ==
  /\ channel \in Adapters \union {None} /\ queue \in Seq(Entries)
  /\ arrived \in Nat /\ arrived <= Cardinality(Messages)
  /\ cursor \in Nat /\ saved \in Nat /\ forgets \in Nat /\ batchEnd \in Nat
  /\ log \in Seq(Messages \union {Ready})
  /\ client \in [session : Nat, lastSeq : Nat, epoch : Nat, up : BOOLEAN, wire : Nat,
                 platform : Nat]

(* The task of an adapter works on what is first in its queue.             *)
LoopInv ==
  /\ \A w \in Callers : call[w].at = "admission" => channel = "web"
  /\ channel \in {"telegram", "weixin", "qq"} /\ call[Loop].at # "idle" =>
       queue # <<>> /\ call[Loop].msg = Current

Done(m) == m \in Denied \/ Told(m)
Passed(n) == \A m \in 1..n : Done(m)
(* A batch is what comes after the messages that are done.                 *)
PollInv ==
  channel \in Polling =>
    /\ Passed(cursor) /\ Passed(saved) /\ Passed(forgets)
    /\ \A i \in DOMAIN queue :
         /\ queue[i].msg = queue[i].seq
         /\ queue[i].seq = queue[1].seq + i - 1
    /\ queue # <<>> =>
         /\ queue[1].seq # 0 /\ Passed(queue[1].seq - 1)
         /\ channel = "weixin" => batchEnd = queue[1].seq + Len(queue) - 1

(* QQ: while no session has been invalidated, what the client has received *)
(* of its session is done, or in the queue before what came after it.      *)
Fine(p) == log[p] = Ready \/ Done(log[p])
QueuedUpTo(p, n) == \E j \in 1..n : queue[j].msg = log[p]
InSession ==
  /\ client.lastSeq <= Len(log) /\ (client.up => client.wire <= Len(log))
  /\ \A p \in DOMAIN log : p <= client.lastSeq => Fine(p)
  /\ client.up => \A p \in DOMAIN log : p <= client.wire => Fine(p) \/ QueuedUpTo(p, Len(queue))
  /\ \A i \in DOMAIN queue :
       /\ queue[i].seq \in DOMAIN log /\ queue[i].msg = log[queue[i].seq]
       /\ \A p \in DOMAIN log : p <= queue[i].seq => Fine(p) \/ QueuedUpTo(p, i)
BeforeSession ==
  /\ queue = <<>> /\ client.lastSeq = 0
  /\ client.up => client.wire = 0 /\ log # <<>> /\ log[1] = Ready
GatewayInv ==
  channel = "qq" =>
    /\ client.session <= client.platform /\ (client.up => client.platform # 0)
    /\ client.epoch = 0 /\ client.session = 0 => BeforeSession
    /\ client.epoch = 0 /\ client.session # 0 /\ client.session = client.platform => InSession

AdapterInv == AdapterTyped /\ LoopInv /\ PollInv /\ GatewayInv
ChannelsInv == MiddlewareInv /\ AdapterInv

-----------------------------------------------------------------------------
(* Sequences and numbers.                                                  *)

LEMMA MaxOfTwo ==
  ASSUME NEW a \in Nat, NEW b \in Nat
  PROVE  Max({a, b}) \in {a, b} /\ Max({a, b}) >= a /\ Max({a, b}) >= b
<1>1. \E x \in {a, b} : \A y \in {a, b} : x >= y
  <2>1. CASE a >= b BY <2>1
  <2>2. CASE ~(a >= b) BY <2>2
  <2> QED BY <2>1, <2>2
<1> QED BY <1>1 DEF Max

LEMMA MinOfTwo ==
  ASSUME NEW a \in Nat, NEW b \in Nat
  PROVE  Min({a, b}) \in {a, b} /\ Min({a, b}) <= a /\ Min({a, b}) <= b
<1>1. \E x \in {a, b} : \A y \in {a, b} : x <= y
  <2>1. CASE a <= b BY <2>1
  <2>2. CASE ~(a <= b) BY <2>2
  <2> QED BY <2>1, <2>2
<1> QED BY <1>1 DEF Min

LEMMA Least ==
  ASSUME NEW I, I # {}, I \subseteq Nat
  PROVE  \E m \in I : \A i \in I : m <= i
<1> DEFINE R == OpToRel(<, Nat)
<1>1. IsWellFoundedOn(R, Nat)
  BY NatLessThanWellFounded, Zenon
<1>2. R = {ss \in Nat \X Nat : ss[1] < ss[2]}
  BY DEF OpToRel
<1> HIDE DEF R
<1>3. PICK m \in I : \A i \in I : ~(<<i, m>> \in R)
  BY <1>1, WFMin
<1>4. \A i \in I : ~(i < m)
  BY <1>2, <1>3
<1> QED BY <1>4

(* Who leaves a lock does not move the one that holds it.                  *)
LEMMA LeavingKeepsHead ==
  ASSUME NEW S, NEW s \in Seq(S), NEW x
  PROVE  /\ RemoveFirst(s, x) \in Seq(S)
         /\ s # <<>> /\ Head(s) # x => /\ RemoveFirst(s, x) # <<>>
                                       /\ Head(RemoveFirst(s, x)) = Head(s)
<1>1. CASE \E i \in 1..Len(s) : s[i] = x
  <2> DEFINE I == {i \in 1..Len(s) : s[i] = x}
             n == Min(I)
             a == SubSeq(s, 1, n - 1)
             b == SubSeq(s, n + 1, Len(s))
  <2>1. \E m \in I : \A i \in I : m <= i
    <3>1. I # {} /\ I \subseteq Nat
      BY <1>1
    <3> QED BY <3>1, Least
  <2>2. n \in I
    BY <2>1 DEF Min
  <2>3. n \in 1..Len(s) /\ s[n] = x
    BY <2>2
  <2>4. RemoveFirst(s, x) = a \o b
    BY <1>1 DEF RemoveFirst, RemoveAt, SelectInSeq
  <2> HIDE DEF n, I
  <2>5. /\ a \in Seq(S) /\ Len(a) = n - 1 /\ \A i \in 1..(n - 1) : a[i] = s[i]
        /\ b \in Seq(S)
    BY <2>3
  <2> HIDE DEF a, b
  <2>6. a \o b \in Seq(S)
    BY <2>5
  <2>7. s # <<>> /\ Head(s) # x => a \o b # <<>> /\ Head(a \o b) = Head(s)
    BY <2>3, <2>5
  <2> QED BY <2>4, <2>6, <2>7
<1>2. CASE ~\E i \in 1..Len(s) : s[i] = x
  BY <1>2 DEF RemoveFirst
<1> QED BY <1>1, <1>2

LEMMA AppendKeepsHead ==
  ASSUME NEW S, NEW s \in Seq(S), NEW x \in S
  PROVE  /\ Append(s, x) \in Seq(S)
         /\ s # <<>> => Append(s, x) # <<>> /\ Head(Append(s, x)) = Head(s)
OBVIOUS

LEMMA NewestFacts ==
  ASSUME NEW S, NEW s \in Seq(S), NEW n \in Nat
  PROVE  /\ Newest(s, n) \in Seq(S)
         /\ Len(Newest(s, n)) = (IF Len(s) > n THEN n ELSE Len(s))
         /\ \A k \in 1..Len(Newest(s, n)) :
              Newest(s, n)[k] = s[Len(s) - Len(Newest(s, n)) + k]
<1> DEFINE l == Len(s)
           t == SubSeq(s, l - n + 1, l)
<1>0. l \in Nat
  OBVIOUS
<1>1. CASE l > n
  <2>1. l - n + 1 \in 1..(l + 1) /\ l - (l - n + 1) + 1 = n
    BY <1>0, <1>1
  <2>2. t \in Seq(S) /\ Len(t) = n /\ \A k \in 1..n : t[k] = s[l - n + 1 + k - 1]
    BY <1>0, <1>1, <2>1
  <2>3. \A k \in 1..n : l - n + 1 + k - 1 = l - n + k
    BY <1>0
  <2>4. Newest(s, n) = t
    BY <1>1 DEF Newest
  <2> HIDE DEF t, l
  <2> QED BY <1>1, <2>2, <2>3, <2>4 DEF l
<1>2. CASE ~(l > n)
  <2>1. Newest(s, n) = s
    BY <1>2 DEF Newest
  <2>2. \A k \in 1..l : l - l + k = k
    BY <1>0
  <2> QED BY <1>0, <1>2, <2>1, <2>2
<1> QED BY <1>1, <1>2

(* A new id pushes out the oldest ones, and never itself.                  *)
LEMMA NewestKeepsLast ==
  ASSUME NEW S, NEW s \in Seq(S), NEW n \in Nat \ {0}, NEW x \in S
  PROVE  x \in ToSet(Newest(Append(s, x), n))
<1> DEFINE t == Append(s, x)
           r == Newest(t, n)
<1>1. t \in Seq(S) /\ Len(t) = Len(s) + 1 /\ t[Len(t)] = x
  OBVIOUS
<1> HIDE DEF t
<1>2. /\ r \in Seq(S) /\ Len(r) = (IF Len(t) > n THEN n ELSE Len(t))
      /\ \A k \in 1..Len(r) : r[k] = t[Len(t) - Len(r) + k]
  BY <1>1, NewestFacts
<1> HIDE DEF r
<1>3. Len(r) \in 1..Len(r) /\ Len(t) - Len(r) + Len(r) = Len(t)
  BY <1>1, <1>2
<1>4. r[Len(r)] = x /\ Len(r) \in DOMAIN r
  <2>1. DOMAIN r = 1..Len(r)
    BY <1>2
  <2>2. r[Len(r)] = t[Len(t) - Len(r) + Len(r)]
    BY <1>2, <1>3
  <2> QED BY <1>1, <1>3, <2>1, <2>2
<1>5. x \in ToSet(r)
  BY <1>4 DEF ToSet
<1> QED BY <1>5 DEF t, r

LEMMA NotThereNotRemoved ==
  ASSUME NEW S, NEW s \in Seq(S), NEW x, x \notin ToSet(s)
  PROVE  RemoveFirst(s, x) = s
BY DEF RemoveFirst, ToSet

(* What is kept of the replies stays the end of what is kept of the ids.   *)
LEMMA SuffixKept ==
  ASSUME NEW S, NEW r \in Seq(S), NEW s \in Seq(S), NEW x \in S,
         NEW n \in Nat \ {0}, NEW k \in Nat, n <= k, Suffix(r, s, n)
  PROVE  Suffix(Newest(Append(r, x), n), Newest(Append(s, x), k), n)
<1> DEFINE r1 == Append(r, x)
           s1 == Append(s, x)
           r2 == Newest(r1, n)
           s2 == Newest(s1, k)
<1>1. /\ r1 \in Seq(S) /\ Len(r1) = Len(r) + 1 /\ r1[Len(r1)] = x
      /\ \A i \in 1..Len(r) : r1[i] = r[i]
      /\ s1 \in Seq(S) /\ Len(s1) = Len(s) + 1 /\ s1[Len(s1)] = x
      /\ \A i \in 1..Len(s) : s1[i] = s[i]
  OBVIOUS
<1> HIDE DEF r1, s1
<1>2. /\ r2 \in Seq(S) /\ Len(r2) = (IF Len(r1) > n THEN n ELSE Len(r1))
      /\ \A i \in 1..Len(r2) : r2[i] = r1[Len(r1) - Len(r2) + i]
      /\ s2 \in Seq(S) /\ Len(s2) = (IF Len(s1) > k THEN k ELSE Len(s1))
      /\ \A i \in 1..Len(s2) : s2[i] = s1[Len(s1) - Len(s2) + i]
  BY <1>1, NewestFacts
<1> HIDE DEF r2, s2
<1>3. Len(r) = (IF Len(s) > n THEN n ELSE Len(s)) /\ Len(r) \in Nat /\ Len(s) \in Nat
  BY DEF Suffix
<1>4. Len(r2) = (IF Len(s2) > n THEN n ELSE Len(s2))
  BY <1>1, <1>2, <1>3
<1>5. ASSUME NEW i \in 1..Len(r2)
      PROVE  r2[i] = s2[Len(s2) - Len(r2) + i]
  <2> DEFINE lr == Len(r)
             ls == Len(s)
             l1 == Len(r1)
             m1 == Len(s1)
             l2 == Len(r2)
             m2 == Len(s2)
             j == l1 - l2 + i
             m == m1 - l2 + i
  <2>0. /\ lr \in Nat /\ ls \in Nat /\ l2 \in Nat /\ m2 \in Nat
        /\ l1 = lr + 1 /\ m1 = ls + 1 /\ i \in 1..l2
        /\ lr = (IF ls > n THEN n ELSE ls) /\ l2 = (IF l1 > n THEN n ELSE l1)
        /\ m2 = (IF m1 > k THEN k ELSE m1) /\ l2 = (IF m2 > n THEN n ELSE m2)
    BY <1>1, <1>2, <1>3, <1>4
  <2>1. r2[i] = r1[j]
    BY <1>2
  <2>2. m2 - l2 + i \in 1..m2 => s2[m2 - l2 + i] = s1[m1 - m2 + (m2 - l2 + i)]
    BY <1>2
  <2>3. \A h \in 1..lr : r[h] = s[ls - lr + h] /\ r1[h] = r[h]
    BY <1>1 DEF Suffix
  <2>4. \A h \in 1..ls : s1[h] = s[h]
    BY <1>1
  <2>5. r1[l1] = x /\ s1[m1] = x
    BY <1>1
  <2>6. SUFFICES r2[i] = s2[m2 - l2 + i]
    OBVIOUS
  <2> HIDE DEF lr, ls, l1, m1, l2, m2
  <2>7. /\ m2 - l2 + i \in 1..m2 /\ m1 - m2 + (m2 - l2 + i) = m
        /\ j \in 1..l1 /\ m \in 1..m1
        /\ j = l1 => m = m1
        /\ j # l1 => j \in 1..lr /\ m \in 1..ls /\ ls - lr + j = m
    BY <2>0
  <2> HIDE DEF j, m
  <2> QED BY <2>1, <2>2, <2>3, <2>4, <2>5, <2>7
<1>6. Suffix(r2, s2, n)
  BY <1>4, <1>5 DEF Suffix
<1> QED BY <1>6 DEF r1, s1, r2, s2

-----------------------------------------------------------------------------
(* A caller goes on, without executing or recording anything.              *)

Calls == [msg : Messages \union {None}, at : {"idle", "admission"} \union Places,
          reply : {None, "answer", "expired"}]
Old(m) == LET ids == markers[ConversationOf[m]].ids
          IN \A i \in 1..Len(ids) : ids[i] = m => Len(ids) - i >= ReplyLimit
HeadsKept(w) ==
  \A c \in Conversations : \A v \in Callers \ {w} :
    lockQueue[c] # <<>> /\ Head(lockQueue[c]) = v =>
      lockQueue'[c] # <<>> /\ Head(lockQueue'[c]) = v
WillBeTold(m) == \E kind \in {"answer", "expired"} : <<m, kind>> \in told'
MayBecome(w, r) ==
  /\ r.at # "idle" => r.msg \in Messages
  /\ r.at \in Working => r.msg = call[w].msg /\ HoldsLock(w) /\ lockQueue' = lockQueue
  /\ r.at \in {"preparing", "executing", "committing"} => ~IsDuplicate(r.msg)
  /\ w \in held' => r.at \in {"waiting", "preparing"} /\ r.msg \in Media
  /\ r.at = "admission" => r.msg \in Media /\ w \notin held'
  /\ r.at = "sending" => r.reply \in {"answer", "expired"}
  /\ r.at = "sending" /\ r.reply = "expired" => Old(r.msg)
  /\ r.at = "returned" => WillBeTold(r.msg)

LEMMA QuietCallerKeeps ==
  ASSUME MiddlewareInv, NEW w \in Callers, NEW r \in Calls, call' = [call EXCEPT ![w] = r],
         UNCHANGED <<markers, executed, forgotten>>, disk' = disk \/ disk' = markers,
         told \subseteq told', held' \subseteq held \union {w},
         lockQueue' \in [Conversations -> Seq(Callers)], HeadsKept(w), MayBecome(w, r),
         call[w].at \in {"executing", "committing"} =>
           r.at \in {"executing", "committing"} /\ r.msg = call[w].msg
  PROVE  MiddlewareInv'
<1>1. call \in [Callers -> Calls] /\ call' \in [Callers -> Calls]
      /\ call'[w] = r /\ \A v \in Callers \ {w} : call'[v] = call[v]
  BY DEF MiddlewareInv, MiddlewareTyped, CallTyped, Calls
<1>2. MiddlewareTyped'
  <2>1. CallTyped'
    BY <1>1 DEF CallTyped, Calls
  <2>2. \A v \in Callers : call'[v].at # "idle" => call'[v].msg \in Messages
    BY <1>1 DEF MiddlewareInv, MiddlewareTyped, MayBecome
  <2>3. /\ markers' \in Marks /\ disk' \in Marks
        /\ executed' \in [Messages -> Nat] /\ forgotten' \in [Messages -> Nat]
    BY DEF MiddlewareInv, MiddlewareTyped
  <2> QED BY <2>1, <2>2, <2>3 DEF MiddlewareTyped
<1>3. LockIsHeld'
  <2> SUFFICES ASSUME NEW v \in Callers, call'[v].at \in Working
               PROVE  HoldsLock(v)'
    BY DEF LockIsHeld
  <2>1. CASE v = w
    BY <1>1, <2>1 DEF MayBecome, HoldsLock, ConversationAt
  <2>2. CASE v # w
    <3>1. call'[v] = call[v] /\ HoldsLock(v)
      BY <1>1, <2>2 DEF MiddlewareInv, LockIsHeld
    <3>2. ConversationAt(v) \in Conversations
      BY <3>1 DEF MiddlewareInv, MiddlewareTyped, ConversationAt, Conversations, Working
    <3> DEFINE c == ConversationAt(v)
    <3>3. lockQueue[c] # <<>> /\ Head(lockQueue[c]) = v
      BY <3>1 DEF HoldsLock
    <3>4. lockQueue'[c] # <<>> /\ Head(lockQueue'[c]) = v
      BY <2>2, <3>2, <3>3 DEF HeadsKept
    <3> QED BY <3>1, <3>4 DEF HoldsLock, ConversationAt
  <2> QED BY <2>1, <2>2
<1>4. NotYetMarked'
  BY <1>1 DEF MiddlewareInv, NotYetMarked, IsDuplicate, MayBecome
<1>5. UploadsHeld'
  BY <1>1 DEF MiddlewareInv, UploadsHeld, MayBecome
<1>6. ExecutionsCounted'
  <2>1. ASSUME NEW m \in Messages, InExecution(m) PROVE InExecution(m)'
    <3>1. PICK v \in Callers : call[v].msg = m /\ call[v].at \in {"executing", "committing"}
      BY <2>1 DEF InExecution
    <3>2. call'[v].msg = m /\ call'[v].at \in {"executing", "committing"}
      BY <1>1, <3>1
    <3> QED BY <3>2 DEF InExecution
  <2> QED BY <2>1 DEF MiddlewareInv, ExecutionsCounted, IsDuplicate
<1>7. RepliesAreNewest'
  BY DEF MiddlewareInv, RepliesAreNewest
<1>8. NoticeOnlyWhenOld'
  <2> SUFFICES ASSUME NEW v \in Callers, call'[v].at = "sending", call'[v].reply = "expired"
               PROVE  Old(call'[v].msg)
    BY DEF NoticeOnlyWhenOld, ConversationAt, Old
  <2>1. CASE v = w
    BY <1>1, <2>1 DEF MayBecome
  <2>2. CASE v # w
    BY <1>1, <2>2 DEF MiddlewareInv, NoticeOnlyWhenOld, ConversationAt, Old
  <2> QED BY <2>1, <2>2
<1>10. ReturnedIsTold'
  <2> SUFFICES ASSUME NEW v \in Callers, call'[v].at = "returned"
               PROVE  WillBeTold(call'[v].msg)
    BY DEF ReturnedIsTold, Told, WillBeTold
  <2>1. CASE v = w
    BY <1>1, <2>1 DEF MayBecome
  <2>2. CASE v # w
    <3>1. Told(call[v].msg) /\ call'[v] = call[v]
      BY <1>1, <2>2 DEF MiddlewareInv, ReturnedIsTold
    <3> QED BY <3>1 DEF Told, WillBeTold
  <2> QED BY <2>1, <2>2
<1>11. Answering'
  BY <1>1 DEF MiddlewareInv, Answering, MayBecome
<1> QED BY <1>2, <1>3, <1>4, <1>5, <1>6, <1>7, <1>8, <1>10, <1>11 DEF MiddlewareInv

LEMMA GoesFacts ==
  ASSUME MiddlewareInv, NEW w \in Callers, NEW place \in {"idle", "admission"} \union Places,
         Goes(w, place)
  PROVE  LET r == [msg |-> call[w].msg, at |-> place, reply |-> call[w].reply]
         IN r \in Calls /\ call' = [call EXCEPT ![w] = r]
<1>1. call \in [Callers -> Calls]
  BY DEF MiddlewareInv, MiddlewareTyped, CallTyped, Calls
<1>2. call[w] \in Calls /\ call[w] = [msg |-> call[w].msg, at |-> call[w].at, reply |-> call[w].reply]
  BY <1>1 DEF Calls
<1>3. [call[w] EXCEPT !.at = place] = [msg |-> call[w].msg, at |-> place, reply |-> call[w].reply]
  BY <1>2
<1>4. call' = [call EXCEPT ![w] = [call[w] EXCEPT !.at = place]]
  BY DEF Goes
<1> QED BY <1>2, <1>3, <1>4 DEF Calls

LEMMA LeavesFacts ==
  ASSUME MiddlewareInv, NEW w \in Callers, NEW end \in Ends, call[w].at # "idle",
         Leaves(w, end)
  PROVE  /\ LET r == [msg |-> call[w].msg, at |-> end, reply |-> call[w].reply]
            IN r \in Calls /\ call' = [call EXCEPT ![w] = r]
         /\ lockQueue' \in [Conversations -> Seq(Callers)] /\ HeadsKept(w)
         /\ held' = held \ {w}
<1>1. end \in {"idle", "admission"} \union Places /\ Goes(w, end)
  BY DEF Leaves, Places
<1> DEFINE k == ConversationAt(w)
<1>2. lockQueue \in [Conversations -> Seq(Callers)]
  BY DEF MiddlewareInv, MiddlewareTyped
<1>3. k \in Conversations /\ lockQueue[k] \in Seq(Callers)
  BY <1>2 DEF MiddlewareInv, MiddlewareTyped, ConversationAt, Conversations
<1>4. lockQueue' = [lockQueue EXCEPT ![k] = RemoveFirst(lockQueue[k], w)]
  BY DEF Leaves
<1> HIDE DEF k
<1>5. RemoveFirst(lockQueue[k], w) \in Seq(Callers)
  BY <1>3, LeavingKeepsHead
<1>6. lockQueue' \in [Conversations -> Seq(Callers)]
  BY <1>2, <1>4, <1>5
<1>7. HeadsKept(w)
  <2> SUFFICES ASSUME NEW c \in Conversations, NEW v \in Callers \ {w},
                      lockQueue[c] # <<>>, Head(lockQueue[c]) = v
               PROVE  lockQueue'[c] # <<>> /\ Head(lockQueue'[c]) = v
    BY DEF HeadsKept
  <2>1. CASE c = k
    <3>1. lockQueue'[c] = RemoveFirst(lockQueue[c], w)
      BY <1>2, <1>3, <1>4, <2>1
    <3> QED BY <1>3, <2>1, <3>1, LeavingKeepsHead
  <2>2. CASE c # k
    BY <1>2, <1>4, <2>2
  <2> QED BY <2>1, <2>2
<1>8. held' = held \ {w}
  BY DEF Leaves
<1> QED BY <1>1, <1>6, <1>7, <1>8, GoesFacts

LEMMA EnterFacts ==
  ASSUME MiddlewareInv, NEW w \in Callers, NEW m \in Messages, Enter(w, m)
  PROVE  /\ LET r == [msg |-> m, at |-> "waiting", reply |-> None]
            IN r \in Calls /\ call' = [call EXCEPT ![w] = r]
         /\ lockQueue' \in [Conversations -> Seq(Callers)] /\ HeadsKept(w)
<1>1. [msg |-> m, at |-> "waiting", reply |-> None] \in Calls
  BY DEF Calls, Places
<1> DEFINE k == ConversationOf[m]
<1>2. lockQueue \in [Conversations -> Seq(Callers)]
  BY DEF MiddlewareInv, MiddlewareTyped
<1>3. k \in Conversations /\ lockQueue[k] \in Seq(Callers)
  BY <1>2 DEF Conversations
<1>4. lockQueue' = [lockQueue EXCEPT ![k] = Append(lockQueue[k], w)]
  BY DEF Enter
<1> HIDE DEF k
<1>5. Append(lockQueue[k], w) \in Seq(Callers)
  BY <1>3, AppendKeepsHead
<1>6. lockQueue' \in [Conversations -> Seq(Callers)]
  BY <1>2, <1>4, <1>5
<1>7. HeadsKept(w)
  <2> SUFFICES ASSUME NEW c \in Conversations, NEW v \in Callers \ {w},
                      lockQueue[c] # <<>>, Head(lockQueue[c]) = v
               PROVE  lockQueue'[c] # <<>> /\ Head(lockQueue'[c]) = v
    BY DEF HeadsKept
  <2>1. CASE c = k
    <3>1. lockQueue'[c] = Append(lockQueue[c], w)
      BY <1>2, <1>3, <1>4, <2>1
    <3> QED BY <1>3, <2>1, <3>1, AppendKeepsHead
  <2>2. CASE c # k
    BY <1>2, <1>4, <2>2
  <2> QED BY <2>1, <2>2
<1> QED BY <1>1, <1>6, <1>7 DEF Enter

LEMMA SameHeads ==
  ASSUME MiddlewareInv, UNCHANGED lockQueue, NEW w \in Callers
  PROVE  lockQueue' \in [Conversations -> Seq(Callers)] /\ HeadsKept(w)
BY DEF MiddlewareInv, MiddlewareTyped, HeadsKept

(* Steps of handle_inbound between the lock and the answer.                *)
LEMMA FindDuplicateKeeps ==
  ASSUME MiddlewareInv, NEW w \in Callers, FindDuplicate(w)
  PROVE  MiddlewareInv'
<1> DEFINE r == [msg |-> call[w].msg, at |-> "replaying", reply |-> call[w].reply]
<1>1. r \in Calls /\ call' = [call EXCEPT ![w] = r]
  BY GoesFacts DEF FindDuplicate, Places
<1>2. MayBecome(w, r)
  BY DEF FindDuplicate, MayBecome, At, MiddlewareInv, MiddlewareTyped, Working
<1> HIDE DEF r
<1> QED BY <1>1, <1>2, SameHeads, QuietCallerKeeps DEF FindDuplicate, At

LEMMA PreflightKeeps ==
  ASSUME MiddlewareInv, NEW w \in Callers, Preflight(w)
  PROVE  MiddlewareInv'
<1> DEFINE r == [msg |-> call[w].msg, at |-> "committing", reply |-> call[w].reply]
<1>1. r \in Calls /\ call' = [call EXCEPT ![w] = r]
  BY GoesFacts DEF Preflight, Places
<1>2. MayBecome(w, r)
  BY DEF Preflight, Admitted, MayBecome, At, MiddlewareInv, MiddlewareTyped, Working
<1> HIDE DEF r
<1> QED BY <1>1, <1>2, SameHeads, QuietCallerKeeps DEF Preflight, Admitted, At

LEMMA AnsweredKeeps ==
  ASSUME MiddlewareInv, NEW w \in Callers, Answered(w)
  PROVE  MiddlewareInv'
<1> DEFINE r == [msg |-> call[w].msg, at |-> "committing", reply |-> call[w].reply]
<1>1. r \in Calls /\ call' = [call EXCEPT ![w] = r]
  BY GoesFacts DEF Answered, Places
<1>2. MayBecome(w, r)
  BY DEF Answered, MayBecome, At, MiddlewareInv, MiddlewareTyped, Working, LockIsHeld,
         NotYetMarked, UploadsHeld
<1>3. r.at = "committing" /\ r.msg = call[w].msg
  OBVIOUS
<1> HIDE DEF r
<1> QED BY <1>1, <1>2, <1>3, SameHeads, QuietCallerKeeps DEF Answered, At

LEMMA ReplayKeeps ==
  ASSUME MiddlewareInv, NEW w \in Callers, Replay(w)
  PROVE  MiddlewareInv'
<1> DEFINE m == call[w].msg
           r == [msg |-> m, at |-> "sending", reply |-> ReplayOf(m)]
<1>1. call[w] \in Calls /\ m \in Messages /\ call[w].at = "replaying"
  BY DEF Replay, At, MiddlewareInv, MiddlewareTyped, CallTyped, Calls
<1>2. r \in Calls /\ call' = [call EXCEPT ![w] = r]
  <2>1. call[w] = [msg |-> m, at |-> call[w].at, reply |-> call[w].reply]
    BY <1>1 DEF Calls
  <2>2. call' = [call EXCEPT ![w] = r]
    <3> DEFINE z == ReplayOf(m)
               y == call[w].reply
               g == [call EXCEPT ![w].at = "sending"]
    <3>1. w \in DOMAIN call
      BY DEF MiddlewareInv, MiddlewareTyped, CallTyped
    <3>2. call' = [call EXCEPT ![w].at = "sending", ![w].reply = z]
      BY DEF Replay
    <3> HIDE DEF z
    <3>3. call' = [g EXCEPT ![w] = [g[w] EXCEPT !.reply = z]]
      BY <3>1, <3>2
    <3>4. g[w] = [msg |-> m, at |-> "sending", reply |-> y]
      BY <2>1, <3>1
    <3> HIDE DEF g, m, y
    <3>5. [g[w] EXCEPT !.reply = z] = [msg |-> m, at |-> "sending", reply |-> z]
      BY <3>4
    <3> USE DEF g
    <3> QED BY <3>1, <3>3, <3>5 DEF z
  <2>3. r \in Calls
    BY <1>1 DEF Calls, Places, ReplayOf
  <2> QED BY <2>2, <2>3 DEF Replay
<1>3. ReplayOf(m) = "expired" => Old(m)
  <2> SUFFICES ASSUME ~CachedReply(m)
               PROVE  Old(m)
    BY DEF ReplayOf
  <2> DEFINE c == ConversationOf[m]
             ids == markers[c].ids
             kpt == markers[c].replies
             li == Len(ids)
             lk == Len(kpt)
  <2>1. c \in Conversations /\ ids \in Seq(Messages) /\ kpt \in Seq(Messages)
    BY <1>1 DEF MiddlewareInv, MiddlewareTyped, Conversations, Marks
  <2>2. Suffix(kpt, ids, ReplyLimit)
    BY <2>1 DEF MiddlewareInv, RepliesAreNewest
  <2>3. m \notin ToSet(kpt)
    BY DEF CachedReply
  <2>9. Old(m) = \A i \in 1..li : ids[i] = m => li - i >= ReplyLimit
    BY DEF Old
  <2> HIDE DEF ids, kpt, c, m
  <2>4. \A k \in 1..lk : kpt[k] # m /\ kpt[k] = ids[li - lk + k]
    BY <2>1, <2>2, <2>3 DEF ToSet, Suffix
  <2>5. li \in Nat /\ lk \in Nat /\ lk = (IF li > ReplyLimit THEN ReplyLimit ELSE li)
    <3>1. li \in Nat /\ lk \in Nat
      BY <2>1
    <3> QED BY <2>2, <3>1 DEF Suffix
  <2>6. ReplyLimit \in Nat
    BY LimitsAssumption
  <2>7. SUFFICES ASSUME NEW i \in 1..li, ids[i] = m
                 PROVE  li - i >= ReplyLimit
    BY <2>9
  <2> HIDE DEF li, lk
  <2>8. ~(i - (li - lk) \in 1..lk)
    <3>1. li - lk + (i - (li - lk)) = i
      BY <2>5, <2>6
    <3> QED BY <2>4, <2>7, <3>1
  <2> QED BY <2>5, <2>6, <2>8
<1>4. MayBecome(w, r)
  BY <1>1, <1>3 DEF Replay, MayBecome, MiddlewareInv, Working, LockIsHeld, UploadsHeld, ReplayOf
<1>5. disk' = disk \/ disk' = markers
  BY DEF Replay
<1> HIDE DEF r, m
<1> QED BY <1>1, <1>2, <1>4, <1>5, SameHeads, QuietCallerKeeps DEF Replay

(* Steps that end a call.  PrepareFails, ReplayFails, SendFails, Deadline.  *)
LEMMA RaisesKeeps ==
  ASSUME MiddlewareInv, NEW w \in Callers,
         call[w].at \notin {"idle", "executing", "committing"}, Leaves(w, "raised"),
         UNCHANGED <<markers, disk, executed, forgotten, told>>
  PROVE  MiddlewareInv'
<1> DEFINE r == [msg |-> call[w].msg, at |-> "raised", reply |-> call[w].reply]
<1>1. /\ r \in Calls /\ call' = [call EXCEPT ![w] = r]
      /\ lockQueue' \in [Conversations -> Seq(Callers)] /\ HeadsKept(w)
      /\ held' = held \ {w}
  BY LeavesFacts DEF Ends
<1>2. MayBecome(w, r)
  BY <1>1 DEF MayBecome, MiddlewareInv, MiddlewareTyped, Working
<1> HIDE DEF r
<1> QED BY <1>1, <1>2, QuietCallerKeeps

LEMMA SendKeeps ==
  ASSUME MiddlewareInv, NEW w \in Callers, Send(w)
  PROVE  MiddlewareInv'
<1> DEFINE r == [msg |-> call[w].msg, at |-> "returned", reply |-> call[w].reply]
<1>0. /\ call[w].at = "sending" /\ call[w].reply \in {"answer", "expired"}
      /\ told' = told \union {<<call[w].msg, call[w].reply>>} /\ Leaves(w, "returned")
  BY DEF Send, At, MiddlewareInv, Answering
<1>1. /\ r \in Calls /\ call' = [call EXCEPT ![w] = r]
      /\ lockQueue' \in [Conversations -> Seq(Callers)] /\ HeadsKept(w)
      /\ held' = held \ {w}
  BY <1>0, LeavesFacts DEF Ends
<1>2. WillBeTold(call[w].msg)
  BY <1>0 DEF WillBeTold
<1>3. MayBecome(w, r)
  BY <1>0, <1>1, <1>2 DEF MayBecome, MiddlewareInv, MiddlewareTyped, Working
<1> HIDE DEF r
<1> QED BY <1>0, <1>1, <1>3, QuietCallerKeeps DEF Send

LEMMA FailuresKeep ==
  ASSUME MiddlewareInv, NEW w \in Callers,
         PrepareFails(w) \/ ReplayFails(w) \/ SendFails(w) \/ Deadline(w)
  PROVE  MiddlewareInv'
<1>1. CASE PrepareFails(w)
  BY <1>1, RaisesKeeps DEF PrepareFails, At
<1>2. CASE ReplayFails(w)
  BY <1>2, RaisesKeeps DEF ReplayFails, At
<1>3. CASE SendFails(w)
  BY <1>3, RaisesKeeps DEF SendFails, At
<1>4. CASE Deadline(w)
  <2>1. call[w].at \in {"admission", "waiting", "preparing"}
    BY <1>4 DEF Deadline, At, MiddlewareInv, UploadsHeld
  <2> QED BY <1>4, <2>1, RaisesKeeps DEF Deadline
<1> QED BY <1>1, <1>2, <1>3, <1>4

(* A message is executed: nobody has before, unless that is forgotten.     *)
LEMMA LocksAreExclusive ==
  ASSUME MiddlewareInv, NEW w \in Callers, NEW v \in Callers, HoldsLock(w),
         call[v].at \in Working, ConversationAt(v) = ConversationAt(w)
  PROVE  v = w
BY DEF MiddlewareInv, LockIsHeld, HoldsLock

LEMMA ExecutesKeeps ==
  ASSUME MiddlewareInv, NEW w \in Callers, call[w].at \in {"waiting", "preparing"},
         HoldsLock(w), ~IsDuplicate(call[w].msg), Goes(w, "executing"), Executes(w),
         held' \subseteq held, w \notin held',
         UNCHANGED <<lockQueue, markers, disk, forgotten, told>>
  PROVE  MiddlewareInv'
<1> DEFINE m == call[w].msg
           r == [msg |-> m, at |-> "executing", reply |-> call[w].reply]
<1>1. call' = [call EXCEPT ![w] = r] /\ r \in Calls
  BY GoesFacts DEF Places
<1>2. call \in [Callers -> Calls] /\ call' \in [Callers -> Calls]
      /\ call'[w] = r /\ \A v \in Callers \ {w} : call'[v] = call[v]
  BY <1>1 DEF MiddlewareInv, MiddlewareTyped, CallTyped, Calls
<1>3. /\ m \in Messages /\ r.msg \in Messages /\ executed \in [Messages -> Nat] /\ forgotten \in [Messages -> Nat]
      /\ executed' = [executed EXCEPT ![m] = executed[m] + 1]
  BY DEF MiddlewareInv, MiddlewareTyped, Executes
<1>4. ~InExecution(m)
  <2> SUFFICES ASSUME NEW v \in Callers, call[v].msg = m,
                      call[v].at \in {"executing", "committing"}
               PROVE  FALSE
    BY DEF InExecution
  <2>1. v = w
    BY LocksAreExclusive DEF Working, ConversationAt
  <2> QED BY <2>1
<1>5. executed[m] <= forgotten[m]
  BY <1>3, <1>4 DEF MiddlewareInv, ExecutionsCounted
<1>6. MiddlewareTyped'
  <2>1. ASSUME NEW v \in Callers, call'[v].at # "idle"
        PROVE  call'[v].msg \in Messages
    <3>1. CASE v = w
      BY <1>2, <1>3, <3>1
    <3>2. CASE v # w
      BY <1>2, <2>1, <3>2 DEF MiddlewareInv, MiddlewareTyped
    <3> QED BY <3>1, <3>2
  <2>2. executed' \in [Messages -> Nat]
    BY <1>3
  <2>3. CallTyped'
    BY <1>2 DEF CallTyped, Calls
  <2> QED BY <2>1, <2>2, <2>3 DEF MiddlewareInv, MiddlewareTyped
<1>7. LockIsHeld'
  BY <1>2 DEF MiddlewareInv, LockIsHeld, HoldsLock, ConversationAt
<1>8. NotYetMarked' /\ UploadsHeld' /\ ReturnedIsTold' /\ Answering' /\ NoticeOnlyWhenOld'
  <2>1. NotYetMarked'
    BY <1>2 DEF MiddlewareInv, NotYetMarked, IsDuplicate
  <2>2. UploadsHeld'
    BY <1>2 DEF MiddlewareInv, UploadsHeld
  <2>3. ReturnedIsTold'
    BY <1>2 DEF MiddlewareInv, ReturnedIsTold, Told
  <2>4. Answering'
    BY <1>2 DEF MiddlewareInv, Answering
  <2>5. NoticeOnlyWhenOld'
    BY <1>2 DEF MiddlewareInv, NoticeOnlyWhenOld, ConversationAt
  <2> QED BY <2>1, <2>2, <2>3, <2>4, <2>5
<1>9. RepliesAreNewest'
  BY DEF MiddlewareInv, RepliesAreNewest
<1>10. ExecutionsCounted'
  <2> SUFFICES ASSUME NEW x \in Messages
               PROVE  /\ executed'[x] <= 1 + forgotten[x]
                      /\ executed'[x] > forgotten[x] => IsDuplicate(x) \/ InExecution(x)'
    BY DEF ExecutionsCounted, IsDuplicate
  <2>1. CASE x = m
    <3>1. InExecution(x)'
      BY <1>2, <2>1 DEF InExecution
    <3>2. executed'[m] = executed[m] + 1
      BY <1>3
    <3>3. executed'[m] <= 1 + forgotten[m]
      BY <1>3, <1>5, <3>2
    <3> HIDE DEF m
    <3> QED BY <2>1, <3>1, <3>3
  <2>2. CASE x # m
    <3>1. executed'[x] = executed[x]
      BY <1>3, <2>2
    <3>2. ASSUME InExecution(x) PROVE InExecution(x)'
      <4>1. PICK v \in Callers : call[v].msg = x /\ call[v].at \in {"executing", "committing"}
        BY <3>2 DEF InExecution
      <4>2. call'[v] = call[v]
        BY <1>2, <2>2, <4>1
      <4> QED BY <4>1, <4>2 DEF InExecution
    <3> QED BY <3>1, <3>2 DEF MiddlewareInv, ExecutionsCounted
  <2> QED BY <2>1, <2>2
<1> QED BY <1>6, <1>7, <1>8, <1>9, <1>10 DEF MiddlewareInv

LEMMA BeginsKeep ==
  ASSUME MiddlewareInv, NEW w \in Callers, Begin(w) \/ Prepared(w)
  PROVE  MiddlewareInv'
<1>1. CASE Begin(w) /\ call[w].msg \in Media
  <2> DEFINE r == [msg |-> call[w].msg, at |-> "preparing", reply |-> call[w].reply]
  <2>1. r \in Calls /\ call' = [call EXCEPT ![w] = r]
    BY <1>1, GoesFacts DEF Begin, Places
  <2>2. MayBecome(w, r)
    BY <1>1 DEF Begin, Admitted, MayBecome, At, MiddlewareInv, MiddlewareTyped, Working
  <2> HIDE DEF r
  <2>3. /\ UNCHANGED <<markers, disk, executed, forgotten, told, held, lockQueue>>
        /\ call[w].at = "waiting"
    BY <1>1 DEF Begin, Admitted, At
  <2> QED BY <2>1, <2>2, <2>3, SameHeads, QuietCallerKeeps
<1>2. CASE Begin(w) /\ call[w].msg \notin Media
  <2>1. w \notin held
    BY <1>2 DEF MiddlewareInv, UploadsHeld
  <2> QED BY <1>2, <2>1, ExecutesKeeps DEF Begin, Admitted, At
<1>3. CASE Prepared(w)
  <2>1. HoldsLock(w) /\ ~IsDuplicate(call[w].msg)
    BY <1>3 DEF Prepared, At, MiddlewareInv, LockIsHeld, NotYetMarked, Working
  <2> QED BY <1>3, <2>1, ExecutesKeeps DEF Prepared, At
<1> QED BY <1>1, <1>2, <1>3

(* The execution is recorded: the oldest marker is forgotten for the new    *)
(* one, and no other caller is at work in the conversation.                *)
LEMMA RecordedFacts ==
  ASSUME MiddlewareInv, NEW w \in Callers, call[w].at = "committing",
         markers' = Recorded(call[w].msg)
  PROVE  LET m == call[w].msg
             c == ConversationOf[m]
         IN  /\ markers' \in Marks /\ m \in ToSet(markers'[c].ids)
             /\ \A d \in Conversations \ {c} : markers'[d] = markers[d]
             /\ Suffix(markers'[c].replies, markers'[c].ids, ReplyLimit)
<1> DEFINE m == call[w].msg
           c == ConversationOf[m]
           ids == markers[c].ids
           kpt == markers[c].replies
           new == [ids |-> Newest(Append(ids, m), RecentLimit),
                   replies |-> Newest(Append(kpt, m), ReplyLimit)]
<1>1. m \in Messages /\ c \in Conversations /\ markers \in Marks /\ m \notin ToSet(ids)
  BY DEF MiddlewareInv, MiddlewareTyped, NotYetMarked, IsDuplicate, Conversations
<1>2. ids \in Seq(Messages) /\ kpt \in Seq(Messages)
  BY <1>1 DEF Marks
<1>3. Suffix(kpt, ids, ReplyLimit)
  BY <1>1 DEF MiddlewareInv, RepliesAreNewest
<1>4. m \notin ToSet(kpt)
  <2> DEFINE li == Len(ids)
             lk == Len(kpt)
  <2> HIDE DEF ids, kpt, m
  <2>1. li \in Nat /\ lk \in Nat /\ lk <= li /\ \A i \in 1..lk : kpt[i] = ids[li - lk + i]
    <3>1. li \in Nat /\ lk \in Nat
      BY <1>2
    <3>2. lk = (IF li > ReplyLimit THEN ReplyLimit ELSE li)
          /\ \A i \in 1..lk : kpt[i] = ids[li - lk + i]
      BY <1>3 DEF Suffix
    <3>3. ReplyLimit \in Nat
      BY LimitsAssumption
    <3>4. \A i \in 1..lk : kpt[i] = ids[li - lk + i]
      BY <3>2
    <3> HIDE DEF li, lk
    <3>5. lk <= li
      BY <3>1, <3>2, <3>3
    <3> QED BY <3>1, <3>4, <3>5
  <2>2. \A i \in 1..li : ids[i] # m
    BY <1>1, <1>2 DEF ToSet
  <2>3. DOMAIN kpt = 1..lk
    BY <1>2
  <2> HIDE DEF li, lk
  <2>4. \A i \in 1..lk : li - lk + i \in 1..li
    BY <2>1
  <2> QED BY <2>1, <2>2, <2>3, <2>4 DEF ToSet
<1>5. Moved(ids, m) = Append(ids, m) /\ Moved(kpt, m) = Append(kpt, m)
  <2> HIDE DEF ids, kpt, m
  <2> QED BY <1>1, <1>2, <1>4, NotThereNotRemoved DEF Moved
<1>6. markers' = [markers EXCEPT ![c] = new]
  <2>1. Recorded(m) = [markers EXCEPT ![c] = [ids |-> Newest(Moved(ids, m), RecentLimit),
                                              replies |-> Newest(Moved(kpt, m), ReplyLimit)]]
    BY <1>1 DEF Recorded
  <2>2. new = [ids |-> Newest(Moved(ids, m), RecentLimit),
               replies |-> Newest(Moved(kpt, m), ReplyLimit)]
    <3> HIDE DEF ids, kpt, m
    <3> QED BY <1>5, Zenon
  <2>3. markers' = Recorded(m)
    OBVIOUS
  <2> HIDE DEF new, m, c
  <2> QED BY <2>1, <2>2, <2>3
<1>7. RecentLimit \in Nat \ {0} /\ ReplyLimit \in Nat \ {0} /\ ReplyLimit <= RecentLimit
  BY LimitsAssumption
<1>8. Append(ids, m) \in Seq(Messages) /\ Append(kpt, m) \in Seq(Messages)
  BY <1>1, <1>2
<1> HIDE DEF ids, kpt, m
<1>9. /\ new.ids \in Seq(Messages) /\ new.replies \in Seq(Messages)
      /\ m \in ToSet(new.ids) /\ Suffix(new.replies, new.ids, ReplyLimit)
  BY <1>1, <1>2, <1>3, <1>7, <1>8, NewestFacts, NewestKeepsLast, SuffixKept
<1>10. new \in [ids : Seq(Messages), replies : Seq(Messages)]
  BY <1>9
<1> HIDE DEF new
<1>11. markers' \in Marks /\ markers'[c] = new
       /\ \A d \in Conversations \ {c} : markers'[d] = markers[d]
  BY <1>1, <1>6, <1>10 DEF Marks
<1> USE DEF m
<1> QED BY <1>9, <1>11

LEMMA RecordsKeeps ==
  ASSUME MiddlewareInv, NEW w \in Callers, call[w].at = "committing", Records(w),
         NEW r \in Calls, call' = [call EXCEPT ![w] = r], r.msg = call[w].msg,
         \/ r.at = "sending" /\ r.reply = "answer" /\ UNCHANGED lockQueue
         \/ r.at = "raised",
         lockQueue' \in [Conversations -> Seq(Callers)], HeadsKept(w),
         disk' = disk \/ disk' = markers', held' \subseteq held,
         UNCHANGED <<executed, told>>
  PROVE  MiddlewareInv'
<1> DEFINE m == call[w].msg
           c == ConversationOf[m]
<1>1. call \in [Callers -> Calls] /\ call' \in [Callers -> Calls]
      /\ call'[w] = r /\ \A v \in Callers \ {w} : call'[v] = call[v]
  BY DEF MiddlewareInv, MiddlewareTyped, CallTyped, Calls
<1>2. m \in Messages /\ c \in Conversations
  BY DEF MiddlewareInv, MiddlewareTyped, Conversations
<1>3. /\ markers' \in Marks /\ m \in ToSet(markers'[c].ids)
      /\ \A d \in Conversations \ {c} : markers'[d] = markers[d]
      /\ Suffix(markers'[c].replies, markers'[c].ids, ReplyLimit)
  BY RecordedFacts DEF Records
<1>4. /\ forgotten' \in [Messages -> Nat]
      /\ \A x \in Messages : /\ forgotten'[x] >= forgotten[x]
                             /\ x \in PushedOut(m) => forgotten'[x] = forgotten[x] + 1
  BY DEF Records, Forget, MiddlewareInv, MiddlewareTyped
<1>5. HoldsLock(w)
  BY DEF MiddlewareInv, LockIsHeld, Working
<1>6. ASSUME NEW v \in Callers \ {w}, call[v].at \in Working
      PROVE  /\ call[v].msg \in Messages /\ ConversationAt(v) \in Conversations \ {c}
             /\ markers'[ConversationAt(v)] = markers[ConversationAt(v)]
  <2>1. call[v].msg \in Messages
    BY <1>6 DEF MiddlewareInv, MiddlewareTyped, Working
  <2>2. ConversationAt(v) # c
    BY <1>5, <1>6, LocksAreExclusive DEF ConversationAt
  <2>3. ConversationAt(v) \in Conversations
    BY <2>1 DEF Conversations, ConversationAt
  <2> QED BY <1>3, <2>1, <2>2, <2>3
<1>7. MiddlewareTyped'
  <2>1. CallTyped'
    BY <1>1 DEF CallTyped, Calls
  <2>2. ASSUME NEW v \in Callers, call'[v].at # "idle"
        PROVE  call'[v].msg \in Messages
    <3>1. CASE v = w
      BY <1>1, <1>2, <3>1
    <3>2. CASE v # w
      BY <1>1, <2>2, <3>2 DEF MiddlewareInv, MiddlewareTyped
    <3> QED BY <3>1, <3>2
  <2>3. disk' \in Marks
    BY <1>3 DEF MiddlewareInv, MiddlewareTyped
  <2> QED BY <1>3, <1>4, <2>1, <2>2, <2>3 DEF MiddlewareInv, MiddlewareTyped
<1>8. LockIsHeld'
  <2> SUFFICES ASSUME NEW v \in Callers, call'[v].at \in Working
               PROVE  HoldsLock(v)'
    BY DEF LockIsHeld
  <2>1. CASE v = w
    BY <1>1, <1>5, <2>1 DEF HoldsLock, ConversationAt, Working
  <2>2. CASE v # w
    <3>1. call'[v] = call[v] /\ HoldsLock(v)
      BY <1>1, <2>2 DEF MiddlewareInv, LockIsHeld
    <3> DEFINE d == ConversationAt(v)
    <3>2. d \in Conversations
      BY <1>6, <2>2, <3>1
    <3>3. lockQueue[d] # <<>> /\ Head(lockQueue[d]) = v
      BY <3>1 DEF HoldsLock
    <3>4. lockQueue'[d] # <<>> /\ Head(lockQueue'[d]) = v
      BY <2>2, <3>2, <3>3 DEF HeadsKept
    <3> QED BY <3>1, <3>4 DEF HoldsLock, ConversationAt
  <2> QED BY <2>1, <2>2
<1>9. NotYetMarked'
  <2> SUFFICES ASSUME NEW v \in Callers, call'[v].at \in {"preparing", "executing", "committing"}
               PROVE  call'[v].msg \notin ToSet(markers'[ConversationOf[call'[v].msg]].ids)
    BY DEF NotYetMarked, IsDuplicate
  <2>1. v # w
    BY <1>1
  <2>2. call'[v] = call[v] /\ call[v].at \in Working /\ ~IsDuplicate(call[v].msg)
    BY <1>1, <2>1 DEF MiddlewareInv, NotYetMarked, Working
  <2> QED BY <1>6, <2>1, <2>2 DEF IsDuplicate, ConversationAt
<1>10. UploadsHeld'
  <2>1. w \notin held'
    BY DEF MiddlewareInv, UploadsHeld
  <2> QED BY <1>1, <2>1 DEF MiddlewareInv, UploadsHeld
<1>11. ExecutionsCounted'
  <2> SUFFICES ASSUME NEW x \in Messages
               PROVE  /\ executed[x] <= 1 + forgotten'[x]
                      /\ executed[x] > forgotten'[x] =>
                           x \in ToSet(markers'[ConversationOf[x]].ids) \/ InExecution(x)'
    BY DEF ExecutionsCounted, IsDuplicate
  <2>0. executed[x] \in Nat /\ forgotten[x] \in Nat /\ forgotten'[x] \in Nat
        /\ forgotten'[x] >= forgotten[x] /\ executed[x] <= 1 + forgotten[x]
        /\ (executed[x] > forgotten[x] => IsDuplicate(x) \/ InExecution(x))
    BY <1>4 DEF MiddlewareInv, MiddlewareTyped, ExecutionsCounted
  <2>1. CASE x = m
    BY <1>3, <2>0, <2>1
  <2>2. CASE x # m
    <3>1. ASSUME InExecution(x) PROVE InExecution(x)'
      <4>1. PICK v \in Callers : call[v].msg = x /\ call[v].at \in {"executing", "committing"}
        BY <3>1 DEF InExecution
      <4>2. call'[v] = call[v]
        BY <1>1, <2>2, <4>1
      <4> QED BY <4>1, <4>2 DEF InExecution
    <3>2. ASSUME IsDuplicate(x), x \notin ToSet(markers'[ConversationOf[x]].ids)
          PROVE  forgotten'[x] = forgotten[x] + 1
      <4>1. ConversationOf[x] = c
        BY <1>3, <3>2 DEF IsDuplicate, Conversations
      <4>2. x \in PushedOut(m)
        BY <3>2, <4>1 DEF PushedOut, IsDuplicate, Records
      <4> QED BY <1>4, <4>2
    <3> QED BY <2>0, <3>1, <3>2
  <2> QED BY <2>1, <2>2
<1>12. RepliesAreNewest'
  <2> SUFFICES ASSUME NEW d \in Conversations
               PROVE  /\ Suffix(markers'[d].replies, markers'[d].ids, ReplyLimit)
                      /\ Suffix(disk'[d].replies, disk'[d].ids, ReplyLimit)
    BY DEF RepliesAreNewest
  <2>1. Suffix(markers'[d].replies, markers'[d].ids, ReplyLimit)
    BY <1>3 DEF MiddlewareInv, RepliesAreNewest
  <2> QED BY <2>1 DEF MiddlewareInv, RepliesAreNewest
<1>13. NoticeOnlyWhenOld'
  <2> SUFFICES ASSUME NEW v \in Callers, call'[v].at = "sending", call'[v].reply = "expired"
               PROVE  LET ids == markers'[ConversationOf[call'[v].msg]].ids
                      IN \A i \in 1..Len(ids) :
                           ids[i] = call'[v].msg => Len(ids) - i >= ReplyLimit
    BY DEF NoticeOnlyWhenOld, ConversationAt
  <2>1. v # w
    BY <1>1
  <2>2. call'[v] = call[v] /\ call[v].at \in Working
    BY <1>1, <2>1 DEF Working
  <2>3. markers'[ConversationOf[call[v].msg]] = markers[ConversationOf[call[v].msg]]
    BY <1>6, <2>1, <2>2 DEF ConversationAt
  <2> QED BY <1>1, <2>1, <2>2, <2>3 DEF MiddlewareInv, NoticeOnlyWhenOld, ConversationAt
<1>14. ReturnedIsTold' /\ Answering'
  BY <1>1 DEF MiddlewareInv, ReturnedIsTold, Told, Answering
<1> QED BY <1>7, <1>8, <1>9, <1>10, <1>11, <1>12, <1>13, <1>14 DEF MiddlewareInv

LEMMA CommitsKeep ==
  ASSUME MiddlewareInv, NEW w \in Callers, Commit(w) \/ CommitFails(w)
  PROVE  MiddlewareInv'
<1>1. /\ call[w].at = "committing" /\ Records(w) /\ call[w] \in Calls
      /\ call[w].msg \in Messages
  BY DEF Commit, CommitFails, At, MiddlewareInv, MiddlewareTyped, CallTyped, Calls
<1>2. CASE Commit(w)
  <2> DEFINE m == call[w].msg
             r == [msg |-> m, at |-> "sending", reply |-> "answer"]
  <2>1. call' = [call EXCEPT ![w] = r]
    <3> DEFINE y == call[w].reply
               g == [call EXCEPT ![w].at = "sending"]
    <3>1. w \in DOMAIN call /\ call[w] = [msg |-> m, at |-> call[w].at, reply |-> y]
      BY <1>1 DEF MiddlewareInv, MiddlewareTyped, CallTyped, Calls
    <3>2. call' = [call EXCEPT ![w].at = "sending", ![w].reply = "answer"]
      BY <1>2 DEF Commit
    <3>3. call' = [g EXCEPT ![w] = [g[w] EXCEPT !.reply = "answer"]]
      BY <3>1, <3>2
    <3>4. g[w] = [msg |-> m, at |-> "sending", reply |-> y]
      BY <3>1
    <3> HIDE DEF g, m, y
    <3>5. [g[w] EXCEPT !.reply = "answer"] = [msg |-> m, at |-> "sending", reply |-> "answer"]
      BY <3>4
    <3> USE DEF g
    <3> QED BY <3>1, <3>3, <3>5
  <2>2. r \in Calls /\ r.msg = m /\ r.at = "sending" /\ r.reply = "answer"
    BY <1>1 DEF Calls, Places
  <2> HIDE DEF r
  <2> QED BY <1>1, <1>2, <2>1, <2>2, SameHeads, RecordsKeeps DEF Commit
<1>3. CASE CommitFails(w)
  <2> DEFINE r == [msg |-> call[w].msg, at |-> "raised", reply |-> call[w].reply]
  <2>1. /\ r \in Calls /\ call' = [call EXCEPT ![w] = r]
        /\ lockQueue' \in [Conversations -> Seq(Callers)] /\ HeadsKept(w)
        /\ held' \subseteq held
    <3>1. Leaves(w, "raised")
      BY <1>3 DEF CommitFails
    <3> QED BY <1>1, <3>1, LeavesFacts DEF Ends
  <2>2. r.msg = call[w].msg /\ r.at = "raised"
    OBVIOUS
  <2> HIDE DEF r
  <2> QED BY <1>1, <1>3, <2>1, <2>2, RecordsKeeps DEF CommitFails
<1> QED BY <1>2, <1>3

(* Nothing of the callers moves: a save for another reason, other steps.   *)
LEMMA CallersStayKeeps ==
  ASSUME MiddlewareInv, UNCHANGED <<call, lockQueue, markers, held, executed, forgotten, told>>,
         disk' = disk \/ disk' = markers
  PROVE  MiddlewareInv'
<1>1. MiddlewareTyped' /\ RepliesAreNewest'
  BY DEF MiddlewareInv, MiddlewareTyped, CallTyped, RepliesAreNewest
<1>2. LockIsHeld' /\ NotYetMarked' /\ UploadsHeld'
  BY DEF MiddlewareInv, LockIsHeld, HoldsLock, ConversationAt, NotYetMarked, IsDuplicate,
         UploadsHeld
<1>3. ExecutionsCounted'
  BY DEF MiddlewareInv, ExecutionsCounted, IsDuplicate, InExecution
<1>4. NoticeOnlyWhenOld' /\ ReturnedIsTold' /\ Answering'
  BY DEF MiddlewareInv, NoticeOnlyWhenOld, ConversationAt, ReturnedIsTold, Told, Answering
<1> QED BY <1>1, <1>2, <1>3, <1>4 DEF MiddlewareInv

(* The process ends: what had no marker on disk is forgotten.              *)
LEMMA DiedKeeps ==
  ASSUME MiddlewareInv, Died
  PROVE  MiddlewareInv'
<1>1. /\ \A w \in Callers : call'[w] = Idle
      /\ call' = [w \in Callers |-> Idle]
      /\ lockQueue' = [c \in Conversations |-> <<>>]
      /\ markers' = disk /\ disk' = disk /\ held' = {} /\ UNCHANGED <<executed, told>>
  BY DEF Died
<1>2. Idle \in Calls
  BY DEF Idle, Calls
<1>3. /\ forgotten' \in [Messages -> Nat]
      /\ \A x \in Messages :
           /\ forgotten'[x] >= forgotten[x]
           /\ InExecution(x) /\ executed[x] > 0 => forgotten'[x] = forgotten[x] + 1
           /\ IsDuplicate(x) /\ x \notin ToSet(disk[ConversationOf[x]].ids) =>
                forgotten'[x] = forgotten[x] + 1
  <2> DEFINE running == {call[w].msg : w \in {v \in Callers :
                           call[v].at \in {"executing", "committing"}
                             /\ executed[call[v].msg] > 0}}
             unsaved == {m \in Messages : IsDuplicate(m)
                           /\ m \notin ToSet(disk[ConversationOf[m]].ids)}
             gone == running \union unsaved
  <2>1. forgotten' = [m \in Messages |-> forgotten[m] + (IF m \in gone THEN 1 ELSE 0)]
    <3>1. {m \in running \union unsaved : TRUE} = gone
      OBVIOUS
    <3> QED BY <3>1 DEF Died, Forget
  <2>2. \A x \in Messages : InExecution(x) /\ executed[x] > 0 => x \in gone
    BY DEF InExecution
  <2>3. \A x \in Messages :
          IsDuplicate(x) /\ x \notin ToSet(disk[ConversationOf[x]].ids) => x \in gone
    OBVIOUS
  <2>4. forgotten \in [Messages -> Nat]
    BY DEF MiddlewareInv, MiddlewareTyped
  <2> HIDE DEF gone
  <2> QED BY <2>1, <2>2, <2>3, <2>4
<1>4. MiddlewareTyped'
  <2>1. lockQueue' \in [Conversations -> Seq(Callers)]
    BY <1>1
  <2>2. CallTyped' /\ \A w \in Callers : call'[w].at # "idle" => call'[w].msg \in Messages
    BY <1>1, <1>2 DEF CallTyped, Calls, Idle
  <2> QED BY <1>1, <1>3, <2>1, <2>2 DEF MiddlewareInv, MiddlewareTyped
<1>5. LockIsHeld' /\ NotYetMarked' /\ UploadsHeld' /\ ReturnedIsTold' /\ Answering'
  BY <1>1 DEF Idle, LockIsHeld, NotYetMarked, UploadsHeld, ReturnedIsTold, Answering, Working
<1>6. ExecutionsCounted'
  <2> SUFFICES ASSUME NEW x \in Messages
               PROVE  /\ executed[x] <= 1 + forgotten'[x]
                      /\ executed[x] > forgotten'[x] =>
                           x \in ToSet(disk[ConversationOf[x]].ids)
    BY <1>1 DEF ExecutionsCounted, IsDuplicate
  <2>0. executed[x] \in Nat /\ forgotten[x] \in Nat /\ forgotten'[x] \in Nat
        /\ forgotten'[x] >= forgotten[x] /\ executed[x] <= 1 + forgotten[x]
        /\ (executed[x] > forgotten[x] => IsDuplicate(x) \/ InExecution(x))
    BY <1>3 DEF MiddlewareInv, MiddlewareTyped, ExecutionsCounted
  <2>1. /\ InExecution(x) /\ executed[x] > 0 => forgotten'[x] = forgotten[x] + 1
        /\ IsDuplicate(x) /\ x \notin ToSet(disk[ConversationOf[x]].ids) =>
             forgotten'[x] = forgotten[x] + 1
    BY <1>3
  <2> QED BY <2>0, <2>1
<1>7. RepliesAreNewest'
  BY <1>1 DEF MiddlewareInv, RepliesAreNewest
<1>8. NoticeOnlyWhenOld'
  BY <1>1 DEF Idle, NoticeOnlyWhenOld
<1> QED BY <1>4, <1>5, <1>6, <1>7, <1>8 DEF MiddlewareInv

(* Where a call begins and ends.                                           *)
LEMMA EntersKeeps ==
  ASSUME MiddlewareInv, NEW w \in Callers, NEW m \in Messages, Enter(w, m),
         call[w].at \in {"idle", "admission"},
         w \in held' => m \in Media, held' \subseteq held \union {w},
         UNCHANGED <<markers, disk, executed, forgotten, told>>
  PROVE  MiddlewareInv'
<1> DEFINE r == [msg |-> m, at |-> "waiting", reply |-> None]
<1>1. /\ r \in Calls /\ call' = [call EXCEPT ![w] = r]
      /\ lockQueue' \in [Conversations -> Seq(Callers)] /\ HeadsKept(w)
  BY EnterFacts
<1>2. MayBecome(w, r)
  BY DEF MayBecome, Working
<1> HIDE DEF r
<1> QED BY <1>1, <1>2, QuietCallerKeeps

LEMMA IdleNotHeld ==
  ASSUME MiddlewareInv, NEW w \in Callers, call[w].at = "idle"
  PROVE  w \notin held
BY DEF MiddlewareInv, UploadsHeld

LEMMA PostKeeps ==
  ASSUME MiddlewareInv, NEW w \in Callers, NEW m \in Messages, Post(w, m)
  PROVE  MiddlewareInv'
<1>1. /\ call[w].at = "idle" /\ w \notin held
      /\ UNCHANGED <<markers, disk, held, executed, forgotten, told>>
  BY IdleNotHeld DEF Post, At
<1>2. CASE Enter(w, m) /\ m \notin Media
  BY <1>1, <1>2, EntersKeeps
<1>3. CASE /\ m \in Media /\ UNCHANGED lockQueue
           /\ call' = [call EXCEPT ![w] = [Idle EXCEPT !.msg = m, !.at = "admission"]]
  <2> DEFINE r == [Idle EXCEPT !.msg = m, !.at = "admission"]
  <2>1. r \in Calls /\ r.msg = m /\ r.at = "admission"
    <3> DEFINE a == [Idle EXCEPT !.msg = m]
    <3>1. r = [a EXCEPT !.at = "admission"]
      OBVIOUS
    <3>2. a = [msg |-> m, at |-> "idle", reply |-> None]
      BY DEF Idle
    <3> HIDE DEF a
    <3>3. [a EXCEPT !.at = "admission"] = [msg |-> m, at |-> "admission", reply |-> None]
      BY <3>2
    <3> HIDE DEF r
    <3> QED BY <3>1, <3>3 DEF Calls
  <2>2. MayBecome(w, r)
    <3> HIDE DEF r
    <3> QED BY <1>1, <1>3, <2>1 DEF MayBecome, Working
  <2>3. call' = [call EXCEPT ![w] = r]
    BY <1>3
  <2> HIDE DEF r
  <2> QED BY <1>1, <1>3, <2>1, <2>2, <2>3, SameHeads, QuietCallerKeeps
<1> QED BY <1>2, <1>3 DEF Post

LEMMA TakeSlotKeeps ==
  ASSUME MiddlewareInv, NEW w \in Callers, TakeSlot(w)
  PROVE  MiddlewareInv'
<1>1. call[w].at = "admission" /\ call[w].msg \in Media /\ call[w].msg \in Messages
  BY DEF TakeSlot, At, MiddlewareInv, MiddlewareTyped, UploadsHeld
<1> QED BY <1>1, EntersKeeps DEF TakeSlot

LEMMA EndsKeeps ==
  ASSUME MiddlewareInv, NEW w \in Callers, call[w].at \in Ends,
         call' = [call EXCEPT ![w] = Idle],
         UNCHANGED <<lockQueue, markers, disk, held, executed, forgotten, told>>
  PROVE  MiddlewareInv'
<1>1. Idle \in Calls /\ Idle.at = "idle"
  BY DEF Idle, Calls
<1>2. w \notin held
  BY DEF MiddlewareInv, UploadsHeld, Ends
<1>3. MayBecome(w, Idle)
  BY <1>1, <1>2 DEF MayBecome, Working
<1> QED BY <1>1, <1>2, <1>3, SameHeads, QuietCallerKeeps DEF Ends

(* Every step of the channels, as the middleware sees it.                  *)
LEMMA CallersAre ==
  AdapterTyped => /\ Loop \in Callers /\ Requests \subseteq Callers
                  /\ queue # <<>> => Current \in Messages
<1>1. Loop \in Callers /\ Requests \subseteq Callers
  BY AdapterAssumption
<1>2. AdapterTyped /\ queue # <<>> => Current \in Messages
  <2> SUFFICES ASSUME AdapterTyped, queue # <<>>
               PROVE  Current \in Messages
    OBVIOUS
  <2>1. Head(queue) \in Entries
    BY DEF AdapterTyped
  <2> QED BY <2>1 DEF Entries, Current
<1> QED BY <1>1, <1>2

LEMMA MiddlewareNextKeeps ==
  ASSUME ChannelsInv, [ChannelsNext]_channelVars
  PROVE  MiddlewareInv'
<1> USE DEF ChannelsInv
<1>0. Loop \in Callers /\ Requests \subseteq Callers /\ (queue # <<>> => Current \in Messages)
  BY CallersAre DEF AdapterInv
<1>1. CASE \/ Arrive \/ FeishuPush \/ TelegramPoll \/ WeixinPoll \/ GatewayStep \/ Disconnect
           \/ InvalidSession \/ Persist \/ UNCHANGED channelVars \/ OffsetReset
  <2>1. UNCHANGED <<call, lockQueue, markers, held, executed, forgotten, told>>
        /\ (disk' = disk \/ disk' = markers)
    BY <1>1 DEF Arrive, FeishuPush, TelegramPoll, WeixinPoll, GatewayStep, Resume, Identify,
       Receive, Disconnect, InvalidSession, Persist, channelVars, middlewareVars, OffsetReset,
       storeVars
  <2> QED BY <2>1, CallersStayKeeps
<1>2. CASE TelegramDispatch \/ WeixinDispatch \/ QQDispatch \/ FeishuDispatch
  <2>1. PICK of : Dispatch(of)
    BY <1>2 DEF TelegramDispatch, WeixinDispatch, QQDispatch, FeishuDispatch
  <2>2. call[Loop].at = "idle" /\ Enter(Loop, Current) /\ queue # <<>>
        /\ UNCHANGED <<markers, disk, held, executed, forgotten, told>>
    BY <2>1 DEF Dispatch, LoopIdle, At
  <2>3. Loop \notin held
    BY <1>0, <2>2, IdleNotHeld
  <2> QED BY <1>0, <2>2, <2>3, EntersKeeps
<1>3. CASE \/ TelegramDone \/ WeixinDone \/ TelegramFails \/ WeixinFails \/ QQDone \/ QQRetry
           \/ FeishuDone
  <2>1. /\ UNCHANGED <<lockQueue, markers, disk, held, executed, forgotten, told>>
        /\ UNCHANGED call \/ LoopEnds("returned") \/ LoopEnds("raised")
    BY <1>3 DEF TelegramDone, WeixinDone, FirstIsDone, TelegramFails, WeixinFails, PollFails,
       QQDone, QQRetry, FeishuDone, storeVars
  <2>2. CASE UNCHANGED call
    BY <2>1, <2>2, CallersStayKeeps
  <2>3. CASE LoopEnds("returned") \/ LoopEnds("raised")
    BY <1>0, <2>1, <2>3, EndsKeeps DEF LoopEnds, At, Ends
  <2> QED BY <2>1, <2>2, <2>3
<1>4. CASE Crash
  BY <1>4, DiedKeeps DEF Crash
<1>5. CASE \E w \in Requests : RequestStep(w) \/ Deadline(w)
  <2>1. PICK w \in Requests : RequestStep(w) \/ Deadline(w)
    BY <1>5
  <2>2. CASE Respond(w)
    BY <1>0, <2>2, EndsKeeps DEF Respond, storeVars
  <2> QED BY <1>0, <2>1, <2>2, TakeSlotKeeps, PostKeeps, FailuresKeep DEF RequestStep
<1>6. CASE Middleware
  BY <1>6, FindDuplicateKeeps, BeginsKeep, AnsweredKeeps, CommitsKeep, ReplayKeeps, SendKeeps,
     PreflightKeeps, FailuresKeep DEF Middleware, Work, Fault
<1> QED BY <1>1, <1>2, <1>3, <1>4, <1>5, <1>6 DEF ChannelsNext, LoopStep

-----------------------------------------------------------------------------
(* What is done stays done.                                                *)

LEMMA StaysFine ==
  ASSUME told \subseteq told'
  PROVE  /\ \A m : Done(m) => Done(m)'
         /\ \A n : Passed(n) => Passed(n)'
BY DEF Done, Told, Passed

(* Steps that leave the adapters as they are: the middleware, the requests *)
(* of the webhook, and the task when it takes up its first message.        *)
LEMMA AdaptersStayKeeps ==
  ASSUME ChannelsInv, UNCHANGED adapterVars, told \subseteq told',
         \A w \in Callers : call'[w].at = "admission" =>
                              call[w].at = "admission" \/ channel = "web",
         channel \in {"telegram", "weixin", "qq"} /\ call'[Loop].at # "idle" =>
           queue # <<>> /\ call'[Loop].msg = Current
  PROVE  AdapterInv'
<1> USE DEF ChannelsInv, AdapterInv
<1>1. UNCHANGED <<channel, arrived, forgets, cursor, saved, queue, batchEnd, log, client>>
  BY DEF adapterVars
<1>2. AdapterTyped'
  BY <1>1 DEF AdapterTyped
<1>3. LoopInv'
  BY <1>1 DEF LoopInv, Current
<1>4. PollInv'
  BY <1>1, StaysFine DEF PollInv
<1>5. GatewayInv'
  <2>1. \A p : Fine(p) => Fine(p)'
    BY <1>1, StaysFine DEF Fine
  <2>2. \A p, n : QueuedUpTo(p, n)' = QueuedUpTo(p, n)
    BY <1>1 DEF QueuedUpTo
  <2>3. InSession => InSession'
    BY <1>1, <2>1, <2>2 DEF InSession
  <2> QED BY <1>1, <2>3 DEF GatewayInv, BeforeSession
<1> QED BY <1>2, <1>3, <1>4, <1>5

LEMMA MiddlewareKeepsAdapters ==
  ASSUME ChannelsInv, NEW w \in Callers, Work(w) \/ Fault(w) \/ Deadline(w), UNCHANGED adapterVars
  PROVE  AdapterInv'
<1> USE DEF ChannelsInv, AdapterInv
<1>1. call \in [Callers -> Calls]
  BY DEF MiddlewareInv, MiddlewareTyped, CallTyped, Calls
<1>2. /\ call[w].at # "idle" /\ told \subseteq told'
      /\ \A v \in Callers \ {w} : call'[v] = call[v]
      /\ call'[w].msg = call[w].msg /\ call'[w].at # "admission"
  <2>1. /\ call[w].at # "idle" /\ told \subseteq told'
        /\ \/ \E place \in Places : Goes(w, place)
           \/ \E reply : call' = [call EXCEPT ![w].at = "sending", ![w].reply = reply]
    <3>1. CASE FindDuplicate(w) \/ Begin(w) \/ Prepared(w) \/ Answered(w) \/ Preflight(w)
      BY <3>1 DEF FindDuplicate, Begin, Prepared, Answered, Preflight, Admitted, At, Places
    <3>2. CASE Commit(w)
      BY <3>2 DEF Commit, At
    <3>3. CASE Replay(w)
      BY <3>3 DEF Replay, At
    <3>4. CASE Send(w)
      BY <3>4 DEF Send, At, Leaves, Places, Ends
    <3>5. CASE PrepareFails(w) \/ CommitFails(w) \/ ReplayFails(w) \/ SendFails(w)
      BY <3>5 DEF PrepareFails, CommitFails, ReplayFails, SendFails, At, Leaves, Places, Ends
    <3>6. CASE Deadline(w)
      <4>1. call[w].at # "idle"
        BY <3>6 DEF Deadline, At, MiddlewareInv, UploadsHeld
      <4> QED BY <3>6, <4>1 DEF Deadline, Leaves, Places, Ends
    <3> QED BY <3>1, <3>2, <3>3, <3>4, <3>5, <3>6 DEF Work, Fault
  <2>2. CASE \E place \in Places : Goes(w, place)
    <3>1. PICK place \in Places : Goes(w, place)
      BY <2>2
    <3>2. place # "admission"
      BY DEF Places, Ends
    <3>3. call'[w].msg = call[w].msg /\ call'[w].at = place
      BY <1>1, <3>1 DEF Goes, Calls
    <3>4. \A v \in Callers \ {w} : call'[v] = call[v]
      BY <1>1, <3>1 DEF Goes
    <3> QED BY <2>1, <3>2, <3>3, <3>4
  <2>3. CASE \E reply : call' = [call EXCEPT ![w].at = "sending", ![w].reply = reply]
    <3>1. PICK reply : call' = [call EXCEPT ![w].at = "sending", ![w].reply = reply]
      BY <2>3
    <3>2. \A v \in Callers \ {w} : call'[v] = call[v]
      BY <1>1, <3>1
    <3> DEFINE g == [call EXCEPT ![w].at = "sending"]
    <3>3. g[w].msg = call[w].msg /\ g[w].at = "sending" /\ w \in DOMAIN g
          /\ DOMAIN g[w] = {"msg", "at", "reply"}
      BY <1>1 DEF Calls
    <3>4. call' = [g EXCEPT ![w].reply = reply]
      BY <3>1
    <3> HIDE DEF g
    <3>5. call'[w].msg = call[w].msg /\ call'[w].at = "sending"
      BY <3>3, <3>4
    <3> QED BY <2>1, <3>2, <3>5
  <2> QED BY <2>1, <2>2, <2>3
<1>3. \A v \in Callers : call'[v].at = "admission" => call[v].at = "admission"
  BY <1>2
<1>4. ASSUME channel \in {"telegram", "weixin", "qq"}, call'[Loop].at # "idle"
      PROVE  queue # <<>> /\ call'[Loop].msg = Current
  <2>1. Loop \in Callers
    BY CallersAre
  <2>2. call[Loop].at # "idle" /\ call'[Loop].msg = call[Loop].msg
    BY <1>2, <1>4, <2>1
  <2> QED BY <1>4, <2>2 DEF LoopInv
<1> QED BY <1>2, <1>3, <1>4, AdaptersStayKeeps

(* The task of an adapter has nothing in work, or what it had.             *)
LEMMA LoopKeeps ==
  ASSUME ChannelsInv, UNCHANGED channel,
         \A w \in Callers : call'[w] = call[w] \/ call'[w] = Idle,
         \/ call'[Loop].at = "idle"
         \/ UNCHANGED <<call, queue>>
         \/ UNCHANGED call /\ \E e \in Entries : queue' = Append(queue, e)
  PROVE  LoopInv'
<1> USE DEF ChannelsInv, AdapterInv
<1>1. \A w \in Callers : call'[w].at = "admission" => channel' = "web"
  BY DEF LoopInv, Idle
<1>2. CASE call'[Loop].at = "idle"
  BY <1>1, <1>2 DEF LoopInv
<1>3. CASE UNCHANGED <<call, queue>>
  BY <1>1, <1>3 DEF LoopInv, Current
<1>4. CASE UNCHANGED call /\ \E e \in Entries : queue' = Append(queue, e)
  <2>1. PICK e \in Entries : queue' = Append(queue, e)
    BY <1>4
  <2>2. queue # <<>> => queue' # <<>> /\ Head(queue') = Head(queue)
    BY <2>1, AppendKeepsHead DEF AdapterTyped
  <2> QED BY <1>1, <1>4, <2>2 DEF LoopInv, Current
<1> QED BY <1>2, <1>3, <1>4

LEMMA NumbersAreMessages ==
  ASSUME ChannelsAssumed, NEW n \in Nat, n # 0, n <= Cardinality(Messages)
  PROVE  n \in Messages
<1>1. Cardinality(Messages) \in Nat
  BY FS_CardinalityType DEF ChannelsAssumed
<1>2. n \in 1..Cardinality(Messages)
  BY <1>1
<1> QED BY <1>2, AdapterAssumption

(* The platform has one message more; QQ's gateway also logs it.           *)
LEMMA ArrivedFacts ==
  ASSUME ChannelsAssumed, AdapterTyped, channel \in Adapters, arrived < Load[channel],
         arrived' = arrived + 1
  PROVE  arrived' \in Nat /\ arrived' <= Cardinality(Messages) /\ arrived' \in Messages
<1>1. /\ Cardinality(Messages) \in Nat /\ Load[channel] \in Nat
      /\ Load[channel] <= Cardinality(Messages) /\ arrived \in Nat
  BY FS_CardinalityType DEF ChannelsAssumed, AdapterTyped
<1>2. arrived' \in Nat /\ arrived' # 0 /\ arrived' <= Cardinality(Messages)
  BY <1>1
<1> QED BY <1>2, NumbersAreMessages

LEMMA ArriveKeeps ==
  ASSUME ChannelsAssumed, ChannelsInv, Arrive
  PROVE  AdapterInv'
<1> USE DEF ChannelsInv, AdapterInv
<1>1. /\ UNCHANGED <<call, told, channel, forgets, cursor, saved, queue, batchEnd, client>>
      /\ channel \in Adapters /\ arrived' = arrived + 1 /\ arrived < Load[channel]
  BY DEF Arrive, middlewareVars, AdapterTyped, Adapters
<1>2. arrived' \in Nat /\ arrived' <= Cardinality(Messages) /\ arrived' \in Messages
  BY <1>1, ArrivedFacts
<1>3. LoopInv'
  BY <1>1, LoopKeeps
<1>4. PollInv'
  BY <1>1 DEF PollInv, Passed, Done, Told
<1>5. CASE channel # "qq"
  <2>1. log' = log
    BY <1>5 DEF Arrive
  <2>2. AdapterTyped'
    BY <1>1, <1>2, <2>1 DEF AdapterTyped
  <2> QED BY <1>1, <1>3, <1>4, <1>5, <2>2 DEF GatewayInv
<1>6. CASE channel = "qq"
  <2>1. log # <<>> /\ log' = Append(log, arrived')
    BY <1>6 DEF Arrive
  <2>2. /\ log' \in Seq(Messages \union {Ready}) /\ Len(log') = Len(log) + 1
        /\ \A p \in DOMAIN log : p \in DOMAIN log' /\ log'[p] = log[p]
        /\ log'[1] = log[1] /\ log' # <<>> /\ Len(log) \in Nat
        /\ DOMAIN log = 1..Len(log) /\ DOMAIN log' = 1..(Len(log) + 1)
    BY <1>2, <2>1 DEF AdapterTyped
  <2>3. AdapterTyped'
    BY <1>1, <1>2, <2>2 DEF AdapterTyped
  <2>4. ASSUME InSession PROVE InSession'
    <3>1. \A p \in DOMAIN log : (Fine(p) => Fine(p)') /\ \A n : QueuedUpTo(p, n) => QueuedUpTo(p, n)'
      BY <1>1, <2>2 DEF Fine, Done, Told, QueuedUpTo
    <3>2. client.lastSeq \in Nat /\ client.wire \in Nat
          /\ \A i \in DOMAIN queue : queue[i].seq \in Nat
      <4>1. \A i \in DOMAIN queue : queue[i] \in Entries
        BY DEF AdapterTyped
      <4> QED BY <4>1 DEF AdapterTyped, Entries
    <3>3. client'.lastSeq <= Len(log') /\ (client'.up => client'.wire <= Len(log'))
      BY <1>1, <2>2, <2>4, <3>2 DEF InSession
    <3>4. \A p \in DOMAIN log' : \A n \in Nat : n <= Len(log) /\ p <= n => p \in DOMAIN log
      BY <2>2
    <3>5. \A p \in DOMAIN log' : p <= client'.lastSeq => Fine(p)'
      BY <1>1, <2>4, <3>1, <3>2, <3>4 DEF InSession
    <3>6. client'.up =>
            \A p \in DOMAIN log' : p <= client'.wire => Fine(p)' \/ QueuedUpTo(p, Len(queue))'
      BY <1>1, <2>4, <3>1, <3>2, <3>4 DEF InSession
    <3>7. ASSUME NEW i \in DOMAIN queue'
          PROVE  /\ queue'[i].seq \in DOMAIN log' /\ queue'[i].msg = log'[queue'[i].seq]
                 /\ \A p \in DOMAIN log' : p <= queue'[i].seq => Fine(p)' \/ QueuedUpTo(p, i)'
      <4>1. /\ queue[i].seq \in DOMAIN log /\ queue[i].msg = log[queue[i].seq]
            /\ \A p \in DOMAIN log : p <= queue[i].seq => Fine(p) \/ QueuedUpTo(p, i)
        BY <1>1, <2>4, <3>7 DEF InSession
      <4>2. queue[i].seq \in Nat /\ queue[i].seq <= Len(log)
        BY <2>2, <4>1
      <4> QED BY <1>1, <2>2, <3>1, <3>4, <4>1, <4>2
    <3> QED BY <3>3, <3>5, <3>6, <3>7 DEF InSession
  <2>5. GatewayInv'
    BY <1>1, <2>2, <2>4 DEF GatewayInv, BeforeSession
  <2> QED BY <1>3, <1>4, <2>3, <2>5
<1> QED BY <1>5, <1>6

(* Feishu: nothing but types is promised, for nothing is tried again.      *)
LEMMA FeishuKeeps ==
  ASSUME ChannelsAssumed, ChannelsInv, FeishuPush \/ FeishuDone
  PROVE  AdapterInv'
<1> USE DEF ChannelsInv, AdapterInv
<1>1. /\ channel = "feishu"
      /\ UNCHANGED <<channel, forgets, cursor, saved, batchEnd, log, client>>
  BY DEF FeishuPush, FeishuDone
<1>2. PollInv' /\ GatewayInv'
  BY <1>1 DEF PollInv, GatewayInv, Polling
<1>3. LoopInv'
  <2>1. \A w \in Callers : call'[w] = call[w] \/ call'[w] = Idle
    <3>1. call \in [Callers -> Calls]
      BY DEF MiddlewareInv, MiddlewareTyped, CallTyped, Calls
    <3> QED BY <3>1 DEF FeishuPush, FeishuDone, LoopEnds, middlewareVars
  <2> QED BY <1>1, <2>1 DEF LoopInv, Idle
<1>4. CASE FeishuPush
  <2>1. arrived' \in Nat /\ arrived' <= Cardinality(Messages) /\ arrived' \in Messages
    BY <1>1, <1>4, ArrivedFacts DEF FeishuPush, Adapters
  <2>2. Entry(arrived', arrived', 0) \in Entries
    BY <2>1 DEF Entry, Entries
  <2>3. queue' \in Seq(Entries)
    <3>1. queue \in Seq(Entries)
      BY DEF AdapterTyped
    <3>2. queue' = queue \/ queue' = Append(queue, Entry(arrived', arrived', 0))
      BY <1>4 DEF FeishuPush
    <3> QED BY <2>2, <3>1, <3>2, AppendKeepsHead
  <2> QED BY <1>1, <1>2, <1>3, <2>1, <2>3 DEF AdapterTyped
<1>5. CASE FeishuDone
  <2>1. arrived' = arrived
    BY <1>5 DEF FeishuDone
  <2>2. queue' \in Seq(Entries)
    <3>1. queue' = Tail(queue) /\ queue \in Seq(Entries)
      BY <1>5 DEF FeishuDone, AdapterTyped
    <3>2. CASE queue # <<>>
      BY <3>1, <3>2
    <3>3. CASE queue = <<>>
      BY <3>1, <3>3
    <3> QED BY <3>2, <3>3
  <2> QED BY <1>1, <1>2, <1>3, <2>1, <2>2 DEF AdapterTyped
<1> QED BY <1>4, <1>5

(* A batch starts where the cursor is.                                     *)
LEMMA BatchFacts ==
  ASSUME ChannelsAssumed, ChannelsInv, NEW gone \in Nat, BatchAfter(gone)
  PROVE  /\ queue' \in Seq(Entries) /\ queue' # <<>> /\ Len(queue') = arrived - gone
         /\ queue'[1].seq = gone + 1
         /\ \A i \in DOMAIN queue' : /\ queue'[i].msg = queue'[i].seq
                                     /\ queue'[i].seq = queue'[1].seq + i - 1
<1> DEFINE n == arrived - gone
           q == [i \in 1..n |-> Entry(gone + i, gone + i, 0)]
<1>1. n \in Nat /\ n > 0 /\ gone + n = arrived /\ arrived <= Cardinality(Messages)
      /\ arrived \in Nat /\ Cardinality(Messages) \in Nat
  BY FS_CardinalityType DEF ChannelsAssumed, BatchAfter, ChannelsInv, AdapterInv, AdapterTyped
<1>2. queue' = q
  BY DEF BatchAfter
<1> HIDE DEF n
<1>3. \A i \in 1..n : gone + i \in Messages /\ gone + i \in Nat
  <2>1. \A i \in 1..n : gone + i \in Nat /\ gone + i # 0 /\ gone + i <= Cardinality(Messages)
    BY <1>1
  <2> QED BY <2>1, NumbersAreMessages
<1>4. \A i \in 1..n : /\ q[i] \in Entries /\ q[i].msg = gone + i /\ q[i].seq = gone + i
  BY <1>3 DEF Entry, Entries
<1>5. q = [i \in 1..n |-> q[i]] /\ DOMAIN q = 1..n
  OBVIOUS
<1> HIDE DEF q
<1>6. q \in Seq(Entries) /\ Len(q) = n
  <2>1. q \in [1..n -> Entries] /\ n \in Nat
    BY <1>1, <1>4, <1>5
  <2> QED BY <2>1
<1>7. 1 \in 1..n /\ \A i \in 1..n : gone + i = gone + 1 + i - 1
  BY <1>1
<1>8. q[1].seq = gone + 1 /\ q # <<>>
  BY <1>1, <1>4, <1>6, <1>7
<1> QED BY <1>2, <1>4, <1>5, <1>6, <1>7, <1>8 DEF n

LEMMA PollsKeep ==
  ASSUME ChannelsAssumed, ChannelsInv, TelegramPoll \/ WeixinPoll
  PROVE  AdapterInv'
<1> USE DEF ChannelsInv, AdapterInv
<1> DEFINE gone == IF channel = "telegram" THEN Max({forgets, cursor}) ELSE cursor
<1>1. /\ channel \in Polling
      /\ UNCHANGED <<call, told, channel, arrived, cursor, saved, log, client>>
      /\ BatchAfter(gone) /\ forgets' \in {forgets, gone}
      /\ batchEnd' = (IF channel = "weixin" THEN arrived ELSE batchEnd)
  BY DEF TelegramPoll, WeixinPoll, Polling, middlewareVars
<1>2. gone \in Nat /\ Passed(gone) /\ forgets \in Nat /\ Passed(forgets)
  BY <1>1, MaxOfTwo DEF PollInv, AdapterTyped
<1>3. call[Loop].at = "idle"
  BY <1>1 DEF BatchAfter, LoopIdle, At
<1> HIDE DEF gone
<1>4. /\ queue' \in Seq(Entries) /\ queue' # <<>> /\ Len(queue') = arrived - gone
      /\ queue'[1].seq = gone + 1
      /\ \A i \in DOMAIN queue' : /\ queue'[i].msg = queue'[i].seq
                                  /\ queue'[i].seq = queue'[1].seq + i - 1
  BY <1>1, <1>2, BatchFacts
<1>5. AdapterTyped'
  BY <1>1, <1>2, <1>4 DEF AdapterTyped
<1>6. LoopInv'
  BY <1>1, <1>3, LoopKeeps
<1>7. \A n : Passed(n)' = Passed(n)
  BY <1>1 DEF Passed, Done, Told
<1>8. PollInv'
  <2>1. Passed(cursor)' /\ Passed(saved)' /\ Passed(forgets)'
    <3>1. Passed(forgets')
      BY <1>1, <1>2
    <3> QED BY <1>1, <1>7, <3>1 DEF PollInv, Passed, Done, Told
  <2>2. gone + 1 # 0 /\ gone + 1 - 1 = gone /\ arrived = gone + 1 + (arrived - gone) - 1
    BY <1>2 DEF AdapterTyped
  <2>3. Passed(queue[1].seq - 1)'
    <3>1. queue'[1].seq - 1 = gone
      <4>1. queue'[1].seq = gone + 1
        BY <1>4
      <4> QED BY <1>2, <4>1
    <3>2. told' = told
      BY <1>1
    <3>3. \A m \in 1..(queue'[1].seq - 1) : m \in 1..gone
      BY <3>1
    <3>4. \A m \in 1..gone : Done(m)'
      <4>1. \A m \in 1..gone : Done(m)
        BY <1>2 DEF Passed
      <4> QED BY <3>2, <4>1, StaysFine
    <3> QED BY <3>3, <3>4 DEF Passed
  <2>4. channel' = "weixin" => batchEnd' = queue'[1].seq + Len(queue') - 1
    BY <1>1, <1>4, <2>2
  <2>5. queue'[1].seq # 0
    BY <1>4, <2>2
  <2> QED BY <1>4, <2>1, <2>3, <2>4, <2>5 DEF PollInv
<1>9. GatewayInv'
  BY <1>1 DEF GatewayInv, Polling
<1> QED BY <1>5, <1>6, <1>8, <1>9

(* The first message of the batch is done, so the cursor may pass it.      *)
LEMMA FirstDone ==
  ASSUME ChannelsInv, channel \in Polling, FirstIsDone
  PROVE  /\ queue # <<>> /\ queue[1].seq \in Nat /\ Passed(queue[1].seq)
         /\ call'[Loop].at = "idle" /\ \A w \in Callers : call'[w] = call[w] \/ call'[w] = Idle
<1> USE DEF ChannelsInv, AdapterInv
<1>1. queue # <<>> /\ queue \in Seq(Entries) /\ 1 \in DOMAIN queue /\ Current = queue[1].msg
  BY DEF FirstIsDone, AdapterTyped, Current
<1>2. queue[1] \in Entries
  BY <1>1
<1>3. queue[1].seq \in Nat /\ queue[1].seq # 0 /\ Passed(queue[1].seq - 1)
      /\ queue[1].msg = queue[1].seq
  BY <1>1, <1>2 DEF PollInv, Entries
<1>4. Loop \in Callers /\ call \in [Callers -> Calls]
  BY CallersAre DEF MiddlewareInv, MiddlewareTyped, CallTyped, Calls
<1>5. Done(Current)
  <2>1. CASE Current \in Denied
    BY <2>1 DEF Done
  <2>2. CASE call[Loop].at = "returned"
    <3>1. call[Loop].msg = Current
      BY <2>2 DEF LoopInv, Polling
    <3>2. Told(call[Loop].msg)
      BY <1>4, <2>2 DEF MiddlewareInv, ReturnedIsTold
    <3> QED BY <3>1, <3>2 DEF Done
  <2> QED BY <2>1, <2>2 DEF FirstIsDone, LoopEnds, At
<1>6. Passed(queue[1].seq)
  <2>1. \A m \in 1..queue[1].seq : m \in 1..(queue[1].seq - 1) \/ m = queue[1].seq
    BY <1>3
  <2>2. \A m \in 1..(queue[1].seq - 1) : Done(m)
    BY <1>3 DEF Passed
  <2>3. Done(queue[1].seq)
    BY <1>1, <1>3, <1>5
  <2> QED BY <2>1, <2>2, <2>3 DEF Passed
<1>7. call'[Loop].at = "idle" /\ \A w \in Callers : call'[w] = call[w] \/ call'[w] = Idle
  BY <1>4 DEF FirstIsDone, LoopEnds, LoopIdle, At, Idle
<1> QED BY <1>1, <1>3, <1>6, <1>7

(* The rest of the batch, or none of it, is left.                          *)
LEMMA BatchKeeps ==
  ASSUME ChannelsInv, channel \in Polling, UNCHANGED <<channel, arrived, forgets, batchEnd, log>>,
         told' = told,
         UNCHANGED client \/ client' = [NoClient EXCEPT !.platform = client.platform],
         cursor' \in Nat, Passed(cursor'), saved' \in {saved, cursor'},
         queue' = <<>> \/ (queue # <<>> /\ Passed(queue[1].seq) /\ queue' = Tail(queue)),
         call'[Loop].at = "idle", \A w \in Callers : call'[w] = call[w] \/ call'[w] = Idle
  PROVE  AdapterInv'
<1> USE DEF ChannelsInv, AdapterInv
<1>1. LoopInv'
  BY LoopKeeps
<1>2. GatewayInv'
  BY DEF GatewayInv, Polling
<1>3. queue \in Seq(Entries) /\ \A i \in DOMAIN queue : queue[i].seq \in Nat
  <2>1. \A i \in DOMAIN queue : queue[i] \in Entries
    BY DEF AdapterTyped
  <2> QED BY <2>1 DEF AdapterTyped, Entries
<1>4. AdapterTyped'
  <2>1. queue' \in Seq(Entries)
    <3>1. CASE queue' = <<>>
      BY <3>1
    <3>2. CASE queue # <<>> /\ queue' = Tail(queue)
      BY <1>3, <3>2
    <3> QED BY <3>1, <3>2
  <2>2. client' \in [session : Nat, lastSeq : Nat, epoch : Nat, up : BOOLEAN, wire : Nat,
                     platform : Nat]
    <3>1. client.platform \in Nat
      BY DEF AdapterTyped
    <3>2. CASE UNCHANGED client
      BY <3>2 DEF AdapterTyped
    <3>3. CASE client' = [NoClient EXCEPT !.platform = client.platform]
      <4>1. client' = [session |-> 0, lastSeq |-> 0, epoch |-> 0, up |-> FALSE, wire |-> 0,
                       platform |-> client.platform]
        BY <3>3 DEF NoClient
      <4> QED BY <3>1, <4>1
    <3> QED BY <3>2, <3>3
  <2>3. saved' \in Nat /\ forgets' \in Nat /\ batchEnd' \in Nat
        /\ arrived' \in Nat /\ arrived' <= Cardinality(Messages)
        /\ log' \in Seq(Messages \union {Ready}) /\ channel' \in Adapters \union {None}
    BY DEF AdapterTyped
  <2> QED BY <2>1, <2>2, <2>3 DEF AdapterTyped
<1>5. \A n : Passed(n) => \A m \in 1..n : Done(m)'
  <2>1. \A m : Done(m) => Done(m)'
    BY StaysFine
  <2> QED BY <2>1 DEF Passed
<1>6. Passed(cursor)' /\ Passed(saved)' /\ Passed(forgets)'
  <2>1. Passed(saved') /\ Passed(forgets')
    BY DEF PollInv
  <2>2. /\ \A m \in 1..cursor' : Done(m)'
        /\ \A m \in 1..saved' : Done(m)'
        /\ \A m \in 1..forgets' : Done(m)'
    BY <1>5, <2>1
  <2> QED BY <2>2 DEF Passed
<1>7. CASE queue' = <<>>
  BY <1>1, <1>2, <1>4, <1>6, <1>7 DEF PollInv
<1>8. CASE queue # <<>> /\ Passed(queue[1].seq) /\ queue' = Tail(queue)
  <2> DEFINE l == Len(queue)
  <2>0. l \in Nat /\ l # 0 /\ DOMAIN queue = 1..l
    BY <1>3, <1>8
  <2>1. Len(queue') = l - 1 /\ DOMAIN queue' = 1..(l - 1)
        /\ \A i \in 1..(l - 1) : queue'[i] = queue[i + 1]
    BY <1>3, <1>8
  <2> HIDE DEF l
  <2>2. \A i \in 1..l : queue[i].msg = queue[i].seq /\ queue[i].seq = queue[1].seq + i - 1
    BY <2>0 DEF PollInv
  <2>3. queue[1].seq \in Nat /\ queue[1].seq # 0 /\ 1 \in 1..l
    BY <1>3, <1>8, <2>0 DEF PollInv
  <2>4. \A i \in 1..(l - 1) : i + 1 \in 1..l
    BY <2>0
  <2>5. \A i \in 1..(l - 1) : queue'[i].msg = queue'[i].seq
                              /\ queue'[i].seq = queue[1].seq + (i + 1) - 1
    BY <2>1, <2>2, <2>4
  <2>6. queue' # <<>> => l - 1 >= 1
    <3>1. l - 1 = 0 => queue' = <<>>
      BY <2>0, <2>1, <1>3, <1>8
    <3> QED BY <2>0, <3>1
  <2>7. ASSUME queue' # <<>>
        PROVE  queue'[1].seq = queue[1].seq + 1
    <3>1. 1 \in 1..(l - 1)
      BY <2>0, <2>6, <2>7
    <3>2. queue'[1].seq = queue[1].seq + (1 + 1) - 1
      BY <2>5, <3>1
    <3> QED BY <2>3, <3>2
  <2>8. \A i \in 1..(l - 1) : queue'[i].seq = queue'[1].seq + i - 1
    <3> SUFFICES ASSUME NEW i \in 1..(l - 1)
                 PROVE  queue'[i].seq = queue'[1].seq + i - 1
      OBVIOUS
    <3>1. queue' # <<>>
      BY <2>0, <2>1
    <3>2. queue'[i].seq = queue[1].seq + (i + 1) - 1
      BY <2>5
    <3>3. i \in Nat
      BY <2>0
    <3> QED BY <2>3, <2>7, <3>1, <3>2, <3>3
  <2>9. ASSUME queue' # <<>>
        PROVE  /\ queue'[1].seq # 0 /\ Passed(queue[1].seq - 1)'
               /\ channel' = "weixin" => batchEnd' = queue'[1].seq + Len(queue') - 1
    <3>1. queue'[1].seq # 0 /\ queue'[1].seq - 1 = queue[1].seq
      <4>1. queue'[1].seq = queue[1].seq + 1 /\ queue[1].seq \in Nat
        BY <2>3, <2>7, <2>9
      <4> QED BY <4>1
    <3>2. \A m \in 1..queue[1].seq : Done(m)'
      BY <1>5, <1>8
    <3>3. Passed(queue[1].seq - 1)'
      <4>1. \A m \in 1..(queue'[1].seq - 1) : Done(m)'
        BY <3>1, <3>2
      <4> QED BY <4>1 DEF Passed
    <3>4. channel' = "weixin" => batchEnd' = queue[1].seq + l - 1
      BY <1>8 DEF PollInv, l
    <3>5. channel' = "weixin" => batchEnd' = queue'[1].seq + Len(queue') - 1
      BY <2>0, <2>1, <2>3, <2>7, <2>9, <3>4
    <3> QED BY <3>1, <3>3, <3>5
  <2>10. PollInv'
    BY <1>6, <2>1, <2>5, <2>8, <2>9 DEF PollInv
  <2> QED BY <1>1, <1>2, <1>4, <2>10
<1> QED BY <1>7, <1>8

LEMMA DonesKeep ==
  ASSUME ChannelsInv, \/ TelegramDone \/ WeixinDone \/ TelegramFails \/ WeixinFails \/ OffsetReset
  PROVE  AdapterInv'
<1> USE DEF ChannelsInv, AdapterInv
<1>1. /\ channel \in Polling /\ UNCHANGED <<channel, arrived, forgets, batchEnd, log, client>>
      /\ told' = told
  BY DEF TelegramDone, WeixinDone, TelegramFails, WeixinFails, PollFails, OffsetReset, Polling,
     storeVars
<1>2. cursor \in Nat /\ Passed(cursor) /\ Passed(saved)
  BY <1>1 DEF PollInv, AdapterTyped
<1>3. CASE TelegramDone \/ WeixinDone
  <2>1. /\ queue # <<>> /\ queue[1].seq \in Nat /\ Passed(queue[1].seq)
        /\ call'[Loop].at = "idle" /\ \A w \in Callers : call'[w] = call[w] \/ call'[w] = Idle
    BY <1>1, <1>3, FirstDone DEF TelegramDone, WeixinDone
  <2>2. \A position : MoveCursor(position) =>
                        /\ cursor' = position /\ saved' \in {saved, cursor'}
                        /\ queue' = <<>> \/ queue' = Tail(queue)
    BY DEF MoveCursor
  <2>3. CASE TelegramDone
    <3>1. Head(queue) = queue[1]
      BY <2>1 DEF AdapterTyped
    <3>2. MoveCursor(Max({cursor, queue[1].seq}))
      BY <2>3, <3>1 DEF TelegramDone
    <3>3. Max({cursor, queue[1].seq}) \in {cursor, queue[1].seq}
      BY <1>2, <2>1, MaxOfTwo
    <3>4. cursor' \in Nat /\ Passed(cursor')
      BY <1>2, <2>1, <2>2, <3>2, <3>3
    <3> QED BY <1>1, <2>1, <2>2, <3>2, <3>4, BatchKeeps
  <2>4. CASE WeixinDone /\ Len(queue) = 1
    <3>1. MoveCursor(batchEnd) /\ channel = "weixin"
      BY <2>4 DEF WeixinDone
    <3>2. batchEnd = queue[1].seq + 1 - 1
      BY <1>1, <2>1, <2>4, <3>1 DEF PollInv
    <3>3. batchEnd = queue[1].seq
      BY <2>1, <3>2
    <3>4. cursor' \in Nat /\ Passed(cursor')
      BY <2>1, <2>2, <3>1, <3>3
    <3> QED BY <1>1, <2>1, <2>2, <3>1, <3>4, BatchKeeps
  <2>5. CASE WeixinDone /\ Len(queue) # 1
    <3>1. queue' = Tail(queue) /\ cursor' = cursor /\ saved' = saved
      BY <2>5 DEF WeixinDone
    <3> QED BY <1>1, <1>2, <2>1, <3>1, BatchKeeps
  <2> QED BY <1>3, <2>3, <2>4, <2>5
<1>4. CASE TelegramFails \/ WeixinFails
  <2>1. LoopEnds("raised") /\ queue' = <<>> /\ cursor' = cursor /\ saved' = saved
    BY <1>4 DEF TelegramFails, WeixinFails, PollFails
  <2>2. call'[Loop].at = "idle" /\ \A w \in Callers : call'[w] = call[w] \/ call'[w] = Idle
    <3>1. Loop \in Callers /\ call \in [Callers -> Calls]
      BY CallersAre DEF MiddlewareInv, MiddlewareTyped, CallTyped, Calls
    <3> QED BY <2>1, <3>1 DEF LoopEnds, Idle
  <2> QED BY <1>1, <1>2, <2>1, <2>2, BatchKeeps
<1>5. CASE OffsetReset
  <2>1. /\ queue' = <<>> /\ cursor' = 0 /\ saved' \in {0, saved} /\ call' = call
        /\ call[Loop].at = "idle"
    BY <1>5 DEF OffsetReset, LoopIdle, At
  <2>2. Passed(0)
    BY DEF Passed
  <2> QED BY <1>1, <2>1, <2>2, BatchKeeps
<1> QED BY <1>3, <1>4, <1>5

-----------------------------------------------------------------------------
(* QQ: the connection comes and goes.                                      *)

Clients == [session : Nat, lastSeq : Nat, epoch : Nat, up : BOOLEAN, wire : Nat, platform : Nat]

LEMMA ConnectionKeeps ==
  ASSUME ChannelsInv, Resume \/ Identify \/ Disconnect \/ InvalidSession
  PROVE  AdapterInv'
<1> USE DEF ChannelsInv, AdapterInv
<1>1. /\ channel = "qq" /\ call' = call /\ told' = told
      /\ UNCHANGED <<channel, arrived, forgets, cursor, saved, queue, batchEnd>>
  BY DEF Resume, Identify, Disconnect, InvalidSession, middlewareVars
<1>2. LoopInv' /\ PollInv'
  BY <1>1, LoopKeeps DEF PollInv, Polling
<1>3. client \in Clients /\ log \in Seq(Messages \union {Ready})
  BY DEF AdapterTyped, Clients
<1>4. ASSUME client' \in Clients, log' \in Seq(Messages \union {Ready})
      PROVE  AdapterTyped'
  BY <1>1, <1>4 DEF AdapterTyped, Clients
<1>5. log' = log => \A p : /\ Fine(p)' = Fine(p)
                           /\ \A n : QueuedUpTo(p, n)' = QueuedUpTo(p, n)
  BY <1>1 DEF Fine, Done, Told, QueuedUpTo
<1>6. CASE Resume
  <2>1. /\ client' \in Clients /\ client'.session = client.session /\ client'.up
        /\ client'.lastSeq = client.lastSeq /\ client'.epoch = client.epoch
        /\ client'.wire = client.lastSeq /\ client'.platform = client.platform
        /\ client.session # 0 /\ log' = log
    BY <1>3, <1>6 DEF Resume, MayResume, Clients
  <2>2. AdapterTyped'
    BY <1>3, <1>4, <2>1
  <2>3. client.session <= client.platform /\ client.platform # 0
    BY <1>1, <1>3, <2>1 DEF GatewayInv, Clients
  <2>4. InSession => InSession'
    BY <1>1, <1>3, <1>5, <2>1 DEF InSession, Clients
  <2>5. GatewayInv'
    BY <1>1, <2>1, <2>3, <2>4 DEF GatewayInv
  <2> QED BY <1>2, <2>2, <2>5
<1>7. CASE Identify
  <2>1. /\ client' \in Clients /\ client'.session = client.session /\ client'.up
        /\ client'.lastSeq = client.lastSeq /\ client'.epoch = client.epoch
        /\ client'.wire = 0 /\ client'.platform = client.platform + 1
        /\ log' = <<Ready>>
    <3>1. client.platform + 1 \in Nat
      BY <1>3 DEF Clients
    <3>2. client' = [client EXCEPT !.up = TRUE, !.wire = 0, !.platform = client.platform + 1]
          /\ log' = <<Ready>>
      BY <1>7 DEF Identify
    <3> QED BY <1>3, <3>1, <3>2 DEF Clients
  <2>2. AdapterTyped'
    BY <1>3, <1>4, <2>1
  <2>3. client.session <= client.platform /\ client.session \in Nat /\ client.platform \in Nat
    BY <1>1, <1>3 DEF GatewayInv, Clients
  <2>4. client'.session <= client'.platform /\ client'.session # client'.platform
        /\ client'.platform # 0
    BY <2>1, <2>3
  <2>5. BeforeSession => BeforeSession'
    BY <1>1, <2>1 DEF BeforeSession
  <2>6. GatewayInv'
    BY <1>1, <2>1, <2>4, <2>5 DEF GatewayInv
  <2> QED BY <1>2, <2>2, <2>6
<1>8. CASE Disconnect
  <2>1. /\ client' \in Clients /\ client'.session = client.session /\ ~client'.up
        /\ client'.lastSeq = client.lastSeq /\ client'.epoch = client.epoch
        /\ client'.platform = client.platform /\ log' = log
    BY <1>3, <1>8 DEF Disconnect, Clients
  <2>2. AdapterTyped'
    BY <1>3, <1>4, <2>1
  <2>3. InSession => InSession'
    BY <1>1, <1>5, <2>1 DEF InSession
  <2>4. BeforeSession => BeforeSession'
    BY <1>1, <2>1 DEF BeforeSession
  <2>5. GatewayInv'
    BY <1>1, <2>1, <2>3, <2>4 DEF GatewayInv
  <2> QED BY <1>2, <2>2, <2>5
<1>9. CASE InvalidSession
  <2>1. /\ client' \in Clients /\ client'.session = 0 /\ ~client'.up
        /\ client'.epoch = client.epoch + 1 /\ log' = log
    <3>1. client.epoch + 1 \in Nat
      BY <1>3 DEF Clients
    <3>2. client' = [client EXCEPT !.up = FALSE, !.session = 0, !.lastSeq = 0,
                                   !.epoch = client.epoch + 1]
          /\ log' = log
      BY <1>9 DEF InvalidSession
    <3> QED BY <1>3, <3>1, <3>2 DEF Clients
  <2>2. AdapterTyped'
    BY <1>3, <1>4, <2>1
  <2>3. client'.epoch # 0 /\ client'.session <= client'.platform
    BY <1>3, <2>1 DEF Clients
  <2>4. GatewayInv'
    BY <1>1, <2>1, <2>3 DEF GatewayInv
  <2> QED BY <1>2, <2>2, <2>4
<1> QED BY <1>6, <1>7, <1>8, <1>9

(* QQ: an event of the session.                                            *)
LEMMA ReceiveKeeps ==
  ASSUME ChannelsInv, Receive
  PROVE  AdapterInv'
<1> USE DEF ChannelsInv, AdapterInv
<1> DEFINE seq == client.wire + 1
           event == log[seq]
           e == Entry(event, seq, client.epoch)
<1>1. /\ channel = "qq" /\ call' = call /\ told' = told /\ log' = log
      /\ UNCHANGED <<channel, arrived, forgets, cursor, saved, batchEnd>>
      /\ client.up /\ client.wire < Len(log)
  BY DEF Receive, middlewareVars
<1>2. /\ client \in Clients /\ log \in Seq(Messages \union {Ready}) /\ queue \in Seq(Entries)
      /\ client.wire \in Nat /\ client.lastSeq \in Nat /\ client.epoch \in Nat
      /\ client.session \in Nat /\ client.platform \in Nat
  BY DEF AdapterTyped, Clients
<1>3. seq \in DOMAIN log /\ seq \in Nat /\ seq <= Len(log) /\ seq # 0
      /\ \A p \in DOMAIN log : p <= seq => p <= client.wire \/ p = seq
  <2> DEFINE n == Len(log)
             wire == client.wire
  <2>1. DOMAIN log = 1..n /\ n \in Nat /\ wire \in Nat /\ wire < n /\ seq = wire + 1
    BY <1>1, <1>2
  <2> HIDE DEF n, wire
  <2>2. seq \in 1..n /\ seq \in Nat /\ seq <= n /\ seq # 0
        /\ \A p \in 1..n : p <= seq => p <= wire \/ p = seq
    BY <2>1
  <2> QED BY <2>1, <2>2 DEF n, wire
<1>4. event \in Messages \union {Ready}
  BY <1>2, <1>3
<1>5. \/ /\ event = Ready /\ queue' = queue
         /\ client' = AdvancedIfIdle(IsReady(Received), seq)
      \/ event # Ready /\ event \in Denied /\ queue' = queue /\ client' = AdvancedIfIdle(Received, seq)
      \/ event # Ready /\ QueuedUpTo(seq, Len(queue)) /\ queue' = queue /\ client' = Received
      \/ event # Ready /\ queue' = Append(queue, e) /\ client' = Received
      \/ event # Ready /\ queue' = queue /\ client' = [client EXCEPT !.up = FALSE]
  BY DEF Receive, QueuedUpTo
<1> HIDE DEF seq
<1>6. Max({client.lastSeq, seq}) \in {client.lastSeq, seq}
  BY <1>2, <1>3, MaxOfTwo
<1> DEFINE big == Max({client.lastSeq, seq})
<1> DEFINE newEpoch == IF client.session \notin {0, client.platform}
                          THEN client.epoch + 1 ELSE client.epoch
           newest == IF queue = <<>> THEN big ELSE client.lastSeq
           Is(c, session, epoch, lastSeq, up) ==
             /\ c \in Clients /\ c.session = session /\ c.epoch = epoch /\ c.lastSeq = lastSeq
             /\ c.platform = client.platform /\ c.up = up /\ (up => c.wire = seq)
<1>7. /\ client' = AdvancedIfIdle(IsReady(Received), seq) =>
           Is(client', client.platform, newEpoch, newest, TRUE)
      /\ client' = AdvancedIfIdle(Received, seq) =>
           Is(client', client.session, client.epoch, newest, TRUE)
      /\ client' = Received =>
           Is(client', client.session, client.epoch, client.lastSeq, TRUE)
      /\ client' = [client EXCEPT !.up = FALSE] =>
           Is(client', client.session, client.epoch, client.lastSeq, FALSE)
  <2>1. Is(Received, client.session, client.epoch, client.lastSeq, TRUE)
    BY <1>1, <1>2 DEF Received, Clients, seq
  <2> DEFINE r == IsReady(Received)
  <2>2. Is(r, client.platform, newEpoch, client.lastSeq, TRUE)
    <3>1. newEpoch \in Nat
      BY <1>2
    <3>2. r = [Received EXCEPT !.session = client.platform, !.epoch = newEpoch]
      BY <2>1 DEF IsReady
    <3> HIDE DEF newEpoch, r
    <3> QED BY <1>2, <2>1, <3>1, <3>2 DEF Clients
  <2>3. ASSUME NEW c \in Clients, c.lastSeq = client.lastSeq
        PROVE  LET a == AdvancedIfIdle(c, seq)
               IN /\ a \in Clients /\ a.session = c.session /\ a.up = c.up /\ a.wire = c.wire
                  /\ a.platform = c.platform /\ a.epoch = c.epoch /\ a.lastSeq = newest
    <3>1. big \in Nat
      BY <1>2, <1>3, <1>6
    <3> HIDE DEF big
    <3>2. AdvancedIfIdle(c, seq) = IF queue = <<>> THEN [c EXCEPT !.lastSeq = big] ELSE c
      BY <2>3 DEF AdvancedIfIdle, Advanced, big
    <3> QED BY <2>3, <3>1, <3>2 DEF Clients
  <2>4. Is([client EXCEPT !.up = FALSE], client.session, client.epoch, client.lastSeq, FALSE)
    BY <1>2 DEF Clients
  <2> HIDE DEF newest, newEpoch
  <2>5. Is(AdvancedIfIdle(r, seq), client.platform, newEpoch, newest, TRUE)
    BY <2>2, <2>3
  <2>6. Is(AdvancedIfIdle(Received, seq), client.session, client.epoch, newest, TRUE)
    BY <2>1, <2>3
  <2> HIDE DEF Is
  <2> QED BY <2>1, <2>4, <2>5, <2>6
<1> HIDE DEF big
<1>8. client' \in Clients /\ client'.platform = client.platform
  BY <1>5, <1>7
<1>9. queue' = queue \/ (event \in Messages /\ e \in Entries /\ queue' = Append(queue, e))
  BY <1>2, <1>3, <1>4, <1>5 DEF Entry, Entries
<1>10. queue' \in Seq(Entries)
  BY <1>2, <1>9, AppendKeepsHead
<1>11. AdapterTyped'
  BY <1>1, <1>8, <1>10 DEF AdapterTyped, Clients
<1>12. LoopInv' /\ PollInv'
  BY <1>1, <1>9, LoopKeeps DEF PollInv, Polling
<1>13. \A p : Fine(p)' = Fine(p)
  BY <1>1 DEF Fine, Done, Told
<1>14. client.session <= client.platform /\ client.platform # 0
  BY <1>1 DEF GatewayInv
<1>15. client.epoch + 1 # 0 /\ newEpoch \in Nat
  BY <1>2
<1>16. CASE client.epoch = 0 /\ client.session = 0
  <2>1. queue = <<>> /\ client.lastSeq = 0 /\ client.wire = 0 /\ log # <<>> /\ log[1] = Ready
    BY <1>1, <1>16 DEF GatewayInv, BeforeSession
  <2>2. seq = 1
    BY <2>1 DEF seq
  <2>3. Is(client', client.platform, newEpoch, newest, TRUE) /\ queue' = <<>>
    BY <1>5, <1>7, <2>1, <2>2
  <2>4. newest \in {0, 1} /\ 1 <= Len(log) /\ newest <= Len(log)
    BY <1>2, <1>3, <1>6, <2>1, <2>2 DEF big
  <2> HIDE DEF newest
  <2>5. \A p \in DOMAIN log : p <= 1 => Fine(p)
    <3>1. \A p \in DOMAIN log : p <= 1 => p = 1
      BY <1>2
    <3> QED BY <2>1, <3>1 DEF Fine
  <2>6. \A p \in DOMAIN log : p <= newest => p <= 1
    BY <1>2, <2>4
  <2>7. InSession'
    BY <1>1, <1>13, <2>2, <2>3, <2>4, <2>5, <2>6 DEF InSession
  <2>8. client'.session # 0 /\ client'.session <= client'.platform
    BY <1>2, <1>14, <2>3
  <2>9. GatewayInv'
    BY <1>14, <2>3, <2>7, <2>8 DEF GatewayInv
  <2> QED BY <1>11, <1>12, <2>9
<1>17. CASE client.epoch = 0 /\ client.session # 0 /\ client.session = client.platform
  <2>1. InSession
    BY <1>1, <1>17 DEF GatewayInv
  <2>0. PICK l \in Nat : l = Len(queue)
    BY <1>2
  <2>2. /\ l \in Nat /\ DOMAIN queue = 1..l
        /\ \A i \in 1..l : queue[i] \in Entries /\ queue[i].seq \in Nat
    <3>1. l \in Nat /\ DOMAIN queue = 1..l
      BY <1>2, <2>0
    <3>2. \A i \in DOMAIN queue : queue[i] \in Entries
      BY <1>2
    <3>3. \A i \in DOMAIN queue : queue[i].seq \in Nat
      BY <3>2 DEF Entries
    <3> QED BY <3>1, <3>2, <3>3
  <2>20. /\ l \in 0..l /\ Len(queue') \in Nat /\ l <= Len(queue')
         /\ (queue' = queue => Len(queue') = l) /\ (\A i \in 1..l : queue'[i] = queue[i])
         /\ (queue' = Append(queue, e) => Len(queue') = l + 1 /\ queue'[l + 1] = e)
    <3>1. CASE queue' = queue
      <4>1. Len(queue') = l /\ l + 1 # l
        BY <2>0, <3>1
      <4>2. queue' = Append(queue, e) => Len(queue') = l + 1 /\ queue'[l + 1] = e
        BY <1>2, <2>0
      <4> QED BY <2>2, <3>1, <4>1, <4>2
    <3>2. CASE queue' = Append(queue, e)
      <4>1. Len(queue') = l + 1 /\ queue'[l + 1] = e /\ (\A i \in 1..l : queue'[i] = queue[i])
        BY <1>2, <2>0, <3>2
      <4>2. queue' # queue
        BY <2>0, <4>1
      <4> QED BY <2>2, <4>1, <4>2
    <3> QED BY <1>9, <3>1, <3>2
  <2>3. \A n \in 0..l : \A p : QueuedUpTo(p, n) => QueuedUpTo(p, n)'
    <3> SUFFICES ASSUME NEW n \in 0..l, NEW p, NEW j \in 1..n, queue[j].msg = log[p]
                 PROVE  QueuedUpTo(p, n)'
      BY DEF QueuedUpTo
    <3>1. j \in 1..l
      BY <2>2
    <3>2. queue'[j].msg = log'[p]
      BY <1>1, <2>20, <3>1
    <3> QED BY <3>2 DEF QueuedUpTo
  <2>4. /\ client.lastSeq <= Len(log)
        /\ \A p \in DOMAIN log : p <= client.lastSeq => Fine(p)
        /\ \A p \in DOMAIN log : p <= client.wire => Fine(p) \/ QueuedUpTo(p, l)
        /\ \A i \in 1..l :
             /\ queue[i].seq \in DOMAIN log /\ queue[i].msg = log[queue[i].seq]
             /\ \A p \in DOMAIN log : p <= queue[i].seq => Fine(p) \/ QueuedUpTo(p, i)
    BY <1>1, <2>0, <2>1, <2>2 DEF InSession
  <2>5. Fine(seq) => /\ newest <= Len(log)
                     /\ \A p \in DOMAIN log : p <= newest => Fine(p)
    <3>1. CASE queue = <<>>
      <4>1. newest \in {client.lastSeq, seq}
        BY <1>6, <3>1 DEF big
      <4>2. \A p : ~QueuedUpTo(p, l)
        BY <2>0, <3>1 DEF QueuedUpTo
      <4>3. Fine(seq) => \A p \in DOMAIN log : p <= seq => Fine(p)
        BY <1>3, <2>4, <4>2
      <4> QED BY <1>3, <2>4, <4>1, <4>3
    <3>2. CASE queue # <<>>
      BY <2>4, <3>2
    <3> QED BY <3>1, <3>2
  <2> HIDE DEF newest
  <2>6. /\ client'.session = client.session /\ client'.session = client'.platform
        /\ client'.lastSeq <= Len(log)
        /\ \A p \in DOMAIN log : p <= client'.lastSeq => Fine(p)
        /\ client'.up => client'.wire = seq
    <3>1. CASE event = Ready \/ event \in Denied
      <4>1. Fine(seq)
        BY <3>1 DEF Fine, Done
      <4> QED BY <1>5, <1>7, <1>17, <2>4, <2>5, <4>1
    <3>2. CASE ~(event = Ready \/ event \in Denied)
      BY <1>5, <1>7, <1>17, <2>4, <3>2
    <3> QED BY <3>1, <3>2
  <2>7. l + 1 \in 1..(l + 1) /\ l \in 0..l
    BY <2>2
  <2>8. \A p \in DOMAIN log : p <= client.wire => Fine(p) \/ QueuedUpTo(p, Len(queue))'
    <3>1. \A p : QueuedUpTo(p, l)' => QueuedUpTo(p, Len(queue))'
      BY <2>2, <2>20 DEF QueuedUpTo
    <3> QED BY <2>3, <2>4, <2>7, <3>1
  <2>21. PICK at \in Nat : at = seq
    BY <1>3
  <2>9. client'.up => Fine(at) \/ QueuedUpTo(at, Len(queue))'
    <3>1. CASE event = Ready \/ event \in Denied
      BY <2>21, <3>1 DEF Fine, Done
    <3>2. CASE QueuedUpTo(seq, l) /\ queue' = queue
      <4>1. QueuedUpTo(at, l)' /\ Len(queue') = l
        BY <2>21, <2>3, <2>7, <2>20, <3>2
      <4> QED BY <4>1 DEF QueuedUpTo
    <3>3. CASE queue' = Append(queue, e)
      <4>1. queue'[l + 1].msg = event
        BY <2>20, <3>3 DEF Entry
      <4>2. l + 1 \in 1..Len(queue')
        BY <2>7, <2>20, <3>3
      <4> QED BY <1>1, <2>21, <4>1, <4>2 DEF QueuedUpTo
    <3>4. CASE client' = [client EXCEPT !.up = FALSE]
      BY <1>7, <3>4
    <3> QED BY <1>5, <2>0, <3>1, <3>2, <3>3, <3>4
  <2>10. client'.up =>
           \A p \in DOMAIN log : p <= client'.wire => Fine(p) \/ QueuedUpTo(p, Len(queue))'
    BY <1>3, <2>6, <2>8, <2>9, <2>21
  <2>11. ASSUME NEW i \in DOMAIN queue'
         PROVE  /\ queue'[i].seq \in DOMAIN log /\ queue'[i].msg = log[queue'[i].seq]
                /\ \A p \in DOMAIN log : p <= queue'[i].seq => Fine(p) \/ QueuedUpTo(p, i)'
    <3>1. CASE i \in 1..l
      <4>1. queue'[i] = queue[i] /\ i \in 0..l
        BY <2>2, <2>20, <3>1
      <4> QED BY <2>3, <2>4, <3>1, <4>1
    <3>2. CASE queue' = Append(queue, e) /\ i = l + 1
      <4>1. queue'[i].seq = seq /\ queue'[i].msg = event
        BY <2>20, <3>2 DEF Entry
      <4>2. client'.up
        <5>1. queue' # queue
          BY <2>2, <2>20, <3>2
        <5> QED BY <1>5, <1>7, <5>1
      <4>3. Len(queue') = i
        BY <2>20, <3>2
      <4> QED BY <1>3, <2>6, <2>10, <4>1, <4>2, <4>3
    <3>3. i \in 1..l \/ (queue' = Append(queue, e) /\ i = l + 1)
      <4>1. i \in 1..Len(queue')
        BY <1>10, <2>11
      <4>2. CASE queue' = queue
        BY <2>20, <4>1, <4>2
      <4>3. CASE queue' = Append(queue, e)
        <5>1. i \in 1..(l + 1)
          BY <2>20, <4>1, <4>3
        <5>2. i \in 1..l \/ i = l + 1
          BY <5>1
        <5> QED BY <4>3, <5>2
      <4> QED BY <1>9, <4>2, <4>3
    <3> QED BY <3>1, <3>2, <3>3
  <2>12. client'.up => client'.wire <= Len(log)
    BY <1>3, <2>6
  <2>13. InSession'
    BY <1>1, <1>13, <2>6, <2>10, <2>11, <2>12 DEF InSession
  <2>14. client'.session # 0 /\ client'.session <= client'.platform
    BY <1>2, <1>17, <2>6
  <2>15. GatewayInv'
    BY <1>14, <1>8, <2>13, <2>14 DEF GatewayInv
  <2> QED BY <1>11, <1>12, <2>15
<1>18. CASE client.epoch # 0 \/ (client.session # 0 /\ client.session # client.platform)
  <2>1. /\ client'.session \in {client.session, client.platform}
        /\ client'.platform = client.platform
        /\ client'.session # client.session => client'.epoch = newEpoch
        /\ client'.epoch \in {client.epoch, newEpoch}
    BY <1>5, <1>7
  <2>2. client.epoch # 0 => newEpoch # 0
    BY <1>2
  <2>3. client.epoch = 0 => newEpoch # 0
    BY <1>15, <1>18
  <2> HIDE DEF newEpoch
  <2>4. client'.session <= client'.platform
    BY <1>2, <1>14, <2>1
  <2>5. GatewayInv'
    BY <1>14, <1>18, <2>1, <2>2, <2>3, <2>4 DEF GatewayInv
  <2> QED BY <1>11, <1>12, <2>5
<1> QED BY <1>16, <1>17, <1>18

(* QQ: the message in work is answered, and its sequence counts.           *)
LEMMA QQDoneKeeps ==
  ASSUME ChannelsInv, QQDone
  PROVE  AdapterInv'
<1> USE DEF ChannelsInv, AdapterInv
<1>1. /\ channel = "qq" /\ told' = told /\ log' = log /\ queue' = Tail(queue)
      /\ UNCHANGED <<channel, arrived, forgets, cursor, saved, batchEnd>>
      /\ LoopEnds("returned") /\ client' = Advanced(client, Head(queue).seq, Head(queue).epoch)
  BY DEF QQDone, storeVars
<1>2. Loop \in Callers /\ call \in [Callers -> Calls]
  BY CallersAre DEF MiddlewareInv, MiddlewareTyped, CallTyped, Calls
<1>3. /\ call[Loop].at = "returned" /\ queue # <<>> /\ call[Loop].msg = Current
      /\ call'[Loop].at = "idle" /\ \A w \in Callers : call'[w] = call[w] \/ call'[w] = Idle
  BY <1>1, <1>2 DEF LoopEnds, At, Idle, LoopInv
<1>4. LoopInv' /\ PollInv'
  BY <1>1, <1>3, LoopKeeps DEF PollInv, Polling
<1>5. queue \in Seq(Entries) /\ client \in Clients /\ log \in Seq(Messages \union {Ready})
  BY DEF AdapterTyped, Clients
<1>6. PICK l \in Nat : l = Len(queue)
  BY <1>5
<1>7. /\ l # 0 /\ DOMAIN queue = 1..l /\ Head(queue) = queue[1] /\ 1 \in 1..l
      /\ Len(queue') = l - 1 /\ DOMAIN queue' = 1..(l - 1) /\ queue' \in Seq(Entries)
      /\ \A i \in 1..(l - 1) : queue'[i] = queue[i + 1] /\ i + 1 \in 1..l
  BY <1>1, <1>3, <1>5, <1>6
<1>8. queue[1] \in Entries /\ queue[1].seq \in Nat
  <2>1. queue[1] \in Entries
    BY <1>5, <1>7
  <2> QED BY <2>1 DEF Entries
<1>9. Done(queue[1].msg)
  <2>1. Told(call[Loop].msg)
    BY <1>2, <1>3 DEF MiddlewareInv, ReturnedIsTold
  <2> QED BY <1>3, <1>7, <2>1 DEF Done, Current
<1>10. PICK first \in Nat : first = queue[1].seq
  BY <1>8
<1>11. /\ client' \in Clients /\ client'.session = client.session /\ client'.up = client.up
       /\ client'.epoch = client.epoch /\ client'.wire = client.wire
       /\ client'.platform = client.platform
       /\ client'.lastSeq \in {client.lastSeq, first}
  <2> DEFINE big == Max({client.lastSeq, first})
  <2>1. big \in {client.lastSeq, first} /\ client.lastSeq \in Nat
    BY <1>5, MaxOfTwo DEF Clients
  <2>2. big \in Nat
    BY <2>1
  <2>3. client' = client \/ client' = [client EXCEPT !.lastSeq = big]
    BY <1>1, <1>7, <1>10 DEF Advanced
  <2> HIDE DEF big
  <2> QED BY <1>5, <2>1, <2>2, <2>3 DEF Clients
<1>12. AdapterTyped'
  BY <1>1, <1>7, <1>11 DEF AdapterTyped, Clients
<1>13. ASSUME InSession
       PROVE  InSession'
  <2>1. \A p : Fine(p)' = Fine(p)
    BY <1>1 DEF Fine, Done, Told
  <2>2. /\ client.lastSeq <= Len(log) /\ (client.up => client.wire <= Len(log))
        /\ \A p \in DOMAIN log : p <= client.lastSeq => Fine(p)
        /\ client.up => \A p \in DOMAIN log : p <= client.wire => Fine(p) \/ QueuedUpTo(p, l)
        /\ \A i \in 1..l :
             /\ queue[i].seq \in DOMAIN log /\ queue[i].msg = log[queue[i].seq]
             /\ \A p \in DOMAIN log : p <= queue[i].seq => Fine(p) \/ QueuedUpTo(p, i)
    BY <1>6, <1>7, <1>13 DEF InSession
  <2>3. \A n \in 1..l : \A p : QueuedUpTo(p, n) => Fine(p) \/ QueuedUpTo(p, n - 1)'
    <3> SUFFICES ASSUME NEW n \in 1..l, NEW p, NEW j \in 1..n, queue[j].msg = log[p]
                 PROVE  Fine(p) \/ QueuedUpTo(p, n - 1)'
      BY DEF QueuedUpTo
    <3>1. CASE j = 1
      BY <1>9, <3>1 DEF Fine
    <3>2. CASE j # 1
      <4>1. j - 1 \in 1..(n - 1) /\ j - 1 \in 1..(l - 1) /\ j - 1 + 1 = j
        BY <3>2
      <4>2. queue'[j - 1].msg = log'[p]
        BY <1>1, <1>7, <4>1
      <4> QED BY <4>1, <4>2 DEF QueuedUpTo
    <3> QED BY <3>1, <3>2
  <2>4. \A p \in DOMAIN log : p <= first => Fine(p)
    <3>1. \A p \in DOMAIN log : p <= first => Fine(p) \/ QueuedUpTo(p, 1)
      BY <1>7, <1>10, <2>2
    <3>2. \A p : QueuedUpTo(p, 1) => Fine(p)
      <4>1. \A j \in 1..1 : j = 1
        OBVIOUS
      <4> QED BY <1>9, <4>1 DEF QueuedUpTo, Fine
    <3> QED BY <3>1, <3>2
  <2>5. first <= Len(log)
    <3>1. first \in DOMAIN log
      BY <1>7, <1>10, <2>2
    <3> QED BY <1>5, <3>1
  <2>6. client'.lastSeq <= Len(log') /\ (client'.up => client'.wire <= Len(log'))
    BY <1>1, <1>11, <2>2, <2>5
  <2>7. \A p \in DOMAIN log' : p <= client'.lastSeq => Fine(p)'
    BY <1>1, <1>11, <2>1, <2>2, <2>4
  <2>8. client'.up =>
          \A p \in DOMAIN log' : p <= client'.wire => Fine(p)' \/ QueuedUpTo(p, Len(queue))'
    <3>1. \A p : QueuedUpTo(p, l) => Fine(p) \/ QueuedUpTo(p, Len(queue))'
      <4>1. l \in 1..l
        BY <1>6, <1>7
      <4>2. \A p : QueuedUpTo(p, l - 1)' = QueuedUpTo(p, Len(queue))'
        BY <1>7 DEF QueuedUpTo
      <4> QED BY <2>3, <4>1, <4>2
    <3> QED BY <1>1, <1>11, <2>1, <2>2, <3>1
  <2>9. ASSUME NEW i \in DOMAIN queue'
        PROVE  /\ queue'[i].seq \in DOMAIN log' /\ queue'[i].msg = log'[queue'[i].seq]
               /\ \A p \in DOMAIN log' : p <= queue'[i].seq => Fine(p)' \/ QueuedUpTo(p, i)'
    <3>1. queue'[i] = queue[i + 1] /\ i + 1 \in 1..l /\ i + 1 - 1 = i
      BY <1>7, <2>9
    <3>2. \A p : QueuedUpTo(p, i + 1) => Fine(p) \/ QueuedUpTo(p, i)'
      <4>0. i \in Nat
        BY <1>7
      <4>1. PICK n \in 1..l : n = i + 1 /\ n - 1 = i
        BY <3>1, <4>0
      <4>2. \A p : QueuedUpTo(p, n) => Fine(p) \/ QueuedUpTo(p, n - 1)'
        BY <2>3
      <4> QED BY <4>1, <4>2
    <3> QED BY <1>1, <2>1, <2>2, <3>1, <3>2
  <2> QED BY <2>6, <2>7, <2>8, <2>9 DEF InSession
<1>14. GatewayInv'
  <2>1. client.session <= client.platform /\ (client.up => client.platform # 0)
        /\ ~BeforeSession
    BY <1>1, <1>3 DEF GatewayInv, BeforeSession
  <2> QED BY <1>1, <1>11, <1>13, <2>1 DEF GatewayInv
<1> QED BY <1>4, <1>12, <1>14

(* The process dies: what it had in memory is gone, not what is done.      *)
LEMMA CrashKeeps ==
  ASSUME ChannelsInv, Crash
  PROVE  AdapterInv'
<1> USE DEF ChannelsInv, AdapterInv
<1>1. /\ UNCHANGED <<channel, arrived, forgets, saved, batchEnd, log>> /\ told' = told
      /\ queue' = <<>> /\ cursor' = saved
      /\ client' = [NoClient EXCEPT !.platform = client.platform]
      /\ call' = [w \in Callers |-> Idle]
  BY DEF Crash, Died
<1>2. Loop \in Callers
  BY CallersAre
<1>3. call'[Loop].at = "idle" /\ \A w \in Callers : call'[w] = call[w] \/ call'[w] = Idle
  BY <1>1, <1>2 DEF Idle
<1>4. CASE channel \in Polling
  <2>1. cursor' \in Nat /\ Passed(cursor')
    BY <1>1, <1>4 DEF PollInv, AdapterTyped
  <2> QED BY <1>1, <1>3, <1>4, <2>1, BatchKeeps
<1>5. CASE channel \notin Polling
  <2>1. LoopInv' /\ PollInv'
    BY <1>1, <1>3, <1>5, LoopKeeps DEF PollInv
  <2>2. client.platform \in Nat
    BY DEF AdapterTyped
  <2>3. client' = [session |-> 0, lastSeq |-> 0, epoch |-> 0, up |-> FALSE, wire |-> 0,
                   platform |-> client.platform]
    BY <1>1 DEF NoClient
  <2>4. /\ client' \in [session : Nat, lastSeq : Nat, epoch : Nat, up : BOOLEAN, wire : Nat,
                        platform : Nat]
        /\ client'.session = 0 /\ client'.lastSeq = 0 /\ ~client'.up
        /\ client'.session <= client'.platform
    BY <2>2, <2>3
  <2>5. AdapterTyped'
    BY <1>1, <2>4 DEF AdapterTyped
  <2>6. GatewayInv'
    BY <1>1, <2>4 DEF GatewayInv, BeforeSession
  <2> QED BY <2>1, <2>5, <2>6
<1> QED BY <1>4, <1>5

(* The task takes up its first message; the webhook's requests.            *)
LEMMA EntriesKeepAdapters ==
  ASSUME ChannelsInv,
         \/ \E of \in Adapters : Dispatch(of)
         \/ QQRetry
         \/ \E w \in Requests : RequestStep(w)
         \/ Persist /\ UNCHANGED adapterVars
         \/ UNCHANGED channelVars
  PROVE  AdapterInv'
<1> USE DEF ChannelsInv, AdapterInv
<1>1. Loop \in Callers /\ Requests \subseteq Callers /\ call \in [Callers -> Calls]
  BY CallersAre DEF MiddlewareInv, MiddlewareTyped, CallTyped, Calls
<1>2. CASE \E of \in Adapters : Dispatch(of)
  <2>1. queue # <<>> /\ Enter(Loop, Current) /\ UNCHANGED adapterVars /\ told' = told
    BY <1>2 DEF Dispatch
  <2>2. /\ call'[Loop].msg = Current /\ call'[Loop].at # "admission"
        /\ \A w \in Callers : call'[w].at = "admission" => call[w].at = "admission"
    BY <1>1, <2>1 DEF Enter
  <2> QED BY <2>1, <2>2, AdaptersStayKeeps
<1>3. CASE QQRetry
  <2>1. UNCHANGED adapterVars /\ told' = told /\ call' = [call EXCEPT ![Loop] = Idle]
    BY <1>3 DEF QQRetry, LoopEnds, storeVars
  <2>2. /\ call'[Loop].at = "idle"
        /\ \A w \in Callers : call'[w].at = "admission" => call[w].at = "admission"
    BY <1>1, <2>1 DEF Idle
  <2> QED BY <2>1, <2>2, AdaptersStayKeeps
<1>4. CASE \E w \in Requests : RequestStep(w)
  <2>1. PICK w \in Requests : RequestStep(w)
    BY <1>4
  <2>2. w \in Callers
    BY <1>1
  <2>3. /\ UNCHANGED adapterVars /\ told' = told
        /\ \A v \in Callers \ {w} : call'[v] = call[v]
        /\ channel = "web" \/ call'[w].at = "idle"
    <3>1. CASE TakeSlot(w)
      <4>1. channel = "web"
        BY <2>2, <3>1 DEF TakeSlot, At, LoopInv
      <4> QED BY <1>1, <3>1, <4>1 DEF TakeSlot, Enter
    <3>2. CASE Respond(w)
      BY <1>1, <2>2, <3>2 DEF Respond, Idle, storeVars
    <3>3. CASE \E m \in Messages : Post(w, m)
      <4>1. PICK m \in Messages : Post(w, m)
        BY <3>3
      <4> QED BY <1>1, <4>1 DEF Post, Enter
    <3> QED BY <2>1, <3>1, <3>2, <3>3 DEF RequestStep
  <2>5. \A v \in Callers : call'[v].at = "admission" => call[v].at = "admission" \/ channel = "web"
    BY <2>3
  <2>6. channel \in {"telegram", "weixin", "qq"} /\ call'[Loop].at # "idle" =>
          queue # <<>> /\ call'[Loop].msg = Current
    BY <1>1, <2>3 DEF LoopInv
  <2> QED BY <2>3, <2>5, <2>6, AdaptersStayKeeps
<1>5. CASE (Persist /\ UNCHANGED adapterVars) \/ UNCHANGED channelVars
  <2>1. UNCHANGED adapterVars /\ told' = told /\ call' = call
    BY <1>5 DEF Persist, channelVars, middlewareVars
  <2>2. channel \in {"telegram", "weixin", "qq"} /\ call'[Loop].at # "idle" =>
          queue # <<>> /\ call'[Loop].msg = Current
    BY <2>1 DEF LoopInv
  <2> QED BY <2>1, <2>2, AdaptersStayKeeps
<1> QED BY <1>2, <1>3, <1>4, <1>5

-----------------------------------------------------------------------------
(* The invariant, from the start on.                                       *)

LEMMA InitSound ==
  ASSUME ChannelsAssumed, NEW of \in SUBSET (Adapters \union {None}), NEW faults,
         NEW disturbances, ChannelsInit(of, faults, disturbances)
  PROVE  ChannelsInv
<1>1. /\ call = [w \in Callers |-> Idle] /\ lockQueue = [c \in Conversations |-> <<>>]
      /\ markers = NoMarkers /\ disk = NoMarkers /\ held = {}
      /\ executed = [m \in Messages |-> 0] /\ forgotten = [m \in Messages |-> 0]
  BY DEF ChannelsInit, MiddlewareInit
<1>2. /\ channel \in of /\ arrived = 0 /\ forgets = 0 /\ cursor = 0 /\ saved = 0
      /\ queue = <<>> /\ batchEnd = 0 /\ log = <<>> /\ client = NoClient
  BY DEF ChannelsInit
<1>3. \A w \in Callers : call[w] = Idle
  BY <1>1
<1>4. MiddlewareTyped
  <2>1. NoMarkers \in Marks
    BY DEF NoMarkers, Marks
  <2>2. Idle \in [msg : Messages \union {None}, at : {"idle", "admission"} \union Places,
                  reply : {None, "answer", "expired"}] /\ Idle.at = "idle"
    BY DEF Idle
  <2>3. CallTyped
    BY <1>1, <2>2 DEF CallTyped
  <2> QED BY <1>1, <1>3, <2>1, <2>2, <2>3 DEF MiddlewareTyped
<1>5. LockIsHeld /\ NotYetMarked /\ UploadsHeld /\ ReturnedIsTold /\ Answering /\ NoticeOnlyWhenOld
  BY <1>1, <1>3 DEF LockIsHeld, NotYetMarked, UploadsHeld, ReturnedIsTold, Answering,
     NoticeOnlyWhenOld, At, Idle, Working
<1>6. ExecutionsCounted
  BY <1>1 DEF ExecutionsCounted
<1>7. RepliesAreNewest
  <2>1. \A c \in Conversations : NoMarkers[c].ids = <<>> /\ NoMarkers[c].replies = <<>>
    BY DEF NoMarkers
  <2>2. ReplyLimit \in Nat /\ ReplyLimit > 0
    BY LimitsAssumption
  <2>3. Suffix(<<>>, <<>>, ReplyLimit)
    BY <2>2 DEF Suffix
  <2> QED BY <1>1, <2>1, <2>3 DEF RepliesAreNewest
<1>8. AdapterTyped
  <2>1. 0 <= Cardinality(Messages)
    BY FS_CardinalityType DEF ChannelsAssumed
  <2> QED BY <1>2, <2>1 DEF AdapterTyped, NoClient
<1>9. LoopInv
  BY <1>3, CallersAre, <1>8 DEF LoopInv, Idle
<1>10. PollInv
  BY <1>2 DEF PollInv, Passed
<1>11. GatewayInv
  BY <1>2 DEF GatewayInv, BeforeSession, NoClient
<1> QED BY <1>4, <1>5, <1>6, <1>7, <1>8, <1>9, <1>10, <1>11
     DEF ChannelsInv, MiddlewareInv, AdapterInv

LEMMA NextKeeps ==
  ASSUME ChannelsAssumed, ChannelsInv, [ChannelsNext]_channelVars
  PROVE  ChannelsInv'
<1>1. MiddlewareInv'
  BY MiddlewareNextKeeps
<1>2. AdapterInv'
  <2>1. CASE Arrive \/ FeishuPush \/ FeishuDone
    BY <2>1, ArriveKeeps, FeishuKeeps
  <2>2. CASE TelegramPoll \/ WeixinPoll
    BY <2>2, PollsKeep
  <2>3. CASE TelegramDone \/ WeixinDone \/ TelegramFails \/ WeixinFails \/ OffsetReset
    BY <2>3, DonesKeep
  <2>4. CASE \/ TelegramDispatch \/ WeixinDispatch \/ QQDispatch \/ FeishuDispatch \/ QQRetry
             \/ (Persist /\ UNCHANGED adapterVars) \/ UNCHANGED channelVars
    BY <2>4, EntriesKeepAdapters
    DEF TelegramDispatch, WeixinDispatch, QQDispatch, FeishuDispatch, Adapters
  <2>5. CASE Resume \/ Identify \/ Disconnect \/ InvalidSession
    BY <2>5, ConnectionKeeps
  <2>6. CASE Receive \/ QQDone \/ Crash
    BY <2>6, ReceiveKeeps, QQDoneKeeps, CrashKeeps
  <2>7. CASE \E w \in Requests : RequestStep(w) \/ Deadline(w)
    <3>1. PICK w \in Requests : RequestStep(w) \/ Deadline(w)
      BY <2>7
    <3>2. CASE RequestStep(w)
      BY <3>2, EntriesKeepAdapters
    <3>3. CASE Deadline(w)
      <4>1. UNCHANGED adapterVars /\ w \in Callers
        BY <3>3, CallersAre DEF Deadline, ChannelsInv, AdapterInv
      <4> QED BY <3>3, <4>1, MiddlewareKeepsAdapters
    <3> QED BY <3>1, <3>2, <3>3
  <2>8. CASE Middleware
    BY <2>8, MiddlewareKeepsAdapters DEF Middleware
  <2> QED BY <2>1, <2>2, <2>3, <2>4, <2>5, <2>6, <2>7, <2>8
       DEF ChannelsNext, LoopStep, GatewayStep
<1> QED BY <1>1, <1>2 DEF ChannelsInv

(* What is promised of a message and of a cursor is part of the invariant. *)
LEMMA HandledOnce ==
  ASSUME ChannelsInv
  PROVE  MessagesAreHandledOnce
<1> USE DEF ChannelsInv, AdapterInv
<1>1. ExecutedOnce /\ NoticeOnlyWhenOld
  BY DEF MiddlewareInv, ExecutionsCounted, ExecutedOnce
<1>2. cursor \in Nat /\ saved \in Nat /\ client \in Clients /\ log \in Seq(Messages \union {Ready})
  BY DEF AdapterTyped, Clients
<1>3. channel \in Polling => \A m \in 1..Max({cursor, saved}) : m \in Denied \/ Told(m)
  <2>1. Max({cursor, saved}) \in {cursor, saved}
    BY <1>2, MaxOfTwo
  <2>2. channel \in Polling => Passed(Max({cursor, saved}))
    BY <2>1 DEF PollInv
  <2> QED BY <2>2 DEF Passed, Done
<1>4. ASSUME client.epoch = 0, channel = "qq", client.session = client.platform
      PROVE  \A p \in 1..Min({client.lastSeq, Len(log)}) :
               log[p] = Ready \/ log[p] \in Denied \/ Told(log[p])
  <2>1. client.lastSeq \in Nat /\ Len(log) \in Nat /\ DOMAIN log = 1..Len(log)
    BY <1>2 DEF Clients
  <2> DEFINE n == Min({client.lastSeq, Len(log)})
  <2>2. n \in {client.lastSeq, Len(log)} /\ n <= client.lastSeq /\ n <= Len(log)
    BY <2>1, MinOfTwo
  <2> HIDE DEF n
  <2>3. \A p \in 1..n : p \in DOMAIN log /\ p <= client.lastSeq /\ client.lastSeq # 0
    BY <2>1, <2>2
  <2>4. CASE client.session = 0
    <3>1. client.lastSeq = 0
      BY <1>4, <2>4 DEF GatewayInv, BeforeSession
    <3> QED BY <2>3, <3>1 DEF n
  <2>5. CASE client.session # 0
    <3>1. \A p \in DOMAIN log : p <= client.lastSeq => Fine(p)
      BY <1>4, <2>5 DEF GatewayInv, InSession
    <3>2. \A p \in 1..n : Fine(p)
      BY <2>3, <3>1
    <3> QED BY <3>2 DEF Fine, Done, n
  <2> QED BY <2>4, <2>5
<1>5. CursorFollowsAnswers
  BY <1>3, <1>4 DEF CursorFollowsAnswers, SequenceFollowsAnswers
<1> QED BY <1>1, <1>5 DEF MessagesAreHandledOnce

(* The inductive invariant of the channels: what is in a conversation's    *)
(* lock, markers and kept replies, and what a cursor, a batch or a session *)
(* has passed (middleware.py, store.py:458-471, the adapters' loops).      *)
THEOREM ChannelsStayConsistent ==
  ASSUME NEW of \in SUBSET (Adapters \union {None}), NEW faults, NEW disturbances
  PROVE  ChannelsInit(of, faults, disturbances) /\ [][ChannelsNext]_channelVars => []ChannelsInv
<1>1. ChannelsInit(of, faults, disturbances) => ChannelsInv
  BY LoadAssumption, InitSound
<1>2. ChannelsInv /\ [ChannelsNext]_channelVars => ChannelsInv'
  BY LoadAssumption, NextKeeps
<1> QED BY <1>1, <1>2, PTL

(* For any messages, callers, limits and faults: a message is executed     *)
(* again only when its marker is lost, the notice of an expired answer is  *)
(* for old messages only (middleware.py: the duplicate check, the commit   *)
(* and the replay of handle_inbound; store.py:458-471), and the Telegram   *)
(* offset, the Weixin buffer and the QQ sequence pass a message only when  *)
(* its conversation has been told (telegram.py:534-539, weixin.py:417-424, *)
(* qq.py:856-863).                                                         *)
THEOREM MessagesAreHandledOnceAlways ==
  ASSUME NEW of \in SUBSET (Adapters \union {None}), NEW faults, NEW disturbances
  PROVE  ChannelsInit(of, faults, disturbances) /\ [][ChannelsNext]_channelVars =>
           []MessagesAreHandledOnce
<1>1. ChannelsInv => MessagesAreHandledOnce
  BY HandledOnce
<1> QED BY <1>1, ChannelsStayConsistent, PTL

-----------------------------------------------------------------------------
(* Type correctness: who waits for a lock waits for it once, and only      *)
(* callers whose message is of the conversation do.                        *)

Once(s) == \A i, j \in DOMAIN s : s[i] = s[j] => i = j
WaitsThere(w, c) == InCall(w) /\ ConversationAt(w) = c
QueuesOK ==
  \A c \in Conversations :
    Once(lockQueue[c]) /\ \A w \in ToSet(lockQueue[c]) : WaitsThere(w, c)
MarksFit ==
  \A c \in Conversations :
    Len(markers[c].ids) <= RecentLimit /\ Len(disk[c].ids) <= RecentLimit
MarkedKnown == dirty \subseteq Messages /\ kept \subseteq Messages /\ held \subseteq Callers
MiddlewareKnown == QueuesOK /\ MarksFit /\ MarkedKnown

LEMMA Joined ==
  ASSUME NEW S, NEW a \in Seq(S), NEW b \in Seq(S)
  PROVE  /\ a \o b \in Seq(S) /\ Len(a \o b) = Len(a) + Len(b)
         /\ \A j \in 1..(Len(a) + Len(b)) :
              (a \o b)[j] = IF j <= Len(a) THEN a[j] ELSE b[j - Len(a)]
OBVIOUS

LEMMA RemovedOnce ==
  ASSUME NEW S, NEW s \in Seq(S), NEW x, Once(s)
  PROVE  /\ RemoveFirst(s, x) \in Seq(S) /\ Once(RemoveFirst(s, x))
         /\ ToSet(RemoveFirst(s, x)) \subseteq ToSet(s) \ {x}
<1>1. CASE \E i \in 1..Len(s) : s[i] = x
  <2> DEFINE I == {i \in 1..Len(s) : s[i] = x}
             n == Min(I)
             a == SubSeq(s, 1, n - 1)
             b == SubSeq(s, n + 1, Len(s))
             t == a \o b
  <2>1. \E m \in I : \A i \in I : m <= i
    <3>1. I # {} /\ I \subseteq Nat
      BY <1>1
    <3> QED BY <3>1, Least
  <2>2. n \in I
    BY <2>1 DEF Min
  <2>3. n \in 1..Len(s) /\ s[n] = x
    BY <2>2
  <2>4. RemoveFirst(s, x) = t
    BY <1>1 DEF RemoveFirst, RemoveAt, SelectInSeq
  <2> HIDE DEF n, I
  <2>5. /\ a \in Seq(S) /\ Len(a) = n - 1 /\ \A i \in 1..(n - 1) : a[i] = s[i]
        /\ b \in Seq(S) /\ Len(b) = Len(s) - n /\ \A i \in 1..(Len(s) - n) : b[i] = s[n + i]
    BY <2>3
  <2> HIDE DEF a, b
  <2>6. /\ t \in Seq(S) /\ Len(t) = Len(s) - 1
        /\ \A j \in 1..(Len(s) - 1) : t[j] = IF j < n THEN s[j] ELSE s[j + 1]
    <3>1. /\ t \in Seq(S) /\ Len(t) = Len(a) + Len(b)
          /\ \A j \in 1..(Len(a) + Len(b)) :
               t[j] = IF j <= Len(a) THEN a[j] ELSE b[j - Len(a)]
      BY <2>5, Joined
    <3> HIDE DEF t
    <3>2. \A j \in 1..(Len(s) - 1) :
            IF j < n THEN j <= Len(a) /\ j \in 1..(n - 1)
                     ELSE ~(j <= Len(a)) /\ j - Len(a) \in 1..(Len(s) - n)
                          /\ n + (j - Len(a)) = j + 1
      BY <2>3, <2>5
    <3>3. Len(a) + Len(b) = Len(s) - 1
      BY <2>3, <2>5
    <3> QED BY <2>5, <3>1, <3>2, <3>3
  <2> HIDE DEF t
  <2>7. DOMAIN t = 1..(Len(s) - 1) /\ DOMAIN s = 1..Len(s)
    BY <2>6
  <2>8. Once(t)
    <3> SUFFICES ASSUME NEW i \in DOMAIN t, NEW j \in DOMAIN t, t[i] = t[j]
                 PROVE  i = j
      BY DEF Once
    <3> DEFINE old(k) == IF k < n THEN k ELSE k + 1
    <3>1. old(i) \in DOMAIN s /\ old(j) \in DOMAIN s /\ t[i] = s[old(i)] /\ t[j] = s[old(j)]
      BY <2>3, <2>6, <2>7
    <3>2. old(i) = old(j)
      BY <3>1 DEF Once
    <3> QED BY <2>3, <2>7, <3>2
  <2>9. ASSUME NEW e \in ToSet(t) PROVE e \in ToSet(s) \ {x}
    <3>1. PICK j \in 1..(Len(s) - 1) : t[j] = e
      BY <2>7 DEF ToSet
    <3>2. PICK k \in DOMAIN s : k # n /\ s[k] = e
      <4>1. CASE j < n
        BY <2>3, <2>6, <2>7, <3>1, <4>1
      <4>2. CASE ~(j < n)
        <5>1. j + 1 \in DOMAIN s /\ j + 1 # n /\ s[j + 1] = e
          BY <2>3, <2>6, <2>7, <3>1, <4>2
        <5> QED BY <5>1
      <4> QED BY <4>1, <4>2
    <3>3. e # x
      BY <2>3, <2>7, <3>2 DEF Once
    <3> QED BY <3>2, <3>3 DEF ToSet
  <2> QED BY <2>4, <2>6, <2>8, <2>9
<1>2. CASE ~\E i \in 1..Len(s) : s[i] = x
  <2>1. RemoveFirst(s, x) = s /\ DOMAIN s = 1..Len(s)
    BY <1>2 DEF RemoveFirst
  <2> QED BY <1>2, <2>1 DEF ToSet
<1> QED BY <1>1, <1>2

LEMMA AppendedOnce ==
  ASSUME NEW S, NEW s \in Seq(S), NEW x \in S, Once(s), x \notin ToSet(s)
  PROVE  Once(Append(s, x)) /\ ToSet(Append(s, x)) \subseteq ToSet(s) \union {x}
<1> DEFINE t == Append(s, x)
<1>1. /\ t \in Seq(S) /\ DOMAIN t = 1..(Len(s) + 1) /\ DOMAIN s = 1..Len(s) /\ Len(s) \in Nat
      /\ t[Len(s) + 1] = x /\ \A i \in 1..Len(s) : t[i] = s[i]
  OBVIOUS
<1> HIDE DEF t
<1>2. \A i \in 1..Len(s) : s[i] # x
  BY <1>1 DEF ToSet
<1>3. Once(t)
  <2> SUFFICES ASSUME NEW i \in DOMAIN t, NEW j \in DOMAIN t, t[i] = t[j] PROVE i = j
    BY DEF Once
  <2>1. i = Len(s) + 1 \/ i \in DOMAIN s
    BY <1>1
  <2>2. j = Len(s) + 1 \/ j \in DOMAIN s
    BY <1>1
  <2> QED BY <1>1, <1>2, <2>1, <2>2 DEF Once
<1>4. \A e \in ToSet(t) : e \in ToSet(s) \union {x}
  BY <1>1 DEF ToSet
<1> QED BY <1>3, <1>4 DEF t

LEMMA OnceIsAsLong ==
  ASSUME NEW S, NEW s \in Seq(S), Once(s)
  PROVE  Len(s) = Cardinality(ToSet(s))
<1> DEFINE n == Len(s)
           f == [i \in 1..n |-> s[i]]
<1>1. n \in Nat /\ DOMAIN s = 1..n
  OBVIOUS
<1>2. IsFiniteSet(1..n) /\ Cardinality(1..n) = n
  BY <1>1, FS_Interval
<1> HIDE DEF n
<1>3. f \in [1..n -> ToSet(s)]
  BY <1>1 DEF ToSet
<1>4. \A i, j \in 1..n : f[i] = f[j] => i = j
  BY <1>1 DEF Once
<1>5. \A e \in ToSet(s) : \E i \in 1..n : f[i] = e
  BY <1>1 DEF ToSet
<1> HIDE DEF f
<1>6. ExistsBijection(1..n, ToSet(s))
  <2>1. f \in Injection(1..n, ToSet(s))
    BY <1>3, <1>4 DEF Injection, IsInjective
  <2>2. f \in Surjection(1..n, ToSet(s))
    BY <1>3, <1>5 DEF Surjection
  <2> QED BY <2>1, <2>2 DEF ExistsBijection, Bijection
<1> QED BY <1>2, <1>6, FS_Bijection DEF n

(* A caller that is in a call stays in it, with its message.               *)
CallsGoOn == \A v \in Callers : InCall(v) => InCall(v)' /\ call'[v].msg = call[v].msg

LEMMA QueuesStay ==
  ASSUME MiddlewareInv, QueuesOK, CallsGoOn, UNCHANGED lockQueue
  PROVE  QueuesOK'
<1>1. \A c \in Conversations : \A w \in ToSet(lockQueue[c]) : w \in Callers
  BY DEF MiddlewareInv, MiddlewareTyped, ToSet
<1>2. \A w \in Callers : \A c \in Conversations : WaitsThere(w, c) => WaitsThere(w, c)'
  BY DEF CallsGoOn, WaitsThere, ConversationAt
<1> QED BY <1>1, <1>2 DEF QueuesOK

LEMMA OneGoesOn ==
  ASSUME MiddlewareInv, NEW w \in Callers, NEW r,
         call' = [call EXCEPT ![w] = r],
         InCall(w) => r.msg = call[w].msg /\ r.at \notin {"idle", "admission"} \union Ends
  PROVE  CallsGoOn
<1>1. DOMAIN call = Callers
  BY DEF MiddlewareInv, MiddlewareTyped, CallTyped
<1>2. call'[w] = r /\ \A v \in Callers \ {w} : call'[v] = call[v]
  BY <1>1
<1> QED BY <1>2 DEF CallsGoOn, InCall

LEMMA GoesOn ==
  ASSUME MiddlewareInv, NEW w \in Callers, NEW place \in Working, Goes(w, place)
  PROVE  CallsGoOn
<1>1. place \in {"idle", "admission"} \union Places
      /\ place \notin {"idle", "admission"} \union Ends
  BY DEF Working, Places, Ends
<1> DEFINE r == [msg |-> call[w].msg, at |-> place, reply |-> call[w].reply]
<1>2. call' = [call EXCEPT ![w] = r]
  BY <1>1, GoesFacts
<1>3. r.msg = call[w].msg /\ r.at = place
  OBVIOUS
<1> HIDE DEF r
<1> QED BY <1>1, <1>2, <1>3, OneGoesOn

LEMMA SendingGoesOn ==
  ASSUME MiddlewareInv, NEW w \in Callers, NEW reply,
         call' = [call EXCEPT ![w].at = "sending", ![w].reply = reply]
  PROVE  CallsGoOn
<1>1. call \in [Callers -> Calls]
  BY DEF MiddlewareInv, MiddlewareTyped, CallTyped, Calls
<1>2. call[w] = [msg |-> call[w].msg, at |-> call[w].at, reply |-> call[w].reply]
  BY <1>1 DEF Calls
<1> DEFINE r == [msg |-> call[w].msg, at |-> "sending", reply |-> reply]
<1>3. call' = [call EXCEPT ![w] = r]
  <2>1. call'[w] = r
    BY <1>1, <1>2
  <2>2. call' = [call EXCEPT ![w] = call'[w]]
    BY <1>1
  <2> HIDE DEF r
  <2> QED BY <2>1, <2>2
<1>4. r.msg = call[w].msg /\ r.at \notin {"idle", "admission"} \union Ends
  BY DEF Ends
<1> HIDE DEF r
<1> QED BY <1>3, <1>4, OneGoesOn

LEMMA LeavesQueue ==
  ASSUME MiddlewareInv, QueuesOK, NEW w \in Callers, NEW end \in Ends, call[w].at # "idle",
         Leaves(w, end)
  PROVE  QueuesOK'
<1> DEFINE k == ConversationAt(w)
<1>1. lockQueue \in [Conversations -> Seq(Callers)] /\ k \in Conversations
  BY DEF MiddlewareInv, MiddlewareTyped, ConversationAt, Conversations
<1>2. lockQueue' = [lockQueue EXCEPT ![k] = RemoveFirst(lockQueue[k], w)]
  BY DEF Leaves
<1>3. \A v \in Callers \ {w} : call'[v] = call[v]
  BY DEF Leaves, Goes, MiddlewareInv, MiddlewareTyped, CallTyped
<1>4. ASSUME NEW v \in Callers \ {w}, NEW c \in Conversations, WaitsThere(v, c)
      PROVE  WaitsThere(v, c)'
  BY <1>3, <1>4 DEF WaitsThere, InCall, ConversationAt
<1>5. ASSUME NEW c \in Conversations
      PROVE  /\ Once(lockQueue'[c])
             /\ ToSet(lockQueue'[c]) \subseteq ToSet(lockQueue[c]) \ {w}
  <2>1. lockQueue[c] \in Seq(Callers) /\ Once(lockQueue[c])
    BY <1>1 DEF QueuesOK
  <2>2. CASE c = k
    <3>1. lockQueue'[c] = RemoveFirst(lockQueue[c], w)
      BY <1>1, <1>2, <2>2
    <3> HIDE DEF k
    <3> QED BY <2>1, <3>1, RemovedOnce
  <2>3. CASE c # k
    <3>1. lockQueue'[c] = lockQueue[c]
      BY <1>1, <1>2, <2>3
    <3>2. w \notin ToSet(lockQueue[c])
      BY <2>3 DEF QueuesOK, WaitsThere
    <3> QED BY <2>1, <3>1, <3>2
  <2> QED BY <2>2, <2>3
<1>6. \A c \in Conversations : ToSet(lockQueue[c]) \subseteq Callers
  BY <1>1 DEF ToSet
<1>7. ASSUME NEW c \in Conversations, NEW v \in ToSet(lockQueue'[c])
      PROVE  WaitsThere(v, c)'
  <2>1. v \in Callers \ {w} /\ v \in ToSet(lockQueue[c])
    BY <1>5, <1>6
  <2>2. WaitsThere(v, c)
    BY <2>1 DEF QueuesOK
  <2> QED BY <1>4, <2>1, <2>2
<1> QED BY <1>5, <1>7 DEF QueuesOK

LEMMA EntersQueue ==
  ASSUME MiddlewareInv, QueuesOK, NEW w \in Callers, NEW m \in Messages, ~InCall(w),
         Enter(w, m)
  PROVE  QueuesOK'
<1> DEFINE k == ConversationOf[m]
<1>1. lockQueue \in [Conversations -> Seq(Callers)] /\ k \in Conversations
  BY DEF MiddlewareInv, MiddlewareTyped, Conversations
<1>2. lockQueue' = [lockQueue EXCEPT ![k] = Append(lockQueue[k], w)]
  BY DEF Enter
<1>3. /\ \A v \in Callers \ {w} : call'[v] = call[v]
      /\ call'[w] = [msg |-> m, at |-> "waiting", reply |-> None]
  BY DEF Enter, MiddlewareInv, MiddlewareTyped, CallTyped
<1>4. WaitsThere(w, k)'
  BY <1>3 DEF WaitsThere, InCall, ConversationAt, Ends
<1>5. ASSUME NEW v \in Callers \ {w}, NEW c \in Conversations, WaitsThere(v, c)
      PROVE  WaitsThere(v, c)'
  BY <1>3, <1>5 DEF WaitsThere, InCall, ConversationAt
<1>6. \A c \in Conversations : w \notin ToSet(lockQueue[c])
  BY DEF QueuesOK, WaitsThere
<1> HIDE DEF k
<1>7. ASSUME NEW c \in Conversations
      PROVE  /\ Once(lockQueue'[c])
             /\ ToSet(lockQueue'[c]) \subseteq
                  ToSet(lockQueue[c]) \union (IF c = k THEN {w} ELSE {})
  <2>1. lockQueue[c] \in Seq(Callers) /\ Once(lockQueue[c])
    BY <1>1 DEF QueuesOK
  <2>2. CASE c = k
    <3>1. lockQueue'[c] = Append(lockQueue[c], w)
      BY <1>1, <1>2, <2>2
    <3> QED BY <1>6, <2>1, <2>2, <3>1, AppendedOnce
  <2>3. CASE c # k
    BY <1>1, <1>2, <2>1, <2>3
  <2> QED BY <2>2, <2>3
<1>8. \A c \in Conversations : ToSet(lockQueue[c]) \subseteq Callers
  BY <1>1 DEF ToSet
<1>9. ASSUME NEW c \in Conversations, NEW v \in ToSet(lockQueue'[c])
      PROVE  WaitsThere(v, c)'
  <2>1. CASE v \in ToSet(lockQueue[c])
    <3>1. WaitsThere(v, c) /\ v \in Callers \ {w}
      BY <1>6, <1>8, <2>1 DEF QueuesOK
    <3> QED BY <1>5, <3>1
  <2>2. CASE v \notin ToSet(lockQueue[c])
    <3>1. c = k /\ v = w
      BY <1>7, <2>2
    <3> QED BY <1>4, <3>1
  <2> QED BY <2>1, <2>2
<1> QED BY <1>7, <1>9 DEF QueuesOK

(* Nothing that is recorded goes over the limit.                           *)
LEMMA MarksStayFit ==
  ASSUME MiddlewareInv, MarksFit,
         markers' \in {markers, disk} \/ \E m \in Messages : markers' = Recorded(m),
         disk' \in {disk, markers, markers'}
  PROVE  MarksFit'
<1>1. ASSUME NEW m \in Messages, markers' = Recorded(m), NEW c \in Conversations
      PROVE  Len(markers'[c].ids) <= RecentLimit
  <2> DEFINE k == ConversationOf[m]
             moved == Moved(markers[k].ids, m)
  <2>1. markers \in Marks /\ k \in Conversations
    BY DEF MiddlewareInv, MiddlewareTyped, Conversations
  <2>2. moved \in Seq(Messages)
    <3>1. markers[k].ids \in Seq(Messages)
      BY <2>1 DEF Marks
    <3>2. RemoveFirst(markers[k].ids, m) \in Seq(Messages)
      BY <3>1, LeavingKeepsHead
    <3> QED BY <3>2 DEF Moved
  <2>3. markers'[k].ids = Newest(moved, RecentLimit)
    BY <1>1, <2>1 DEF Recorded, Marks
  <2>4. c # k => markers'[c] = markers[c]
    BY <1>1, <2>1 DEF Recorded, Marks
  <2> HIDE DEF k, moved
  <2>5. Len(Newest(moved, RecentLimit)) <= RecentLimit
    BY <2>2, NewestFacts, LimitsAssumption
  <2> QED BY <2>3, <2>4, <2>5 DEF MarksFit
<1>2. \A c \in Conversations : Len(markers'[c].ids) <= RecentLimit
  BY <1>1 DEF MarksFit
<1> QED BY <1>2 DEF MarksFit

(* What a caller does with its message.                                    *)
LEMMA CallersKeepKnown ==
  ASSUME MiddlewareInv, MiddlewareKnown, NEW w \in Callers, Work(w) \/ Fault(w)
  PROVE  MiddlewareKnown'
<1> USE DEF MiddlewareKnown
<1>1. call[w].at # "idle" /\ call[w].msg \in Messages
  <2>1. call[w].at # "idle"
    BY DEF Work, Fault, FindDuplicate, Begin, Admitted, Prepared, Answered, Commit, Replay,
       Send, Preflight, PrepareFails, CommitFails, ReplayFails, SendFails, At
  <2> QED BY <2>1 DEF MiddlewareInv, MiddlewareTyped
<1>2. QueuesOK'
  <2>1. CASE FindDuplicate(w) \/ Prepared(w) \/ Answered(w) \/ Preflight(w)
    <3>1. UNCHANGED lockQueue /\ \E place \in Working : Goes(w, place)
      BY <2>1 DEF FindDuplicate, Prepared, Answered, Preflight, Working
    <3> QED BY <3>1, GoesOn, QueuesStay
  <2>2. CASE Begin(w)
    <3>1. UNCHANGED lockQueue /\ \E place \in Working : Goes(w, place)
      BY <2>2 DEF Begin, Working
    <3> QED BY <3>1, GoesOn, QueuesStay
  <2>3. CASE Commit(w) \/ Replay(w)
    <3>1. /\ UNCHANGED lockQueue
          /\ \E reply : call' = [call EXCEPT ![w].at = "sending", ![w].reply = reply]
      BY <2>3 DEF Commit, Replay
    <3> QED BY <3>1, SendingGoesOn, QueuesStay
  <2>4. CASE \/ Send(w) \/ PrepareFails(w) \/ CommitFails(w) \/ ReplayFails(w) \/ SendFails(w)
    <3>1. \E end \in Ends : Leaves(w, end)
      BY <2>4 DEF Send, PrepareFails, CommitFails, ReplayFails, SendFails, Ends
    <3> QED BY <1>1, <3>1, LeavesQueue
  <2> QED BY <2>1, <2>2, <2>3, <2>4 DEF Work, Fault
<1>3. MarksFit'
  <2>1. CASE Commit(w) \/ CommitFails(w)
    <3>1. markers' = Recorded(call[w].msg) /\ disk' \in {disk, markers'}
      BY <2>1 DEF Commit, CommitFails, Records
    <3> QED BY <1>1, <3>1, MarksStayFit
  <2>2. CASE Replay(w)
    <3>1. markers' = markers /\ disk' \in {disk, markers}
      BY <2>2 DEF Replay
    <3> QED BY <3>1, MarksStayFit
  <2>3. CASE ~(Commit(w) \/ CommitFails(w) \/ Replay(w))
    <3>1. markers' = markers /\ disk' = disk
      BY <2>3 DEF Work, Fault, FindDuplicate, Begin, Prepared, Answered, Send, Preflight,
         PrepareFails, ReplayFails, SendFails
    <3> QED BY <3>1, MarksStayFit
  <2> QED BY <2>1, <2>2, <2>3
<1>4. MarkedKnown'
  <2>1. held' = held \/ held' = held \ {w}
    BY DEF Work, Fault, FindDuplicate, Begin, Prepared, Answered, Commit, Replay, Send,
       Preflight, PrepareFails, CommitFails, ReplayFails, SendFails, Leaves
  <2>2. dirty' \subseteq dirty \union {call[w].msg}
    BY DEF Work, Fault, FindDuplicate, Begin, Prepared, Answered, Commit, Replay, Send,
       Preflight, PrepareFails, CommitFails, ReplayFails, SendFails
  <2>3. kept' \subseteq kept \union {call[w].msg}
    BY DEF Work, Fault, FindDuplicate, Begin, Prepared, Answered, Commit, Replay, Send,
       Preflight, PrepareFails, CommitFails, ReplayFails, SendFails
  <2> QED BY <1>1, <2>1, <2>2, <2>3 DEF MarkedKnown
<1> QED BY <1>2, <1>3, <1>4

LEMMA CallersStayKnown ==
  ASSUME MiddlewareInv, MiddlewareKnown,
         UNCHANGED <<call, lockQueue, markers, dirty, kept, held>>,
         disk' = disk \/ disk' = markers
  PROVE  MiddlewareKnown'
<1>1. QueuesOK'
  BY QueuesStay DEF MiddlewareKnown, CallsGoOn, InCall
<1>2. MarksFit'
  BY MarksStayFit DEF MiddlewareKnown
<1> QED BY <1>1, <1>2 DEF MiddlewareKnown, MarkedKnown

LEMMA EndsKeepKnown ==
  ASSUME MiddlewareInv, MiddlewareKnown, NEW w \in Callers, call[w].at \in Ends,
         call' = [call EXCEPT ![w] = Idle],
         UNCHANGED <<lockQueue, markers, disk, dirty, kept, held>>
  PROVE  MiddlewareKnown'
<1>1. ~InCall(w)
  BY DEF InCall
<1>2. QueuesOK'
  BY <1>1, OneGoesOn, QueuesStay DEF MiddlewareKnown
<1> QED BY <1>2 DEF MiddlewareKnown, MarksFit, MarkedKnown

LEMMA EntersKeepKnown ==
  ASSUME MiddlewareInv, MiddlewareKnown, NEW w \in Callers, NEW m \in Messages,
         call[w].at \in {"idle", "admission"}, Enter(w, m), held' \subseteq held \union {w},
         UNCHANGED <<markers, disk, dirty, kept>>
  PROVE  MiddlewareKnown'
<1>1. ~InCall(w)
  BY DEF InCall
<1>2. QueuesOK'
  BY <1>1, EntersQueue DEF MiddlewareKnown
<1> QED BY <1>2 DEF MiddlewareKnown, MarksFit, MarkedKnown

LEMMA DiedKeepsKnown ==
  ASSUME MiddlewareKnown, Died
  PROVE  MiddlewareKnown'
<1>1. /\ lockQueue' = [c \in Conversations |-> <<>>]
      /\ markers' = disk /\ disk' = disk /\ dirty' = {} /\ kept' = {} /\ held' = {}
  BY DEF Died
<1>2. \A c \in Conversations : lockQueue'[c] = <<>>
  BY <1>1
<1>3. Once(<<>>) /\ ToSet(<<>>) = {}
  BY DEF Once, ToSet
<1>4. QueuesOK'
  BY <1>2, <1>3 DEF QueuesOK
<1> QED BY <1>1, <1>4 DEF MiddlewareKnown, MarksFit, MarkedKnown

LEMMA MiddlewareKnownStays ==
  ASSUME ChannelsInv, MiddlewareKnown, [ChannelsNext]_channelVars
  PROVE  MiddlewareKnown'
<1> USE DEF ChannelsInv
<1>0. Loop \in Callers /\ Requests \subseteq Callers /\ (queue # <<>> => Current \in Messages)
  BY CallersAre DEF AdapterInv
<1>1. CASE \/ Arrive \/ FeishuPush \/ TelegramPoll \/ WeixinPoll \/ GatewayStep \/ Disconnect
           \/ InvalidSession \/ Persist \/ UNCHANGED channelVars \/ OffsetReset
  <2>1. UNCHANGED <<call, lockQueue, markers, dirty, kept, held>>
        /\ (disk' = disk \/ disk' = markers)
    BY <1>1 DEF Arrive, FeishuPush, TelegramPoll, WeixinPoll, GatewayStep, Resume, Identify,
       Receive, Disconnect, InvalidSession, Persist, channelVars, middlewareVars, OffsetReset,
       storeVars
  <2> QED BY <2>1, CallersStayKnown
<1>2. CASE TelegramDispatch \/ WeixinDispatch \/ QQDispatch \/ FeishuDispatch
  <2>1. PICK of : Dispatch(of)
    BY <1>2 DEF TelegramDispatch, WeixinDispatch, QQDispatch, FeishuDispatch
  <2>2. call[Loop].at = "idle" /\ Enter(Loop, Current) /\ queue # <<>>
        /\ UNCHANGED <<markers, disk, dirty, kept, held>>
    BY <2>1 DEF Dispatch, LoopIdle, At
  <2> QED BY <1>0, <2>2, EntersKeepKnown
<1>3. CASE \/ TelegramDone \/ WeixinDone \/ TelegramFails \/ WeixinFails \/ QQDone \/ QQRetry
           \/ FeishuDone
  <2>1. /\ UNCHANGED <<lockQueue, markers, disk, dirty, kept, held>>
        /\ UNCHANGED call \/ LoopEnds("returned") \/ LoopEnds("raised")
    BY <1>3 DEF TelegramDone, WeixinDone, FirstIsDone, TelegramFails, WeixinFails, PollFails,
       QQDone, QQRetry, FeishuDone, storeVars
  <2>2. CASE UNCHANGED call
    BY <2>1, <2>2, CallersStayKnown
  <2>3. CASE LoopEnds("returned") \/ LoopEnds("raised")
    BY <1>0, <2>1, <2>3, EndsKeepKnown DEF LoopEnds, At, Ends
  <2> QED BY <2>1, <2>2, <2>3
<1>4. CASE Crash
  BY <1>4, DiedKeepsKnown DEF Crash
<1>5. ASSUME NEW w \in Requests, RequestStep(w) \/ Deadline(w)
      PROVE  MiddlewareKnown'
  <2>1. w \in Callers
    BY <1>0
  <2>2. CASE Respond(w)
    BY <2>1, <2>2, EndsKeepKnown DEF Respond, storeVars
  <2>3. CASE TakeSlot(w)
    <3>1. /\ call[w].at = "admission" /\ Enter(w, call[w].msg) /\ held' = held \union {w}
          /\ UNCHANGED <<markers, disk, dirty, kept>>
      BY <2>3 DEF TakeSlot, At
    <3>2. call[w].msg \in Messages
      BY <2>1, <3>1 DEF MiddlewareInv, MiddlewareTyped
    <3> QED BY <2>1, <3>1, <3>2, EntersKeepKnown
  <2>4. ASSUME NEW m \in Messages, Post(w, m) PROVE MiddlewareKnown'
    <3>1. call[w].at = "idle" /\ UNCHANGED <<markers, disk, dirty, kept, held>>
      BY <2>4 DEF Post, At
    <3>2. CASE Enter(w, m)
      BY <2>1, <3>1, <3>2, EntersKeepKnown
    <3>3. CASE ~Enter(w, m)
      <4>1. UNCHANGED lockQueue /\ \E r : call' = [call EXCEPT ![w] = r]
        BY <2>4, <3>3 DEF Post
      <4>2. ~InCall(w)
        BY <3>1 DEF InCall
      <4>3. QueuesOK'
        BY <2>1, <4>1, <4>2, OneGoesOn, QueuesStay DEF MiddlewareKnown
      <4> QED BY <3>1, <4>3 DEF MiddlewareKnown, MarksFit, MarkedKnown
    <3> QED BY <3>2, <3>3
  <2>5. CASE Deadline(w)
    <3>1. /\ call[w].at = "admission" \/ w \in held
          /\ Leaves(w, "raised") /\ UNCHANGED <<markers, disk, dirty, kept>>
      BY <2>5 DEF Deadline, At
    <3>2. call[w].at # "idle"
      BY <2>1, <3>1 DEF MiddlewareInv, UploadsHeld
    <3>3. QueuesOK'
      BY <2>1, <3>1, <3>2, LeavesQueue DEF MiddlewareKnown, Ends
    <3> QED BY <3>1, <3>3 DEF MiddlewareKnown, MarksFit, MarkedKnown, Leaves
  <2> QED BY <1>5, <2>2, <2>3, <2>4, <2>5 DEF RequestStep
<1>6. CASE Middleware
  BY <1>6, CallersKeepKnown DEF Middleware
<1> QED BY <1>1, <1>2, <1>3, <1>4, <1>5, <1>6 DEF ChannelsNext, LoopStep

(* For any messages, callers, limits and faults: the lock of a conversation *)
(* is held and waited for by callers there are, each of them once, and      *)
(* neither the markers in memory nor those on disk exceed the limit         *)
(* (middleware.py: the lock of handle_inbound; store.py:458-471).           *)
THEOREM MiddlewareKeepsItsTypes ==
  ASSUME NEW of \in SUBSET (Adapters \union {None}), NEW faults, NEW disturbances
  PROVE  ChannelsInit(of, faults, disturbances) /\ [][ChannelsNext]_channelVars =>
           []MiddlewareTypeOK
<1>1. ChannelsInit(of, faults, disturbances) => MiddlewareKnown
  <2> SUFFICES ASSUME ChannelsInit(of, faults, disturbances) PROVE MiddlewareKnown
    OBVIOUS
  <2>1. /\ lockQueue = [c \in Conversations |-> <<>>]
        /\ markers = NoMarkers /\ disk = NoMarkers /\ dirty = {} /\ kept = {} /\ held = {}
    BY DEF ChannelsInit, MiddlewareInit
  <2>2. \A c \in Conversations : lockQueue[c] = <<>>
    BY <2>1
  <2>3. Once(<<>>) /\ ToSet(<<>>) = {}
    BY DEF Once, ToSet
  <2>4. QueuesOK
    BY <2>2, <2>3 DEF QueuesOK
  <2>5. \A c \in Conversations : markers[c].ids = <<>> /\ disk[c].ids = <<>>
    BY <2>1 DEF NoMarkers
  <2>6. MarksFit
    BY <2>5, LimitsAssumption DEF MarksFit
  <2> QED BY <2>1, <2>4, <2>6 DEF MiddlewareKnown, MarkedKnown
<1>2. ChannelsInv /\ MiddlewareKnown /\ [ChannelsNext]_channelVars => MiddlewareKnown'
  BY MiddlewareKnownStays
<1>3. ChannelsInv /\ MiddlewareKnown => MiddlewareTypeOK
  <2> SUFFICES ASSUME ChannelsInv, MiddlewareKnown PROVE MiddlewareTypeOK
    OBVIOUS
  <2>1. \A c \in Conversations : lockQueue[c] \in Seq(Callers) /\ Once(lockQueue[c])
    BY DEF ChannelsInv, MiddlewareInv, MiddlewareTyped, MiddlewareKnown, QueuesOK
  <2>2. \A c \in Conversations :
          /\ ToSet(lockQueue[c]) \subseteq Callers
          /\ Len(lockQueue[c]) = Cardinality(ToSet(lockQueue[c]))
    BY <2>1, OnceIsAsLong DEF ToSet
  <2> QED BY <2>2 DEF ChannelsInv, MiddlewareInv, MiddlewareTyped, CallTyped, MiddlewareKnown,
          MarksFit, MarkedKnown, MiddlewareTypeOK
<1> QED BY <1>1, <1>2, <1>3, ChannelsStayConsistent, PTL
=============================================================================
