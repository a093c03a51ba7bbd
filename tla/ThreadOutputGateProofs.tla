------------------------ MODULE ThreadOutputGateProofs ------------------------
(***************************************************************************)
(* For any number of threads, commands and messages, any limit and any     *)
(* disturbances: what the gate of a thread does to the order, the number   *)
(* and the fate of native messages.                                        *)
(***************************************************************************)
EXTENDS ThreadOutputGate, SequenceTheorems, TLAPS

-----------------------------------------------------------------------------
(* Where a message can be: in a lane or with its dispatcher, in a gate, in *)
(* the hands of a command that has discarded a gate, or shown.             *)
Offered(k) == IF busy[k].step \in {"admission", "capacity"} THEN {busy[k].seq} ELSE {}
Popped(th) == IF gates[th].hand = 0 THEN {} ELSE {gates[th].hand}
Kept(th) == Range(gates[th].buffer) \cup Popped(th)
Left(c) == Range(cmd[c].left)

Increasing(s) == \A i, j \in DOMAIN s : i < j => s[i] < s[j]
Before(x, S) == \A y \in S : x < y

(* What a lane has in store was never shown and is not admitted yet. *)
LanesInv ==
  \A k \in Kinds :
    /\ Increasing(lanes[k])
    /\ \A s \in Offered(k) : Before(s, Range(lanes[k]))
    /\ \A s \in Range(lanes[k]) \cup Offered(k) :
         /\ admitted < s /\ s <= Len(wire) /\ wire[s].kind = k
         /\ s \notin Outputs /\ tries[s] = 0

(* The lanes are admitted in the order of the wire; while one of them      *)
(* waits for capacity the order stands still.                              *)
AdmissionInv ==
  /\ next = admitted + 1 /\ admitted <= Len(wire)
  /\ \A k \in Kinds : busy[k].step = "capacity" => ~closed /\ busy[k].seq = next
  /\ \A s \in Outputs : s <= Len(wire) /\ (closed \/ s <= admitted)
  /\ \A s \in strays : s <= admitted

(* A gate keeps its messages in order, and one more than its limit at most. *)
KeptSorted ==
  \A th \in Threads :
    /\ Increasing(gates[th].buffer)
    /\ \A s \in Popped(th) : Before(s, Range(gates[th].buffer))
    /\ Len(gates[th].buffer) <= Limit + 1
    /\ gates[th].hand # 0 => Len(gates[th].buffer) <= Limit

(* A gate keeps admitted messages of its thread that were never shown, and *)
(* were projected at most once.                                            *)
KeptFresh ==
  \A th \in Threads : \A s \in Kept(th) :
    /\ s <= admitted /\ wire[s].thread = th
    /\ s \notin Outputs /\ s \notin strays
    /\ tries[s] = 0 \/ (tries[s] = 1 /\ s \in gates[th].ready)

(* What a discarded gate hands over belongs to one command. *)
LeftApart ==
  \A c \in Commands :
    /\ Increasing(cmd[c].left)
    /\ cmd[c].phase = "discarding" => cmd[c].then # "none"
    /\ cmd[c].left # <<>> => cmd[c].phase = "discarding"
    /\ \A s \in Left(c) :
         s \in strays /\ s \notin Outputs /\ \A d \in Commands \ {c} : s \notin Left(d)

(* What was shown of a thread, or is handed over by an earlier gate of it, *)
(* is older than what its gate keeps.                                      *)
KeptIsLater ==
  \A th \in Threads : \A s \in Kept(th) :
    /\ \A a \in Outputs : wire[a].thread = th => a < s
    /\ \A c \in Commands : \A a \in Left(c) : wire[a].thread = th => a < s

ShownInv ==
  /\ \A i, j \in DOMAIN output : output[i].seq = output[j].seq => i = j
  /\ InWireOrder /\ ProjectedOnce
  /\ \A s \in Sequence : s > Len(wire) => tries[s] = 0

(* Who owns a gate, and how far its command has come. *)
Owned(th) ==
  LET g == gates[th]
      c == g.cmd
  IN  /\ HasGate(th) =>
           /\ ~closed /\ Wants[c] = th
           /\ cmd[c].phase \notin {"new", "discarding"}
           /\ cmd[c].phase # "attaching" => g.release = sealed[c]
           /\ g.delivered => c \in answered
      /\ ~HasGate(th) => g.buffer = <<>> /\ g.hand = 0
      /\ g.hand # 0 => g.delivered /\ g.by # None
      /\ g.hand = 0 => g.by = None
      /\ g.by \in Commands =>
           /\ HasGate(th) /\ cmd[g.by].phase = "draining"
           /\ RouteOf[g.by] = RouteOf[c]
      /\ g.by = "retry" => g.retry

AnsweredInv ==
  /\ \A c \in answered : cmd[c].phase \in {"draining", "discarding", "done"}
  /\ \A c \in Commands : cmd[c].phase = "discarding" /\ c \in answered
                           => cmd[c].then = "done"

OneGateEach ==
  \A th, other \in Threads :
    HasGate(th) /\ HasGate(other) /\ th # other
      => RouteOf[gates[th].cmd] # RouteOf[gates[other].cmd]

OwnerInv ==
  /\ \A th \in Threads : Owned(th)
  /\ OneGateEach
  /\ AnsweredInv

Core ==
  /\ TypeOK /\ LanesInv /\ AdmissionInv /\ KeptSorted /\ KeptFresh
  /\ LeftApart /\ KeptIsLater /\ ShownInv /\ OwnerInv

(* What a lane is presenting was never shown; the lane admitted nothing    *)
(* after it, and neither its queue nor a gate of the thread has an older   *)
(* message.                                                                *)
Presented(k) ==
  LET s == busy[k].seq
  IN  /\ s \in live /\ s \notin Outputs /\ s \notin strays
      /\ s <= Len(wire) /\ wire[s].kind = k /\ Before(s, Range(lanes[k]))
      /\ ~closed => /\ s <= admitted
                    /\ \A x \in 1..admitted : wire[x].kind = k => x <= s
      /\ \A th \in Threads : wire[s].thread = th => Before(s, Kept(th))

LiveInv == \A k \in Kinds : busy[k].step = "live" => Presented(k)

(* What is given up was not held by a gate that still stands, but for      *)
(* rejected requests.                                                      *)
FailedInv ==
  \A s \in failed :
    s <= Len(wire) /\ (s \in live \cup strays \/ wire[s].kind = "request")

IInv == Core /\ LiveInv /\ FailedInv

-----------------------------------------------------------------------------
(* Sequences of messages. *)

LEMMA RangeAppend ==
  ASSUME NEW S, NEW s \in Seq(S), NEW e \in S
  PROVE  Range(Append(s, e)) = Range(s) \cup {e}
<1>1. DOMAIN Append(s, e) = 1..(Len(s) + 1) /\ DOMAIN s = 1..Len(s) /\ Len(s) \in Nat
  BY AppendProperties, LenProperties
<1>2. /\ \A i \in 1..Len(s) : Append(s, e)[i] = s[i]
      /\ Append(s, e)[Len(s) + 1] = e
  BY AppendProperties
<1> QED BY <1>1, <1>2 DEF Range

LEMMA IncreasingAppend ==
  ASSUME NEW s \in Seq(Nat), NEW e \in Nat, Increasing(s), \A x \in Range(s) : x < e
  PROVE  Increasing(Append(s, e))
<1>1. DOMAIN Append(s, e) = 1..(Len(s) + 1) /\ DOMAIN s = 1..Len(s) /\ Len(s) \in Nat
  BY AppendProperties, LenProperties
<1>2. /\ \A i \in 1..Len(s) : Append(s, e)[i] = s[i]
      /\ Append(s, e)[Len(s) + 1] = e
  BY AppendProperties
<1>3. \A i \in 1..Len(s) : s[i] \in Range(s)
  BY <1>1 DEF Range
<1> QED BY <1>1, <1>2, <1>3 DEF Increasing

LEMMA HeadAndTail ==
  ASSUME NEW S, S \subseteq Nat, NEW s \in Seq(S), s # <<>>
  PROVE  /\ Head(s) \in S /\ Tail(s) \in Seq(S)
         /\ Range(s) = {Head(s)} \cup Range(Tail(s))
         /\ Len(Tail(s)) = Len(s) - 1
         /\ Increasing(s) => Increasing(Tail(s)) /\ Before(Head(s), Range(Tail(s)))
<1>1. /\ Head(s) \in S /\ Tail(s) \in Seq(S) /\ Len(Tail(s)) = Len(s) - 1
      /\ \A i \in 1..Len(Tail(s)) : Tail(s)[i] = s[i + 1]
  BY HeadTailProperties
<1>2. DOMAIN s = 1..Len(s) /\ DOMAIN Tail(s) = 1..(Len(s) - 1) /\ Len(s) \in Nat \ {0}
  BY <1>1, LenProperties, EmptySeq
<1>3. Head(s) = s[1]
  OBVIOUS
<1>4. Range(s) = {Head(s)} \cup Range(Tail(s))
  <2>1. ASSUME NEW x \in Range(s) PROVE x \in {Head(s)} \cup Range(Tail(s))
    <3>1. PICK i \in 1..Len(s) : x = s[i]
      BY <1>2, <2>1 DEF Range
    <3>2. CASE i # 1
      <4>1. i - 1 \in 1..(Len(s) - 1) /\ Tail(s)[i - 1] = s[i]
        BY <1>1, <1>2, <3>2
      <4> QED BY <1>2, <3>1, <4>1 DEF Range
    <3> QED BY <1>3, <3>1, <3>2
  <2>2. ASSUME NEW x \in Range(Tail(s)) PROVE x \in Range(s)
    <3>1. PICK i \in 1..(Len(s) - 1) : x = Tail(s)[i]
      BY <1>2, <2>2 DEF Range
    <3>2. i + 1 \in 1..Len(s) /\ x = s[i + 1]
      BY <1>1, <1>2, <3>1
    <3> QED BY <1>2, <3>2 DEF Range
  <2> QED BY <1>2, <1>3, <2>1, <2>2 DEF Range
<1>5. Increasing(s) => Increasing(Tail(s))
  BY <1>1, <1>2 DEF Increasing
<1>6. Increasing(s) => Before(Head(s), Range(Tail(s)))
  <2> SUFFICES ASSUME Increasing(s), NEW i \in 1..(Len(s) - 1) PROVE Head(s) < Tail(s)[i]
    BY <1>2 DEF Before, Range
  <2> QED BY <1>1, <1>2, <1>3 DEF Increasing
<1> QED BY <1>1, <1>4, <1>5, <1>6

LEMMA PutBack ==
  ASSUME NEW S, S \subseteq Nat, NEW s \in Seq(S), NEW e \in S
  PROVE  /\ <<e>> \o s \in Seq(S) /\ Len(<<e>> \o s) = Len(s) + 1
         /\ Range(<<e>> \o s) = {e} \cup Range(s)
         /\ Increasing(s) /\ Before(e, Range(s)) => Increasing(<<e>> \o s)
<1>1. <<e>> \in Seq(S) /\ Len(<<e>>) = 1 /\ <<e>>[1] = e /\ Len(s) \in Nat
  BY LenProperties
<1>2. /\ <<e>> \o s \in Seq(S) /\ Len(<<e>> \o s) = Len(s) + 1
      /\ \A i \in 1..(Len(s) + 1) : (<<e>> \o s)[i] = IF i <= 1 THEN <<e>>[i] ELSE s[i - 1]
  BY <1>1, ConcatProperties
<1>3. DOMAIN s = 1..Len(s) /\ DOMAIN (<<e>> \o s) = 1..(Len(s) + 1)
  BY <1>2, LenProperties
<1>4. (<<e>> \o s)[1] = e /\ \A i \in 1..Len(s) : (<<e>> \o s)[i + 1] = s[i]
  BY <1>1, <1>2
<1>5. \A i \in 2..(Len(s) + 1) : i - 1 \in 1..Len(s) /\ (<<e>> \o s)[i] = s[i - 1]
  BY <1>1, <1>2
<1>6. Range(<<e>> \o s) = {e} \cup Range(s)
  <2>1. ASSUME NEW x \in Range(<<e>> \o s) PROVE x \in {e} \cup Range(s)
    <3>1. PICK i \in 1..(Len(s) + 1) : x = (<<e>> \o s)[i]
      BY <1>3, <2>1 DEF Range
    <3>2. i = 1 \/ i \in 2..(Len(s) + 1)
      BY <1>1
    <3> QED BY <1>3, <1>4, <1>5, <3>1, <3>2 DEF Range
  <2>2. ASSUME NEW x \in Range(s) PROVE x \in Range(<<e>> \o s)
    <3>1. PICK i \in 1..Len(s) : x = s[i]
      BY <1>3, <2>2 DEF Range
    <3>2. i + 1 \in 1..(Len(s) + 1) /\ x = (<<e>> \o s)[i + 1]
      BY <1>1, <1>4, <3>1
    <3> QED BY <1>3, <3>2 DEF Range
  <2>3. e \in Range(<<e>> \o s)
    <3>1. 1 \in 1..(Len(s) + 1)
      BY <1>1
    <3> QED BY <1>3, <1>4, <3>1 DEF Range
  <2> QED BY <2>1, <2>2, <2>3
<1>7. ASSUME Increasing(s), Before(e, Range(s)) PROVE Increasing(<<e>> \o s)
  <2>1. \A i \in 1..Len(s) : s[i] \in S /\ e < s[i]
    BY <1>3, <1>7, ElementOfSeq DEF Before, Range
  <2> SUFFICES ASSUME NEW i \in 1..(Len(s) + 1), NEW j \in 1..(Len(s) + 1), i < j
               PROVE  (<<e>> \o s)[i] < (<<e>> \o s)[j]
    BY <1>3 DEF Increasing
  <2>2. j \in 2..(Len(s) + 1) /\ (i = 1 \/ i \in 2..(Len(s) + 1))
    BY <1>1
  <2>3. CASE i = 1
    BY <1>4, <1>5, <2>1, <2>2, <2>3
  <2>4. CASE i \in 2..(Len(s) + 1)
    <3>1. i - 1 < j - 1 /\ i - 1 \in DOMAIN s /\ j - 1 \in DOMAIN s
      BY <1>1, <1>3, <2>2, <2>4
    <3>2. s[i - 1] < s[j - 1]
      BY <1>7, <3>1 DEF Increasing
    <3> QED BY <1>5, <2>2, <2>4, <3>2
  <2> QED BY <2>2, <2>3, <2>4
<1> QED BY <1>2, <1>6, <1>7

-----------------------------------------------------------------------------
(* Whatever is somewhere is a message. *)

LEMMA PlacesTyped ==
  ASSUME TypeOK
  PROVE  /\ \A k \in Kinds : lanes[k] \in Seq(Sequence) /\ lanes[k] \in Seq(Nat)
                             /\ Range(lanes[k]) \subseteq Sequence
                             /\ Offered(k) \subseteq Sequence \cup {0}
         /\ \A th \in Threads :
              /\ gates[th].buffer \in Seq(Sequence) /\ gates[th].buffer \in Seq(Nat)
              /\ Range(gates[th].buffer) \subseteq Sequence
              /\ Popped(th) \subseteq Sequence /\ Kept(th) \subseteq Sequence
         /\ \A c \in Commands :
              /\ cmd[c].left \in Seq(Sequence) /\ cmd[c].left \in Seq(Nat)
              /\ Left(c) \subseteq Sequence
         /\ Outputs \subseteq Sequence
         /\ \A i \in DOMAIN output : output[i].seq \in Outputs
         /\ Sequence \subseteq Nat \ {0} /\ MaxWire \in Nat
         /\ Len(wire) \in Nat /\ DOMAIN wire = 1..Len(wire)
<1>1. Sequence \subseteq Nat \ {0} /\ MaxWire \in Nat
  BY GateAssumption DEF Sequence
<1>2. \A s \in Seq(Sequence) : s \in Seq(Nat) /\ Range(s) \subseteq Sequence
  BY <1>1, SeqMonotonic, RangeOfSeq, Zenon
<1>3. \A k \in Kinds : lanes[k] \in Seq(Sequence) /\ Offered(k) \subseteq Sequence \cup {0}
  BY DEF TypeOK, Offered
<1>4. \A th \in Threads : /\ gates[th].buffer \in Seq(Sequence)
                          /\ Popped(th) \subseteq Sequence
  BY DEF TypeOK, Gate, Popped
<1>5. \A c \in Commands : cmd[c].left \in Seq(Sequence)
  BY DEF TypeOK
<1>6. Outputs \subseteq Sequence /\ \A i \in DOMAIN output : output[i].seq \in Outputs
  <2>1. \A i \in DOMAIN output : output[i] \in [seq : Sequence, epoch : Nat]
    <3>1. output \in Seq([seq : Sequence, epoch : Nat])
      BY DEF TypeOK
    <3> QED BY <3>1, ElementOfSeq, LenProperties
  <2> QED BY <2>1 DEF Outputs
<1>7. Len(wire) \in Nat /\ DOMAIN wire = 1..Len(wire)
  BY DEF TypeOK
<1> QED BY <1>1, <1>2, <1>3, <1>4, <1>5, <1>6, <1>7 DEF Kept, Left

-----------------------------------------------------------------------------
(* Showing and projecting a message. *)

LEMMA ShowKeeps ==
  ASSUME IInv, NEW s \in Sequence, s \notin Outputs, Sent(s),
         UNCHANGED <<wire, closed>>, strays \subseteq strays', live \subseteq live',
         ~closed => s \in strays \/ \A a \in Outputs :
                      wire[a].thread = wire[s].thread => a < s \/ Overtaken(a, s)
  PROVE  /\ output' \in Seq([seq : Sequence, epoch : Nat])
         /\ Outputs' = Outputs \cup {s}
         /\ \A i, j \in DOMAIN output' : output'[i].seq = output'[j].seq => i = j
         /\ InWireOrder'
<1> DEFINE last == Len(output) + 1
<1>0. TypeOK /\ ShownInv
  BY DEF IInv, Core
<1>1. output \in Seq([seq : Sequence, epoch : Nat]) /\ epoch \in Nat
  BY <1>0 DEF TypeOK
<1>2. /\ output' = Append(output, [seq |-> s, epoch |-> epoch])
      /\ [seq |-> s, epoch |-> epoch] \in [seq : Sequence, epoch : Nat]
  BY <1>1 DEF Sent
<1>3. /\ output' \in Seq([seq : Sequence, epoch : Nat])
      /\ \A i \in 1..Len(output) : output'[i] = output[i]
      /\ output'[last].seq = s
      /\ DOMAIN output' = 1..last /\ DOMAIN output = 1..Len(output) /\ Len(output) \in Nat
  BY <1>1, <1>2, AppendProperties, LenProperties
<1>4. \A i \in 1..Len(output) : output[i].seq \in Outputs /\ output[i].seq \in Nat
  BY <1>0, <1>3, PlacesTyped
<1>5. Outputs' = Outputs \cup {s}
  BY <1>3 DEF Outputs
<1>6. ASSUME NEW i \in DOMAIN output', NEW j \in DOMAIN output',
             output'[i].seq = output'[j].seq
      PROVE  i = j
  BY <1>0, <1>3, <1>4, <1>6 DEF ShownInv
<1>7. ASSUME ~closed, NEW i \in DOMAIN output', NEW j \in DOMAIN output', i < j,
             output'[i].seq > output'[j].seq,
             wire[output'[i].seq].thread = wire[output'[j].seq].thread
      PROVE  output'[j].seq \in strays \/ Overtaken(output'[i].seq, output'[j].seq)
  <2>1. i \in 1..Len(output) /\ (j \in 1..Len(output) \/ j = last)
    <3>1. i \in 1..last /\ j \in 1..last /\ i < j /\ Len(output) \in Nat
      BY <1>3, <1>7
    <3> QED BY <3>1
  <2>2. CASE j \in 1..Len(output)
    BY <1>0, <1>3, <1>7, <2>1, <2>2 DEF ShownInv, InWireOrder
  <2>3. CASE j = last
    <3>1. s \in Nat /\ output[i].seq \in Nat /\ output[i].seq \in Outputs
      BY <1>0, <1>4, <2>1, PlacesTyped
    <3>2. ~(output[i].seq < s) /\ wire[output[i].seq].thread = wire[s].thread
          /\ output'[i].seq = output[i].seq
      BY <1>3, <1>7, <2>1, <2>3, <3>1
    <3> QED BY <1>3, <1>7, <2>3, <3>1, <3>2
  <2> QED BY <2>1, <2>2, <2>3
<1>8. InWireOrder'
  BY <1>7 DEF InWireOrder, Overtaken
<1> QED BY <1>3, <1>5, <1>6, <1>8

LEMMA ProjectKeeps ==
  ASSUME IInv, NEW s \in Sequence, Projected(s), tries[s] = 0 \/ s \in strays',
         strays \subseteq strays'
  PROVE  /\ tries' \in [Sequence -> Nat]
         /\ tries'[s] = tries[s] + 1 /\ \A x \in Sequence \ {s} : tries'[x] = tries[x]
         /\ ProjectedOnce'
<1>1. tries \in [Sequence -> Nat] /\ ProjectedOnce
  BY DEF IInv, Core, TypeOK, ShownInv
<1> QED BY <1>1 DEF Projected, ProjectedOnce

LEMMA SameOwners ==
  ASSUME OwnerInv, UNCHANGED <<cmd, closed, answered, sealed>>,
         \A t \in Threads :
           /\ gates'[t].cmd = gates[t].cmd /\ gates'[t].hand = gates[t].hand
           /\ gates'[t].by = gates[t].by /\ gates'[t].retry = gates[t].retry
           /\ gates'[t].release = gates[t].release
           /\ gates'[t].delivered = gates[t].delivered
           /\ gates'[t].buffer = gates[t].buffer \/ HasGate(t)
  PROVE  OwnerInv'
<1>1. \A t \in Threads : HasGate(t)' <=> HasGate(t)
  BY DEF HasGate
<1>2. \A t \in Threads : Owned(t)'
  BY <1>1 DEF OwnerInv, Owned
<1>3. OneGateEach'
  BY <1>1 DEF OwnerInv, OneGateEach
<1>4. AnsweredInv'
  BY DEF OwnerInv, AnsweredInv
<1> QED BY <1>2, <1>3, <1>4 DEF OwnerInv

(* What the gates and the commands do leaves the lanes alone, as it is     *)
(* about admitted messages only.                                           *)
LEMMA LanesUndisturbed ==
  ASSUME IInv, NEW S, \A x \in S : x \in Sequence /\ x <= admitted,
         Outputs' \subseteq Outputs \cup S,
         \A x \in Sequence \ S : tries'[x] = tries[x],
         \A x \in strays' : x <= admitted,
         UNCHANGED <<wire, lanes, busy, next, admitted, closed>>
  PROVE  LanesInv' /\ AdmissionInv'
<1>0. TypeOK /\ LanesInv /\ AdmissionInv
  BY DEF IInv, Core
<1>1. admitted \in Nat /\ Len(wire) \in Nat /\ admitted <= Len(wire) /\ Len(wire) <= MaxWire
      /\ MaxWire \in Nat
  BY <1>0, GateAssumption DEF TypeOK, AdmissionInv
<1>2. \A k \in Kinds : Offered(k)' = Offered(k)
  BY DEF Offered
<1>3. \A k \in Kinds : \A x \in Range(lanes[k]) \cup Offered(k) : x \in Sequence \ S
  <2> SUFFICES ASSUME NEW k \in Kinds, NEW x \in Range(lanes[k]) \cup Offered(k)
               PROVE  x \in Sequence \ S
    OBVIOUS
  <2>1. admitted < x /\ x <= Len(wire)
    BY <1>0 DEF LanesInv
  <2>2. x \in Nat
    BY <1>0, PlacesTyped
  <2>3. x \in Sequence /\ ~(x <= admitted)
    BY <1>1, <2>1, <2>2 DEF Sequence
  <2> QED BY <2>3
<1>4. LanesInv'
  <2>1. \A k \in Kinds : \A x \in Range(lanes[k]) \cup Offered(k) :
          x \notin Outputs' /\ tries'[x] = 0
    BY <1>0, <1>3 DEF LanesInv
  <2> QED BY <1>0, <1>2, <2>1 DEF LanesInv
<1>5. \A x \in Outputs' : x <= Len(wire) /\ (closed \/ x <= admitted)
  <2>1. \A x \in S : x <= Len(wire)
    BY <1>1 DEF Sequence
  <2> QED BY <1>0, <2>1 DEF AdmissionInv
<1>6. AdmissionInv'
  BY <1>0, <1>5 DEF AdmissionInv
<1> QED BY <1>4, <1>6

(* A gate that changes in nothing it keeps.                                *)
LEMMA KeptAsBefore ==
  ASSUME KeptSorted, KeptFresh, KeptIsLater,
         UNCHANGED <<wire, admitted, output, tries, strays>>,
         \A t \in Threads :
           /\ gates'[t].buffer = gates[t].buffer /\ gates'[t].hand = gates[t].hand
           /\ gates'[t].ready = gates[t].ready,
         \A c \in Commands : cmd'[c].left = cmd[c].left
  PROVE  KeptSorted' /\ KeptFresh' /\ KeptIsLater'
<1>1. \A t \in Threads : Popped(t)' = Popped(t)
  BY DEF Popped
<1>2. /\ \A t \in Threads : Kept(t)' = Kept(t)
      /\ \A c \in Commands : Left(c)' = Left(c)
      /\ Outputs' = Outputs
  BY <1>1 DEF Kept, Left, Outputs
<1>3. KeptSorted'
  BY <1>1 DEF KeptSorted
<1>4. KeptFresh'
  BY <1>2 DEF KeptFresh
<1>5. KeptIsLater'
  BY <1>2 DEF KeptIsLater
<1> QED BY <1>3, <1>4, <1>5

LEMMA ShownAsBefore ==
  ASSUME ShownInv, UNCHANGED <<wire, output, tries>>,
         strays \subseteq strays', live \subseteq live', closed => closed'
  PROVE  ShownInv'
<1>1. InWireOrder'
  BY DEF ShownInv, InWireOrder, Overtaken
<1>2. ProjectedOnce'
  BY DEF ShownInv, ProjectedOnce
<1> QED BY <1>1, <1>2 DEF ShownInv

LEMMA LanesUntouched ==
  ASSUME IInv, UNCHANGED <<wire, lanes, busy, next, admitted, closed, output, tries,
                         live, strays>>
  PROVE  LanesInv' /\ AdmissionInv' /\ ShownInv'
<1>1. Outputs' = Outputs /\ ShownInv /\ \A x \in strays' : x <= admitted
  BY DEF IInv, Core, Outputs, AdmissionInv
<1>2. LanesInv' /\ AdmissionInv'
  <2> DEFINE S == {}
  <2>1. /\ \A x \in S : x \in Sequence /\ x <= admitted
        /\ Outputs' \subseteq Outputs \cup S
        /\ \A x \in Sequence \ S : tries'[x] = tries[x]
    BY <1>1
  <2> HIDE DEF S
  <2> QED BY <1>1, <2>1, LanesUndisturbed
<1> QED BY <1>1, <1>2, ShownAsBefore

Phases == {"new", "attaching", "reading", "discarding", "responding", "failed",
           "draining", "done"}

(* A command that goes on without a discarded gate to hand over. *)
LEMMA PhaseKeeps ==
  ASSUME TypeOK, LeftApart, NEW c \in Commands, NEW p \in Phases \ {"discarding"},
         Phase(c, p), cmd[c].phase # "discarding", UNCHANGED <<output, strays>>
  PROVE  /\ LeftApart' /\ cmd'[c].phase = p
         /\ \A d \in Commands : cmd'[d].left = cmd[d].left /\ cmd'[d].then = cmd[d].then
         /\ \A d \in Commands \ {c} : cmd'[d] = cmd[d]
         /\ cmd' \in [Commands ->
              [phase : {"new", "attaching", "reading", "discarding", "responding",
                        "failed", "draining", "done"},
               left : Seq(Sequence), then : {"none", "new", "responding", "done"}]]
<1> DEFINE Progress == [phase : {"new", "attaching", "reading", "discarding", "responding",
                                 "failed", "draining", "done"},
                        left : Seq(Sequence), then : {"none", "new", "responding", "done"}]
           now == [cmd[c] EXCEPT !.phase = p]
<1>1. cmd \in [Commands -> Progress]
  BY DEF TypeOK
<1>2. /\ now \in Progress /\ now.phase = p /\ now.left = cmd[c].left
      /\ now.then = cmd[c].then
  BY <1>1 DEF Phases
<1>3. cmd' = [cmd EXCEPT ![c] = now]
  BY <1>1 DEF Phase
<1> HIDE DEF now
<1>4. /\ cmd'[c] = now /\ \A d \in Commands \ {c} : cmd'[d] = cmd[d]
      /\ \A d \in Commands : cmd'[d].left = cmd[d].left /\ cmd'[d].then = cmd[d].then
  BY <1>1, <1>2, <1>3
<1>5. cmd' \in [Commands -> Progress]
  <2> HIDE DEF Progress
  <2> QED BY <1>1, <1>2, <1>3
<1>6. LeftApart'
  <2>1. \A d \in Commands : Left(d)' = Left(d)
    BY <1>4 DEF Left
  <2>2. Outputs' = Outputs
    BY DEF Outputs
  <2>3. cmd'[c].phase # "discarding" /\ cmd[c].left = <<>>
    BY <1>2, <1>4 DEF LeftApart
  <2> QED BY <1>4, <2>1, <2>2, <2>3 DEF LeftApart
<1> QED BY <1>2, <1>4, <1>5, <1>6

LEMMA SpendTyped ==
  ASSUME TypeOK, NEW d \in Disturbances, Spend(d)
  PROVE  spent' \in [Disturbances -> Nat] /\ 0 < Budget[d]
<1>1. spent \in [Disturbances -> Nat] /\ Budget[d] \in Nat
  BY GateAssumption DEF TypeOK
<1>2. spent[d] \in Nat /\ spent[d] < Budget[d]
      /\ spent' = [spent EXCEPT ![d] = spent[d] + 1]
  BY <1>1 DEF Spend
<1> QED BY <1>1, <1>2

-----------------------------------------------------------------------------
(* The connection. *)

(* What the lanes do by themselves does not concern the gates. *)
LEMMA LanesAlone ==
  ASSUME KeptSorted, KeptFresh, LeftApart, KeptIsLater, ShownInv, OwnerInv,
         UNCHANGED <<wire, admitted, gates, cmd, closed, output, tries, answered,
                     live, strays, sealed>>
  PROVE  KeptSorted' /\ KeptFresh' /\ LeftApart' /\ KeptIsLater' /\ ShownInv' /\ OwnerInv'
<1>1. /\ \A t \in Threads : Kept(t)' = Kept(t) /\ Popped(t)' = Popped(t)
      /\ \A c \in Commands : Left(c)' = Left(c)
      /\ Outputs' = Outputs
  BY DEF Kept, Popped, Left, Outputs
<1>2. KeptSorted'
  BY <1>1 DEF KeptSorted
<1>3. KeptFresh'
  BY <1>1 DEF KeptFresh
<1>4. LeftApart'
  BY <1>1 DEF LeftApart
<1>5. KeptIsLater'
  BY <1>1 DEF KeptIsLater
<1>6. ShownInv'
  BY DEF ShownInv, InWireOrder, Overtaken, ProjectedOnce
<1>7. OwnerInv'
  BY SameOwners
<1> QED BY <1>2, <1>3, <1>4, <1>5, <1>6, <1>7

LEMMA ReceiveKeeps ==
  ASSUME IInv, Receive
  PROVE  Core'
<1> DEFINE new == Len(wire) + 1
<1>0. TypeOK /\ LanesInv /\ AdmissionInv /\ KeptSorted /\ KeptFresh
      /\ LeftApart /\ KeptIsLater /\ ShownInv /\ OwnerInv
  BY DEF IInv, Core
<1>1. PICK th \in Threads, k \in Kinds, own \in Own :
        /\ wire' = Append(wire, [thread |-> th, kind |-> k, own |-> own, epoch |-> epoch])
        /\ lanes' = [lanes EXCEPT ![k] = Append(@, new)]
  BY DEF Receive
<1>2. UNCHANGED <<epoch, busy, next, admitted, gates, cmd, closed, output,
                  tries, answered, live, dropped, failed, strays, sealed, spent>>
      /\ Len(wire) < MaxWire
  BY DEF Receive
<1>3. /\ wire' \in Seq(Message) /\ Len(wire') = new /\ wire'[new].kind = k
      /\ \A s \in 1..Len(wire) : wire'[s] = wire[s]
  BY <1>0, <1>1, GateAssumption DEF TypeOK, Message
<1>4. /\ \A l \in Kinds : lanes[l] \in Seq(Sequence) /\ lanes[l] \in Seq(Nat)
      /\ new \in Sequence /\ MaxWire \in Nat
      /\ \A l \in Kinds : lanes'[l] = IF l = k THEN Append(lanes[l], new) ELSE lanes[l]
  BY <1>0, <1>1, <1>2, GateAssumption, SeqMonotonic DEF TypeOK, Sequence
<1>5. TypeOK'
  BY <1>0, <1>1, <1>2, <1>3, <1>4 DEF TypeOK
<1>6. \A l \in Kinds : Range(lanes'[l]) = Range(lanes[l]) \cup (IF l = k THEN {new} ELSE {})
  BY <1>4, RangeAppend
<1>7. /\ \A l \in Kinds : Offered(l)' = Offered(l)
      /\ \A t \in Threads : Kept(t)' = Kept(t) /\ Popped(t)' = Popped(t)
      /\ \A c \in Commands : Left(c)' = Left(c)
      /\ Outputs' = Outputs
  BY <1>2 DEF Offered, Kept, Popped, Left, Outputs
<1>8. /\ \A l \in Kinds : \A s \in Range(lanes[l]) \cup Offered(l) : s \in 1..Len(wire)
      /\ \A t \in Threads : Kept(t) \subseteq 1..Len(wire)
      /\ \A c \in Commands : Left(c) \subseteq 1..Len(wire)
      /\ Outputs \subseteq 1..Len(wire)
      /\ new \notin strays
  <2>1. admitted \in Nat /\ admitted <= Len(wire) /\ Len(wire) \in Nat
    BY <1>0 DEF AdmissionInv, TypeOK
  <2>2. \A l \in Kinds : \A s \in Range(lanes[l]) \cup Offered(l) : s \in 1..Len(wire)
    <3> SUFFICES ASSUME NEW l \in Kinds, NEW s \in Range(lanes[l]) \cup Offered(l)
                 PROVE  s \in 1..Len(wire)
      OBVIOUS
    <3>1. s \in Nat /\ admitted < s /\ s <= Len(wire)
      BY <1>0, PlacesTyped DEF LanesInv
    <3> QED BY <2>1, <3>1
  <2>3. \A s \in strays : s \in Sequence /\ s <= admitted
    BY <1>0 DEF AdmissionInv, TypeOK
  <2>4. \A t \in Threads : Kept(t) \subseteq 1..Len(wire)
    BY <1>0, <2>1, PlacesTyped DEF KeptFresh
  <2>5. \A c \in Commands : Left(c) \subseteq 1..Len(wire)
    BY <1>0, <2>1, <2>3, PlacesTyped DEF LeftApart
  <2>6. Outputs \subseteq 1..Len(wire)
    BY <1>0, PlacesTyped DEF AdmissionInv
  <2>7. new \notin strays
    BY <2>1, <2>3
  <2> QED BY <2>2, <2>4, <2>5, <2>6, <2>7
<1>9. \A l \in Kinds : Increasing(lanes'[l])
  <2>1. \A x \in Range(lanes[k]) : x < new
    <3>1. Len(wire) \in Nat
      BY <1>0, PlacesTyped
    <3> QED BY <1>8, <3>1
  <2>2. new \in Nat /\ lanes[k] \in Seq(Nat) /\ Increasing(lanes[k])
    BY <1>0, <1>4, PlacesTyped DEF LanesInv
  <2>3. Increasing(Append(lanes[k], new))
    BY <2>1, <2>2, IncreasingAppend
  <2> QED BY <1>0, <1>4, <2>3 DEF LanesInv
<1>10. LanesInv'
  <2> SUFFICES ASSUME NEW l \in Kinds
               PROVE  /\ \A s \in Offered(l) : Before(s, Range(lanes'[l]))
                      /\ \A s \in Range(lanes'[l]) \cup Offered(l) :
                           /\ admitted < s /\ s <= new /\ wire'[s].kind = l
                           /\ s \notin Outputs /\ tries[s] = 0
    BY <1>2, <1>3, <1>7, <1>9 DEF LanesInv
  <2>1. \A s \in Range(lanes[l]) \cup Offered(l) :
          admitted < s /\ wire'[s].kind = l /\ s \notin Outputs /\ tries[s] = 0
    BY <1>0, <1>3, <1>8 DEF LanesInv
  <2>2. admitted < new /\ new \notin Outputs /\ tries[new] = 0
    BY <1>0, <1>4, <1>8, PlacesTyped DEF AdmissionInv, ShownInv, TypeOK
  <2>3. \A s \in Offered(l) : Before(s, Range(lanes[l])) /\ s < new
    BY <1>0, <1>8 DEF LanesInv
  <2>4. \A s \in Offered(l) : Before(s, Range(lanes'[l]))
    BY <1>6, <2>3 DEF Before
  <2>5. \A s \in Range(lanes[l]) \cup Offered(l) : s <= new
    <3>1. Len(wire) \in Nat
      BY <1>0, PlacesTyped
    <3> QED BY <1>8, <3>1
  <2>6. \A s \in Range(lanes'[l]) \cup Offered(l) :
          s \in Range(lanes[l]) \cup Offered(l) \/ (s = new /\ l = k)
    BY <1>6
  <2> QED BY <1>3, <2>1, <2>2, <2>4, <2>5, <2>6
<1>11. AdmissionInv'
  BY <1>0, <1>2, <1>3, <1>7, <1>8 DEF AdmissionInv, TypeOK
<1>12. KeptSorted'
  BY <1>0, <1>2, <1>7 DEF KeptSorted
<1>13. KeptFresh'
  <2>1. \A t \in Threads : \A s \in Kept(t) : wire'[s] = wire[s]
    BY <1>3, <1>8
  <2> QED BY <1>0, <1>2, <1>7, <2>1 DEF KeptFresh
<1>16. LeftApart'
  BY <1>0, <1>2, <1>7 DEF LeftApart
<1>17. KeptIsLater'
  <2>1. \A c \in Commands : \A s \in Left(c) : wire'[s] = wire[s]
    BY <1>3, <1>8
  <2>2. \A a \in Outputs : wire'[a] = wire[a]
    BY <1>3, <1>8
  <2> QED BY <1>0, <1>2, <1>7, <2>1, <2>2 DEF KeptIsLater
<1>14. ShownInv'
  <2>1. \A i \in DOMAIN output : wire'[output[i].seq] = wire[output[i].seq]
    BY <1>0, <1>3, <1>8, PlacesTyped
  <2>2. InWireOrder'
    BY <1>0, <1>2, <2>1 DEF ShownInv, InWireOrder, Overtaken
  <2>3. \A s \in Sequence : s > new => tries[s] = 0
    BY <1>0, PlacesTyped DEF ShownInv
  <2> QED BY <1>0, <1>2, <1>3, <2>2, <2>3 DEF ShownInv, ProjectedOnce
<1>15. OwnerInv'
  BY <1>0, <1>2, SameOwners
<1> QED BY <1>5, <1>10, <1>11, <1>12, <1>13, <1>14, <1>15, <1>16, <1>17 DEF Core

LEMMA DispatchKeeps ==
  ASSUME IInv, NEW k \in Kinds, Dispatch(k)
  PROVE  Core'
<1> DEFINE s == Head(lanes[k])
<1>0. TypeOK /\ LanesInv /\ AdmissionInv /\ KeptSorted /\ KeptFresh
      /\ LeftApart /\ KeptIsLater /\ ShownInv /\ OwnerInv
  BY DEF IInv, Core
<1>1. /\ lanes[k] # <<>> /\ busy[k] = Idle
      /\ busy' = [busy EXCEPT ![k] = [step |-> "admission", seq |-> s, cmd |-> None]]
      /\ lanes' = [lanes EXCEPT ![k] = Tail(lanes[k])]
  BY DEF Dispatch
<1>2. UNCHANGED <<wire, epoch, next, admitted, gates, cmd, closed, output,
                  tries, answered, live, dropped, failed, strays, sealed, spent>>
  BY DEF Dispatch
<1>3. /\ s \in Sequence /\ Tail(lanes[k]) \in Seq(Sequence)
      /\ Range(lanes[k]) = {s} \cup Range(Tail(lanes[k]))
      /\ Increasing(lanes[k]) => Increasing(Tail(lanes[k])) /\ Before(s, Range(Tail(lanes[k])))
  BY <1>0, <1>1, PlacesTyped, HeadAndTail
<1>4. TypeOK'
  BY <1>0, <1>1, <1>2, <1>3 DEF TypeOK
<1>5. /\ \A l \in Kinds \ {k} : lanes'[l] = lanes[l] /\ Offered(l)' = Offered(l)
      /\ lanes'[k] = Tail(lanes[k]) /\ Offered(k)' = {s}
  BY <1>0, <1>1 DEF TypeOK, Offered
<1>6. LanesInv'
  BY <1>0, <1>2, <1>3, <1>5 DEF LanesInv, Outputs
<1>7. AdmissionInv'
  BY <1>0, <1>1, <1>2 DEF AdmissionInv, Outputs, TypeOK
<1>8. KeptSorted' /\ KeptFresh' /\ LeftApart' /\ KeptIsLater' /\ ShownInv' /\ OwnerInv'
  BY <1>0, <1>2, LanesAlone
<1> QED BY <1>4, <1>6, <1>7, <1>8 DEF Core

(* A lane has presented its message.  What it overtook or was overtaken by *)
(* went through the other lane.                                            *)
LEMMA LiveEndsKeeps ==
  ASSUME IInv, NEW k \in Kinds, LiveEnds(k)
  PROVE  Core'
<1> DEFINE s == busy[k].seq
<1>0. TypeOK /\ LanesInv /\ AdmissionInv /\ KeptSorted /\ KeptFresh
      /\ LeftApart /\ KeptIsLater /\ ShownInv /\ OwnerInv
  BY DEF IInv, Core
<1>1. /\ busy' = [busy EXCEPT ![k] = Idle] /\ Sent(s)
      /\ UNCHANGED <<wire, epoch, lanes, next, admitted, gates, cmd, closed,
                     tries, answered, live, dropped, failed, strays, sealed, spent>>
  BY DEF LiveEnds
<1>2. /\ s \in live /\ s \notin Outputs /\ s \notin strays
      /\ s <= Len(wire) /\ wire[s].kind = k /\ Before(s, Range(lanes[k]))
      /\ ~closed => /\ s <= admitted
                    /\ \A x \in 1..admitted : wire[x].kind = k => x <= s
      /\ \A th \in Threads : wire[s].thread = th => Before(s, Kept(th))
  <2>1. Presented(k)
    BY DEF LiveEnds, IInv, LiveInv
  <2> QED BY <2>1 DEF Presented
<1>3. s \in Sequence /\ s \in Nat /\ Sequence \subseteq Nat
  BY <1>0, <1>2, PlacesTyped DEF TypeOK
<1>4. \A a \in Outputs : ~closed => a < s \/ Overtaken(a, s)
  <2> SUFFICES ASSUME NEW a \in Outputs, ~closed, wire[a].kind = k PROVE a < s
    BY <1>2 DEF Overtaken
  <2>1. a \in Nat \ {0} /\ a <= admitted /\ admitted \in Nat /\ a # s
    BY <1>0, <1>2, PlacesTyped DEF AdmissionInv, TypeOK
  <2>2. a <= s
    BY <1>2, <2>1
  <2> QED BY <1>3, <2>1, <2>2
<1>5. /\ output' \in Seq([seq : Sequence, epoch : Nat])
      /\ Outputs' = Outputs \cup {s}
      /\ \A i, j \in DOMAIN output' : output'[i].seq = output'[j].seq => i = j
      /\ InWireOrder'
  <2>1. ~closed => s \in strays \/ \A a \in Outputs :
                     wire[a].thread = wire[s].thread => a < s \/ Overtaken(a, s)
    BY <1>4
  <2>2. strays \subseteq strays' /\ live \subseteq live' /\ UNCHANGED <<wire, closed>>
    BY <1>1
  <2> QED BY <1>1, <1>2, <1>3, <2>1, <2>2, ShowKeeps
<1>6. TypeOK'
  BY <1>0, <1>1, <1>5 DEF TypeOK, Idle
<1>7. /\ \A l \in Kinds : Offered(l)' \subseteq Offered(l)
      /\ \A t \in Threads : Kept(t)' = Kept(t) /\ Popped(t)' = Popped(t)
      /\ \A c \in Commands : Left(c)' = Left(c)
  BY <1>0, <1>1 DEF TypeOK, Offered, Idle, Kept, Popped, Left
<1>8. LanesInv'
  <2>1. \A l \in Kinds : \A x \in Range(lanes[l]) \cup Offered(l)' : x # s
    <3> SUFFICES ASSUME NEW l \in Kinds, s \in Range(lanes[l]) \cup Offered(l)' PROVE FALSE
      OBVIOUS
    <3>1. l = k
      BY <1>0, <1>2, <1>7 DEF LanesInv
    <3>2. Offered(k)' = {}
      BY <1>0, <1>1 DEF TypeOK, Offered, Idle
    <3> QED BY <1>2, <1>3, <3>1, <3>2 DEF Before
  <2> QED BY <1>0, <1>1, <1>5, <1>7, <2>1 DEF LanesInv
<1>9. AdmissionInv'
  <2>1. \A l \in Kinds : busy'[l].step = "capacity" => busy'[l] = busy[l]
    BY <1>0, <1>1 DEF TypeOK, Idle
  <2> QED BY <1>0, <1>1, <1>2, <1>5, <2>1 DEF AdmissionInv
<1>10. KeptSorted'
  BY <1>0, <1>1, <1>7 DEF KeptSorted
<1>11. \A t \in Threads : \A x \in Kept(t) : x # s
  BY <1>0, <1>2, <1>3 DEF KeptFresh, Before
<1>12. KeptFresh'
  BY <1>0, <1>1, <1>5, <1>7, <1>11 DEF KeptFresh
<1>13. LeftApart'
  <2>1. \A c \in Commands : s \notin Left(c)
    BY <1>0, <1>2 DEF LeftApart
  <2> QED BY <1>0, <1>1, <1>5, <1>7, <2>1 DEF LeftApart
<1>14. KeptIsLater'
  <2>1. \A t \in Threads : \A x \in Kept(t) : wire[s].thread = t => s < x
    BY <1>2 DEF Before
  <2> QED BY <1>0, <1>1, <1>5, <1>7, <2>1 DEF KeptIsLater
<1>15. ShownInv'
  BY <1>0, <1>1, <1>5 DEF ShownInv, ProjectedOnce
<1>16. OwnerInv'
  BY <1>0, <1>1, SameOwners
<1> QED BY <1>6, <1>8, <1>9, <1>10, <1>12, <1>13, <1>14, <1>15, <1>16 DEF Core

LEMMA LiveFailsKeeps ==
  ASSUME IInv, NEW k \in Kinds, LiveFails(k)
  PROVE  Core'
<1>0. TypeOK /\ LanesInv /\ AdmissionInv /\ KeptSorted /\ KeptFresh
      /\ LeftApart /\ KeptIsLater /\ ShownInv /\ OwnerInv
  BY DEF IInv, Core
<1>1. /\ busy' = [busy EXCEPT ![k] = Idle] /\ failed' = failed \cup {busy[k].seq}
      /\ UNCHANGED <<wire, epoch, lanes, next, admitted, gates, cmd, closed, output,
                     tries, answered, live, dropped, strays, sealed>>
  BY DEF LiveFails
<1>2. TypeOK'
  <2>1. Spend("sink") /\ "sink" \in Disturbances
    BY DEF LiveFails, Disturbances
  <2>2. busy[k].seq \in Sequence
    BY <1>0 DEF LiveFails, IInv, LiveInv, Presented, TypeOK
  <2> QED BY <1>0, <1>1, <2>1, <2>2, SpendTyped DEF TypeOK, Idle
<1>3. \A l \in Kinds : Offered(l)' \subseteq Offered(l)
  BY <1>0, <1>1 DEF TypeOK, Offered, Idle
<1>4. LanesInv'
  BY <1>0, <1>1, <1>3 DEF LanesInv, Outputs
<1>5. AdmissionInv'
  BY <1>0, <1>1 DEF AdmissionInv, Outputs, TypeOK, Idle
<1>6. KeptSorted' /\ KeptFresh' /\ LeftApart' /\ KeptIsLater' /\ ShownInv' /\ OwnerInv'
  BY <1>0, <1>1, LanesAlone
<1> QED BY <1>2, <1>4, <1>5, <1>6 DEF Core

LEMMA ResetKeeps ==
  ASSUME IInv, Reset
  PROVE  Core'
<1>0. TypeOK /\ LanesInv /\ AdmissionInv /\ KeptSorted /\ KeptFresh
      /\ LeftApart /\ KeptIsLater /\ ShownInv /\ OwnerInv
  BY DEF IInv, Core
<1>1. /\ epoch' = epoch + 1
      /\ lanes' = [k \in Kinds |-> <<>>] /\ busy' = [k \in Kinds |-> Idle]
      /\ next' = Len(wire) + 1 /\ admitted' = Len(wire)
      /\ dropped' = dropped \cup {s \in 1..Len(wire) : s > admitted}
                           \cup UNION {Live(k) : k \in Kinds}
      /\ spent' = [spent EXCEPT !["reset"] = @ + 1]
      /\ UNCHANGED <<wire, gates, cmd, closed, output, tries, answered, live, failed,
                     strays, sealed>>
  BY DEF Reset, Spend
<1>2. /\ \A t \in Threads : Kept(t)' = Kept(t) /\ Popped(t)' = Popped(t)
      /\ \A c \in Commands : Left(c)' = Left(c)
      /\ Outputs' = Outputs
  BY <1>1 DEF Kept, Popped, Left, Outputs
<1>3. admitted \in Nat /\ Len(wire) \in Nat /\ admitted <= Len(wire) /\ Len(wire) <= MaxWire
      /\ Sequence \subseteq Nat
  BY <1>0, PlacesTyped DEF AdmissionInv, TypeOK
<1>4. TypeOK'
  <2>1. {s \in 1..Len(wire) : s > admitted} \subseteq Sequence
    BY <1>3, GateAssumption DEF Sequence
  <2>2. lanes' \in [Kinds -> Seq(Sequence)]
    BY <1>1
  <2>3. busy' \in [Kinds -> [step : {"idle", "admission", "capacity", "live"},
                            seq : Sequence \cup {0}, cmd : Commands \cup {None}]]
    BY <1>1 DEF Idle
  <2>4. spent' \in [Disturbances -> Nat]
    <3>1. Spend("reset") /\ "reset" \in Disturbances
      BY DEF Reset, Disturbances
    <3> QED BY <1>0, <3>1, SpendTyped
  <2>5. epoch' \in Nat /\ next' \in Nat /\ admitted' \in Nat
    BY <1>0, <1>1, <1>3 DEF TypeOK
  <2>6. dropped' \in SUBSET Sequence
    <3>1. \A k \in Kinds : Live(k) \subseteq Sequence
      BY <1>0 DEF IInv, LiveInv, Presented, Live, TypeOK
    <3> QED BY <1>0, <1>1, <2>1, <3>1 DEF TypeOK
  <2> QED BY <1>0, <1>1, <2>2, <2>3, <2>4, <2>5, <2>6 DEF TypeOK
<1>5. \A k \in Kinds : Offered(k)' = {} /\ Range(lanes'[k]) = {} /\ Increasing(lanes'[k])
  BY <1>1 DEF Offered, Idle, Range, Increasing
<1>6. LanesInv'
  BY <1>5 DEF LanesInv
<1>7. AdmissionInv'
  <2>1. \A k \in Kinds : busy'[k].step # "capacity"
    BY <1>1 DEF Idle
  <2>2. \A s \in strays : s \in Nat /\ s <= Len(wire)
    BY <1>0, <1>3 DEF AdmissionInv, TypeOK
  <2> QED BY <1>0, <1>1, <1>2, <1>3, <2>1, <2>2 DEF AdmissionInv
<1>8. KeptFresh'
  <2>1. ASSUME NEW t \in Threads, NEW s \in Kept(t) PROVE s <= Len(wire)
    <3>1. s \in Nat
      BY <1>0, PlacesTyped
    <3>2. s <= admitted
      BY <1>0 DEF KeptFresh
    <3> QED BY <1>3, <3>1, <3>2
  <2> QED BY <1>0, <1>1, <1>2, <2>1 DEF KeptFresh
<1>9. KeptSorted'
  BY <1>0, <1>1, <1>2 DEF KeptSorted
<1>10. LeftApart'
  BY <1>0, <1>1, <1>2 DEF LeftApart
<1>11. KeptIsLater'
  BY <1>0, <1>1, <1>2 DEF KeptIsLater
<1>12. ShownInv' /\ OwnerInv'
  BY <1>0, <1>1, SameOwners DEF ShownInv, InWireOrder, Overtaken, ProjectedOnce
<1> QED BY <1>4, <1>6, <1>7, <1>8, <1>9, <1>10, <1>11, <1>12 DEF Core

(* A lane is rid of the message it offered. *)
LEMMA LaneServed ==
  ASSUME IInv, NEW k \in Kinds, Offered(k) # {}, Offered(k)' = {},
         \A l \in Kinds \ {k} : busy'[l] = busy[l],
         \/ closed /\ UNCHANGED <<next, admitted>>
         \/ ~closed /\ busy[k].seq = next /\ Admitted(k),
         Outputs' \subseteq Outputs \cup {busy[k].seq},
         \A x \in Sequence \ {busy[k].seq} : tries'[x] = tries[x],
         UNCHANGED <<wire, lanes, closed, strays>>
  PROVE  LanesInv' /\ AdmissionInv'
<1> DEFINE s == busy[k].seq
<1>0. TypeOK /\ LanesInv /\ AdmissionInv
  BY DEF IInv, Core
<1>1. /\ Offered(k) = {s} /\ admitted < s /\ s <= Len(wire) /\ wire[s].kind = k
      /\ Before(s, Range(lanes[k]))
  BY <1>0 DEF Offered, LanesInv
<1>2. s \in Sequence /\ s \in Nat /\ admitted \in Nat /\ Len(wire) \in Nat
      /\ next = admitted + 1 /\ admitted <= Len(wire)
  BY <1>0, <1>1, PlacesTyped DEF TypeOK, AdmissionInv
<1>3. /\ next' = admitted' + 1 /\ admitted' <= Len(wire)
      /\ admitted' = admitted \/ (admitted' = s /\ s = admitted + 1)
      /\ admitted \in Nat /\ admitted' \in Nat /\ admitted <= admitted'
  BY <1>1, <1>2 DEF Admitted
<1>4. \A l \in Kinds : Offered(l)' \subseteq Offered(l)
  BY DEF Offered
<1>5. LanesInv'
  <2> SUFFICES ASSUME NEW l \in Kinds
               PROVE  /\ Increasing(lanes[l])
                      /\ \A x \in Offered(l)' : Before(x, Range(lanes[l]))
                      /\ \A x \in Range(lanes[l]) \cup Offered(l)' :
                           /\ admitted' < x /\ x <= Len(wire) /\ wire[x].kind = l
                           /\ x \notin Outputs' /\ tries'[x] = 0
    BY DEF LanesInv
  <2>1. /\ Increasing(lanes[l]) /\ \A x \in Offered(l) : Before(x, Range(lanes[l]))
        /\ \A x \in Range(lanes[l]) \cup Offered(l) :
             /\ admitted < x /\ x <= Len(wire) /\ wire[x].kind = l
             /\ x \notin Outputs /\ tries[x] = 0
    BY <1>0 DEF LanesInv
  <2>2. Range(lanes[l]) \cup Offered(l) \subseteq Nat
    BY <1>0, PlacesTyped
  <2>3. \A x \in Range(lanes[l]) \cup Offered(l)' : x # s
    <3>1. CASE l = k
      BY <1>1, <1>2, <2>2, <3>1 DEF Before
    <3>2. CASE l # k
      BY <1>1, <1>4, <2>1, <3>2
    <3> QED BY <3>1, <3>2
  <2>4. ASSUME NEW x \in Range(lanes[l]) \cup Offered(l)'
        PROVE  admitted' < x /\ x \in Sequence
    <3>1. x \in Nat /\ admitted < x /\ x # s /\ x <= Len(wire)
      BY <1>4, <2>1, <2>2, <2>3
    <3>2. x \in Sequence
      BY <1>0, <1>2, <3>1, GateAssumption DEF TypeOK, Sequence
    <3> QED BY <1>3, <3>1, <3>2
  <2> QED BY <1>4, <2>1, <2>3, <2>4
<1>6. \A l \in Kinds : busy'[l].step # "capacity"
  <2> SUFFICES ASSUME NEW l \in Kinds, busy'[l].step = "capacity" PROVE FALSE
    OBVIOUS
  <2>1. l # k /\ busy[l].step = "capacity"
    BY DEF Offered
  <2>2. busy[l].seq = next /\ ~closed /\ busy[l].seq \in Offered(l)
    BY <1>0, <2>1 DEF AdmissionInv, Offered
  <2>3. wire[busy[l].seq].kind = l
    BY <1>0, <2>2 DEF LanesInv
  <2> QED BY <1>1, <2>1, <2>2, <2>3
<1>7. \A a \in Outputs' : a <= Len(wire) /\ (closed \/ a <= admitted')
  <2> SUFFICES ASSUME NEW a \in Outputs' PROVE a <= Len(wire) /\ (closed \/ a <= admitted')
    OBVIOUS
  <2>1. CASE a = s
    BY <1>1, <1>2, <2>1 DEF Admitted
  <2>2. CASE a \in Outputs
    BY <1>0, <1>3, <2>2, PlacesTyped DEF AdmissionInv
  <2> QED BY <2>1, <2>2
<1>8. \A a \in strays : a <= admitted'
  BY <1>0, <1>3 DEF AdmissionInv, TypeOK, Sequence
<1>9. AdmissionInv'
  BY <1>3, <1>6, <1>7, <1>8 DEF AdmissionInv
<1> QED BY <1>5, <1>9

(* A message that a lane offers passes the gates by.                       *)
LEMMA GoesLiveKeeps ==
  ASSUME IInv, NEW k \in Kinds, Offered(k) # {}, GoesLive(k),
         \/ closed /\ UNCHANGED <<next, admitted>>
         \/ ~closed /\ busy[k].seq = next /\ Admitted(k),
         UNCHANGED <<wire, epoch, lanes, gates, cmd, closed, output, answered, dropped,
                     failed, strays, sealed, spent>>
  PROVE  Core'
<1> DEFINE s == busy[k].seq
<1>0. TypeOK /\ LanesInv /\ AdmissionInv /\ KeptSorted /\ KeptFresh
      /\ LeftApart /\ KeptIsLater /\ ShownInv /\ OwnerInv
  BY DEF IInv, Core
<1>1. /\ busy[k].step \in {"admission", "capacity"} /\ Offered(k) = {s}
      /\ admitted < s /\ s <= Len(wire) /\ tries[s] = 0
  BY <1>0 DEF Offered, LanesInv
<1>2. s \in Sequence /\ s \in Nat /\ admitted \in Nat /\ Len(wire) \in Nat /\ next \in Nat
      /\ next = admitted + 1
  BY <1>0, <1>1, PlacesTyped DEF TypeOK, AdmissionInv
<1>3. /\ busy' = [busy EXCEPT ![k].step = "live", ![k].cmd = None]
      /\ live' = live \cup {s} /\ Projected(s)
  BY DEF GoesLive
<1>4. /\ \A t \in Threads : Kept(t)' = Kept(t) /\ Popped(t)' = Popped(t)
      /\ \A c \in Commands : Left(c)' = Left(c)
      /\ Outputs' = Outputs
  BY DEF Kept, Popped, Left, Outputs
<1>7. /\ tries' \in [Sequence -> Nat] /\ ProjectedOnce'
      /\ \A x \in Sequence \ {s} : tries'[x] = tries[x]
  BY <1>1, <1>2, <1>3, ProjectKeeps
<1>8. /\ admitted' \in Nat /\ next' \in Nat /\ next' = admitted' + 1 /\ admitted' <= Len(wire)
      /\ admitted <= admitted' /\ admitted' <= s
  BY <1>0, <1>1, <1>2 DEF Admitted, AdmissionInv
<1>9. TypeOK'
  <2>1. busy' \in [Kinds -> [step : {"idle", "admission", "capacity", "live"},
                            seq : Sequence \cup {0}, cmd : Commands \cup {None}]]
    <3> DEFINE State == [step : {"idle", "admission", "capacity", "live"},
                         seq : Sequence \cup {0}, cmd : Commands \cup {None}]
               now == [busy[k] EXCEPT !.step = "live", !.cmd = None]
    <3>1. busy \in [Kinds -> State]
      BY <1>0 DEF TypeOK
    <3>2. now \in State
      BY <3>1
    <3>3. busy' = [busy EXCEPT ![k] = now]
      BY <1>3, <3>1
    <3> HIDE DEF now
    <3> QED BY <3>1, <3>2, <3>3
  <2>2. live' \in SUBSET Sequence
    BY <1>0, <1>2, <1>3 DEF TypeOK
  <2> QED BY <1>0, <1>7, <1>8, <2>1, <2>2 DEF TypeOK
<1>10. Offered(k)' = {} /\ \A l \in Kinds \ {k} : busy'[l] = busy[l]
  BY <1>0, <1>3 DEF TypeOK, Offered
<1>11. LanesInv' /\ AdmissionInv'
  <2>1. Outputs' \subseteq Outputs \cup {busy[k].seq}
    BY <1>4
  <2> QED BY <1>7, <1>10, <2>1, LaneServed
<1>14. \A t \in Threads : \A x \in Kept(t) : x \in Sequence /\ x # s
  BY <1>0, <1>1, <1>2, PlacesTyped DEF KeptFresh
<1>15. KeptFresh'
  <2>1. \A t \in Threads : \A x \in Kept(t) : x <= admitted'
    BY <1>0, <1>2, <1>8, PlacesTyped DEF KeptFresh
  <2> QED BY <1>0, <1>4, <1>7, <1>14, <2>1 DEF KeptFresh
<1>16. KeptSorted'
  BY <1>0, <1>4 DEF KeptSorted
<1>17. LeftApart'
  BY <1>0, <1>4 DEF LeftApart
<1>18. KeptIsLater'
  BY <1>0, <1>4 DEF KeptIsLater
<1>19. ShownInv'
  <2>1. \A x \in Sequence : x > Len(wire) => x # s
    BY <1>1, <1>2, PlacesTyped
  <2>2. InWireOrder'
    BY <1>0, <1>3 DEF ShownInv, InWireOrder, Overtaken
  <2> QED BY <1>0, <1>7, <2>1, <2>2 DEF ShownInv
<1>20. OwnerInv'
  BY <1>0, SameOwners
<1> QED BY <1>9, <1>11, <1>15, <1>16, <1>17, <1>18, <1>19, <1>20 DEF Core

(* A message whose thread is gated joins the buffer, behind all the gate   *)
(* keeps and all that was shown.                                           *)
LEMMA BufferedKeeps ==
  ASSUME IInv, NEW k \in Kinds, Offered(k) # {}, ~closed, busy[k].seq = next,
         NEW th \in Threads, th = ThreadOfMessage(busy[k].seq), HasGate(th),
         Len(gates[th].buffer) < Limit, IsBuffered(k, th), Admitted(k),
         UNCHANGED <<wire, epoch, lanes, cmd, closed, output, tries, answered,
                     live, dropped, failed, strays, sealed, spent>>
  PROVE  Core'
<1> DEFINE s == busy[k].seq
           g == gates[th]
<1>0. TypeOK /\ LanesInv /\ AdmissionInv /\ KeptSorted /\ KeptFresh
      /\ LeftApart /\ KeptIsLater /\ ShownInv /\ OwnerInv
  BY DEF IInv, Core
<1>1. /\ admitted < s /\ s <= Len(wire) /\ s \notin Outputs /\ tries[s] = 0
      /\ s = admitted + 1 /\ wire[s].thread = th
  BY <1>0 DEF Offered, LanesInv, AdmissionInv, ThreadOfMessage
<1>2. s \in Sequence /\ s \in Nat /\ s # 0 /\ admitted \in Nat /\ Limit \in Nat
  BY <1>0, <1>1, PlacesTyped, GateAssumption DEF TypeOK
<1>3. /\ gates' = [gates EXCEPT ![th].buffer = Append(@, s),
                                ![th].open = @ /\ Len(g.buffer) + 1 < Limit]
      /\ busy' = [busy EXCEPT ![k] = Idle] /\ admitted' = s /\ next' = s + 1
  BY DEF IsBuffered, Admitted
<1>4. /\ gates \in [Threads -> Gate] /\ g.buffer \in Seq(Sequence) /\ g.buffer \in Seq(Nat)
      /\ Range(g.buffer) \subseteq Nat /\ Len(g.buffer) \in Nat
  BY <1>0, PlacesTyped DEF TypeOK
<1>5. /\ Append(g.buffer, s) \in Seq(Sequence)
      /\ Range(Append(g.buffer, s)) = Range(g.buffer) \cup {s}
      /\ Len(Append(g.buffer, s)) = Len(g.buffer) + 1
  BY <1>2, <1>4, RangeAppend
<1> DEFINE now == [g EXCEPT !.buffer = Append(g.buffer, s),
                           !.open = @ /\ Len(g.buffer) + 1 < Limit]
<1>6. /\ now \in Gate /\ now.buffer = Append(g.buffer, s)
      /\ now.cmd = g.cmd /\ now.hand = g.hand /\ now.by = g.by /\ now.retry = g.retry
      /\ now.ready = g.ready /\ now.release = g.release /\ now.delivered = g.delivered
  <2> DEFINE open == g.open /\ Len(g.buffer) + 1 < Limit
  <2>1. open \in BOOLEAN /\ g \in Gate
    BY <1>4
  <2>2. now = [g EXCEPT !.buffer = Append(g.buffer, s), !.open = open]
    OBVIOUS
  <2> HIDE DEF open, now
  <2> QED BY <1>5, <2>1, <2>2 DEF Gate
<1>7. gates' = [gates EXCEPT ![th] = now]
  BY <1>3, <1>4
<1> HIDE DEF now
<1>20. /\ gates'[th] = now /\ gates' \in [Threads -> Gate]
       /\ \A t \in Threads \ {th} : gates'[t] = gates[t]
  BY <1>4, <1>6, <1>7
<1>8. /\ Kept(th)' = Kept(th) \cup {s}
      /\ \A t \in Threads : Popped(t)' = Popped(t)
      /\ \A t \in Threads \ {th} : Kept(t)' = Kept(t)
      /\ \A c \in Commands : Left(c)' = Left(c)
      /\ Outputs' = Outputs
  <2>1. \A t \in Threads : Popped(t)' = Popped(t)
    BY <1>6, <1>20 DEF Popped
  <2>2. Range(gates'[th].buffer) = Range(g.buffer) \cup {s}
    BY <1>5, <1>6, <1>20
  <2> QED BY <1>20, <2>1, <2>2 DEF Kept, Left, Outputs
<1>9. TypeOK'
  <2>2. busy' \in [Kinds -> [step : {"idle", "admission", "capacity", "live"},
                            seq : Sequence \cup {0}, cmd : Commands \cup {None}]]
    BY <1>0, <1>3 DEF TypeOK, Idle
  <2>3. admitted' \in Nat /\ next' \in Nat
    BY <1>2, <1>3
  <2> QED BY <1>0, <1>20, <2>2, <2>3 DEF TypeOK
<1>10. LanesInv' /\ AdmissionInv'
  <2>1. Offered(k)' = {} /\ \A l \in Kinds \ {k} : busy'[l] = busy[l]
    BY <1>0, <1>3 DEF TypeOK, Offered, Idle
  <2> QED BY <1>8, <2>1, LaneServed
<1>11. /\ \A t \in Threads : \A x \in Kept(t) : x \in Nat /\ x < s
       /\ \A x \in Outputs : x \in Nat /\ x < s
       /\ \A c \in Commands : \A x \in Left(c) : x \in Nat /\ x < s
       /\ \A x \in strays : x < s
  <2>1. \A x \in Sequence : x <= admitted => x \in Nat /\ x < s
    BY <1>1, <1>2 DEF Sequence
  <2>2. \A t \in Threads : \A x \in Kept(t) : x \in Sequence /\ x <= admitted
    BY <1>0, PlacesTyped DEF KeptFresh
  <2>3. \A x \in Outputs : x \in Sequence /\ x <= admitted
    BY <1>0, PlacesTyped DEF AdmissionInv
  <2>4. \A x \in strays : x \in Sequence /\ x <= admitted
    BY <1>0 DEF AdmissionInv, TypeOK
  <2>5. \A c \in Commands : \A x \in Left(c) : x \in strays
    BY <1>0 DEF LeftApart
  <2> QED BY <2>1, <2>2, <2>3, <2>4, <2>5
<1>12. KeptSorted'
  <2>1. Increasing(g.buffer) /\ Before(s, {}) /\ \A x \in Range(g.buffer) : x < s
    BY <1>0, <1>11 DEF KeptSorted, Kept, Before
  <2>2. Increasing(Append(g.buffer, s))
    BY <1>2, <1>4, <2>1, IncreasingAppend
  <2>3. \A x \in Popped(th) : Before(x, Range(g.buffer) \cup {s})
    BY <1>0, <1>11 DEF KeptSorted, Kept, Before
  <2>4. Len(now.buffer) <= Limit /\ Len(now.buffer) <= Limit + 1
    BY <1>2, <1>4, <1>5, <1>6
  <2> SUFFICES ASSUME NEW t \in Threads
               PROVE  /\ Increasing(gates'[t].buffer)
                      /\ \A x \in Popped(t)' : Before(x, Range(gates'[t].buffer))
                      /\ Len(gates'[t].buffer) <= Limit + 1
                      /\ gates'[t].hand # 0 => Len(gates'[t].buffer) <= Limit
    BY DEF KeptSorted
  <2>5. CASE t = th
    BY <1>5, <1>6, <1>8, <1>20, <2>2, <2>3, <2>4, <2>5
  <2>6. CASE t # th
    BY <1>0, <1>8, <1>20, <2>6 DEF KeptSorted
  <2> QED BY <2>5, <2>6
<1>13. KeptFresh'
  <2> SUFFICES ASSUME NEW t \in Threads, NEW x \in Kept(t)'
               PROVE  /\ x <= admitted' /\ wire[x].thread = t
                      /\ x \notin Outputs /\ x \notin strays
                      /\ tries[x] = 0 \/ (tries[x] = 1 /\ x \in gates'[t].ready)
    BY <1>8 DEF KeptFresh
  <2>1. CASE x \in Kept(t)
    <3>1. gates'[t].ready = gates[t].ready /\ x <= s
      BY <1>2, <1>6, <1>11, <1>20, <2>1
    <3> QED BY <1>0, <1>3, <2>1, <3>1 DEF KeptFresh
  <2>2. CASE x = s /\ t = th
    <3>1. s \notin strays /\ s <= s
      BY <1>2, <1>11
    <3> QED BY <1>1, <1>3, <2>2, <3>1
  <2> QED BY <1>8, <2>1, <2>2
<1>14. LeftApart'
  BY <1>0, <1>8 DEF LeftApart
<1>15. KeptIsLater'
  BY <1>0, <1>8, <1>11 DEF KeptIsLater
<1>16. ShownInv'
  BY <1>0 DEF ShownInv, InWireOrder, Overtaken, ProjectedOnce
<1>17. OwnerInv'
  BY <1>0, <1>6, <1>20, SameOwners
<1> QED BY <1>9, <1>10, <1>12, <1>13, <1>14, <1>15, <1>16, <1>17 DEF Core

(* A message that finds the gate full waits, and its lane with it.         *)
LEMMA WaitsKeeps ==
  ASSUME IInv, NEW k \in Kinds, Offered(k) # {}, ~closed, busy[k].seq = next,
         NEW th \in Threads,
         gates' = [gates EXCEPT ![th].open = FALSE],
         busy' = [busy EXCEPT ![k].step = "capacity", ![k].cmd = gates[th].cmd],
         UNCHANGED <<wire, epoch, lanes, next, admitted, cmd, closed, output, tries,
                     answered, live, dropped, failed, strays, sealed, spent>>
  PROVE  Core'
<1>0. TypeOK /\ LanesInv /\ AdmissionInv /\ KeptSorted /\ KeptFresh
      /\ LeftApart /\ KeptIsLater /\ ShownInv /\ OwnerInv
  BY DEF IInv, Core
<1> DEFINE State == [step : {"idle", "admission", "capacity", "live"},
                     seq : Sequence \cup {0}, cmd : Commands \cup {None}]
           now == [busy[k] EXCEPT !.step = "capacity", !.cmd = gates[th].cmd]
<1>1. busy \in [Kinds -> State] /\ gates \in [Threads -> Gate]
  BY <1>0 DEF TypeOK
<1>2. now \in State /\ now.step = "capacity" /\ now.seq = busy[k].seq
  BY <1>1 DEF Gate
<1>3. busy' = [busy EXCEPT ![k] = now]
  BY <1>1
<1> HIDE DEF now
<1>4. busy' \in [Kinds -> State] /\ busy'[k] = now
      /\ \A l \in Kinds \ {k} : busy'[l] = busy[l]
  <2> HIDE DEF State
  <2> QED BY <1>1, <1>2, <1>3
<1> DEFINE full == [gates[th] EXCEPT !.open = FALSE]
<1>5. /\ full \in Gate
      /\ full.cmd = gates[th].cmd /\ full.hand = gates[th].hand
      /\ full.by = gates[th].by /\ full.retry = gates[th].retry
      /\ full.ready = gates[th].ready /\ full.release = gates[th].release
      /\ full.delivered = gates[th].delivered /\ full.buffer = gates[th].buffer
  BY <1>1 DEF Gate
<1>6. gates' = [gates EXCEPT ![th] = full]
  BY <1>1
<1> HIDE DEF full
<1>7. gates' \in [Threads -> Gate] /\ \A t \in Threads :
        /\ gates'[t].cmd = gates[t].cmd /\ gates'[t].hand = gates[t].hand
        /\ gates'[t].by = gates[t].by /\ gates'[t].retry = gates[t].retry
        /\ gates'[t].ready = gates[t].ready /\ gates'[t].release = gates[t].release
        /\ gates'[t].delivered = gates[t].delivered /\ gates'[t].buffer = gates[t].buffer
  BY <1>1, <1>5, <1>6
<1>8. TypeOK'
  BY <1>0, <1>4, <1>7 DEF TypeOK
<1>9. \A l \in Kinds : Offered(l)' = Offered(l)
  BY <1>2, <1>4 DEF Offered
<1>10. LanesInv'
  BY <1>0, <1>9 DEF LanesInv, Outputs
<1>11. AdmissionInv'
  BY <1>0, <1>2, <1>4 DEF AdmissionInv, Outputs
<1>12. /\ \A t \in Threads : Kept(t)' = Kept(t) /\ Popped(t)' = Popped(t)
       /\ \A c \in Commands : Left(c)' = Left(c)
       /\ Outputs' = Outputs
  <2>1. \A t \in Threads : Popped(t)' = Popped(t)
    BY <1>7 DEF Popped
  <2> QED BY <1>7, <2>1 DEF Kept, Left, Outputs
<1>13. KeptSorted' /\ KeptFresh' /\ KeptIsLater' /\ LeftApart'
  <2>1. KeptSorted'
    BY <1>0, <1>7, <1>12 DEF KeptSorted
  <2>2. KeptFresh'
    BY <1>0, <1>7, <1>12 DEF KeptFresh
  <2>3. KeptIsLater' /\ LeftApart'
    BY <1>0, <1>12 DEF KeptIsLater, LeftApart
  <2> QED BY <2>1, <2>2, <2>3
<1>14. ShownInv'
  BY <1>0 DEF ShownInv, InWireOrder, Overtaken, ProjectedOnce
<1>15. OwnerInv'
  BY <1>0, <1>7, SameOwners
<1> QED BY <1>8, <1>10, <1>11, <1>13, <1>14, <1>15 DEF Core

LEMMA OfferKeeps ==
  ASSUME IInv, NEW k \in Kinds, Offered(k) # {}, ~closed, busy[k].seq = next, Offer(k),
         UNCHANGED <<wire, epoch, lanes, cmd, closed, output, answered, dropped, failed,
                     strays, sealed, spent>>
  PROVE  Core'
<1> DEFINE th == ThreadOfMessage(busy[k].seq)
<1>1. th \in Threads
  <2>1. TypeOK /\ busy[k].seq \in Offered(k) /\ LanesInv
    BY DEF IInv, Core, Offered
  <2>2. busy[k].seq \in 1..Len(wire) /\ wire \in Seq(Message)
    BY <2>1, PlacesTyped DEF TypeOK, AdmissionInv, LanesInv
  <2>3. wire[busy[k].seq] \in Message
    BY <2>2, ElementOfSeq
  <2> QED BY <2>3 DEF ThreadOfMessage, Message
<1>2. CASE ~HasGate(th) /\ GoesLive(k) /\ Admitted(k) /\ UNCHANGED gates
  BY <1>2, GoesLiveKeeps
<1>3. CASE /\ HasGate(th) /\ Len(gates[th].buffer) < Limit
           /\ IsBuffered(k, th) /\ Admitted(k) /\ UNCHANGED <<live, tries>>
  BY <1>1, <1>3, BufferedKeeps
<1>4. CASE /\ gates' = [gates EXCEPT ![th].open = FALSE]
           /\ busy' = [busy EXCEPT ![k].step = "capacity", ![k].cmd = gates[th].cmd]
           /\ UNCHANGED <<next, admitted, live, tries>>
  BY <1>1, <1>4, WaitsKeeps
<1> QED BY <1>2, <1>3, <1>4 DEF Offer

LEMMA AdmitKeeps ==
  ASSUME IInv, NEW k \in Kinds, Admit(k)
  PROVE  Core'
<1>1. (Offered(k) = {busy[k].seq} /\ busy[k].seq <= next) \/ closed
  BY DEF Admit, Offered
<1>2. /\ TypeOK /\ Offered(k) # {} /\ admitted < busy[k].seq /\ next = admitted + 1
      /\ busy[k].seq \in Nat /\ admitted \in Nat
  <2>1. Offered(k) = {busy[k].seq} /\ TypeOK /\ LanesInv /\ AdmissionInv
    BY DEF Admit, Offered, IInv, Core
  <2>2. busy[k].seq \in Nat /\ admitted \in Nat
    BY <2>1, GateAssumption DEF TypeOK, Sequence
  <2> QED BY <2>1, <2>2 DEF LanesInv, AdmissionInv
<1>3. CASE closed
  BY <1>2, <1>3, GoesLiveKeeps DEF Admit
<1>4. CASE ~closed
  <2>1. busy[k].seq = next /\ ~(busy[k].seq < next)
    BY <1>2, <1>4 DEF Admit
  <2> QED BY <1>2, <1>4, <2>1, OfferKeeps DEF Admit
<1> QED BY <1>3, <1>4

LEMMA WakesKeeps ==
  ASSUME IInv, NEW k \in Kinds, Wakes(k)
  PROVE  Core'
<1>1. Offered(k) # {} /\ ~closed /\ busy[k].seq = next
  BY DEF Wakes, Offered, IInv, Core, AdmissionInv
<1> QED BY <1>1, OfferKeeps DEF Wakes

-----------------------------------------------------------------------------
(* Commands. *)

(* A gate that is none of the command's stays as it is. *)
LEMMA OwnedByOthers ==
  ASSUME TypeOK, OwnerInv, NEW c \in Commands, NEW t \in Threads,
         gates'[t] = gates[t], gates[t].cmd # c, gates[t].by # c,
         \A d \in Commands \ {c} : cmd'[d] = cmd[d] /\ sealed'[d] = sealed[d],
         answered \subseteq answered', closed' = closed
  PROVE  Owned(t)'
<1>1. gates[t].cmd \in (Commands \cup {None}) \ {c} /\ None \notin Commands
  BY GateAssumption DEF TypeOK, Gate
<1>2. Owned(t)
  BY DEF OwnerInv
<1>3. HasGate(t)' <=> HasGate(t)
  BY DEF HasGate
<1>4. HasGate(t) => cmd'[gates[t].cmd] = cmd[gates[t].cmd]
                    /\ sealed'[gates[t].cmd] = sealed[gates[t].cmd]
  BY <1>1 DEF HasGate
<1>5. gates[t].by \in Commands => cmd'[gates[t].by] = cmd[gates[t].by]
  OBVIOUS
<1> QED BY <1>2, <1>3, <1>4, <1>5 DEF Owned

(* What is known of the answered commands, when one command goes on.       *)
LEMMA AnsweredGoOn ==
  ASSUME TypeOK, AnsweredInv, NEW c \in Commands,
         \A d \in Commands \ {c} : cmd'[d] = cmd[d],
         answered' \subseteq answered \cup {c},
         c \in answered' =>
           \/ cmd'[c].phase \in {"draining", "done"}
           \/ cmd'[c].phase = "discarding" /\ cmd'[c].then = "done"
  PROVE  AnsweredInv'
BY DEF AnsweredInv, TypeOK

(* The new gate is the only one of its thread and of its conversation.     *)
LEMMA BeginKeeps ==
  ASSUME IInv, NEW c \in Commands, Begin(c)
  PROVE  Core'
<1>0. TypeOK /\ LanesInv /\ AdmissionInv /\ KeptSorted /\ KeptFresh
      /\ LeftApart /\ KeptIsLater /\ ShownInv /\ OwnerInv
  BY DEF IInv, Core
<1>1. /\ cmd[c].phase = "new"
      /\ UNCHANGED <<wire, epoch, lanes, busy, next, admitted, closed, output, tries,
                     answered, live, dropped, failed, strays, sealed, spent>>
  BY DEF Begin
<1> DEFINE th == Wants[c]
           new == [NoGate EXCEPT !.cmd = c]
<1>2. \/ /\ Phase(c, "attaching") /\ gates' = [gates EXCEPT ![th] = new]
         /\ th # None /\ ~closed /\ GateOfRoute(RouteOf[c]) = {} /\ ~HasGate(th)
      \/ Phase(c, "responding") /\ UNCHANGED gates
  BY DEF Begin
<1>3. /\ LeftApart' /\ cmd'[c].phase \in {"attaching", "responding"}
      /\ \A d \in Commands : cmd'[d].left = cmd[d].left /\ cmd'[d].then = cmd[d].then
      /\ \A d \in Commands \ {c} : cmd'[d] = cmd[d]
      /\ cmd' \in [Commands ->
           [phase : {"new", "attaching", "reading", "discarding", "responding",
                     "failed", "draining", "done"},
            left : Seq(Sequence), then : {"none", "new", "responding", "done"}]]
  BY <1>0, <1>1, <1>2, PhaseKeeps DEF Phases
<1>4. c \notin answered /\ None \notin Commands /\ None # "retry"
      /\ gates \in [Threads -> Gate]
  BY <1>0, <1>1, GateAssumption DEF OwnerInv, AnsweredInv, TypeOK
<1>14. \A t \in Threads : gates[t].cmd # c /\ gates[t].by # c
  BY <1>0, <1>1, <1>4 DEF OwnerInv, Owned, HasGate
<1>15. AnsweredInv'
  BY <1>0, <1>1, <1>3, <1>4, AnsweredGoOn DEF OwnerInv
<1>5. /\ new \in Gate /\ new.buffer = <<>> /\ new.hand = 0 /\ new.ready = {}
      /\ new.cmd = c /\ ~new.delivered /\ new.by = None /\ ~new.retry
  <2>1. /\ NoGate \in Gate /\ NoGate.buffer = <<>> /\ NoGate.hand = 0
        /\ NoGate.ready = {} /\ ~NoGate.delivered /\ NoGate.by = None /\ ~NoGate.retry
    BY DEF NoGate, Gate
  <2> QED BY <2>1 DEF Gate
<1> HIDE DEF new
<1>6. CASE Phase(c, "responding") /\ UNCHANGED gates
  <2>1. TypeOK'
    BY <1>0, <1>1, <1>3, <1>6 DEF TypeOK
  <2>2. LanesInv' /\ AdmissionInv' /\ ShownInv'
    BY <1>1, LanesUntouched
  <2>3. KeptSorted' /\ KeptFresh' /\ KeptIsLater'
    BY <1>0, <1>1, <1>3, <1>6, KeptAsBefore
  <2>4. \A t \in Threads : Owned(t)'
    BY <1>0, <1>1, <1>3, <1>6, <1>14, OwnedByOthers
  <2>5. OwnerInv'
    BY <1>0, <1>6, <1>15, <2>4 DEF OwnerInv, OneGateEach, HasGate
  <2> QED BY <1>3, <2>1, <2>2, <2>3, <2>5 DEF Core
<1>7. CASE /\ Phase(c, "attaching") /\ gates' = [gates EXCEPT ![th] = new]
           /\ th # None /\ ~closed /\ GateOfRoute(RouteOf[c]) = {} /\ ~HasGate(th)
  <2>1. th \in Threads
    BY <1>7, GateAssumption
  <2>2. /\ gates' \in [Threads -> Gate] /\ gates'[th] = new
        /\ \A t \in Threads \ {th} : gates'[t] = gates[t]
    BY <1>4, <1>5, <1>7, <2>1
  <2>3. TypeOK'
    BY <1>0, <1>1, <1>3, <2>2 DEF TypeOK
  <2>4. LanesInv' /\ AdmissionInv' /\ ShownInv'
    BY <1>1, LanesUntouched
  <2>5. /\ gates[th].buffer = <<>> /\ gates[th].hand = 0
        /\ \A t \in Threads : Popped(t)' = Popped(t)
        /\ \A t \in Threads : Kept(t)' = Kept(t)
        /\ \A t \in Threads : gates'[t].buffer = gates[t].buffer
        /\ \A t \in Threads : gates'[t].hand = gates[t].hand
        /\ Kept(th) = {}
    <3>1. gates[th].buffer = <<>> /\ gates[th].hand = 0
      BY <1>0, <1>7, <2>1 DEF OwnerInv, Owned
    <3>2. \A t \in Threads : gates'[t].buffer = gates[t].buffer /\ gates'[t].hand = gates[t].hand
      BY <1>5, <2>2, <3>1
    <3>3. Range(<<>>) = {}
      BY DEF Range
    <3> QED BY <3>1, <3>2, <3>3 DEF Kept, Popped
  <2>6. KeptSorted'
    BY <1>0, <2>5 DEF KeptSorted
  <2>7. KeptFresh'
    BY <1>0, <1>1, <2>2, <2>5 DEF KeptFresh, Outputs
  <2>8. KeptIsLater'
    BY <1>0, <1>1, <1>3, <2>5 DEF KeptIsLater, Outputs, Left
  <2>9. Owned(th)'
    <3>1. cmd'[c].phase = "attaching"
      BY <1>0, <1>1, <1>7, PhaseKeeps DEF Phases
    <3> QED BY <1>1, <1>4, <1>5, <1>7, <2>2, <3>1 DEF Owned, HasGate
  <2>10. \A t \in Threads \ {th} : Owned(t)'
    BY <1>0, <1>1, <1>3, <1>14, <2>2, OwnedByOthers
  <2>11. OneGateEach'
    BY <1>0, <1>5, <1>7, <2>1, <2>2 DEF OwnerInv, OneGateEach, HasGate, GateOfRoute
  <2>12. OwnerInv'
    BY <1>15, <2>9, <2>10, <2>11 DEF OwnerInv
  <2> QED BY <1>3, <2>3, <2>4, <2>6, <2>7, <2>8, <2>12 DEF Core
<1> QED BY <1>2, <1>6, <1>7

(* A command that goes on and leaves the gates as they are. *)
LEMMA PhaseOnlyKeeps ==
  ASSUME IInv, NEW c \in Commands, NEW p \in Phases \ {"discarding"}, Phase(c, p),
         cmd[c].phase # "discarding",
         \A t \in Threads : /\ gates[t].cmd = c => p # "new" /\ cmd[c].phase # "attaching"
                            /\ gates[t].by # c,
         c \in answered => p \in {"draining", "done"},
         spent' \in [Disturbances -> Nat],
         UNCHANGED <<wire, epoch, lanes, busy, next, admitted, gates, closed,
                     output, tries, answered, live, dropped, failed, strays, sealed>>
  PROVE  Core'
<1>0. TypeOK /\ LanesInv /\ AdmissionInv /\ KeptSorted /\ KeptFresh
      /\ LeftApart /\ KeptIsLater /\ ShownInv /\ OwnerInv
  BY DEF IInv, Core
<1>1. /\ LeftApart' /\ cmd'[c].phase = p
      /\ \A d \in Commands : cmd'[d].left = cmd[d].left
      /\ \A d \in Commands \ {c} : cmd'[d] = cmd[d]
      /\ cmd' \in [Commands ->
           [phase : {"new", "attaching", "reading", "discarding", "responding",
                     "failed", "draining", "done"},
            left : Seq(Sequence), then : {"none", "new", "responding", "done"}]]
  BY <1>0, PhaseKeeps
<1>2. TypeOK'
  BY <1>0, <1>1 DEF TypeOK
<1>3. LanesInv' /\ AdmissionInv' /\ ShownInv'
  BY LanesUntouched
<1>4. KeptSorted' /\ KeptFresh' /\ KeptIsLater'
  BY <1>0, <1>1, KeptAsBefore
<1>5. \A t \in Threads : Owned(t)'
  <2> SUFFICES ASSUME NEW t \in Threads PROVE Owned(t)'
    OBVIOUS
  <2>1. CASE gates[t].cmd # c
    BY <1>0, <1>1, <2>1, OwnedByOthers
  <2>2. CASE gates[t].cmd = c
    <3>1. Owned(t) /\ HasGate(t) /\ HasGate(t)'
      BY <1>0, <2>2, GateAssumption DEF OwnerInv, HasGate
    <3>2. gates[t].by \in Commands => cmd'[gates[t].by] = cmd[gates[t].by]
      BY <1>1
    <3> QED BY <1>1, <2>2, <3>1, <3>2 DEF Owned
  <2> QED BY <2>1, <2>2
<1>6. AnsweredInv'
  <2>1. c \in answered' => cmd'[c].phase \in {"draining", "done"}
    BY <1>1
  <2>2. answered' \subseteq answered \cup {c} /\ AnsweredInv
    BY <1>0 DEF OwnerInv
  <2>3. \A d \in Commands \ {c} : cmd'[d] = cmd[d]
    BY <1>1
  <2> QED BY <1>0, <2>1, <2>2, <2>3, AnsweredGoOn
<1>7. OneGateEach'
  BY <1>0 DEF OwnerInv, OneGateEach, HasGate
<1> QED BY <1>1, <1>2, <1>3, <1>4, <1>5, <1>6, <1>7 DEF Core, OwnerInv

LEMMA ResponseFailsKeeps ==
  ASSUME IInv, NEW c \in Commands, ResponseFails(c)
  PROVE  Core'
<1>1. TypeOK /\ OwnerInv /\ cmd[c].phase = "responding" /\ Phase(c, "failed")
  BY DEF IInv, Core, ResponseFails
<1>2. spent' \in [Disturbances -> Nat]
  <2>1. Spend("sink") /\ "sink" \in Disturbances
    BY DEF ResponseFails, Disturbances
  <2> QED BY <1>1, <2>1, SpendTyped
<1>3. c \notin answered /\ \A t \in Threads : gates[t].by # c
  BY <1>1 DEF OwnerInv, Owned, AnsweredInv
<1> QED BY <1>1, <1>2, <1>3, PhaseOnlyKeeps DEF ResponseFails, Phases

LEMMA RedeliveredKeeps ==
  ASSUME IInv, NEW c \in Commands, Redelivered(c)
  PROVE  Core'
<1>1. TypeOK /\ OwnerInv /\ cmd[c].phase = "failed" /\ Phase(c, "responding")
  BY DEF IInv, Core, Redelivered
<1>2. spent' \in [Disturbances -> Nat]
  BY <1>1 DEF TypeOK, Redelivered
<1>3. c \notin answered /\ \A t \in Threads : gates[t].by # c
  BY <1>1 DEF OwnerInv, Owned, AnsweredInv
<1> QED BY <1>1, <1>2, <1>3, PhaseOnlyKeeps DEF Redelivered, Phases

LEMMA DrainEndsKeeps ==
  ASSUME IInv, NEW c \in Commands, DrainEnds(c)
  PROVE  Core'
<1>1. /\ TypeOK /\ OwnerInv /\ cmd[c].phase = "draining" /\ Phase(c, "done")
      /\ GateOfRoute(RouteOf[c]) = {}
  BY DEF IInv, Core, DrainEnds
<1>2. spent' \in [Disturbances -> Nat]
  BY <1>1 DEF TypeOK, DrainEnds
<1>3. \A t \in Threads : ~HasGate(t) \/ RouteOf[gates[t].cmd] # RouteOf[c]
  BY <1>1 DEF GateOfRoute
<1>4. \A t \in Threads : gates[t].by # c
  BY <1>1, <1>3 DEF OwnerInv, Owned
<1> QED BY <1>1, <1>2, <1>4, PhaseOnlyKeeps DEF DrainEnds, Phases

(* Gates change in nothing they keep while a command goes on. *)
LEMMA GatesMarkedKeep ==
  ASSUME IInv, NEW c \in Commands, NEW p \in Phases \ {"new", "discarding"}, Phase(c, p),
         cmd[c].phase \notin {"discarding", "draining"},
         gates' \in [Threads -> Gate],
         \A t \in Threads :
           /\ gates'[t].cmd = gates[t].cmd /\ gates'[t].hand = gates[t].hand
           /\ gates'[t].by = gates[t].by /\ gates'[t].retry = gates[t].retry
           /\ gates'[t].ready = gates[t].ready /\ gates'[t].buffer = gates[t].buffer,
         \A t \in Threads : gates[t].cmd # c => gates'[t] = gates[t],
         \A t \in Threads : gates[t].cmd = c =>
           /\ p = "attaching" \/ gates'[t].release = sealed'[c]
           /\ gates'[t].delivered => c \in answered'
           /\ gates[t].delivered => gates'[t].delivered,
         sealed' \in [Commands -> Nat], \A d \in Commands \ {c} : sealed'[d] = sealed[d],
         answered \subseteq answered', answered' \subseteq answered \cup {c},
         c \in answered' => p \in {"draining", "done"},
         UNCHANGED <<wire, epoch, lanes, busy, next, admitted, closed,
                     output, tries, live, dropped, failed, strays, spent>>
  PROVE  Core'
<1>0. TypeOK /\ LanesInv /\ AdmissionInv /\ KeptSorted /\ KeptFresh
      /\ LeftApart /\ KeptIsLater /\ ShownInv /\ OwnerInv
  BY DEF IInv, Core
<1>1. /\ LeftApart' /\ cmd'[c].phase = p
      /\ \A d \in Commands : cmd'[d].left = cmd[d].left
      /\ \A d \in Commands \ {c} : cmd'[d] = cmd[d]
      /\ cmd' \in [Commands ->
           [phase : {"new", "attaching", "reading", "discarding", "responding",
                     "failed", "draining", "done"},
            left : Seq(Sequence), then : {"none", "new", "responding", "done"}]]
  BY <1>0, PhaseKeeps
<1>2. TypeOK'
  BY <1>0, <1>1 DEF TypeOK
<1>3. LanesInv' /\ AdmissionInv' /\ ShownInv'
  BY LanesUntouched
<1>4. KeptSorted' /\ KeptFresh' /\ KeptIsLater'
  BY <1>0, <1>1, KeptAsBefore
<1>5. \A t \in Threads : gates[t].by # c
  BY <1>0 DEF OwnerInv, Owned
<1>6. \A t \in Threads : Owned(t)'
  <2> SUFFICES ASSUME NEW t \in Threads PROVE Owned(t)'
    OBVIOUS
  <2>1. CASE gates[t].cmd # c
    BY <1>0, <1>1, <1>5, <2>1, OwnedByOthers
  <2>2. CASE gates[t].cmd = c
    <3>1. Owned(t) /\ HasGate(t) /\ HasGate(t)'
      BY <1>0, <2>2, GateAssumption DEF OwnerInv, HasGate
    <3>2. gates[t].by \in Commands => cmd'[gates[t].by] = cmd[gates[t].by]
      BY <1>1, <1>5
    <3> QED BY <1>1, <2>2, <3>1, <3>2 DEF Owned
  <2> QED BY <2>1, <2>2
<1>7. AnsweredInv'
  <2>1. c \in answered' => cmd'[c].phase \in {"draining", "done"}
    BY <1>1
  <2>2. answered' \subseteq answered \cup {c} /\ AnsweredInv
    BY <1>0 DEF OwnerInv
  <2>3. \A d \in Commands \ {c} : cmd'[d] = cmd[d]
    BY <1>1
  <2> QED BY <1>0, <2>1, <2>2, <2>3, AnsweredGoOn
<1>8. OneGateEach'
  BY <1>0 DEF OwnerInv, OneGateEach, HasGate
<1> QED BY <1>1, <1>2, <1>3, <1>4, <1>6, <1>7, <1>8 DEF Core, OwnerInv

LEMMA SealedKeeps ==
  ASSUME IInv, NEW c \in Commands, NEW p \in {"reading", "responding"}, Phase(c, p),
         cmd[c].phase \in {"attaching", "reading"},
         Sealed(c), sealed' = [sealed EXCEPT ![c] = Len(wire)],
         UNCHANGED <<wire, epoch, lanes, busy, next, admitted, closed, output,
                     tries, answered, live, dropped, failed, strays, spent>>
  PROVE  Core'
<1> DEFINE th == Wants[c]
           now == [gates[th] EXCEPT !.release = Len(wire)]
<1>0. TypeOK /\ OwnerInv
  BY DEF IInv, Core
<1>1. gates \in [Threads -> Gate] /\ Len(wire) \in Nat /\ sealed \in [Commands -> Nat]
  BY <1>0 DEF TypeOK
<1>6. c \notin answered
  BY <1>0 DEF OwnerInv, AnsweredInv
<1>2. sealed' \in [Commands -> Nat] /\ sealed'[c] = Len(wire)
      /\ \A d \in Commands \ {c} : sealed'[d] = sealed[d]
  BY <1>1
<1>3. \A t \in Threads : gates[t].cmd = c => Owns(c) /\ t = th
  BY <1>0, GateAssumption DEF OwnerInv, Owned, HasGate, Owns
<1>4. CASE Owns(c)
  <2>1. th \in Threads /\ gates[th] \in Gate /\ gates[th].cmd = c
    BY <1>1, <1>4, GateAssumption DEF Owns
  <2>2. /\ now \in Gate /\ now.release = Len(wire) /\ now.delivered = gates[th].delivered
        /\ now.cmd = gates[th].cmd /\ now.hand = gates[th].hand
        /\ now.by = gates[th].by /\ now.retry = gates[th].retry
        /\ now.ready = gates[th].ready /\ now.buffer = gates[th].buffer
    BY <1>1, <2>1 DEF Gate
  <2>3. gates' = [gates EXCEPT ![th] = now]
    BY <1>1, <1>4, <2>1 DEF Sealed
  <2> HIDE DEF now
  <2>4. /\ gates' \in [Threads -> Gate] /\ gates'[th] = now
        /\ \A t \in Threads \ {th} : gates'[t] = gates[t]
    BY <1>1, <2>1, <2>2, <2>3
  <2>5. gates[th].delivered => c \in answered
    BY <1>0, <2>1, GateAssumption DEF OwnerInv, Owned, HasGate
  <2>6. p \in Phases \ {"new", "discarding"}
    BY DEF Phases
  <2> QED BY <1>1, <1>2, <1>3, <1>6, <2>1, <2>2, <2>4, <2>5, <2>6, GatesMarkedKeep
<1>5. CASE ~Owns(c)
  <2>1. gates' = gates /\ p \in Phases \ {"new", "discarding"}
    BY <1>5 DEF Sealed, Phases
  <2> QED BY <1>1, <1>2, <1>3, <1>5, <1>6, <2>1, GatesMarkedKeep
<1> QED BY <1>4, <1>5

LEMMA RespondsKeeps ==
  ASSUME IInv, NEW c \in Commands, Responds(c)
  PROVE  Core'
<1> DEFINE now(t) == [gates[t] EXCEPT !.delivered = TRUE]
<1>0. TypeOK /\ OwnerInv /\ cmd[c].phase = "responding"
  BY DEF IInv, Core, Responds
<1>1. PICK p \in {"draining", "done"} : Phase(c, p)
  <2>1. PICK own \in {GateOfRoute(RouteOf[c])} :
          Phase(c, IF \E th \in own : gates'[th].delivered THEN "draining" ELSE "done")
    BY DEF Responds
  <2>2. CASE \E th \in own : gates'[th].delivered
    BY <2>1, <2>2
  <2>3. CASE ~ \E th \in own : gates'[th].delivered
    BY <2>1, <2>3
  <2> QED BY <2>2, <2>3
<1>2. gates \in [Threads -> Gate] /\ sealed \in [Commands -> Nat]
  BY <1>0 DEF TypeOK
<1>3. gates' = [t \in Threads |-> IF t \in GateOfRoute(RouteOf[c]) /\ gates[t].cmd = c
                                  THEN now(t) ELSE gates[t]]
  BY DEF Responds
<1>4. \A t \in Threads :
        /\ now(t) \in Gate /\ now(t).release = gates[t].release
        /\ now(t).delivered = TRUE
        /\ now(t).cmd = gates[t].cmd /\ now(t).hand = gates[t].hand
        /\ now(t).by = gates[t].by /\ now(t).retry = gates[t].retry
        /\ now(t).ready = gates[t].ready /\ now(t).buffer = gates[t].buffer
  BY <1>2 DEF Gate
<1> HIDE DEF now
<1>5. /\ gates' \in [Threads -> Gate]
      /\ \A t \in Threads : gates'[t] = gates[t] \/ (gates'[t] = now(t) /\ gates[t].cmd = c)
  BY <1>2, <1>3, <1>4
<1>6. \A t \in Threads : gates[t].cmd = c => gates[t].release = sealed[c]
  BY <1>0, GateAssumption DEF OwnerInv, Owned, HasGate
<1>7. p \in Phases \ {"new", "discarding"} /\ answered' = answered \cup {c} /\ sealed' = sealed
      /\ UNCHANGED <<wire, epoch, lanes, busy, next, admitted, closed,
                     output, tries, live, dropped, failed, strays, spent>>
  BY <1>1 DEF Phases, Responds
<1> QED BY <1>0, <1>1, <1>2, <1>4, <1>5, <1>6, <1>7, GatesMarkedKeep

LEMMA GateRemoved ==
  ASSUME TypeOK, NEW th \in Threads, gates' = [gates EXCEPT ![th] = NoGate]
  PROVE  /\ gates' \in [Threads -> Gate] /\ gates'[th] = NoGate
         /\ \A t \in Threads \ {th} : /\ gates'[t] = gates[t]
                                      /\ Kept(t)' = Kept(t) /\ Popped(t)' = Popped(t)
         /\ Kept(th)' = {} /\ Popped(th)' = {} /\ ~HasGate(th)' /\ Owned(th)'
         /\ NoGate.buffer = <<>> /\ NoGate.hand = 0
         /\ OneGateEach => OneGateEach'
<1>1. /\ NoGate \in Gate /\ NoGate.buffer = <<>> /\ NoGate.hand = 0
      /\ NoGate.cmd = None /\ NoGate.by = None /\ ~NoGate.retry /\ ~NoGate.delivered
  BY DEF NoGate, Gate
<1>2. gates \in [Threads -> Gate]
  BY DEF TypeOK
<1>3. /\ gates' \in [Threads -> Gate] /\ gates'[th] = NoGate
      /\ \A t \in Threads \ {th} : gates'[t] = gates[t]
  BY <1>1, <1>2
<1>4. \A t \in Threads \ {th} : Popped(t)' = Popped(t)
  BY <1>3 DEF Popped
<1>5. \A t \in Threads \ {th} : Kept(t)' = Kept(t)
  BY <1>3, <1>4 DEF Kept
<1>6. Range(<<>>) = {}
  BY DEF Range
<1>7. Popped(th)' = {}
  BY <1>1, <1>3 DEF Popped
<1>8. Kept(th)' = {}
  BY <1>1, <1>3, <1>6, <1>7 DEF Kept
<1>9. ~HasGate(th)'
  BY <1>1, <1>3 DEF HasGate
<1>10. Owned(th)'
  BY <1>1, <1>3, <1>9, GateAssumption DEF Owned
<1>11. OneGateEach => OneGateEach'
  BY <1>3, <1>9 DEF OneGateEach, HasGate
<1> QED BY <1>1, <1>3, <1>4, <1>5, <1>7, <1>8, <1>9, <1>10, <1>11

LEMMA HeldIsKept ==
  ASSUME NEW g \in Gate
  PROVE  /\ Range(Held(g)) = Range(g.buffer) \cup (IF g.hand = 0 THEN {} ELSE {g.hand})
         /\ Held(g) \in Seq(Sequence)
         /\ Len(Held(g)) = Len(g.buffer) + (IF g.hand = 0 THEN 0 ELSE 1)
         /\ Increasing(g.buffer) /\ (g.hand # 0 => Before(g.hand, Range(g.buffer)))
              => Increasing(Held(g))
<1>1. g.buffer \in Seq(Sequence) /\ g.hand \in Sequence \cup {0} /\ Sequence \subseteq Nat
      /\ Len(g.buffer) \in Nat
  BY GateAssumption, LenProperties DEF Gate, Sequence
<1>2. CASE g.hand = 0
  <2>1. Held(g) = <<>> \o g.buffer
    BY <1>2 DEF Held
  <2>2. <<>> \o g.buffer = g.buffer
    BY <1>1, ConcatEmptySeq
  <2> QED BY <1>1, <1>2, <2>1, <2>2
<1>3. CASE g.hand # 0
  <2> DEFINE h == g.hand
             b == g.buffer
  <2>1. Held(g) = <<h>> \o b /\ h \in Sequence
    BY <1>1, <1>3 DEF Held
  <2>2. b \in Seq(Sequence)
    BY <1>1
  <2> HIDE DEF h, b
  <2>3. /\ <<h>> \o b \in Seq(Sequence) /\ Len(<<h>> \o b) = Len(b) + 1
        /\ Range(<<h>> \o b) = {h} \cup Range(b)
        /\ Increasing(b) /\ Before(h, Range(b)) => Increasing(<<h>> \o b)
    BY <1>1, <2>1, <2>2, PutBack
  <2> QED BY <1>3, <2>1, <2>3 DEF h, b
<1> QED BY <1>2, <1>3

(* A discarded gate gives what it kept to the command, to be handed over   *)
(* outside the order.                                                      *)
LEMMA DiscardKeeps ==
  ASSUME IInv, NEW c \in Commands, NEW th \in Threads, NEW b \in Seq(Sequence),
         NEW then \in {"new", "responding", "done"},
         Increasing(b), Range(b) \subseteq Kept(th), Discard(c, th, b, then),
         c \in answered => then = "done", cmd[c].phase # "discarding",
         \A t \in Threads \ {th} : gates[t].cmd # c /\ gates[t].by # c,
         tries' \in [Sequence -> Nat], \A x \in Sequence \ Range(b) : tries'[x] = tries[x],
         spent' \in [Disturbances -> Nat],
         UNCHANGED <<wire, epoch, lanes, busy, next, admitted, closed, output,
                     answered, live, dropped, sealed>>
  PROVE  Core'
<1> DEFINE now == [phase |-> "discarding", left |-> b, then |-> then]
<1>0. TypeOK /\ LanesInv /\ AdmissionInv /\ KeptSorted /\ KeptFresh
      /\ LeftApart /\ KeptIsLater /\ ShownInv /\ OwnerInv
  BY DEF IInv, Core
<1>1. /\ gates' = [gates EXCEPT ![th] = NoGate] /\ strays' = strays \cup Kept(th)
      /\ failed' = failed \cup (Kept(th) \ Range(b))
      /\ cmd' = [cmd EXCEPT ![c] = now]
  <2>1. gates[th] \in Gate
    BY <1>0 DEF TypeOK
  <2>2. Range(Held(gates[th])) = Kept(th)
    BY <2>1, HeldIsKept DEF Kept, Popped
  <2> QED BY <2>2 DEF Discard
<1>2. /\ gates' \in [Threads -> Gate] /\ gates'[th] = NoGate
      /\ \A t \in Threads \ {th} : /\ gates'[t] = gates[t]
                                   /\ Kept(t)' = Kept(t) /\ Popped(t)' = Popped(t)
      /\ Kept(th)' = {} /\ Popped(th)' = {} /\ Owned(th)' /\ OneGateEach'
      /\ NoGate.buffer = <<>> /\ NoGate.hand = 0
  BY <1>0, <1>1, GateRemoved DEF OwnerInv
<1>3. /\ cmd'[c] = now /\ \A d \in Commands \ {c} : cmd'[d] = cmd[d]
      /\ cmd' \in [Commands ->
           [phase : {"new", "attaching", "reading", "discarding", "responding",
                     "failed", "draining", "done"},
            left : Seq(Sequence), then : {"none", "new", "responding", "done"}]]
  BY <1>0, <1>1 DEF TypeOK
<1>4. \A x \in Kept(th) :
        /\ x \in Sequence /\ x <= admitted /\ wire[x].thread = th
        /\ x \notin Outputs /\ x \notin strays
  BY <1>0, PlacesTyped DEF KeptFresh
<1>5. TypeOK'
  <2>1. strays' \in SUBSET Sequence /\ failed' \in SUBSET Sequence
    BY <1>0, <1>1, <1>4 DEF TypeOK
  <2> QED BY <1>0, <1>2, <1>3, <2>1 DEF TypeOK
<1>6. Outputs' = Outputs /\ strays \subseteq strays' /\ \A x \in strays' : x <= admitted
  BY <1>0, <1>1, <1>4 DEF Outputs, AdmissionInv
<1>7. LanesInv' /\ AdmissionInv'
  <2>1. \A x \in Range(b) : x \in Sequence /\ x <= admitted
    BY <1>4
  <2> QED BY <1>6, <2>1, LanesUndisturbed
<1>8. KeptSorted'
  <2>1. Increasing(<<>>) /\ Len(<<>>) <= Limit + 1
    BY GateAssumption DEF Increasing
  <2> QED BY <1>0, <1>2, <2>1 DEF KeptSorted
<1>9. KeptFresh'
  <2> SUFFICES ASSUME NEW t \in Threads \ {th}, NEW x \in Kept(t)
               PROVE  /\ x <= admitted /\ wire[x].thread = t
                      /\ x \notin Outputs /\ x \notin strays'
                      /\ tries'[x] = 0 \/ (tries'[x] = 1 /\ x \in gates[t].ready)
    BY <1>2, <1>6 DEF KeptFresh
  <2>1. x \in Sequence /\ x \notin Kept(th)
    <3>1. x \in Sequence
      BY <1>0, PlacesTyped
    <3>2. wire[x].thread = t
      BY <1>0 DEF KeptFresh
    <3> QED BY <1>4, <3>1, <3>2
  <2> QED BY <1>0, <1>1, <2>1 DEF KeptFresh
<1>10. Left(c)' = Range(b) /\ \A d \in Commands \ {c} : Left(d)' = Left(d)
  BY <1>3 DEF Left
<1>11. LeftApart'
  <2>1. \A d \in Commands \ {c} : \A x \in Left(d) : x \notin Range(b) /\ x \in strays'
    BY <1>0, <1>1, <1>4 DEF LeftApart
  <2>2. \A x \in Range(b) : x \in strays' /\ x \notin Outputs
    BY <1>1, <1>4
  <2>3. now.phase = "discarding" /\ now.left = b /\ now.then # "none"
    OBVIOUS
  <2> HIDE DEF now
  <2>4. /\ Increasing(cmd'[c].left) /\ cmd'[c].phase = "discarding"
        /\ cmd'[c].then # "none"
        /\ \A x \in Left(c)' : x \in strays' /\ x \notin Outputs'
                               /\ \A d \in Commands \ {c} : x \notin Left(d)'
    BY <1>3, <1>6, <1>10, <2>1, <2>2, <2>3
  <2>5. ASSUME NEW d \in Commands \ {c}
        PROVE  /\ Increasing(cmd'[d].left)
               /\ cmd'[d].phase = "discarding" => cmd'[d].then # "none"
               /\ cmd'[d].left # <<>> => cmd'[d].phase = "discarding"
               /\ \A x \in Left(d)' : x \in strays' /\ x \notin Outputs'
                                      /\ \A e \in Commands \ {d} : x \notin Left(e)'
    <3>1. /\ Increasing(cmd[d].left)
          /\ cmd[d].phase = "discarding" => cmd[d].then # "none"
          /\ cmd[d].left # <<>> => cmd[d].phase = "discarding"
          /\ \A x \in Left(d) : x \notin Outputs /\ \A e \in Commands \ {d} : x \notin Left(e)
      BY <1>0 DEF LeftApart
    <3>2. \A x \in Left(d)' : x \in strays' /\ x \notin Outputs'
      BY <1>6, <1>10, <2>1, <3>1
    <3>3. \A x \in Left(d)' : \A e \in Commands \ {d} : x \notin Left(e)'
      BY <1>10, <2>1, <3>1
    <3> QED BY <1>3, <3>1, <3>2, <3>3
  <2> QED BY <2>4, <2>5 DEF LeftApart
<1>12. KeptIsLater'
  <2> SUFFICES ASSUME NEW t \in Threads \ {th}, NEW x \in Kept(t)
               PROVE  /\ \A a \in Outputs : wire[a].thread = t => a < x
                      /\ \A d \in Commands : \A a \in Left(d)' : wire[a].thread = t => a < x
    BY <1>2, <1>6 DEF KeptIsLater
  <2> QED BY <1>0, <1>4, <1>10 DEF KeptIsLater
<1>13. ShownInv'
  <2>1. InWireOrder'
    BY <1>0, <1>6 DEF ShownInv, InWireOrder, Overtaken
  <2>2. ProjectedOnce'
    BY <1>0, <1>1, <1>6 DEF ShownInv, ProjectedOnce
  <2>3. \A x \in Sequence : x > Len(wire) => x \notin Range(b)
    <3>1. admitted \in Nat /\ Len(wire) \in Nat /\ admitted <= Len(wire) /\ Sequence \subseteq Nat
      BY <1>0, PlacesTyped DEF TypeOK, AdmissionInv
    <3>2. \A x \in Range(b) : x \in Sequence /\ x <= admitted
      BY <1>4
    <3> QED BY <3>1, <3>2
  <2>4. \A x \in Sequence : x > Len(wire) => tries'[x] = 0
    BY <1>0, <2>3 DEF ShownInv
  <2> QED BY <1>0, <2>1, <2>2, <2>4 DEF ShownInv
<1>14. OwnerInv'
  <2>1. \A t \in Threads \ {th} : Owned(t)'
    BY <1>0, <1>2, <1>3, OwnedByOthers
  <2>2. c \in answered' => cmd'[c].phase = "discarding" /\ cmd'[c].then = "done"
    BY <1>3
  <2>3. AnsweredInv'
    <3>1. AnsweredInv /\ answered' \subseteq answered \cup {c}
      BY <1>0 DEF OwnerInv
    <3>2. \A d \in Commands \ {c} : cmd'[d] = cmd[d]
      BY <1>3
    <3> QED BY <1>0, <2>2, <3>1, <3>2, AnsweredGoOn
  <2> QED BY <1>2, <2>1, <2>3 DEF OwnerInv
<1> QED BY <1>5, <1>7, <1>8, <1>9, <1>11, <1>12, <1>13, <1>14 DEF Core

LEMMA AbandonedKeeps ==
  ASSUME IInv, NEW c \in Commands, NEW then \in {"new", "responding"}, Abandoned(c, then),
         spent' \in [Disturbances -> Nat]
  PROVE  Core'
<1>0. TypeOK /\ KeptSorted /\ OwnerInv /\ LeftApart /\ cmd[c].phase \in {"attaching", "reading"}
  BY DEF IInv, Core, Abandoned
<1>1. c \notin answered /\ \A t \in Threads : gates[t].by # c
  BY <1>0 DEF OwnerInv, Owned, AnsweredInv
<1>2. \A t \in Threads : gates[t].cmd = c => Owns(c) /\ t = Wants[c]
  BY <1>0, GateAssumption DEF OwnerInv, Owned, HasGate, Owns
<1>3. /\ UNCHANGED <<wire, epoch, lanes, busy, next, admitted, closed, output,
                     tries, answered, live, dropped, sealed>>
      /\ tries \in [Sequence -> Nat]
  BY <1>0 DEF Abandoned, TypeOK
<1>4. CASE Owns(c)
  <2> DEFINE th == Wants[c]
  <2>1. th \in Threads /\ Discard(c, th, gates[th].buffer, then)
    BY <1>4, GateAssumption DEF Abandoned, Owns
  <2>2. /\ gates[th].buffer \in Seq(Sequence) /\ Increasing(gates[th].buffer)
        /\ Range(gates[th].buffer) \subseteq Kept(th)
    BY <1>0, <2>1, PlacesTyped DEF KeptSorted, Kept
  <2>3. then \in {"new", "responding", "done"}
    OBVIOUS
  <2>4. \A t \in Threads \ {th} : gates[t].cmd # c /\ gates[t].by # c
    BY <1>1, <1>2
  <2> DEFINE b == gates[th].buffer
  <2>5. /\ tries' \in [Sequence -> Nat] /\ (\A x \in Sequence \ Range(b) : tries'[x] = tries[x])
        /\ (c \in answered => then = "done") /\ cmd[c].phase # "discarding"
        /\ UNCHANGED <<wire, epoch, lanes, busy, next, admitted, closed, output,
                       answered, live, dropped, sealed>>
    BY <1>0, <1>1, <1>3
  <2>6. b \in Seq(Sequence) /\ Increasing(b) /\ Range(b) \subseteq Kept(th)
        /\ Discard(c, th, b, then)
    BY <2>1, <2>2
  <2> HIDE DEF b
  <2> QED BY <2>1, <2>3, <2>4, <2>5, <2>6, DiscardKeeps
<1>5. CASE ~Owns(c)
  <2>1. Phase(c, then) /\ UNCHANGED <<gates, failed, strays>> /\ then \in Phases \ {"discarding"}
    BY <1>5 DEF Abandoned, Phases
  <2> QED BY <1>0, <1>1, <1>2, <1>3, <1>5, <2>1, PhaseOnlyKeeps
<1> QED BY <1>4, <1>5

LEMMA DisturbedCommandKeeps ==
  ASSUME IInv, NEW c \in Commands, AttachFails(c) \/ CommandCancelled(c)
  PROVE  Core'
<1>1. TypeOK /\ {"fail", "cancel"} \subseteq Disturbances
  BY DEF IInv, Core, Disturbances
<1>2. CASE AttachFails(c)
  BY <1>1, <1>2, SpendTyped, AbandonedKeeps DEF AttachFails
<1>3. CASE CommandCancelled(c)
  BY <1>1, <1>3, SpendTyped, AbandonedKeeps DEF CommandCancelled
<1> QED BY <1>2, <1>3

(* What a discarded gate kept is shown one by one; then the command is     *)
(* answered, tried again or over.                                          *)
LEMMA DiscardEndsKeeps ==
  ASSUME IInv, NEW c \in Commands, cmd[c].phase = "discarding", cmd[c].left = <<>>,
         Phase(c, cmd[c].then),
         UNCHANGED <<wire, epoch, lanes, busy, next, admitted, gates, closed, output, tries,
                     answered, live, dropped, failed, strays, sealed, spent>>
  PROVE  Core'
<1> DEFINE Progress == [phase : {"new", "attaching", "reading", "discarding", "responding",
                                 "failed", "draining", "done"},
                        left : Seq(Sequence), then : {"none", "new", "responding", "done"}]
           p == cmd[c].then
           now == [cmd[c] EXCEPT !.phase = p]
<1>0. TypeOK /\ LanesInv /\ AdmissionInv /\ KeptSorted /\ KeptFresh
      /\ LeftApart /\ KeptIsLater /\ ShownInv /\ OwnerInv
  BY DEF IInv, Core
<1>1. cmd \in [Commands -> Progress]
  BY <1>0 DEF TypeOK
<1>2. p \in {"new", "responding", "done"} /\ (c \in answered => p = "done")
  BY <1>0, <1>1 DEF LeftApart, OwnerInv, AnsweredInv
<1>3. now \in Progress /\ now.phase = p /\ now.left = cmd[c].left
  BY <1>1, <1>2
<1>4. cmd' = [cmd EXCEPT ![c] = now]
  BY <1>1 DEF Phase
<1> HIDE DEF now
<1>5. /\ cmd'[c] = now /\ \A d \in Commands \ {c} : cmd'[d] = cmd[d]
      /\ \A d \in Commands : cmd'[d].left = cmd[d].left
      /\ cmd' \in [Commands -> Progress]
  <2> HIDE DEF Progress
  <2> QED BY <1>1, <1>3, <1>4
<1>6. TypeOK'
  BY <1>0, <1>5 DEF TypeOK
<1>7. LanesInv' /\ AdmissionInv' /\ ShownInv'
  BY LanesUntouched
<1>8. KeptSorted' /\ KeptFresh' /\ KeptIsLater'
  BY <1>0, <1>5, KeptAsBefore
<1>9. LeftApart'
  <2>1. Outputs' = Outputs /\ \A d \in Commands : Left(d)' = Left(d)
    BY <1>5 DEF Left, Outputs
  <2>2. cmd'[c].left = <<>> /\ cmd'[c].phase # "discarding"
    BY <1>2, <1>3, <1>5
  <2> QED BY <1>0, <1>5, <2>1, <2>2 DEF LeftApart
<1>10. \A t \in Threads : gates[t].cmd # c /\ gates[t].by # c
  BY <1>0, GateAssumption DEF OwnerInv, Owned, HasGate
<1>11. \A t \in Threads : Owned(t)'
  BY <1>0, <1>5, <1>10, OwnedByOthers
<1>12. AnsweredInv'
  <2>1. c \in answered' => cmd'[c].phase \in {"draining", "done"}
    BY <1>2, <1>3, <1>5
  <2>2. answered' \subseteq answered \cup {c} /\ AnsweredInv
    BY <1>0 DEF OwnerInv
  <2>3. \A d \in Commands \ {c} : cmd'[d] = cmd[d]
    BY <1>5
  <2> QED BY <1>0, <2>1, <2>2, <2>3, AnsweredGoOn
<1>13. OneGateEach'
  BY <1>0 DEF OwnerInv, OneGateEach, HasGate
<1> QED BY <1>6, <1>7, <1>8, <1>9, <1>11, <1>12, <1>13 DEF Core, OwnerInv

LEMMA HandsOverKeeps ==
  ASSUME IInv, NEW c \in Commands, cmd[c].phase = "discarding", cmd[c].left # <<>>,
         cmd' = [cmd EXCEPT ![c].left = Tail(@)],
         Sent(Head(cmd[c].left)), Projected(Head(cmd[c].left)),
         UNCHANGED <<wire, epoch, lanes, busy, next, admitted, gates, closed,
                     answered, live, dropped, failed, strays, sealed, spent>>
  PROVE  Core'
<1> DEFINE Progress == [phase : {"new", "attaching", "reading", "discarding", "responding",
                                 "failed", "draining", "done"},
                        left : Seq(Sequence), then : {"none", "new", "responding", "done"}]
           s == Head(cmd[c].left)
           now == [cmd[c] EXCEPT !.left = Tail(cmd[c].left)]
<1>0. TypeOK /\ LanesInv /\ AdmissionInv /\ KeptSorted /\ KeptFresh
      /\ LeftApart /\ KeptIsLater /\ ShownInv /\ OwnerInv
  BY DEF IInv, Core
<1>1. cmd \in [Commands -> Progress]
  BY <1>0 DEF TypeOK
<1>2. /\ s \in Sequence /\ Tail(cmd[c].left) \in Seq(Sequence)
      /\ Left(c) = {s} \cup Range(Tail(cmd[c].left))
      /\ Increasing(Tail(cmd[c].left)) /\ Before(s, Range(Tail(cmd[c].left)))
  <2>1. cmd[c].left \in Seq(Sequence) /\ Sequence \subseteq Nat /\ Increasing(cmd[c].left)
    BY <1>0, PlacesTyped DEF LeftApart
  <2> QED BY <2>1, HeadAndTail DEF Left
<1>3. now \in Progress /\ now.phase = "discarding" /\ now.left = Tail(cmd[c].left)
      /\ now.then = cmd[c].then
  BY <1>1, <1>2
<1>4. cmd' = [cmd EXCEPT ![c] = now]
  BY <1>1
<1> HIDE DEF now
<1>5. /\ cmd'[c] = now /\ \A d \in Commands \ {c} : cmd'[d] = cmd[d]
      /\ cmd' \in [Commands -> Progress]
  <2> HIDE DEF Progress
  <2> QED BY <1>1, <1>3, <1>4
<1>6. s \in strays /\ s \notin Outputs /\ s <= admitted
  BY <1>0, <1>2 DEF LeftApart, AdmissionInv
<1>7. /\ output' \in Seq([seq : Sequence, epoch : Nat])
      /\ Outputs' = Outputs \cup {s}
      /\ \A i, j \in DOMAIN output' : output'[i].seq = output'[j].seq => i = j
      /\ InWireOrder'
  BY <1>2, <1>6, ShowKeeps
<1>8. /\ tries' \in [Sequence -> Nat] /\ ProjectedOnce'
      /\ \A x \in Sequence \ {s} : tries'[x] = tries[x]
  BY <1>2, <1>6, ProjectKeeps
<1>9. TypeOK'
  BY <1>0, <1>5, <1>7, <1>8 DEF TypeOK
<1>10. LanesInv' /\ AdmissionInv'
  <2>1. \A x \in strays' : x <= admitted
    BY <1>0 DEF AdmissionInv
  <2> DEFINE S == {s}
  <2>2. (\A x \in S : x \in Sequence /\ x <= admitted) /\ Outputs' \subseteq Outputs \cup S
        /\ \A x \in Sequence \ S : tries'[x] = tries[x]
    BY <1>2, <1>6, <1>7, <1>8
  <2> HIDE DEF S
  <2> QED BY <2>1, <2>2, LanesUndisturbed
<1>11. /\ \A t \in Threads : Kept(t)' = Kept(t) /\ Popped(t)' = Popped(t)
       /\ Left(c)' = Range(Tail(cmd[c].left))
       /\ \A d \in Commands \ {c} : Left(d)' = Left(d)
  BY <1>3, <1>5 DEF Kept, Popped, Left
<1>12. KeptSorted'
  BY <1>0, <1>11 DEF KeptSorted
<1>13. KeptFresh'
  <2>1. \A t \in Threads : \A x \in Kept(t) : x \in Sequence /\ x # s
    <3>1. \A t \in Threads : \A x \in Kept(t) : x \in Sequence
      BY <1>0, PlacesTyped
    <3> QED BY <1>0, <1>6, <3>1 DEF KeptFresh
  <2> QED BY <1>0, <1>7, <1>8, <1>11, <2>1 DEF KeptFresh
<1>14. s \in Nat /\ \A x \in Range(Tail(cmd[c].left)) : x \in Left(c) /\ x # s
  <2>1. \A x \in Left(c) : x \in Nat
    BY <1>0, PlacesTyped
  <2> QED BY <1>2, <2>1 DEF Before
<1>15. LeftApart'
  <2>1. /\ \A x \in Range(Tail(cmd[c].left)) : x \in strays /\ x \notin Outputs'
                                         /\ \A d \in Commands \ {c} : x \notin Left(d)
        /\ \A d \in Commands \ {c} : \A x \in Left(d) :
             /\ x \in strays /\ x \notin Outputs' /\ x \notin Range(Tail(cmd[c].left))
             /\ \A e \in Commands \ {d} : x \notin Left(e)
    BY <1>0, <1>2, <1>7, <1>14 DEF LeftApart
  <2>2. /\ Increasing(cmd'[c].left) /\ cmd'[c].phase = "discarding"
        /\ cmd'[c].then # "none"
        /\ \A x \in Left(c)' : x \in strays /\ x \notin Outputs'
                               /\ \A d \in Commands \ {c} : x \notin Left(d)'
    BY <1>0, <1>2, <1>3, <1>5, <1>11, <2>1 DEF LeftApart
  <2>3. ASSUME NEW d \in Commands \ {c}
        PROVE  /\ Increasing(cmd'[d].left)
               /\ cmd'[d].phase = "discarding" => cmd'[d].then # "none"
               /\ cmd'[d].left # <<>> => cmd'[d].phase = "discarding"
               /\ \A x \in Left(d)' : x \in strays /\ x \notin Outputs'
                                      /\ \A e \in Commands \ {d} : x \notin Left(e)'
    <3>1. /\ Increasing(cmd[d].left)
          /\ cmd[d].phase = "discarding" => cmd[d].then # "none"
          /\ cmd[d].left # <<>> => cmd[d].phase = "discarding"
      BY <1>0 DEF LeftApart
    <3>2. \A x \in Left(d)' : x \in strays /\ x \notin Outputs'
      BY <1>11, <2>1
    <3>3. \A x \in Left(d)' : \A e \in Commands \ {d} : x \notin Left(e)'
      BY <1>11, <2>1
    <3> QED BY <1>5, <3>1, <3>2, <3>3
  <2> QED BY <2>2, <2>3 DEF LeftApart
<1>16. KeptIsLater'
  <2> SUFFICES ASSUME NEW t \in Threads, NEW x \in Kept(t)
               PROVE  /\ \A a \in Outputs \cup {s} : wire[a].thread = t => a < x
                      /\ \A d \in Commands : \A a \in Left(d)' : wire[a].thread = t => a < x
    BY <1>7, <1>11 DEF KeptIsLater
  <2>1. \A d \in Commands : Left(d)' \subseteq Left(d)
    BY <1>2, <1>11
  <2>2. s \in Left(c)
    BY <1>2
  <2> QED BY <1>0, <2>1, <2>2 DEF KeptIsLater
<1>17. ShownInv'
  <2>1. s <= Len(wire) /\ s \in Nat /\ Len(wire) \in Nat
    <3>1. s \in Nat /\ Len(wire) \in Nat
      BY <1>0, <1>2, PlacesTyped
    <3>2. admitted \in Nat /\ admitted <= Len(wire)
      BY <1>0 DEF AdmissionInv, TypeOK
    <3> QED BY <1>6, <3>1, <3>2
  <2>2. \A x \in Sequence : x > Len(wire) => x # s
    BY <2>1
  <2> QED BY <1>0, <1>7, <1>8, <2>2 DEF ShownInv
<1>18. OwnerInv'
  <2>1. \A t \in Threads : gates[t].cmd # c /\ gates[t].by # c
    BY <1>0, GateAssumption DEF OwnerInv, Owned, HasGate
  <2>2. \A t \in Threads : Owned(t)'
    BY <1>0, <1>5, <2>1, OwnedByOthers
  <2>3. AnsweredInv'
    <3>1. c \in answered' => cmd'[c].phase = "discarding" /\ cmd'[c].then = "done"
      BY <1>0, <1>3, <1>5 DEF OwnerInv, AnsweredInv
    <3>2. answered' \subseteq answered \cup {c} /\ AnsweredInv
      BY <1>0 DEF OwnerInv
    <3>3. \A d \in Commands \ {c} : cmd'[d] = cmd[d]
      BY <1>5
    <3> QED BY <1>0, <3>1, <3>2, <3>3, AnsweredGoOn
  <2>4. OneGateEach'
    BY <1>0 DEF OwnerInv, OneGateEach, HasGate
  <2> QED BY <2>2, <2>3, <2>4 DEF OwnerInv
<1> QED BY <1>9, <1>10, <1>12, <1>13, <1>15, <1>16, <1>17, <1>18 DEF Core

LEMMA DiscardStepKeeps ==
  ASSUME IInv, NEW c \in Commands, DiscardStep(c)
  PROVE  Core'
<1>1. CASE cmd[c].left = <<>>
  BY <1>1, DiscardEndsKeeps DEF DiscardStep
<1>2. CASE cmd[c].left # <<>>
  BY <1>2, HandsOverKeeps DEF DiscardStep
<1> QED BY <1>1, <1>2

LEMMA LeftShrinks ==
  ASSUME IInv, NEW c \in Commands, cmd[c].phase = "discarding", cmd[c].left # <<>>,
         cmd' = [cmd EXCEPT ![c] = [cmd[c] EXCEPT !.left = Tail(cmd[c].left)]],
         tries' \in [Sequence -> Nat], spent' \in [Disturbances -> Nat],
         failed' \in SUBSET Sequence,
         UNCHANGED <<wire, epoch, lanes, busy, next, admitted, gates, closed, output,
                     answered, live, dropped, strays, sealed>>
  PROVE  TypeOK' /\ LeftApart' /\ KeptIsLater' /\ OwnerInv'
<1> DEFINE Progress == [phase : {"new", "attaching", "reading", "discarding", "responding",
                                 "failed", "draining", "done"},
                        left : Seq(Sequence), then : {"none", "new", "responding", "done"}]
           now == [cmd[c] EXCEPT !.left = Tail(cmd[c].left)]
<1>0. TypeOK /\ LeftApart /\ KeptIsLater /\ OwnerInv
  BY DEF IInv, Core
<1>1. cmd \in [Commands -> Progress]
  BY <1>0 DEF TypeOK
<1>2. /\ Tail(cmd[c].left) \in Seq(Sequence) /\ Increasing(Tail(cmd[c].left))
      /\ Range(Tail(cmd[c].left)) \subseteq Left(c)
  <2>1. cmd[c].left \in Seq(Sequence) /\ Sequence \subseteq Nat /\ Increasing(cmd[c].left)
    BY <1>0, PlacesTyped DEF LeftApart
  <2> QED BY <2>1, HeadAndTail DEF Left
<1>3. now \in Progress /\ now.phase = "discarding" /\ now.left = Tail(cmd[c].left)
      /\ now.then = cmd[c].then
  BY <1>1, <1>2
<1> HIDE DEF now
<1>4. /\ cmd'[c] = now /\ \A d \in Commands \ {c} : cmd'[d] = cmd[d]
      /\ cmd' \in [Commands -> Progress]
  <2>1. cmd' = [cmd EXCEPT ![c] = now]
    BY DEF now
  <2> HIDE DEF Progress
  <2> QED BY <1>1, <1>3, <2>1
<1>5. TypeOK'
  BY <1>0, <1>4 DEF TypeOK
<1>6. /\ \A t \in Threads : Kept(t)' = Kept(t)
      /\ Outputs' = Outputs
      /\ \A d \in Commands : Left(d)' \subseteq Left(d)
  BY <1>2, <1>3, <1>4 DEF Kept, Popped, Outputs, Left
<1>7. LeftApart'
  <2>1. ASSUME NEW d \in Commands
        PROVE  /\ Increasing(cmd'[d].left)
               /\ cmd'[d].phase = "discarding" => cmd'[d].then # "none"
               /\ cmd'[d].left # <<>> => cmd'[d].phase = "discarding"
    BY <1>0, <1>2, <1>3, <1>4 DEF LeftApart
  <2>2. \A d \in Commands : \A x \in Left(d)' :
          x \in strays /\ x \notin Outputs /\ \A e \in Commands \ {d} : x \notin Left(e)'
    BY <1>0, <1>6 DEF LeftApart
  <2> QED BY <1>6, <2>1, <2>2 DEF LeftApart
<1>8. KeptIsLater'
  BY <1>0, <1>6 DEF KeptIsLater
<1>9. OwnerInv'
  <2>1. \A t \in Threads : gates[t].cmd # c /\ gates[t].by # c
    BY <1>0, GateAssumption DEF OwnerInv, Owned, HasGate
  <2>2. \A t \in Threads : Owned(t)'
    BY <1>0, <1>4, <2>1, OwnedByOthers
  <2>3. AnsweredInv'
    <3>1. c \in answered' => cmd'[c].phase = "discarding" /\ cmd'[c].then = "done"
      BY <1>0, <1>3, <1>4 DEF OwnerInv, AnsweredInv
    <3>2. answered' \subseteq answered \cup {c} /\ AnsweredInv
      BY <1>0 DEF OwnerInv
    <3>3. \A d \in Commands \ {c} : cmd'[d] = cmd[d]
      BY <1>4
    <3> QED BY <1>0, <3>1, <3>2, <3>3, AnsweredGoOn
  <2>4. OneGateEach'
    BY <1>0 DEF OwnerInv, OneGateEach, HasGate
  <2> QED BY <2>2, <2>3, <2>4 DEF OwnerInv
<1> QED BY <1>5, <1>7, <1>8, <1>9

(* The head of what is handed over cannot be sent and is given up.         *)
LEMMA DiscardFailsKeeps ==
  ASSUME IInv, NEW c \in Commands, DiscardFails(c)
  PROVE  Core'
<1> DEFINE s == Head(cmd[c].left)
<1>0. TypeOK /\ LanesInv /\ AdmissionInv /\ KeptSorted /\ KeptFresh
      /\ LeftApart /\ KeptIsLater /\ ShownInv /\ OwnerInv
  BY DEF IInv, Core
<1>1. /\ cmd[c].phase = "discarding" /\ cmd[c].left # <<>>
      /\ cmd' = [cmd EXCEPT ![c].left = Tail(@)]
      /\ failed' = failed \cup {s} /\ Projected(s)
      /\ UNCHANGED <<wire, epoch, lanes, busy, next, admitted, gates, closed, output,
                     answered, live, dropped, strays, sealed>>
  BY DEF DiscardFails
<1>2. /\ s \in Sequence /\ Tail(cmd[c].left) \in Seq(Sequence)
      /\ Left(c) = {s} \cup Range(Tail(cmd[c].left))
      /\ Increasing(Tail(cmd[c].left))
  <2>1. cmd[c].left \in Seq(Sequence) /\ Sequence \subseteq Nat /\ Increasing(cmd[c].left)
    BY <1>0, PlacesTyped DEF LeftApart
  <2> QED BY <1>1, <2>1, HeadAndTail DEF Left
<1>3. spent' \in [Disturbances -> Nat]
  <2>1. Spend("sink") \/ UNCHANGED spent
    BY DEF DiscardFails
  <2>2. CASE Spend("sink")
    BY <1>0, <2>2, SpendTyped DEF Disturbances
  <2>3. CASE UNCHANGED spent
    BY <1>0, <2>3 DEF TypeOK
  <2> QED BY <2>1, <2>2, <2>3
<1>4. s \in strays /\ s <= admitted
  BY <1>0, <1>2 DEF LeftApart, AdmissionInv
<1>5. /\ tries' \in [Sequence -> Nat] /\ ProjectedOnce'
      /\ \A x \in Sequence \ {s} : tries'[x] = tries[x]
  BY <1>1, <1>2, <1>4, ProjectKeeps
<1>6. Increasing(Tail(cmd[c].left)) /\ Tail(cmd[c].left) \in Seq(Sequence)
      /\ Range(Tail(cmd[c].left)) \subseteq Left(c)
  BY <1>2
<1>7. TypeOK' /\ LeftApart' /\ KeptIsLater' /\ OwnerInv'
  <2>1. cmd[c].phase # "new"
    BY <1>1
  <2>2. cmd' = [cmd EXCEPT ![c] = [cmd[c] EXCEPT !.left = Tail(cmd[c].left)]]
    BY <1>0, <1>1 DEF TypeOK
  <2>3. failed' \in SUBSET Sequence
    BY <1>0, <1>1, <1>2 DEF TypeOK
  <2> QED BY <1>1, <1>3, <1>5, <1>6, <2>2, <2>3, LeftShrinks
<1>8. LanesInv' /\ AdmissionInv'
  <2>1. (\A x \in strays' : x <= admitted) /\ Outputs' = Outputs
    BY <1>0, <1>1 DEF AdmissionInv, Outputs
  <2> DEFINE S == {s}
  <2>2. (\A x \in S : x \in Sequence /\ x <= admitted) /\ Outputs' \subseteq Outputs \cup S
        /\ \A x \in Sequence \ S : tries'[x] = tries[x]
    BY <1>2, <1>4, <1>5, <2>1
  <2> HIDE DEF S
  <2> QED BY <1>1, <2>1, <2>2, LanesUndisturbed
<1>9. /\ \A t \in Threads : Kept(t)' = Kept(t) /\ Popped(t)' = Popped(t)
      /\ Outputs' = Outputs
  BY <1>1 DEF Kept, Popped, Outputs
<1>10. KeptSorted'
  BY <1>0, <1>1, <1>9 DEF KeptSorted
<1>11. KeptFresh'
  <2>1. \A t \in Threads : \A x \in Kept(t) : x \in Sequence /\ x # s
    <3>1. \A t \in Threads : \A x \in Kept(t) : x \in Sequence
      BY <1>0, PlacesTyped
    <3> QED BY <1>0, <1>4, <3>1 DEF KeptFresh
  <2> QED BY <1>0, <1>1, <1>5, <1>9, <2>1 DEF KeptFresh
<1>12. ShownInv'
  <2>1. \A x \in Sequence : x > Len(wire) => x # s
    <3>1. admitted \in Nat /\ admitted <= Len(wire) /\ Len(wire) \in Nat /\ s \in Nat
      BY <1>0, <1>2, PlacesTyped DEF AdmissionInv, TypeOK
    <3> QED BY <1>4, <3>1
  <2>2. InWireOrder'
    BY <1>0, <1>1 DEF ShownInv, InWireOrder, Overtaken
  <2> QED BY <1>0, <1>1, <1>5, <2>1, <2>2 DEF ShownInv
<1> QED BY <1>7, <1>8, <1>10, <1>11, <1>12 DEF Core

LEMMA DiscardCancelledKeeps ==
  ASSUME IInv, NEW c \in Commands, DiscardCancelled(c)
  PROVE  Core'
<1> DEFINE p == IF cmd[c].then = "done" THEN "done" ELSE "new"
           now == [cmd[c] EXCEPT !.left = <<>>, !.phase = p]
<1>0. TypeOK /\ LanesInv /\ AdmissionInv /\ KeptSorted /\ KeptFresh
      /\ LeftApart /\ KeptIsLater /\ ShownInv /\ OwnerInv
  BY DEF IInv, Core
<1>1. /\ cmd[c].phase = "discarding" /\ failed' = failed \cup Left(c)
      /\ UNCHANGED <<wire, epoch, lanes, busy, next, admitted, gates, closed, output,
                     tries, answered, live, dropped, strays, sealed>>
  BY DEF DiscardCancelled, Left
<1>2. cmd' = [cmd EXCEPT ![c] = now]
  BY <1>0 DEF DiscardCancelled, TypeOK
<1>3. spent' \in [Disturbances -> Nat] /\ failed' \in SUBSET Sequence
  <2>1. Spend("cancel") /\ "cancel" \in Disturbances
    BY DEF DiscardCancelled, Disturbances
  <2> QED BY <1>0, <1>1, <2>1, SpendTyped, PlacesTyped DEF TypeOK
<1> DEFINE Progress == [phase : {"new", "attaching", "reading", "discarding", "responding",
                                 "failed", "draining", "done"},
                        left : Seq(Sequence), then : {"none", "new", "responding", "done"}]
<1>4. now \in Progress /\ now.left = <<>> /\ now.then = cmd[c].then
      /\ now.phase = p /\ p \in {"done", "new"} /\ (c \in answered => p = "done")
  <2>1. c \in answered => cmd[c].then = "done"
    BY <1>0, <1>1 DEF OwnerInv, AnsweredInv
  <2>2. cmd[c] \in Progress
    BY <1>0 DEF TypeOK
  <2>3. p \in {"done", "new"} /\ (c \in answered => p = "done")
    BY <2>1
  <2>4. now = [cmd[c] EXCEPT !.left = <<>>, !.phase = p]
    OBVIOUS
  <2>5. /\ p \in {"new", "attaching", "reading", "discarding", "responding",
                  "failed", "draining", "done"}
        /\ <<>> \in Seq(Sequence)
    BY <2>3
  <2> HIDE DEF now, p
  <2>6. /\ now \in Progress /\ now.left = <<>> /\ now.then = cmd[c].then
        /\ now.phase = p
    BY <2>2, <2>4, <2>5
  <2> QED BY <2>3, <2>6
<1> HIDE DEF now, p
<1>5. cmd' \in [Commands -> Progress] /\ cmd'[c] = now
      /\ \A d \in Commands \ {c} : cmd'[d] = cmd[d]
  BY <1>0, <1>2, <1>4 DEF TypeOK
<1>6. TypeOK'
  BY <1>0, <1>1, <1>3, <1>5 DEF TypeOK
<1>7. LanesInv' /\ AdmissionInv' /\ ShownInv'
  BY <1>1, LanesUntouched
<1>8. /\ \A t \in Threads : Kept(t)' = Kept(t) /\ Popped(t)' = Popped(t)
      /\ Outputs' = Outputs
      /\ Left(c)' = {} /\ \A d \in Commands \ {c} : Left(d)' = Left(d)
  <2>1. Range(<<>>) = {}
    BY DEF Range
  <2> QED BY <1>1, <1>4, <1>5, <2>1 DEF Kept, Popped, Outputs, Left
<1>9. KeptSorted' /\ KeptFresh'
  BY <1>0, <1>1, <1>8 DEF KeptSorted, KeptFresh
<1>10. LeftApart'
  <2>1. /\ Increasing(cmd'[c].left) /\ cmd'[c].left = <<>>
        /\ cmd'[c].phase # "discarding"
    BY <1>4, <1>5 DEF Increasing
  <2>2. ASSUME NEW d \in Commands \ {c}
        PROVE  /\ Increasing(cmd'[d].left)
               /\ cmd'[d].phase = "discarding" => cmd'[d].then # "none"
               /\ cmd'[d].left # <<>> => cmd'[d].phase = "discarding"
               /\ \A x \in Left(d)' : x \in strays' /\ x \notin Outputs'
                                      /\ \A e \in Commands \ {d} : x \notin Left(e)'
    <3>1. /\ Increasing(cmd[d].left)
          /\ cmd[d].phase = "discarding" => cmd[d].then # "none"
          /\ cmd[d].left # <<>> => cmd[d].phase = "discarding"
          /\ \A x \in Left(d) : x \in strays /\ x \notin Outputs
                                /\ \A e \in Commands \ {d} : x \notin Left(e)
      BY <1>0 DEF LeftApart
    <3>2. cmd'[d] = cmd[d] /\ Left(d)' = Left(d)
      BY <1>5, <1>8
    <3>3. \A e \in Commands : Left(e)' \subseteq Left(e)
      BY <1>8
    <3> QED BY <1>1, <1>8, <3>1, <3>2, <3>3
  <2> QED BY <1>8, <2>1, <2>2 DEF LeftApart
<1>11. KeptIsLater'
  BY <1>0, <1>1, <1>8 DEF KeptIsLater
<1>12. OwnerInv'
  <2>1. \A t \in Threads : gates[t].cmd # c /\ gates[t].by # c
    BY <1>0, <1>1, GateAssumption DEF OwnerInv, Owned, HasGate
  <2>2. \A t \in Threads : Owned(t)'
    BY <1>0, <1>1, <1>5, <2>1, OwnedByOthers
  <2>3. AnsweredInv'
    <3>1. c \in answered' => cmd'[c].phase \in {"draining", "done"}
      BY <1>1, <1>4, <1>5
    <3>2. answered' \subseteq answered \cup {c} /\ AnsweredInv
      BY <1>0, <1>1 DEF OwnerInv
    <3>3. \A d \in Commands \ {c} : cmd'[d] = cmd[d]
      BY <1>5
    <3> QED BY <1>0, <3>1, <3>2, <3>3, AnsweredGoOn
  <2>4. OneGateEach'
    BY <1>0, <1>1 DEF OwnerInv, OneGateEach, HasGate
  <2> QED BY <2>2, <2>3, <2>4 DEF OwnerInv
<1> QED BY <1>6, <1>7, <1>9, <1>10, <1>11, <1>12 DEF Core


-----------------------------------------------------------------------------
(* The drain. *)

LEMMA DrainTakesKeeps ==
  ASSUME IInv, NEW who \in Commands \cup {"retry"}, NEW th \in Threads, DrainTakes(who, th)
  PROVE  Core'
<1> DEFINE g == gates[th]
           h == Head(g.buffer)
           now == [g EXCEPT !.hand = h, !.buffer = Tail(g.buffer), !.by = who]
<1>0. TypeOK /\ LanesInv /\ AdmissionInv /\ KeptSorted /\ KeptFresh
      /\ LeftApart /\ KeptIsLater /\ ShownInv /\ OwnerInv
  BY DEF IInv, Core
<1>1. /\ Drains(who, th) /\ g.hand = 0 /\ g.buffer # <<>>
      /\ UNCHANGED <<wire, epoch, lanes, busy, next, admitted, cmd, closed, output, tries,
                     answered, live, dropped, failed, strays, sealed, spent>>
  BY DEF DrainTakes
<1>2. gates \in [Threads -> Gate]
  BY <1>0 DEF TypeOK
<1>3. /\ h \in Sequence /\ Tail(g.buffer) \in Seq(Sequence) /\ Tail(g.buffer) \in Seq(Nat)
      /\ Range(g.buffer) = {h} \cup Range(Tail(g.buffer))
      /\ Len(Tail(g.buffer)) = Len(g.buffer) - 1 /\ Len(g.buffer) \in Nat
      /\ Increasing(Tail(g.buffer)) /\ Before(h, Range(Tail(g.buffer)))
  <2>1. /\ g.buffer \in Seq(Sequence) /\ Sequence \subseteq Nat /\ Increasing(g.buffer)
    BY <1>0, PlacesTyped DEF KeptSorted
  <2> QED BY <1>1, <2>1, HeadAndTail, LenProperties, SeqMonotonic
<1>4. /\ now \in Gate /\ now.hand = h /\ now.buffer = Tail(g.buffer) /\ now.by = who
      /\ now.cmd = g.cmd /\ now.retry = g.retry /\ now.ready = g.ready
      /\ now.release = g.release /\ now.delivered = g.delivered
  BY <1>2, <1>3 DEF Gate
<1>5. gates' = [gates EXCEPT ![th] = now]
  BY <1>2 DEF DrainTakes
<1> HIDE DEF now
<1>6. /\ gates' \in [Threads -> Gate] /\ gates'[th] = now
      /\ \A t \in Threads \ {th} : gates'[t] = gates[t]
  BY <1>2, <1>4, <1>5
<1>7. h # 0
  BY <1>0, <1>3, PlacesTyped
<1>8. /\ Popped(th) = {} /\ Popped(th)' = {h}
      /\ \A t \in Threads \ {th} : Popped(t)' = Popped(t)
  BY <1>1, <1>4, <1>6, <1>7 DEF Popped
<1>9. /\ \A t \in Threads : Kept(t)' = Kept(t) /\ gates'[t].ready = gates[t].ready
      /\ \A c \in Commands : Left(c)' = Left(c)
      /\ Outputs' = Outputs
  <2>1. Kept(th)' = Kept(th)
    BY <1>3, <1>4, <1>6, <1>8 DEF Kept
  <2> QED BY <1>1, <1>4, <1>6, <1>8, <2>1 DEF Kept, Left, Outputs
<1>10. TypeOK'
  BY <1>0, <1>1, <1>6 DEF TypeOK
<1>11. LanesInv' /\ AdmissionInv' /\ ShownInv'
  BY <1>1, LanesUntouched
<1>12. KeptSorted'
  <2>1. Len(Tail(g.buffer)) <= Limit /\ Len(Tail(g.buffer)) <= Limit + 1
    BY <1>0, <1>3, GateAssumption DEF KeptSorted
  <2> SUFFICES ASSUME NEW t \in Threads
               PROVE  /\ Increasing(gates'[t].buffer)
                      /\ \A x \in Popped(t)' : Before(x, Range(gates'[t].buffer))
                      /\ Len(gates'[t].buffer) <= Limit + 1
                      /\ gates'[t].hand # 0 => Len(gates'[t].buffer) <= Limit
    BY DEF KeptSorted
  <2>2. CASE t = th
    BY <1>3, <1>4, <1>6, <1>8, <2>1, <2>2
  <2>3. CASE t # th
    BY <1>0, <1>6, <1>8, <2>3 DEF KeptSorted
  <2> QED BY <2>2, <2>3
<1>13. KeptFresh'
  BY <1>0, <1>1, <1>9 DEF KeptFresh
<1>14. LeftApart'
  BY <1>0, <1>1, <1>9 DEF LeftApart
<1>15. KeptIsLater'
  BY <1>0, <1>1, <1>9 DEF KeptIsLater
<1>16. OwnerInv'
  <2>1. \A t \in Threads : HasGate(t)' <=> HasGate(t)
    BY <1>4, <1>6 DEF HasGate
  <2>2. Owned(th)'
    <3>1. Owned(th) /\ HasGate(th) /\ HasGate(th)' /\ g.delivered
      BY <1>0, <1>1, <2>1 DEF OwnerInv, Owned, Drains
    <3>2. who # None /\ "retry" \notin Commands
      BY GateAssumption
    <3>3. who \in Commands => cmd[who].phase = "draining" /\ RouteOf[who] = RouteOf[g.cmd]
      BY <1>1, <3>2 DEF Drains, GateOfRoute
    <3>4. who = "retry" => g.retry
      BY <1>1 DEF Drains
    <3> QED BY <1>1, <1>4, <1>6, <1>7, <3>1, <3>2, <3>3, <3>4 DEF Owned
  <2>3. \A t \in Threads \ {th} : Owned(t)'
    BY <1>0, <1>1, <1>6, <2>1 DEF OwnerInv, Owned
  <2>4. OneGateEach' /\ AnsweredInv'
    BY <1>0, <1>1, <1>4, <1>6, <2>1 DEF OwnerInv, OneGateEach, AnsweredInv
  <2> QED BY <2>2, <2>3, <2>4 DEF OwnerInv
<1> QED BY <1>10, <1>11, <1>12, <1>13, <1>14, <1>15, <1>16 DEF Core

LEMMA DrainFinishesKeeps ==
  ASSUME IInv, NEW who \in Commands \cup {"retry"}, NEW th \in Threads,
         DrainFinishes(who, th)
  PROVE  Core'
<1>0. TypeOK /\ LanesInv /\ AdmissionInv /\ KeptSorted /\ KeptFresh
      /\ LeftApart /\ KeptIsLater /\ ShownInv /\ OwnerInv
  BY DEF IInv, Core
<1>1. /\ gates' = [gates EXCEPT ![th] = NoGate]
      /\ UNCHANGED <<wire, epoch, lanes, busy, next, admitted, cmd, closed, output, tries,
                     answered, live, dropped, failed, strays, sealed, spent>>
  BY DEF DrainFinishes
<1>2. /\ gates' \in [Threads -> Gate] /\ gates'[th] = NoGate
      /\ \A t \in Threads \ {th} : /\ gates'[t] = gates[t]
                                   /\ Kept(t)' = Kept(t) /\ Popped(t)' = Popped(t)
      /\ Kept(th)' = {} /\ Popped(th)' = {} /\ Owned(th)' /\ OneGateEach'
      /\ NoGate.buffer = <<>> /\ NoGate.hand = 0
  BY <1>0, <1>1, GateRemoved DEF OwnerInv
<1>3. TypeOK'
  BY <1>0, <1>1, <1>2 DEF TypeOK
<1>4. LanesInv' /\ AdmissionInv' /\ ShownInv'
  BY <1>1, LanesUntouched
<1>5. Outputs' = Outputs /\ \A c \in Commands : Left(c)' = Left(c)
  BY <1>1 DEF Outputs, Left
<1>6. KeptSorted'
  <2>1. Increasing(<<>>) /\ Len(<<>>) <= Limit + 1
    BY GateAssumption DEF Increasing
  <2> QED BY <1>0, <1>2, <2>1 DEF KeptSorted
<1>7. KeptFresh'
  BY <1>0, <1>1, <1>2, <1>5 DEF KeptFresh
<1>8. LeftApart'
  BY <1>0, <1>1, <1>5 DEF LeftApart
<1>9. KeptIsLater'
  BY <1>0, <1>1, <1>2, <1>5 DEF KeptIsLater
<1>10. OwnerInv'
  <2>1. \A t \in Threads \ {th} : Owned(t)'
    BY <1>0, <1>1, <1>2 DEF OwnerInv, Owned, HasGate
  <2> QED BY <1>0, <1>1, <1>2, <2>1 DEF OwnerInv, AnsweredInv
<1> QED BY <1>3, <1>4, <1>6, <1>7, <1>8, <1>9, <1>10 DEF Core

(* A popped message is projected unless its projection was captured.       *)
LEMMA ReadyKeeps ==
  ASSUME IInv, NEW th \in Threads, gates[th].hand # 0, ProjectedUnlessReady(gates[th])
  PROVE  /\ gates[th].hand \in Kept(th) /\ gates[th].hand \in Sequence
         /\ tries' \in [Sequence -> Nat]
         /\ \A x \in Sequence \ {gates[th].hand} : tries'[x] = tries[x]
         /\ tries'[gates[th].hand] \in {0, 1}
<1> DEFINE h == gates[th].hand
<1>1. TypeOK /\ KeptFresh /\ tries \in [Sequence -> Nat]
  BY DEF IInv, Core, TypeOK
<1>2. h \in Kept(th) /\ h \in Sequence
  BY <1>1, PlacesTyped DEF Kept, Popped
<1>3. tries[h] = 0 \/ (tries[h] = 1 /\ h \in gates[th].ready)
  BY <1>1, <1>2 DEF KeptFresh
<1>4. CASE h \in gates[th].ready
  BY <1>1, <1>2, <1>3, <1>4 DEF ProjectedUnlessReady
<1>5. CASE h \notin gates[th].ready
  <2>1. tries' = [tries EXCEPT ![h] = tries[h] + 1] /\ tries[h] = 0
    BY <1>3, <1>5 DEF ProjectedUnlessReady, Projected
  <2> QED BY <1>1, <1>2, <2>1
<1> QED BY <1>2, <1>4, <1>5

LEMMA DrainSendsKeeps ==
  ASSUME IInv, NEW th \in Threads, DrainSends(th)
  PROVE  Core'
<1> DEFINE g == gates[th]
           h == g.hand
           open == g.open \/ Len(g.buffer) < Limit
           now == [g EXCEPT !.hand = 0, !.by = None, !.open = open]
<1>0. TypeOK /\ LanesInv /\ AdmissionInv /\ KeptSorted /\ KeptFresh
      /\ LeftApart /\ KeptIsLater /\ ShownInv /\ OwnerInv
  BY DEF IInv, Core
<1>1. /\ h # 0 /\ Sent(h) /\ ProjectedUnlessReady(g)
      /\ UNCHANGED <<wire, epoch, lanes, busy, next, admitted, cmd, closed, answered,
                     live, dropped, failed, strays, sealed, spent>>
  BY DEF DrainSends
<1>2. gates \in [Threads -> Gate] /\ open \in BOOLEAN
  BY <1>0 DEF TypeOK
<1>3. /\ gates' = [gates EXCEPT ![th] = now]
  BY <1>2 DEF DrainSends
<1> HIDE DEF open
<1>4. /\ now \in Gate /\ now.hand = 0 /\ now.buffer = g.buffer /\ now.by = None
      /\ now.cmd = g.cmd /\ now.retry = g.retry /\ now.ready = g.ready
      /\ now.release = g.release /\ now.delivered = g.delivered
  BY <1>2 DEF Gate
<1> HIDE DEF now
<1>5. /\ gates' \in [Threads -> Gate] /\ gates'[th] = now
      /\ \A t \in Threads \ {th} : gates'[t] = gates[t]
  BY <1>2, <1>3, <1>4
<1>6. /\ h \in Kept(th) /\ h \in Sequence /\ tries' \in [Sequence -> Nat]
      /\ \A x \in Sequence \ {h} : tries'[x] = tries[x]
      /\ tries'[h] \in {0, 1}
  BY <1>1, ReadyKeeps
<1>7. /\ h <= admitted /\ wire[h].thread = th /\ h \notin Outputs /\ h \notin strays
      /\ \A a \in Outputs : wire[a].thread = th => a < h
      /\ \A x \in Range(g.buffer) : h < x
  BY <1>0, <1>1, <1>6 DEF KeptFresh, KeptIsLater, KeptSorted, Popped, Before
<1>8. /\ output' \in Seq([seq : Sequence, epoch : Nat])
      /\ Outputs' = Outputs \cup {h}
      /\ \A i, j \in DOMAIN output' : output'[i].seq = output'[j].seq => i = j
      /\ InWireOrder'
  <2>1. \A a \in Outputs : wire[a].thread = wire[h].thread => a < h
    BY <1>7
  <2> QED BY <1>1, <1>6, <1>7, <2>1, ShowKeeps
<1>9. TypeOK'
  BY <1>0, <1>1, <1>5, <1>6, <1>8 DEF TypeOK
<1>10. LanesInv' /\ AdmissionInv'
  <2>1. \A x \in strays' : x <= admitted
    BY <1>0, <1>1 DEF AdmissionInv
  <2> DEFINE S == {h}
  <2>2. (\A x \in S : x \in Sequence /\ x <= admitted) /\ Outputs' \subseteq Outputs \cup S
        /\ \A x \in Sequence \ S : tries'[x] = tries[x]
    BY <1>6, <1>7, <1>8
  <2> HIDE DEF S
  <2> QED BY <1>1, <2>1, <2>2, LanesUndisturbed
<1>11. /\ Popped(th)' = {} /\ Kept(th)' \subseteq Range(g.buffer)
       /\ Kept(th)' \subseteq Kept(th)
       /\ \A t \in Threads \ {th} : Popped(t)' = Popped(t)
  BY <1>4, <1>5 DEF Kept, Popped
<1>12. /\ \A t \in Threads \ {th} : Kept(t)' = Kept(t)
       /\ \A c \in Commands : Left(c)' = Left(c)
  BY <1>1, <1>5, <1>11 DEF Kept, Left
<1>13. KeptSorted'
  BY <1>0, <1>4, <1>5, <1>11 DEF KeptSorted
<1>14. \A t \in Threads : \A x \in Kept(t)' : x \in Kept(t) /\ x \in Sequence /\ x # h
  <2> SUFFICES ASSUME NEW t \in Threads, NEW x \in Kept(t)'
               PROVE  x \in Kept(t) /\ x \in Sequence /\ x # h
    OBVIOUS
  <2>1. x \in Kept(t)
    BY <1>11, <1>12
  <2>2. x \in Sequence /\ x \in Nat
    BY <1>0, <2>1, PlacesTyped
  <2>3. CASE t = th
    BY <1>7, <1>11, <2>1, <2>2, <2>3
  <2>4. CASE t # th
    BY <1>0, <1>7, <2>1, <2>2, <2>4 DEF KeptFresh
  <2> QED BY <2>3, <2>4
<1>15. KeptFresh'
  <2>1. \A t \in Threads : gates'[t].ready = gates[t].ready
    BY <1>4, <1>5
  <2> QED BY <1>0, <1>1, <1>6, <1>8, <1>14, <2>1 DEF KeptFresh
<1>16. LeftApart'
  <2>1. \A c \in Commands : h \notin Left(c)
    BY <1>0, <1>7 DEF LeftApart
  <2> QED BY <1>0, <1>1, <1>8, <1>12, <2>1 DEF LeftApart
<1>17. KeptIsLater'
  <2>1. \A t \in Threads : \A x \in Kept(t)' : wire[h].thread = t => h < x
    BY <1>7, <1>11
  <2> QED BY <1>0, <1>1, <1>8, <1>12, <1>14, <2>1 DEF KeptIsLater
<1>18. ShownInv'
  <2>1. \A x \in Sequence : x > Len(wire) => x # h
    <3>1. h \in Nat /\ Len(wire) \in Nat
      BY <1>0, <1>6, PlacesTyped
    <3>2. admitted \in Nat /\ admitted <= Len(wire)
      BY <1>0 DEF AdmissionInv, TypeOK
    <3> QED BY <1>7, <3>1, <3>2
  <2>2. ProjectedOnce'
    <3>1. tries'[h] <= 1
      BY <1>6
    <3> QED BY <1>0, <1>1, <1>6, <3>1 DEF ShownInv, ProjectedOnce
  <2> QED BY <1>0, <1>1, <1>6, <1>8, <2>1, <2>2 DEF ShownInv
<1>19. OwnerInv'
  <2>1. \A t \in Threads : HasGate(t)' <=> HasGate(t)
    BY <1>4, <1>5 DEF HasGate
  <2>2. Owned(th)'
    BY <1>0, <1>1, <1>4, <1>5, <2>1, GateAssumption DEF OwnerInv, Owned
  <2>3. \A t \in Threads \ {th} : Owned(t)'
    BY <1>0, <1>1, <1>5, <2>1 DEF OwnerInv, Owned
  <2>4. OneGateEach' /\ AnsweredInv'
    BY <1>0, <1>1, <1>4, <1>5, <2>1 DEF OwnerInv, OneGateEach, AnsweredInv
  <2> QED BY <2>2, <2>3, <2>4 DEF OwnerInv
<1> QED BY <1>9, <1>10, <1>13, <1>15, <1>16, <1>17, <1>18, <1>19 DEF Core

(* A request that is rejected leaves its gate as one that is sent does.    *)
LEMMA DrainRejectsKeeps ==
  ASSUME IInv, NEW th \in Threads, DrainRejects(th)
  PROVE  Core'
<1> DEFINE g == gates[th]
           h == g.hand
           open == g.open \/ Len(g.buffer) < Limit
           now == [g EXCEPT !.hand = 0, !.by = None, !.open = open]
<1>0. TypeOK /\ LanesInv /\ AdmissionInv /\ KeptSorted /\ KeptFresh
      /\ LeftApart /\ KeptIsLater /\ ShownInv /\ OwnerInv
  BY DEF IInv, Core
<1>1. /\ h # 0 /\ ProjectedUnlessReady(g) /\ failed' = failed \cup {h}
      /\ UNCHANGED <<wire, epoch, lanes, busy, next, admitted, cmd, closed, output,
                     answered, live, dropped, strays, sealed>>
  BY DEF DrainRejects
<1>2. gates \in [Threads -> Gate] /\ open \in BOOLEAN
  BY <1>0 DEF TypeOK
<1>3. /\ gates' = [gates EXCEPT ![th] = now]
  BY <1>2 DEF DrainRejects
<1> HIDE DEF open
<1>4. /\ now \in Gate /\ now.hand = 0 /\ now.buffer = g.buffer /\ now.by = None
      /\ now.cmd = g.cmd /\ now.retry = g.retry /\ now.ready = g.ready
      /\ now.release = g.release /\ now.delivered = g.delivered
  BY <1>2 DEF Gate
<1> HIDE DEF now
<1>5. /\ gates' \in [Threads -> Gate] /\ gates'[th] = now
      /\ \A t \in Threads \ {th} : gates'[t] = gates[t]
  BY <1>2, <1>3, <1>4
<1>6. /\ h \in Kept(th) /\ h \in Sequence /\ tries' \in [Sequence -> Nat]
      /\ \A x \in Sequence \ {h} : tries'[x] = tries[x]
      /\ tries'[h] \in {0, 1}
  BY <1>1, ReadyKeeps
<1>7. h <= admitted /\ wire[h].thread = th /\ \A x \in Range(g.buffer) : h < x
  BY <1>0, <1>1, <1>6 DEF KeptFresh, KeptSorted, Popped, Before
<1>8. spent' \in [Disturbances -> Nat] /\ failed' \in SUBSET Sequence /\ Outputs' = Outputs
  <2>1. Spend("sink") /\ "sink" \in Disturbances
    BY DEF DrainRejects, Disturbances
  <2> QED BY <1>0, <1>1, <1>6, <2>1, SpendTyped DEF TypeOK, Outputs
<1>9. TypeOK'
  BY <1>0, <1>1, <1>5, <1>6, <1>8 DEF TypeOK
<1>10. LanesInv' /\ AdmissionInv'
  <2>1. \A x \in strays' : x <= admitted
    BY <1>0, <1>1 DEF AdmissionInv
  <2> DEFINE S == {h}
  <2>2. (\A x \in S : x \in Sequence /\ x <= admitted) /\ Outputs' \subseteq Outputs \cup S
        /\ \A x \in Sequence \ S : tries'[x] = tries[x]
    BY <1>6, <1>7, <1>8
  <2> HIDE DEF S
  <2> QED BY <1>1, <2>1, <2>2, LanesUndisturbed
<1>11. /\ Popped(th)' = {} /\ Kept(th)' \subseteq Range(g.buffer)
       /\ Kept(th)' \subseteq Kept(th)
       /\ \A t \in Threads \ {th} : Popped(t)' = Popped(t)
  BY <1>4, <1>5 DEF Kept, Popped
<1>12. /\ \A t \in Threads \ {th} : Kept(t)' = Kept(t)
       /\ \A c \in Commands : Left(c)' = Left(c)
  BY <1>1, <1>5, <1>11 DEF Kept, Left
<1>13. KeptSorted'
  BY <1>0, <1>4, <1>5, <1>11 DEF KeptSorted
<1>14. \A t \in Threads : \A x \in Kept(t)' : x \in Kept(t) /\ x \in Sequence /\ x # h
  <2> SUFFICES ASSUME NEW t \in Threads, NEW x \in Kept(t)'
               PROVE  x \in Kept(t) /\ x \in Sequence /\ x # h
    OBVIOUS
  <2>1. x \in Kept(t)
    BY <1>11, <1>12
  <2>2. x \in Sequence /\ x \in Nat
    BY <1>0, <2>1, PlacesTyped
  <2>3. CASE t = th
    BY <1>7, <1>11, <2>1, <2>2, <2>3
  <2>4. CASE t # th
    BY <1>0, <1>7, <2>1, <2>2, <2>4 DEF KeptFresh
  <2> QED BY <2>3, <2>4
<1>15. KeptFresh'
  <2>1. \A t \in Threads : gates'[t].ready = gates[t].ready
    BY <1>4, <1>5
  <2> QED BY <1>0, <1>1, <1>6, <1>8, <1>14, <2>1 DEF KeptFresh
<1>16. LeftApart'
  BY <1>0, <1>1, <1>8, <1>12 DEF LeftApart
<1>17. KeptIsLater'
  BY <1>0, <1>1, <1>8, <1>12, <1>14 DEF KeptIsLater
<1>18. ShownInv'
  <2>1. \A x \in Sequence : x > Len(wire) => x # h
    <3>1. h \in Nat /\ Len(wire) \in Nat
      BY <1>0, <1>6, PlacesTyped
    <3>2. admitted \in Nat /\ admitted <= Len(wire)
      BY <1>0 DEF AdmissionInv, TypeOK
    <3> QED BY <1>7, <3>1, <3>2
  <2>2. ProjectedOnce'
    <3>1. tries'[h] <= 1
      BY <1>6
    <3> QED BY <1>0, <1>1, <1>6, <3>1 DEF ShownInv, ProjectedOnce
  <2>3. InWireOrder'
    BY <1>0, <1>1 DEF ShownInv, InWireOrder, Overtaken
  <2> QED BY <1>0, <1>1, <1>6, <1>8, <2>1, <2>2, <2>3 DEF ShownInv
<1>19. OwnerInv'
  <2>1. \A t \in Threads : HasGate(t)' <=> HasGate(t)
    BY <1>4, <1>5 DEF HasGate
  <2>2. Owned(th)'
    BY <1>0, <1>1, <1>4, <1>5, <2>1, GateAssumption DEF OwnerInv, Owned
  <2>3. \A t \in Threads \ {th} : Owned(t)'
    BY <1>0, <1>1, <1>5, <2>1 DEF OwnerInv, Owned
  <2>4. OneGateEach' /\ AnsweredInv'
    BY <1>0, <1>1, <1>4, <1>5, <2>1 DEF OwnerInv, OneGateEach, AnsweredInv
  <2> QED BY <2>2, <2>3, <2>4 DEF OwnerInv
<1> QED BY <1>9, <1>10, <1>13, <1>15, <1>16, <1>17, <1>18, <1>19 DEF Core

(* Who drains a gate drains no other: a conversation has one.              *)
LEMMA OneDrainEach ==
  ASSUME IInv, NEW c \in Commands, NEW th \in GateOfRoute(RouteOf[c]),
         NEW t \in Threads \ {th}
  PROVE  gates[t].by # c /\ gates[t].cmd # c
<1>1. th \in Threads /\ HasGate(th) /\ RouteOf[gates[th].cmd] = RouteOf[c]
  BY DEF GateOfRoute
<1>2. HasGate(t) => RouteOf[gates[t].cmd] # RouteOf[c]
  BY <1>1 DEF IInv, Core, OwnerInv, OneGateEach
<1>3. gates[t].by # c
  BY <1>2 DEF IInv, Core, OwnerInv, Owned
<1>4. gates[t].cmd # c
  BY <1>2, GateAssumption DEF HasGate
<1> QED BY <1>3, <1>4

LEMMA DrainSendFailsKeeps ==
  ASSUME IInv, NEW th \in Threads, DrainSendFails(th)
  PROVE  Core'
<1> DEFINE g == gates[th]
           h == g.hand
           now == [g EXCEPT !.hand = 0, !.by = None, !.buffer = <<h>> \o g.buffer,
                            !.open = FALSE, !.ready = g.ready \cup {h}, !.retry = TRUE]
<1>0. TypeOK /\ LanesInv /\ AdmissionInv /\ KeptSorted /\ KeptFresh
      /\ LeftApart /\ KeptIsLater /\ ShownInv /\ OwnerInv
  BY DEF IInv, Core
<1>1. /\ h # 0 /\ Raises(g)
      /\ IF g.by = "retry" THEN UNCHANGED cmd ELSE Phase(g.by, "done")
      /\ UNCHANGED <<wire, epoch, lanes, busy, next, admitted, closed, output,
                     answered, live, dropped, failed, strays, sealed>>
  BY DEF DrainSendFails
<1>2. gates \in [Threads -> Gate]
  BY <1>0 DEF TypeOK
<1>3. gates' = [gates EXCEPT ![th] = now]
  BY <1>2 DEF DrainSendFails
<1>4. /\ h \in Kept(th) /\ h \in Sequence /\ tries' \in [Sequence -> Nat]
      /\ \A x \in Sequence \ {h} : tries'[x] = tries[x]
      /\ tries'[h] \in {0, 1}
  <2>1. CASE ProjectedUnlessReady(g)
    BY <1>1, <2>1, ReadyKeeps
  <2>2. CASE UNCHANGED tries
    <3>1. h \in Kept(th) /\ h \in Sequence
      BY <1>0, <1>1, PlacesTyped DEF Kept, Popped
    <3> QED BY <1>0, <2>2, <3>1 DEF TypeOK, KeptFresh
  <2> QED BY <1>1, <2>1, <2>2 DEF Raises
<1>5. spent' \in [Disturbances -> Nat]
  <2>1. "sink" \in Disturbances
    BY DEF Disturbances
  <2>2. Spend("sink") \/ UNCHANGED spent
    BY <1>1 DEF Raises
  <2>3. CASE Spend("sink")
    BY <1>0, <2>1, <2>3, SpendTyped
  <2>4. CASE UNCHANGED spent
    BY <1>0, <2>4 DEF TypeOK
  <2> QED BY <2>2, <2>3, <2>4
<1>6. /\ <<h>> \o g.buffer \in Seq(Sequence) /\ Increasing(<<h>> \o g.buffer)
      /\ Len(<<h>> \o g.buffer) = Len(g.buffer) + 1 /\ Len(g.buffer) \in Nat
      /\ Range(<<h>> \o g.buffer) = {h} \cup Range(g.buffer)
  <2>1. g.buffer \in Seq(Sequence) /\ Sequence \subseteq Nat
    BY <1>0, PlacesTyped
  <2>2. Increasing(g.buffer) /\ Before(h, Range(g.buffer))
    BY <1>0, <1>1 DEF KeptSorted, Popped
  <2>3. Len(g.buffer) \in Nat
    BY <2>1, LenProperties
  <2>4. h \in Sequence
    BY <1>4
  <2> HIDE DEF h
  <2>5. /\ <<h>> \o g.buffer \in Seq(Sequence) /\ Increasing(<<h>> \o g.buffer)
        /\ Len(<<h>> \o g.buffer) = Len(g.buffer) + 1
        /\ Range(<<h>> \o g.buffer) = {h} \cup Range(g.buffer)
    BY <2>1, <2>2, <2>4, PutBack
  <2> QED BY <2>3, <2>5
<1>7. /\ now \in Gate /\ now.hand = 0 /\ now.buffer = <<h>> \o g.buffer
      /\ now.by = None /\ now.cmd = g.cmd /\ now.retry = TRUE
      /\ now.ready = g.ready \cup {h}
      /\ now.release = g.release /\ now.delivered = g.delivered
  <2> DEFINE back == <<h>> \o g.buffer
             ready == g.ready \cup {h}
  <2>1. back \in Seq(Sequence) /\ ready \in SUBSET Sequence
    BY <1>2, <1>4, <1>6 DEF Gate
  <2>2. now = [g EXCEPT !.hand = 0, !.by = None, !.buffer = back,
                        !.open = FALSE, !.ready = ready, !.retry = TRUE]
    OBVIOUS
  <2> HIDE DEF back, ready, now
  <2>3. /\ now \in Gate /\ now.hand = 0 /\ now.buffer = back
        /\ now.by = None /\ now.cmd = g.cmd /\ now.retry = TRUE /\ now.ready = ready
        /\ now.release = g.release /\ now.delivered = g.delivered
    BY <1>2, <2>1, <2>2 DEF Gate
  <2> QED BY <2>3 DEF back, ready
<1> HIDE DEF now
<1>8. /\ gates' \in [Threads -> Gate] /\ gates'[th] = now
      /\ \A t \in Threads \ {th} : gates'[t] = gates[t]
  BY <1>2, <1>3, <1>7
<1>9. /\ Popped(th)' = {} /\ Kept(th)' = Kept(th) /\ Outputs' = Outputs
      /\ \A t \in Threads \ {th} : Kept(t)' = Kept(t) /\ Popped(t)' = Popped(t)
  <2>1. Popped(th)' = {} /\ Popped(th) = {h}
    BY <1>1, <1>7, <1>8 DEF Popped
  <2>2. \A t \in Threads \ {th} : Popped(t)' = Popped(t)
    BY <1>8 DEF Popped
  <2>3. \A t \in Threads \ {th} : Kept(t)' = Kept(t)
    BY <1>8, <2>2 DEF Kept
  <2>4. Kept(th)' = Kept(th)
    BY <1>6, <1>7, <1>8, <2>1 DEF Kept
  <2> QED BY <1>1, <2>1, <2>2, <2>3, <2>4 DEF Outputs
<1>10. h <= admitted
  BY <1>0, <1>4 DEF KeptFresh
<1>11. /\ LeftApart'
       /\ \A c \in Commands : cmd'[c].left = cmd[c].left
       /\ \A c \in Commands : cmd'[c] = cmd[c] \/ (c = g.by /\ cmd'[c].phase = "done")
       /\ cmd' \in [Commands ->
            [phase : {"new", "attaching", "reading", "discarding", "responding",
                      "failed", "draining", "done"},
             left : Seq(Sequence), then : {"none", "new", "responding", "done"}]]
  <2>1. CASE g.by = "retry"
    <3>1. cmd' = cmd
      BY <1>1, <2>1
    <3>3. LeftApart'
      BY <1>0, <1>1, <1>9, <3>1 DEF LeftApart, Left
    <3> QED BY <1>0, <3>1, <3>3 DEF TypeOK
  <2>2. CASE g.by # "retry"
    <3>1. g.by \in Commands /\ Phase(g.by, "done") /\ cmd[g.by].phase = "draining"
      BY <1>0, <1>1, <1>2, <2>2 DEF OwnerInv, Owned, Gate
    <3>2. "done" \in Phases \ {"discarding"}
      BY DEF Phases
    <3> QED BY <1>0, <1>1, <3>1, <3>2, PhaseKeeps
  <2> QED BY <2>1, <2>2
<1>12. TypeOK'
  BY <1>0, <1>1, <1>4, <1>5, <1>8, <1>11 DEF TypeOK
<1>13. LanesInv' /\ AdmissionInv'
  <2>1. \A x \in strays' : x <= admitted
    BY <1>0, <1>1 DEF AdmissionInv
  <2> DEFINE S == {h}
  <2>2. (\A x \in S : x \in Sequence /\ x <= admitted) /\ Outputs' \subseteq Outputs \cup S
        /\ \A x \in Sequence \ S : tries'[x] = tries[x]
    BY <1>4, <1>9, <1>10
  <2> HIDE DEF S
  <2> QED BY <1>1, <2>1, <2>2, LanesUndisturbed
<1>14. KeptSorted'
  <2>1. Len(now.buffer) <= Limit + 1
    BY <1>0, <1>1, <1>6, <1>7, GateAssumption DEF KeptSorted
  <2> QED BY <1>0, <1>6, <1>7, <1>8, <1>9, <2>1 DEF KeptSorted
<1>15. KeptFresh'
  <2> SUFFICES ASSUME NEW t \in Threads, NEW x \in Kept(t)
               PROVE  /\ x <= admitted /\ wire[x].thread = t
                      /\ x \notin Outputs /\ x \notin strays
                      /\ tries'[x] = 0 \/ (tries'[x] = 1 /\ x \in gates'[t].ready)
    BY <1>1, <1>9 DEF KeptFresh
  <2>1. /\ x <= admitted /\ wire[x].thread = t /\ x \notin Outputs /\ x \notin strays
        /\ tries[x] = 0 \/ (tries[x] = 1 /\ x \in gates[t].ready)
    BY <1>0 DEF KeptFresh
  <2>2. CASE x = h
    <3>1. t = th
      BY <1>0, <1>4, <2>1, <2>2 DEF KeptFresh
    <3> QED BY <1>4, <1>7, <1>8, <2>1, <2>2, <3>1
  <2>3. CASE x # h
    <3>1. x \in Sequence
      BY <1>0, PlacesTyped
    <3>2. gates[t].ready \subseteq gates'[t].ready
      BY <1>7, <1>8
    <3> QED BY <1>4, <2>1, <2>3, <3>1, <3>2
  <2> QED BY <2>2, <2>3
<1>16. KeptIsLater'
  <2>1. \A c \in Commands : Left(c)' = Left(c)
    BY <1>11 DEF Left
  <2> QED BY <1>0, <1>1, <1>9, <2>1 DEF KeptIsLater
<1>17. ShownInv'
  <2>1. \A x \in Sequence : x > Len(wire) => x # h
    <3>1. h \in Nat /\ Len(wire) \in Nat
      BY <1>0, <1>4, PlacesTyped
    <3>2. admitted \in Nat /\ admitted <= Len(wire)
      BY <1>0 DEF AdmissionInv, TypeOK
    <3> QED BY <1>10, <3>1, <3>2
  <2>2. ProjectedOnce'
    <3>1. tries'[h] <= 1
      BY <1>4
    <3> QED BY <1>0, <1>1, <1>4, <3>1 DEF ShownInv, ProjectedOnce
  <2>3. InWireOrder'
    BY <1>0, <1>1 DEF ShownInv, InWireOrder, Overtaken
  <2> QED BY <1>0, <1>1, <1>4, <2>1, <2>2, <2>3 DEF ShownInv
<1>18. OwnerInv'
  <2>1. \A t \in Threads : HasGate(t)' <=> HasGate(t)
    BY <1>7, <1>8 DEF HasGate
  <2>2. \A c \in Commands : cmd'[c] = cmd[c] \/ (cmd[c].phase = "draining"
                                                 /\ cmd'[c].phase = "done")
    BY <1>0, <1>11 DEF OwnerInv, Owned
  <2>3. Owned(th)'
    <3>1. Owned(th) /\ (HasGate(th) => g.cmd \in Commands)
      BY <1>0, <1>2 DEF OwnerInv, HasGate, Gate
    <3>2. HasGate(th) /\ None \notin Commands /\ None # "retry"
      BY <1>1, <3>1, GateAssumption DEF Owned
    <3>3. /\ cmd'[g.cmd].phase \notin {"new", "discarding"}
          /\ cmd'[g.cmd].phase # "attaching" => g.release = sealed[g.cmd]
      BY <2>2, <3>1, <3>2 DEF Owned
    <3> QED BY <1>1, <1>7, <1>8, <2>1, <3>1, <3>2, <3>3 DEF Owned
  <2>4. \A t \in Threads \ {th} : Owned(t)'
    <3> SUFFICES ASSUME NEW t \in Threads \ {th} PROVE Owned(t)'
      OBVIOUS
    <3>1. Owned(t) /\ (HasGate(t) => gates[t].cmd \in Commands)
      BY <1>0, <1>2 DEF OwnerInv, HasGate, Gate
    <3>2. gates[t].by \in Commands => cmd'[gates[t].by] = cmd[gates[t].by]
      <4>1. CASE g.by \in Commands
        <5>1. th \in GateOfRoute(RouteOf[g.by])
          BY <1>0, <4>1 DEF OwnerInv, Owned, GateOfRoute
        <5> QED BY <1>11, <4>1, <5>1, OneDrainEach
      <4> QED BY <1>11, <4>1
    <3> QED BY <1>1, <1>8, <2>1, <2>2, <3>1, <3>2 DEF Owned
  <2>5. OneGateEach'
    BY <1>0, <1>7, <1>8, <2>1 DEF OwnerInv, OneGateEach
  <2>6. AnsweredInv'
    BY <1>0, <1>1, <1>11, <2>2 DEF OwnerInv, AnsweredInv, TypeOK
  <2> QED BY <2>3, <2>4, <2>5, <2>6 DEF OwnerInv
<1> QED BY <1>11, <1>12, <1>13, <1>14, <1>15, <1>16, <1>17, <1>18 DEF Core

LEMMA DrainCancelledKeeps ==
  ASSUME IInv, NEW c \in Commands, DrainCancelled(c)
  PROVE  Core'
<1>0. TypeOK /\ KeptSorted /\ OwnerInv /\ cmd[c].phase = "draining" /\ Spend("cancel")
      /\ UNCHANGED <<wire, epoch, lanes, busy, next, admitted, closed, output,
                     answered, live, dropped, sealed>>
  BY DEF IInv, Core, DrainCancelled
<1>1. PICK th \in GateOfRoute(RouteOf[c]) :
        IF gates[th].by = c
          THEN Discard(c, th, Held(gates[th]), "done") /\ ProjectedUnlessReady(gates[th])
          ELSE Discard(c, th, gates[th].buffer, "done") /\ UNCHANGED tries
  BY DEF DrainCancelled
<1> DEFINE g == gates[th]
<1>2. spent' \in [Disturbances -> Nat]
  <2>1. "cancel" \in Disturbances
    BY DEF Disturbances
  <2> QED BY <1>0, <2>1, SpendTyped
<1>3. th \in Threads /\ \A t \in Threads \ {th} : gates[t].cmd # c /\ gates[t].by # c
  BY OneDrainEach DEF GateOfRoute
<1>4. /\ g.buffer \in Seq(Sequence) /\ Increasing(g.buffer) /\ Range(g.buffer) \subseteq Kept(th)
      /\ Sequence \subseteq Nat
  BY <1>0, <1>3, PlacesTyped DEF KeptSorted, Kept
<1>5. "done" \in {"new", "responding", "done"}
  OBVIOUS
<1>6. CASE g.by = c
  <2> DEFINE h == g.hand
             b == <<h>> \o g.buffer
  <2>1. h # 0 /\ None # c
    BY <1>0, <1>3, <1>6, GateAssumption DEF OwnerInv, Owned
  <2>2. Discard(c, th, b, "done") /\ ProjectedUnlessReady(g)
    BY <1>1, <1>6, <2>1 DEF Held
  <2>3. /\ h \in Kept(th) /\ h \in Sequence /\ tries' \in [Sequence -> Nat]
        /\ \A x \in Sequence \ {h} : tries'[x] = tries[x]
    BY <1>3, <2>1, <2>2, ReadyKeeps
  <2>4. Before(h, Range(g.buffer))
    BY <1>0, <1>3, <2>1 DEF KeptSorted, Popped
  <2>5. b \in Seq(Sequence) /\ Range(b) = {h} \cup Range(g.buffer) /\ Increasing(b)
    <3>1. h \in Sequence
      BY <2>3
    <3> HIDE DEF h
    <3> QED BY <1>4, <2>4, <3>1, PutBack
  <2> HIDE DEF b
  <2>6. Range(b) \subseteq Kept(th) /\ \A x \in Sequence \ Range(b) : tries'[x] = tries[x]
    BY <1>4, <2>3, <2>5
  <2>7. tries' \in [Sequence -> Nat]
    BY <2>3
  <2> QED BY <1>0, <1>2, <1>3, <1>5, <2>2, <2>5, <2>6, <2>7, DiscardKeeps
<1>7. CASE g.by # c
  <2>1. Discard(c, th, g.buffer, "done") /\ UNCHANGED tries /\ tries' \in [Sequence -> Nat]
    BY <1>0, <1>1, <1>7 DEF TypeOK
  <2> QED BY <1>0, <1>2, <1>3, <1>4, <1>5, <2>1, DiscardKeeps
<1> QED BY <1>6, <1>7

LEMMA CloseKeeps ==
  ASSUME IInv, Close
  PROVE  Core'
<1>0. TypeOK /\ LanesInv /\ AdmissionInv /\ KeptSorted /\ KeptFresh
      /\ LeftApart /\ KeptIsLater /\ ShownInv /\ OwnerInv
  BY DEF IInv, Core
<1>1. /\ AdmissionFree /\ Spend("close") /\ closed' = TRUE
      /\ dropped' = dropped \cup UNION {Range(Held(gates[th])) : th \in Threads}
      /\ gates' = [th \in Threads |-> NoGate]
      /\ UNCHANGED <<wire, epoch, lanes, busy, next, admitted, cmd, output, tries,
                     answered, live, failed, strays, sealed>>
  BY DEF Close
<1>2. /\ NoGate \in Gate /\ NoGate.buffer = <<>> /\ NoGate.hand = 0
      /\ NoGate.cmd = None /\ NoGate.by = None /\ ~NoGate.retry /\ ~NoGate.delivered
  BY DEF NoGate, Gate
<1>3. \A t \in Threads : Range(Held(gates[t])) \subseteq Sequence
  <2> SUFFICES ASSUME NEW t \in Threads PROVE Range(Held(gates[t])) \subseteq Sequence
    OBVIOUS
  <2>1. /\ gates[t].buffer \in Seq(Sequence) /\ gates[t].hand \in Sequence \cup {0}
        /\ Range(gates[t].buffer) \subseteq Sequence
    BY <1>0, PlacesTyped DEF TypeOK, Gate
  <2>2. CASE gates[t].hand = 0
    <3>1. Held(gates[t]) = <<>> \o gates[t].buffer
      BY <2>2 DEF Held
    <3>2. <<>> \o gates[t].buffer = gates[t].buffer
      BY <2>1, ConcatEmptySeq
    <3> QED BY <2>1, <3>1, <3>2
  <2>3. CASE gates[t].hand # 0
    <3> DEFINE h == gates[t].hand
    <3>1. Held(gates[t]) = <<h>> \o gates[t].buffer /\ h \in Sequence
      BY <2>1, <2>3 DEF Held
    <3>2. Sequence \subseteq Nat
      BY <1>0, PlacesTyped
    <3> HIDE DEF h
    <3>3. Range(<<h>> \o gates[t].buffer) = {h} \cup Range(gates[t].buffer)
      BY <2>1, <3>1, <3>2, PutBack
    <3> QED BY <2>1, <3>1, <3>3
  <2> QED BY <2>2, <2>3
<1>4. TypeOK'
  <2>1. "close" \in Disturbances
    BY DEF Disturbances
  <2>2. spent' \in [Disturbances -> Nat]
    BY <1>0, <1>1, <2>1, SpendTyped
  <2>3. dropped' \in SUBSET Sequence
    BY <1>0, <1>1, <1>3 DEF TypeOK
  <2>4. gates' \in [Threads -> Gate]
    BY <1>1, <1>2
  <2> QED BY <1>0, <1>1, <2>2, <2>3, <2>4 DEF TypeOK
<1>5. /\ Outputs' = Outputs
      /\ \A k \in Kinds : Offered(k)' = Offered(k)
      /\ \A c \in Commands : Left(c)' = Left(c)
  BY <1>1 DEF Outputs, Offered, Left
<1>6. \A t \in Threads : gates'[t] = NoGate /\ Kept(t)' = {} /\ Popped(t)' = {}
  <2>1. Range(<<>>) = {}
    BY DEF Range
  <2> QED BY <1>1, <1>2, <2>1 DEF Kept, Popped
<1>7. LanesInv'
  BY <1>0, <1>1, <1>5 DEF LanesInv
<1>8. AdmissionInv'
  BY <1>0, <1>1, <1>5 DEF AdmissionInv, AdmissionFree
<1>9. KeptSorted' /\ KeptFresh' /\ KeptIsLater'
  <2>1. Increasing(<<>>) /\ Len(<<>>) <= Limit + 1
    BY GateAssumption DEF Increasing
  <2>2. KeptSorted'
    BY <1>2, <1>6, <2>1 DEF KeptSorted
  <2> QED BY <1>6, <2>2 DEF KeptFresh, KeptIsLater
<1>10. LeftApart'
  BY <1>0, <1>1, <1>5 DEF LeftApart
<1>11. ShownInv'
  BY <1>0, <1>1, ShownAsBefore
<1>12. OwnerInv'
  <2>1. \A t \in Threads : ~HasGate(t)' /\ gates'[t] = NoGate
    BY <1>2, <1>6 DEF HasGate
  <2>2. \A t \in Threads : Owned(t)'
    BY <1>2, <2>1, GateAssumption DEF Owned
  <2>3. OneGateEach'
    BY <2>1 DEF OneGateEach
  <2>4. AnsweredInv'
    BY <1>0, <1>1 DEF OwnerInv, AnsweredInv
  <2> QED BY <2>2, <2>3, <2>4 DEF OwnerInv
<1> QED BY <1>4, <1>7, <1>8, <1>9, <1>10, <1>11, <1>12 DEF Core

-----------------------------------------------------------------------------
(* The inductive invariant. *)

LEMMA InitHolds == Init => IInv
<1> SUFFICES ASSUME Init PROVE IInv
  OBVIOUS
<1>1. /\ NoGate \in Gate /\ NoGate.buffer = <<>> /\ NoGate.hand = 0
      /\ NoGate.cmd = None /\ NoGate.by = None /\ ~NoGate.retry /\ ~NoGate.delivered
  BY DEF NoGate, Gate
<1>2. \A t \in Threads : gates[t] = NoGate /\ ~HasGate(t)
  BY <1>1 DEF Init, HasGate
<1>3. /\ Range(<<>>) = {} /\ Increasing(<<>>) /\ Len(<<>>) = 0
  BY DEF Range, Increasing
<1>4. /\ Fresh.phase = "new" /\ Fresh.left = <<>> /\ Fresh.then = "none"
      /\ \A c \in Commands : cmd[c] = Fresh
  BY DEF Fresh, Init
<1>5. Outputs = {}
  BY DEF Outputs, Init
<1>6. \A k \in Kinds : Offered(k) = {} /\ lanes[k] = <<>> /\ busy[k].step = "idle"
  BY DEF Offered, Init, Idle
<1>7. \A t \in Threads : Kept(t) = {} /\ Popped(t) = {}
  BY <1>1, <1>2, <1>3 DEF Kept, Popped
<1>8. \A c \in Commands : Left(c) = {}
  BY <1>3, <1>4 DEF Left
<1>9. TypeOK
  <2>1. gates \in [Threads -> Gate]
    BY <1>1 DEF Init
  <2>2. cmd \in [Commands ->
          [phase : {"new", "attaching", "reading", "discarding", "responding",
                    "failed", "draining", "done"},
           left : Seq(Sequence), then : {"none", "new", "responding", "done"}]]
    BY DEF Init, Fresh
  <2>3. busy \in [Kinds -> [step : {"idle", "admission", "capacity", "live"},
                            seq : Sequence \cup {0}, cmd : Commands \cup {None}]]
    BY DEF Init, Idle
  <2>4. lanes \in [Kinds -> Seq(Sequence)] /\ output \in Seq([seq : Sequence, epoch : Nat])
    BY DEF Init
  <2>5. wire \in Seq(Message) /\ Len(wire) <= MaxWire
    BY <1>3, GateAssumption DEF Init
  <2> QED BY <2>1, <2>2, <2>3, <2>4, <2>5 DEF Init, TypeOK
<1>10. LanesInv
  BY <1>3, <1>6 DEF LanesInv
<1>11. AdmissionInv
  BY <1>3, <1>5, <1>6 DEF AdmissionInv, Init
<1>12. KeptSorted /\ KeptFresh /\ KeptIsLater
  BY <1>1, <1>2, <1>3, <1>7, GateAssumption DEF KeptSorted, KeptFresh, KeptIsLater
<1>13. LeftApart
  BY <1>3, <1>4, <1>8 DEF LeftApart
<1>14. ShownInv
  BY DEF ShownInv, InWireOrder, ProjectedOnce, Init
<1>15. OwnerInv
  <2>1. \A t \in Threads : Owned(t)
    BY <1>1, <1>2, GateAssumption DEF Owned
  <2>2. OneGateEach
    BY <1>2 DEF OneGateEach
  <2>3. AnsweredInv
    BY <1>4 DEF AnsweredInv, Init
  <2> QED BY <2>1, <2>2, <2>3 DEF OwnerInv
<1>16. LiveInv /\ FailedInv
  BY <1>6 DEF LiveInv, FailedInv, Init
<1> QED BY <1>9, <1>10, <1>11, <1>12, <1>13, <1>14, <1>15, <1>16 DEF IInv, Core

LEMMA CoreKept == IInv /\ [Next]_vars => Core'
<1> SUFFICES ASSUME IInv, [Next]_vars PROVE Core'
  OBVIOUS
<1>1. CASE Receive
  BY <1>1, ReceiveKeeps
<1>2. CASE Reset
  BY <1>2, ResetKeeps
<1>3. CASE Close
  BY <1>3, CloseKeeps
<1>4. CASE SendEnds
  BY <1>4, DrainSendsKeeps, DrainRejectsKeeps, DrainSendFailsKeeps DEF SendEnds
<1>5. ASSUME NEW k \in Kinds, Lane(k) PROVE Core'
  BY <1>5, DispatchKeeps, AdmitKeeps, WakesKeeps, LiveEndsKeeps, LiveFailsKeeps DEF Lane
<1>6. ASSUME NEW c \in Commands, Answer(c) PROVE Core'
  <2>1. CASE Attached(c)
    <3>1. PICK p \in {"reading", "responding"} : Phase(c, p)
      BY <2>1 DEF Attached
    <3> QED BY <2>1, <3>1, SealedKeeps DEF Attached
  <2>2. CASE HistoryRead(c)
    BY <2>2, SealedKeeps DEF HistoryRead
  <2> QED BY <1>6, <2>1, <2>2, DisturbedCommandKeeps, DiscardStepKeeps, DiscardFailsKeeps,
             RespondsKeeps, ResponseFailsKeeps, DrainEndsKeeps DEF Answer
<1>7. ASSUME NEW c \in Commands,
             \/ Begin(c) \/ Redelivered(c)
             \/ CommandCancelled(c) \/ DiscardCancelled(c) \/ DrainCancelled(c)
      PROVE  Core'
  BY <1>7, BeginKeeps, RedeliveredKeeps, DisturbedCommandKeeps, DiscardCancelledKeeps,
     DrainCancelledKeeps
<1>8. ASSUME NEW who \in Commands \cup {"retry"}, Drain(who) PROVE Core'
  BY <1>8, DrainTakesKeeps, DrainFinishesKeeps DEF Drain
<1>9. CASE UNCHANGED vars
  <2>1. /\ \A t \in Threads : Kept(t)' = Kept(t) /\ Popped(t)' = Popped(t)
        /\ \A c \in Commands : Left(c)' = Left(c)
        /\ Outputs' = Outputs /\ \A k \in Kinds : Offered(k)' = Offered(k)
    BY <1>9 DEF vars, Kept, Popped, Left, Outputs, Offered
  <2>2. KeptSorted' /\ KeptFresh' /\ KeptIsLater' /\ LeftApart'
    BY <1>9, <2>1 DEF vars, IInv, Core, KeptSorted, KeptFresh, KeptIsLater, LeftApart
  <2>3. LanesInv' /\ AdmissionInv' /\ ShownInv'
    BY <1>9, LanesUntouched DEF vars
  <2>4. OwnerInv'
    BY <1>9, SameOwners DEF vars, IInv, Core
  <2>5. TypeOK'
    BY <1>9 DEF vars, IInv, Core, TypeOK
  <2> QED BY <2>2, <2>3, <2>4, <2>5 DEF Core
<1> QED BY <1>1, <1>2, <1>3, <1>4, <1>5, <1>6, <1>7, <1>8, <1>9 DEF Next

-----------------------------------------------------------------------------
(* What a lane presents, and what is given up. *)

Stored(s) == \/ \E t \in Threads : s \in Kept(t)
             \/ \E c \in Commands : s \in Left(c)

AnyKept == UNION {Kept(t) : t \in Threads}

(* A step at a gate or of a command: messages leave a gate to be shown, to *)
(* be handed over by a command, or for good.                               *)
Moves ==
  /\ UNCHANGED <<wire, lanes, busy, admitted, live>>
  /\ closed => closed'
  /\ \A t \in Threads : Kept(t)' \subseteq Kept(t)
  /\ Outputs \subseteq Outputs' /\ Outputs' \subseteq Outputs \cup AnyKept \cup strays
  /\ strays \subseteq strays' /\ strays' \subseteq strays \cup AnyKept
  /\ dropped \subseteq dropped' /\ failed \subseteq failed'
  /\ \A s \in failed' :
       \/ s \in failed \cup strays'
       \/ s \in AnyKept /\ wire[s].kind = "request"
  /\ \A s : Stored(s) => Stored(s)' \/ s \in Outputs' \cup dropped' \cup failed'

LEMMA PhaseChanges ==
  ASSUME TypeOK, NEW c \in Commands, NEW p, Phase(c, p)
  PROVE  /\ cmd'[c].phase = p /\ \A d \in Commands \ {c} : cmd'[d] = cmd[d]
         /\ \A d \in Commands : cmd'[d].left = cmd[d].left
<1> DEFINE Progress == [phase : {"new", "attaching", "reading", "discarding", "responding",
                                 "failed", "draining", "done"},
                        left : Seq(Sequence), then : {"none", "new", "responding", "done"}]
           now == [cmd[c] EXCEPT !.phase = p]
<1>1. cmd \in [Commands -> Progress] /\ cmd' = [cmd EXCEPT ![c] = now]
  BY DEF TypeOK, Phase
<1>2. now.phase = p /\ now.left = cmd[c].left
  BY <1>1
<1> HIDE DEF now
<1> QED BY <1>1, <1>2

LEMMA SentAppends ==
  ASSUME TypeOK, NEW s \in Sequence, Sent(s)
  PROVE  /\ \A i \in DOMAIN output' \ DOMAIN output : output'[i].seq = s
         /\ Outputs' = Outputs \cup {s}
<1> DEFINE last == Len(output) + 1
<1>1. /\ output \in Seq([seq : Sequence, epoch : Nat])
      /\ [seq |-> s, epoch |-> epoch] \in [seq : Sequence, epoch : Nat]
      /\ output' = Append(output, [seq |-> s, epoch |-> epoch])
  BY DEF TypeOK, Sent
<1>2. /\ \A i \in 1..Len(output) : output'[i] = output[i]
      /\ output'[last].seq = s
      /\ DOMAIN output' = 1..last /\ DOMAIN output = 1..Len(output) /\ Len(output) \in Nat
  BY <1>1, AppendProperties, LenProperties
<1> QED BY <1>2 DEF Outputs

(* Nothing leaves its place. *)
LEMMA SameMoves ==
  ASSUME \A t \in Threads : /\ gates'[t].buffer = gates[t].buffer
                            /\ gates'[t].hand = gates[t].hand,
         \A c \in Commands : cmd'[c].left = cmd[c].left,
         UNCHANGED <<wire, lanes, busy, admitted, live, closed, output, strays, dropped,
                     failed>>
  PROVE  Moves
<1>1. \A t \in Threads : Popped(t)' = Popped(t)
  BY DEF Popped
<1>2. /\ \A t \in Threads : Kept(t)' = Kept(t)
      /\ \A c \in Commands : Left(c)' = Left(c) /\ Outputs' = Outputs
  BY <1>1 DEF Kept, Left, Outputs
<1> QED BY <1>2 DEF Moves, Stored, Outputs

(* A gate hands on what it kept. *)
LEMMA GateMoves ==
  ASSUME NEW th \in Threads, \A t \in Threads \ {th} : gates'[t] = gates[t],
         \A c \in Commands : Left(c)' = Left(c),
         UNCHANGED <<wire, lanes, busy, admitted, live, closed, dropped, strays>>,
         Kept(th)' \subseteq Kept(th),
         Kept(th) \subseteq Kept(th)' \cup Outputs' \cup failed',
         Outputs \subseteq Outputs', Outputs' \subseteq Outputs \cup Kept(th),
         failed \subseteq failed',
         \A s \in failed' : s \in failed \/ (s \in Kept(th) /\ wire[s].kind = "request")
  PROVE  Moves
<1>1. \A t \in Threads \ {th} : Popped(t)' = Popped(t)
  BY DEF Popped
<1>2. \A t \in Threads \ {th} : Kept(t)' = Kept(t)
  BY <1>1 DEF Kept
<1>3. Kept(th) \subseteq AnyKept
  BY DEF AnyKept
<1>4. \A t \in Threads : Kept(t)' \subseteq Kept(t)
  BY <1>2
<1>5. \A s : Stored(s) => Stored(s)' \/ s \in Outputs' \cup dropped' \cup failed'
  BY <1>2 DEF Stored
<1> QED BY <1>3, <1>4, <1>5 DEF Moves

(* A command hands over what is left of a discarded gate. *)
LEMMA LeftMoves ==
  ASSUME LeftApart, NEW c \in Commands, \A d \in Commands \ {c} : cmd'[d] = cmd[d],
         UNCHANGED <<wire, lanes, busy, admitted, live, closed, dropped, strays, gates>>,
         Left(c) \subseteq Left(c)' \cup Outputs' \cup failed',
         Outputs \subseteq Outputs', Outputs' \subseteq Outputs \cup Left(c),
         failed \subseteq failed', failed' \subseteq failed \cup Left(c)
  PROVE  Moves
<1>1. \A t \in Threads : Popped(t)' = Popped(t)
  BY DEF Popped
<1>2. \A t \in Threads : Kept(t)' = Kept(t)
  BY <1>1 DEF Kept
<1>3. \A d \in Commands \ {c} : Left(d)' = Left(d)
  BY DEF Left
<1>4. Left(c) \subseteq strays
  BY DEF LeftApart
<1>5. \A s : Stored(s) => Stored(s)' \/ s \in Outputs' \cup dropped' \cup failed'
  BY <1>2, <1>3 DEF Stored
<1> QED BY <1>2, <1>4, <1>5 DEF Moves

LEMMA DiscardMoves ==
  ASSUME IInv, NEW c \in Commands, NEW th \in Threads, NEW b \in Seq(Sequence),
         NEW then, Discard(c, th, b, then), cmd[c].left = <<>>, Range(b) \subseteq Kept(th),
         UNCHANGED <<wire, lanes, busy, admitted, live, closed, output, dropped>>
  PROVE  Moves
<1>0. TypeOK
  BY DEF IInv, Core
<1> DEFINE now == [phase |-> "discarding", left |-> b, then |-> then]
<1>1. gates'[th] = NoGate /\ \A t \in Threads \ {th} : gates'[t] = gates[t]
  BY <1>0 DEF Discard, TypeOK
<1>2. cmd'[c] = now /\ \A d \in Commands \ {c} : cmd'[d] = cmd[d]
  BY <1>0 DEF Discard, TypeOK
<1>3. now.left = b
  OBVIOUS
<1> HIDE DEF now
<1>4. Left(c)' = Range(b) /\ \A d \in Commands \ {c} : Left(d)' = Left(d)
  BY <1>2, <1>3 DEF Left
<1>5. Left(c) = {}
  BY DEF Left, Range
<1>6. \A t \in Threads \ {th} : Popped(t)' = Popped(t)
  BY <1>1 DEF Popped
<1>7. \A t \in Threads \ {th} : Kept(t)' = Kept(t)
  BY <1>1, <1>6 DEF Kept
<1>8. Kept(th)' = {}
  <2>1. NoGate.buffer = <<>> /\ NoGate.hand = 0
    BY DEF NoGate
  <2> QED BY <1>1, <2>1 DEF Kept, Popped, Range
<1>9. Range(Held(gates[th])) = Kept(th)
  <2>1. gates[th] \in Gate
    BY <1>0 DEF TypeOK
  <2> QED BY <2>1, HeldIsKept DEF Kept, Popped
<1>10. strays' = strays \cup Kept(th) /\ failed' = failed \cup (Kept(th) \ Range(b))
  BY <1>9 DEF Discard
<1>11. Kept(th) \subseteq AnyKept /\ Outputs' = Outputs
  BY DEF AnyKept, Outputs
<1>12. \A s : Stored(s) => Stored(s)' \/ s \in failed'
  BY <1>4, <1>5, <1>7, <1>10 DEF Stored
<1>13. \A t \in Threads : Kept(t)' \subseteq Kept(t)
  BY <1>7, <1>8
<1> QED BY <1>10, <1>11, <1>12, <1>13 DEF Moves

LEMMA CommandMoves ==
  ASSUME IInv, NEW c \in Commands,
         \/ Begin(c) \/ Answer(c) \/ Redelivered(c) \/ CommandCancelled(c)
         \/ DiscardCancelled(c) \/ DrainCancelled(c)
  PROVE  Moves
<1>0. TypeOK /\ OwnerInv /\ LeftApart /\ gates \in [Threads -> Gate]
  BY DEF IInv, Core, TypeOK
<1>1. CASE Begin(c)
  <2>1. \A d \in Commands : cmd'[d].left = cmd[d].left
    BY <1>0, <1>1, PhaseChanges DEF Begin
  <2>2. UNCHANGED <<wire, lanes, busy, admitted, live, closed, output, strays, dropped,
                    failed>>
    BY <1>1 DEF Begin
  <2>3. CASE UNCHANGED gates
    BY <2>1, <2>2, <2>3, SameMoves
  <2>4. CASE gates' # gates
    <3> DEFINE th == Wants[c]
               new == [NoGate EXCEPT !.cmd = c]
    <3>1. /\ th \in Threads /\ ~HasGate(th) /\ gates' = [gates EXCEPT ![th] = new]
      BY <1>1, <2>4, GateAssumption DEF Begin
    <3>2. new.buffer = <<>> /\ new.hand = 0
      <4>1. NoGate.buffer = <<>> /\ NoGate.hand = 0 /\ NoGate \in Gate
        BY DEF NoGate, Gate
      <4> QED BY <4>1 DEF Gate
    <3> HIDE DEF new
    <3>3. gates[th].buffer = <<>> /\ gates[th].hand = 0
      BY <1>0, <3>1 DEF OwnerInv, Owned
    <3>4. \A t \in Threads : gates'[t].buffer = gates[t].buffer
                             /\ gates'[t].hand = gates[t].hand
      BY <1>0, <3>1, <3>2, <3>3
    <3> QED BY <2>1, <2>2, <3>4, SameMoves
  <2> QED BY <2>3, <2>4
<1>2. CASE Attached(c) \/ HistoryRead(c)
  <2>1. \A d \in Commands : cmd'[d].left = cmd[d].left
    BY <1>0, <1>2, PhaseChanges DEF Attached, HistoryRead
  <2>2. \A t \in Threads : gates'[t].buffer = gates[t].buffer /\ gates'[t].hand = gates[t].hand
    <3>1. Sealed(c)
      BY <1>2 DEF Attached, HistoryRead
    <3>2. \A t \in Threads :
            gates'[t] = gates[t] \/ gates'[t] = [gates[t] EXCEPT !.release = Len(wire)]
      BY <1>0, <3>1 DEF Sealed
    <3> QED BY <1>0, <3>2 DEF Gate
  <2>3. UNCHANGED <<wire, lanes, busy, admitted, live, closed, output, strays, dropped,
                    failed>>
    BY <1>2 DEF Attached, HistoryRead
  <2> QED BY <2>1, <2>2, <2>3, SameMoves
<1>3. ASSUME NEW then, Abandoned(c, then) PROVE Moves
  <2>1. UNCHANGED <<wire, lanes, busy, admitted, live, closed, output, dropped>>
    BY <1>3 DEF Abandoned
  <2>2. CASE ~Owns(c)
    <3>1. Phase(c, then) /\ UNCHANGED <<gates, failed, strays>>
      BY <1>3, <2>2 DEF Abandoned
    <3>2. \A d \in Commands : cmd'[d].left = cmd[d].left
      BY <1>0, <3>1, PhaseChanges
    <3> QED BY <2>1, <3>1, <3>2, SameMoves
  <2>3. CASE Owns(c)
    <3> DEFINE th == Wants[c]
    <3>1. /\ th \in Threads /\ Discard(c, th, gates[th].buffer, then)
          /\ cmd[c].phase \in {"attaching", "reading"}
      BY <1>3, <2>3, GateAssumption DEF Abandoned, Owns
    <3>2. cmd[c].left = <<>> /\ gates[th].buffer \in Seq(Sequence)
      BY <1>0, <3>1 DEF LeftApart, Gate
    <3>3. Range(gates[th].buffer) \subseteq Kept(th)
      BY DEF Kept
    <3> HIDE DEF th
    <3> QED BY <2>1, <3>1, <3>2, <3>3, DiscardMoves
  <2> QED BY <2>2, <2>3
<1>4. CASE DiscardStep(c) \/ DiscardFails(c)
  <2>1. UNCHANGED <<wire, lanes, busy, admitted, live, closed, dropped, strays, gates>>
    BY <1>4 DEF DiscardStep, DiscardFails
  <2>2. CASE cmd[c].left = <<>>
    <3>1. Phase(c, cmd[c].then) /\ UNCHANGED <<output, failed>>
      BY <1>4, <2>2 DEF DiscardStep, DiscardFails
    <3>2. \A d \in Commands : cmd'[d].left = cmd[d].left
      BY <1>0, <3>1, PhaseChanges
    <3> QED BY <2>1, <3>1, <3>2, SameMoves
  <2>3. CASE cmd[c].left # <<>>
    <3> DEFINE h == Head(cmd[c].left)
               now == [cmd[c] EXCEPT !.left = Tail(cmd[c].left)]
    <3>1. /\ \/ Sent(h) /\ UNCHANGED failed
             \/ UNCHANGED output /\ failed' = failed \cup {h}
          /\ cmd' = [cmd EXCEPT ![c] = now]
      BY <1>0, <1>4, <2>3 DEF DiscardStep, DiscardFails, TypeOK
    <3>2. now.left = Tail(cmd[c].left)
      BY <1>0 DEF TypeOK
    <3> HIDE DEF now
    <3>3. cmd'[c] = now /\ \A d \in Commands \ {c} : cmd'[d] = cmd[d]
      BY <1>0, <3>1 DEF TypeOK
    <3>4. h \in Sequence /\ Left(c) = {h} \cup Range(Tail(cmd[c].left))
      <4>1. cmd[c].left \in Seq(Sequence) /\ Sequence \subseteq Nat
        BY <1>0, PlacesTyped
      <4> QED BY <2>3, <4>1, HeadAndTail DEF Left
    <3>5. Left(c)' = Range(Tail(cmd[c].left))
      BY <3>2, <3>3 DEF Left
    <3> HIDE DEF h
    <3>6. \/ Outputs' = Outputs \cup {h} /\ failed' = failed
          \/ Outputs' = Outputs /\ failed' = failed \cup {h}
      <4>1. CASE Sent(h) /\ UNCHANGED failed
        BY <1>0, <3>4, <4>1, SentAppends
      <4>2. CASE UNCHANGED output /\ failed' = failed \cup {h}
        BY <4>2 DEF Outputs
      <4> QED BY <3>1, <4>1, <4>2
    <3>7. /\ Left(c) \subseteq Left(c)' \cup Outputs' \cup failed'
          /\ Outputs \subseteq Outputs' /\ Outputs' \subseteq Outputs \cup Left(c)
          /\ failed \subseteq failed' /\ failed' \subseteq failed \cup Left(c)
      BY <3>4, <3>5, <3>6
    <3> QED BY <1>0, <2>1, <3>3, <3>7, LeftMoves
  <2> QED BY <2>2, <2>3
<1>5. CASE Responds(c)
  <2>1. \A d \in Commands : cmd'[d].left = cmd[d].left
    BY <1>0, <1>5, PhaseChanges DEF Responds
  <2>2. \A t \in Threads : gates'[t].buffer = gates[t].buffer /\ gates'[t].hand = gates[t].hand
    <3>1. \A t \in Threads :
            gates'[t] = gates[t] \/ gates'[t] = [gates[t] EXCEPT !.delivered = TRUE]
      BY <1>5 DEF Responds
    <3> QED BY <1>0, <3>1 DEF Gate
  <2>3. UNCHANGED <<wire, lanes, busy, admitted, live, closed, output, strays, dropped,
                    failed>>
    BY <1>5 DEF Responds
  <2> QED BY <2>1, <2>2, <2>3, SameMoves
<1>6. CASE ResponseFails(c) \/ DrainEnds(c) \/ Redelivered(c)
  <2>1. UNCHANGED gates /\ \E p : Phase(c, p)
    BY <1>6 DEF ResponseFails, DrainEnds, Redelivered
  <2>2. \A d \in Commands : cmd'[d].left = cmd[d].left
    BY <1>0, <2>1, PhaseChanges
  <2>3. UNCHANGED <<wire, lanes, busy, admitted, live, closed, output, strays, dropped,
                    failed>>
    BY <1>6 DEF ResponseFails, DrainEnds, Redelivered
  <2> QED BY <2>1, <2>2, <2>3, SameMoves
<1>7. CASE DiscardCancelled(c)
  <2> DEFINE phase == IF cmd[c].then = "done" THEN "done" ELSE "new"
             now == [cmd[c] EXCEPT !.left = <<>>, !.phase = phase]
  <2>1. /\ UNCHANGED <<wire, lanes, busy, admitted, live, closed, dropped, strays, gates,
                       output>>
        /\ failed' = failed \cup Left(c) /\ cmd' = [cmd EXCEPT ![c] = now]
    BY <1>0, <1>7 DEF DiscardCancelled, TypeOK, Left
  <2> HIDE DEF now
  <2>2. \A d \in Commands \ {c} : cmd'[d] = cmd[d]
    BY <1>0, <2>1 DEF TypeOK
  <2>3. Outputs' = Outputs
    BY <2>1 DEF Outputs
  <2>4. /\ Left(c) \subseteq Left(c)' \cup Outputs' \cup failed'
        /\ Outputs \subseteq Outputs' /\ Outputs' \subseteq Outputs \cup Left(c)
        /\ failed \subseteq failed' /\ failed' \subseteq failed \cup Left(c)
    BY <2>1, <2>3
  <2> QED BY <1>0, <2>1, <2>2, <2>4, LeftMoves
<1>8. CASE DrainCancelled(c)
  <2>0. /\ cmd[c].left = <<>>
        /\ UNCHANGED <<wire, lanes, busy, admitted, live, closed, output, dropped>>
    BY <1>0, <1>8 DEF DrainCancelled, LeftApart
  <2>1. PICK th \in GateOfRoute(RouteOf[c]) :
          \/ Discard(c, th, Held(gates[th]), "done")
          \/ Discard(c, th, gates[th].buffer, "done")
    BY <1>8 DEF DrainCancelled
  <2>2. th \in Threads /\ gates[th] \in Gate /\ gates[th].buffer \in Seq(Sequence)
    BY <1>0 DEF GateOfRoute, Gate
  <2>3. Held(gates[th]) \in Seq(Sequence) /\ Range(Held(gates[th])) = Kept(th)
    BY <2>2, HeldIsKept DEF Kept, Popped
  <2>4. Range(gates[th].buffer) \subseteq Kept(th)
    BY DEF Kept
  <2> QED BY <2>0, <2>1, <2>2, <2>3, <2>4, DiscardMoves
<1> QED BY <1>1, <1>2, <1>3, <1>4, <1>5, <1>6, <1>7, <1>8
        DEF Answer, AttachFails, CommandCancelled

LEMMA GateStepMoves ==
  ASSUME IInv, NEW th \in Threads, NEW who,
         \/ DrainTakes(who, th) \/ DrainFinishes(who, th)
         \/ DrainSends(th) \/ DrainRejects(th) \/ DrainSendFails(th)
  PROVE  Moves
<1> DEFINE g == gates[th]
           h == g.hand
           open == g.open \/ Len(g.buffer) < Limit
           sent == [g EXCEPT !.hand = 0, !.by = None, !.open = open]
<1>0. TypeOK /\ OwnerInv /\ gates \in [Threads -> Gate]
  BY DEF IInv, Core, TypeOK
<1>1. \A t \in Threads \ {th} : gates'[t] = gates[t]
  BY <1>0 DEF DrainTakes, DrainFinishes, DrainSends, DrainRejects, DrainSendFails
<1>2. \A c \in Commands : Left(c)' = Left(c)
  <2>1. CASE cmd' = cmd
    BY <2>1 DEF Left
  <2>2. CASE g.by # "retry" /\ Phase(g.by, "done") /\ h # 0
    <3>1. g.by \in Commands
      BY <1>0, <2>2 DEF OwnerInv, Owned, Gate
    <3> QED BY <1>0, <2>2, <3>1, PhaseChanges DEF Left
  <2> QED BY <2>1, <2>2 DEF DrainTakes, DrainFinishes, DrainSends, DrainRejects, DrainSendFails
<1>3. UNCHANGED <<wire, lanes, busy, admitted, live, closed, dropped, strays>>
  BY DEF DrainTakes, DrainFinishes, DrainSends, DrainRejects, DrainSendFails
<1>4. CASE DrainTakes(who, th)
  <2> DEFINE now == [g EXCEPT !.hand = Head(g.buffer), !.buffer = Tail(g.buffer), !.by = who]
  <2>1. gates'[th] = now /\ h = 0 /\ g.buffer # <<>> /\ g.buffer \in Seq(Sequence)
        /\ UNCHANGED <<output, failed>>
    BY <1>0, <1>4 DEF DrainTakes, Gate
  <2>2. now.hand = Head(g.buffer) /\ now.buffer = Tail(g.buffer)
    BY <1>0 DEF Gate
  <2> HIDE DEF now
  <2>3. Sequence \subseteq Nat \ {0}
    BY <1>0, PlacesTyped
  <2>4. Range(g.buffer) = {Head(g.buffer)} \cup Range(Tail(g.buffer))
        /\ Head(g.buffer) \in Sequence
    BY <2>1, <2>3, HeadAndTail
  <2>5. Kept(th) = Range(g.buffer)
    BY <2>1 DEF Kept, Popped
  <2>6. Kept(th)' = Range(g.buffer)
    BY <2>1, <2>2, <2>3, <2>4 DEF Kept, Popped
  <2>7. Outputs' = Outputs
    BY <2>1 DEF Outputs
  <2> QED BY <1>1, <1>2, <1>3, <2>1, <2>5, <2>6, <2>7, GateMoves
<1>5. CASE DrainFinishes(who, th)
  <2>1. Kept(th) = {}
    BY <1>5 DEF DrainFinishes, Kept, Popped, Range
  <2>2. Kept(th)' = {}
    <3>1. NoGate.buffer = <<>> /\ NoGate.hand = 0 /\ gates'[th] = NoGate
      BY <1>0, <1>5 DEF NoGate, DrainFinishes
    <3> QED BY <3>1 DEF Kept, Popped, Range
  <2>3. Outputs' = Outputs /\ failed' = failed
    BY <1>5 DEF Outputs, DrainFinishes
  <2> QED BY <1>1, <1>2, <1>3, <2>1, <2>2, <2>3, GateMoves
<1>6. CASE DrainSends(th) \/ DrainRejects(th)
  <2>1. /\ gates'[th] = sent /\ h # 0
        /\ \/ Sent(h) /\ UNCHANGED failed
           \/ UNCHANGED output /\ failed' = failed \cup {h} /\ wire[h].kind = "request"
    BY <1>0, <1>6 DEF DrainSends, DrainRejects
  <2>2. sent.hand = 0 /\ sent.buffer = g.buffer
    <3> HIDE DEF open
    <3> QED BY <1>0 DEF Gate
  <2> HIDE DEF sent
  <2>3. h \in Sequence
    BY <1>0, <2>1 DEF Gate
  <2>4. Kept(th) = Kept(th)' \cup {h}
    BY <2>1, <2>2 DEF Kept, Popped
  <2>5. CASE Sent(h) /\ UNCHANGED failed
    <3>1. Outputs' = Outputs \cup {h}
      BY <1>0, <2>3, <2>5, SentAppends
    <3> QED BY <1>1, <1>2, <1>3, <2>4, <2>5, <3>1, GateMoves
  <2>6. CASE UNCHANGED output /\ failed' = failed \cup {h} /\ wire[h].kind = "request"
    <3>1. Outputs' = Outputs
      BY <2>6 DEF Outputs
    <3> QED BY <1>1, <1>2, <1>3, <2>4, <2>6, <3>1, GateMoves
  <2> QED BY <2>1, <2>5, <2>6
<1>7. CASE DrainSendFails(th)
  <2> DEFINE back == <<h>> \o g.buffer
             ready == g.ready \cup {h}
             now == [g EXCEPT !.hand = 0, !.by = None, !.buffer = back, !.open = FALSE,
                              !.ready = ready, !.retry = TRUE]
  <2>1. gates'[th] = now /\ h # 0 /\ UNCHANGED <<output, failed>>
    BY <1>0, <1>7 DEF DrainSendFails
  <2>2. now.hand = 0 /\ now.buffer = back
    <3> HIDE DEF back, ready
    <3> QED BY <1>0 DEF Gate
  <2> HIDE DEF now
  <2>3. h \in Sequence /\ g.buffer \in Seq(Sequence) /\ Sequence \subseteq Nat
    BY <1>0, <2>1, PlacesTyped DEF Gate
  <2>4. Range(back) = {h} \cup Range(g.buffer)
    <3> HIDE DEF h
    <3> QED BY <2>3, PutBack
  <2>5. Kept(th) = Kept(th)'
    BY <2>1, <2>2, <2>4 DEF Kept, Popped
  <2>6. Outputs' = Outputs
    BY <2>1 DEF Outputs
  <2> QED BY <1>1, <1>2, <1>3, <2>1, <2>5, <2>6, GateMoves
<1> QED BY <1>4, <1>5, <1>6, <1>7

LEMMA CloseMoves ==
  ASSUME IInv, Close
  PROVE  Moves
<1>0. gates \in [Threads -> Gate]
  BY DEF IInv, Core, TypeOK
<1>1. /\ UNCHANGED <<wire, lanes, busy, admitted, live, output, strays, failed>>
      /\ closed' = TRUE /\ dropped \subseteq dropped'
      /\ \A c \in Commands : Left(c)' = Left(c)
  BY DEF Close, Left
<1>2. \A t \in Threads : Kept(t)' = {}
  <2>1. NoGate.buffer = <<>> /\ NoGate.hand = 0 /\ \A t \in Threads : gates'[t] = NoGate
    BY DEF NoGate, Close
  <2> QED BY <2>1 DEF Kept, Popped, Range
<1>3. \A t \in Threads : Kept(t) \subseteq dropped'
  <2>1. \A t \in Threads : Range(Held(gates[t])) = Kept(t)
    BY <1>0, HeldIsKept DEF Kept, Popped
  <2> QED BY <2>1 DEF Close
<1>4. \A s : Stored(s) => Stored(s)' \/ s \in dropped'
  BY <1>1, <1>3 DEF Stored
<1>5. Outputs' = Outputs
  BY <1>1 DEF Outputs
<1> QED BY <1>1, <1>2, <1>4, <1>5 DEF Moves

(* What a lane admits passes, waits in a gate, or waits for a gate.        *)
LEMMA LaneServes ==
  ASSUME IInv, NEW k \in Kinds, Admit(k) \/ Wakes(k)
  PROVE  LET q == busy[k].seq
         IN  /\ q \in Sequence /\ admitted < q /\ q <= Len(wire) /\ wire[q].kind = k
             /\ q \notin Outputs /\ q \notin strays /\ Before(q, Range(lanes[k]))
             /\ ~closed => q = admitted + 1
             /\ \A l \in Kinds \ {k} : busy'[l] = busy[l]
             /\ UNCHANGED <<wire, lanes, cmd, closed, output, dropped, failed, strays>>
             /\ \/ /\ busy'[k].step = "live" /\ busy'[k].seq = q /\ live' = live \cup {q}
                   /\ UNCHANGED gates /\ ~HasGate(wire[q].thread)
                   /\ IF closed THEN admitted' = admitted ELSE admitted' = q
                \/ /\ busy'[k].step = "idle" /\ live' = live /\ ~closed /\ admitted' = q
                   /\ \E th \in Threads :
                        /\ wire[q].thread = th /\ Kept(th)' = Kept(th) \cup {q}
                        /\ \A t \in Threads \ {th} : Kept(t)' = Kept(t)
                \/ /\ busy'[k].step = "capacity" /\ live' = live /\ admitted' = admitted
                   /\ \A t \in Threads : Kept(t)' = Kept(t)
<1> DEFINE q == busy[k].seq
           th == ThreadOfMessage(q)
           g == gates[th]
           State == [step : {"idle", "admission", "capacity", "live"},
                     seq : Sequence \cup {0}, cmd : Commands \cup {None}]
<1>0. TypeOK /\ LanesInv /\ AdmissionInv /\ OwnerInv /\ gates \in [Threads -> Gate]
      /\ busy \in [Kinds -> State]
  BY DEF IInv, Core, TypeOK
<1>1. /\ busy[k].step \in {"admission", "capacity"} /\ q \in Offered(k)
      /\ UNCHANGED <<wire, lanes, cmd, closed, output, dropped, failed, strays>>
  BY DEF Admit, Wakes, Offered
<1>2. /\ admitted < q /\ q <= Len(wire) /\ wire[q].kind = k
      /\ q \notin Outputs /\ Before(q, Range(lanes[k]))
  BY <1>0, <1>1 DEF LanesInv
<1>3. q \in Sequence /\ q \in Nat /\ admitted \in Nat /\ next = admitted + 1
  <2>1. q \in Sequence \cup {0} /\ admitted \in Nat /\ next = admitted + 1
    BY <1>0 DEF TypeOK, AdmissionInv
  <2> QED BY <1>0, <1>2, <2>1, PlacesTyped
<1>4. q \notin strays
  BY <1>0, <1>2, <1>3 DEF AdmissionInv
<1>5. th = wire[q].thread /\ th \in Threads
  <2>1. q \in 1..Len(wire) /\ wire \in Seq(Message)
    BY <1>0, <1>2, <1>3, PlacesTyped DEF TypeOK
  <2>2. wire[q] \in Message
    BY <2>1, ElementOfSeq
  <2> QED BY <2>2 DEF ThreadOfMessage, Message
<1>6. ~closed => q = admitted + 1 /\ Offer(k)
  <2>1. CASE Admit(k)
    <3>1. ~closed => q <= next
      BY <2>1 DEF Admit
    <3> QED BY <1>2, <1>3, <2>1, <3>1 DEF Admit
  <2>2. CASE Wakes(k)
    BY <1>0, <1>3, <2>2 DEF Wakes, AdmissionInv
  <2> QED BY <2>1, <2>2
<1>7. closed => GoesLive(k) /\ UNCHANGED <<admitted, gates>> /\ ~HasGate(th)
  <2>1. closed => Admit(k)
    BY <1>0 DEF Wakes, AdmissionInv
  <2> QED BY <1>0, <1>5, <2>1 DEF Admit, OwnerInv, Owned
<1>8. \A l \in Kinds \ {k} : busy'[l] = busy[l]
  BY <1>0, <1>6, <1>7 DEF Offer, GoesLive, IsBuffered
<1>9. CASE GoesLive(k) /\ UNCHANGED gates /\ ~HasGate(th)
           /\ (IF closed THEN admitted' = admitted ELSE Admitted(k))
  <2> DEFINE now == [busy[k] EXCEPT !.step = "live", !.cmd = None]
  <2>1. busy' = [busy EXCEPT ![k] = now] /\ now.step = "live" /\ now.seq = q
    BY <1>0, <1>9 DEF GoesLive
  <2> HIDE DEF now
  <2>2. busy'[k] = now
    BY <1>0, <2>1
  <2>3. live' = live \cup {q} /\ IF closed THEN admitted' = admitted ELSE admitted' = q
    BY <1>9 DEF GoesLive, Admitted
  <2> QED BY <1>1, <1>2, <1>3, <1>4, <1>5, <1>6, <1>8, <1>9, <2>1, <2>2, <2>3
<1>10. CASE ~closed /\ IsBuffered(k, th) /\ Admitted(k) /\ UNCHANGED <<live, tries>>
  <2>0. PICK m \in Sequence, t0 \in Threads : m = q /\ t0 = th
    BY <1>3, <1>5
  <2> DEFINE open == gates[t0].open /\ Len(gates[t0].buffer) + 1 < Limit
             now == [gates[t0] EXCEPT !.buffer = Append(gates[t0].buffer, m), !.open = open]
  <2>1. gates'[t0] = now /\ gates[t0].buffer \in Seq(Sequence)
        /\ \A t \in Threads \ {t0} : gates'[t] = gates[t]
    BY <1>0, <1>10, <2>0 DEF IsBuffered, Gate
  <2>2. now.buffer = Append(gates[t0].buffer, m) /\ now.hand = gates[t0].hand
    <3> HIDE DEF open
    <3> QED BY <1>0, <2>0 DEF Gate
  <2> HIDE DEF now
  <2>3. Range(Append(gates[t0].buffer, m)) = Range(gates[t0].buffer) \cup {m}
    BY <2>1, RangeAppend
  <2>4. Kept(t0)' = Kept(t0) \cup {m}
    BY <2>1, <2>2, <2>3 DEF Kept, Popped
  <2>5. \A t \in Threads \ {t0} : Kept(t)' = Kept(t)
    <3>1. \A t \in Threads \ {t0} : Popped(t)' = Popped(t)
      BY <2>1 DEF Popped
    <3> QED BY <2>1, <3>1 DEF Kept
  <2>6. admitted' = q /\ live' = live /\ busy'[k].step = "idle"
    BY <1>0, <1>10 DEF Admitted, IsBuffered, Idle
  <2>7. wire[q].thread = t0 /\ Kept(t0)' = Kept(t0) \cup {q}
    BY <1>5, <2>0, <2>4
  <2> QED BY <1>1, <1>2, <1>3, <1>4, <1>6, <1>8, <1>10, <2>5, <2>6, <2>7
<1>11. CASE /\ gates' = [gates EXCEPT ![th].open = FALSE]
            /\ busy' = [busy EXCEPT ![k].step = "capacity", ![k].cmd = gates[th].cmd]
            /\ UNCHANGED <<next, admitted, live, tries>>
  <2>1. \A t \in Threads : gates'[t] = gates[t] \/ gates'[t] = [gates[t] EXCEPT !.open = FALSE]
    BY <1>0, <1>5, <1>11
  <2>2. ASSUME NEW t \in Threads
        PROVE  gates'[t].buffer = gates[t].buffer /\ gates'[t].hand = gates[t].hand
    <3>1. gates[t] \in Gate
      BY <1>0
    <3>2. CASE gates'[t] = [gates[t] EXCEPT !.open = FALSE]
      BY <3>1, <3>2 DEF Gate
    <3> QED BY <2>1, <3>2
  <2>3. \A t \in Threads : Popped(t)' = Popped(t)
    BY <2>2 DEF Popped
  <2>4. \A t \in Threads : Kept(t)' = Kept(t)
    BY <2>2, <2>3 DEF Kept
  <2> DEFINE c == gates[th].cmd
             now == [busy[k] EXCEPT !.step = "capacity", !.cmd = c]
  <2>5. busy' = [busy EXCEPT ![k] = now] /\ now.step = "capacity"
    BY <1>0, <1>11
  <2> HIDE DEF now
  <2>6. busy'[k].step = "capacity" /\ live' = live /\ admitted' = admitted
    BY <1>0, <1>11, <2>5
  <2> QED BY <1>1, <1>2, <1>3, <1>4, <1>6, <1>8, <2>4, <2>6
<1> QED BY <1>6, <1>7, <1>9, <1>10, <1>11 DEF Offer

LEMMA MovesKeep ==
  ASSUME IInv, Moves
  PROVE  LiveInv' /\ FailedInv'
<1>0. TypeOK /\ KeptFresh /\ AdmissionInv /\ admitted \in Nat
  BY DEF IInv, Core, TypeOK
<1>1. LiveInv'
  <2> SUFFICES ASSUME NEW k \in Kinds, busy'[k].step = "live" PROVE Presented(k)'
    BY DEF LiveInv
  <2> DEFINE s == busy[k].seq
  <2>1. Presented(k) /\ busy' = busy
    BY DEF IInv, LiveInv, Moves
  <2>2. s \notin AnyKept
    <3> SUFFICES ASSUME NEW t \in Threads, s \in Kept(t) PROVE FALSE
      BY DEF AnyKept
    <3>1. wire[s].thread = t /\ s \in Nat
      BY <1>0, PlacesTyped DEF KeptFresh
    <3> QED BY <2>1, <3>1 DEF Presented, Before
  <2> QED BY <2>1, <2>2 DEF Presented, Moves, Before
<1>2. FailedInv'
  <2> SUFFICES ASSUME NEW s \in failed'
               PROVE  s <= Len(wire) /\ (s \in live \cup strays' \/ wire[s].kind = "request")
    BY DEF FailedInv, Moves
  <2>1. strays \subseteq strays' /\ strays' \subseteq strays \cup AnyKept
    BY DEF Moves
  <2>2. \A x \in AnyKept \cup strays : x \in Nat /\ x <= admitted
    BY <1>0, PlacesTyped DEF AnyKept, KeptFresh, AdmissionInv, TypeOK
  <2>3. \A x \in AnyKept \cup strays : x <= Len(wire)
    BY <1>0, <2>2, PlacesTyped DEF AdmissionInv
  <2>4. CASE s \in failed
    BY <2>1, <2>4 DEF IInv, FailedInv
  <2>5. CASE s \in strays'
    BY <2>1, <2>3, <2>5
  <2>6. CASE s \in AnyKept /\ wire[s].kind = "request"
    BY <2>3, <2>6
  <2> QED BY <2>4, <2>5, <2>6 DEF Moves
<1> QED BY <1>1, <1>2

LEMMA AdmitsKeep ==
  ASSUME IInv, NEW k \in Kinds, Admit(k) \/ Wakes(k)
  PROVE  LiveInv' /\ FailedInv'
<1> DEFINE q == busy[k].seq
<1>0. TypeOK /\ AdmissionInv /\ admitted \in Nat /\ OwnerInv /\ KeptFresh
  BY DEF IInv, Core, TypeOK
<1>1. /\ q \in Sequence /\ admitted < q /\ q <= Len(wire) /\ wire[q].kind = k
      /\ q \notin Outputs /\ q \notin strays /\ Before(q, Range(lanes[k]))
      /\ ~closed => q = admitted + 1
      /\ \A l \in Kinds \ {k} : busy'[l] = busy[l]
      /\ UNCHANGED <<wire, lanes, cmd, closed, output, dropped, failed, strays>>
  BY LaneServes
<1>2. \/ /\ busy'[k].step = "live" /\ busy'[k].seq = q /\ live' = live \cup {q}
         /\ UNCHANGED gates /\ ~HasGate(wire[q].thread)
         /\ IF closed THEN admitted' = admitted ELSE admitted' = q
      \/ /\ busy'[k].step = "idle" /\ live' = live /\ ~closed /\ admitted' = q
         /\ \E th \in Threads :
              /\ wire[q].thread = th /\ Kept(th)' = Kept(th) \cup {q}
              /\ \A t \in Threads \ {th} : Kept(t)' = Kept(t)
      \/ /\ busy'[k].step = "capacity" /\ live' = live /\ admitted' = admitted
         /\ \A t \in Threads : Kept(t)' = Kept(t)
  BY LaneServes
<1>3. q \in Nat /\ Outputs' = Outputs /\ live \subseteq live'
  BY <1>0, <1>1, <1>2, PlacesTyped DEF Outputs
<1>4. \A t \in Threads : Kept(t)' \subseteq Kept(t) \cup (IF closed THEN {} ELSE {q})
  <2>1. UNCHANGED gates => \A t \in Threads : Kept(t)' = Kept(t)
    BY DEF Kept, Popped
  <2> QED BY <1>2, <2>1
<1>5. ~closed => (admitted' = admitted \/ admitted' = q)
  BY <1>2
<1>6. ASSUME NEW l \in Kinds, l # k, busy'[l].step = "live" PROVE Presented(l)'
  <2> DEFINE s == busy[l].seq
  <2>1. Presented(l) /\ busy'[l] = busy[l]
    BY <1>1, <1>6 DEF IInv, LiveInv
  <2>2. s \in Sequence \cup {0} /\ s \in Nat /\ wire[s].kind = l
    BY <1>0, <2>1, PlacesTyped DEF TypeOK, Presented
  <2>3. ~closed => s < q
    BY <1>0, <1>1, <1>3, <2>1, <2>2 DEF Presented
  <2>4. ~closed => /\ s <= admitted'
                   /\ \A x \in 1..admitted' : wire[x].kind = l => x <= s
    <3> SUFFICES ASSUME ~closed
                 PROVE  /\ s <= admitted'
                        /\ \A x \in 1..admitted' : wire[x].kind = l => x <= s
      OBVIOUS
    <3>1. /\ s <= admitted
          /\ \A x \in 1..admitted : wire[x].kind = l => x <= s
      BY <2>1 DEF Presented
    <3>2. CASE admitted' = admitted
      BY <3>1, <3>2
    <3>3. CASE admitted' = q
      <4>1. \A x \in 1..q : x \in 1..admitted \/ x = q
        BY <1>0, <1>1, <1>3
      <4> QED BY <1>0, <1>1, <1>3, <1>6, <2>2, <3>1, <3>3, <4>1
    <3> QED BY <1>5, <3>2, <3>3
  <2>5. \A t \in Threads : wire[s].thread = t => Before(s, Kept(t)')
    BY <1>4, <2>1, <2>3 DEF Presented, Before
  <2> QED BY <1>1, <1>3, <2>1, <2>4, <2>5 DEF Presented, Before
<1>7. ASSUME busy'[k].step = "live" PROVE Presented(k)'
  <2>1. /\ busy'[k].seq = q /\ live' = live \cup {q}
        /\ UNCHANGED gates /\ ~HasGate(wire[q].thread)
        /\ IF closed THEN admitted' = admitted ELSE admitted' = q
    BY <1>2, <1>7
  <2>2. \A t \in Threads : wire[q].thread = t => Kept(t)' = {}
    <3>1. \A t \in Threads : Kept(t)' = Kept(t)
      BY <2>1 DEF Kept, Popped
    <3>2. \A t \in Threads : ~HasGate(t) => gates[t].buffer = <<>> /\ gates[t].hand = 0
      BY <1>0 DEF OwnerInv, Owned
    <3> QED BY <2>1, <3>1, <3>2 DEF Kept, Popped, Range
  <2>3. ~closed => /\ q <= admitted'
                   /\ \A x \in 1..admitted' : wire[x].kind = k => x <= q
    BY <1>3, <2>1
  <2> QED BY <1>1, <1>3, <2>1, <2>2, <2>3 DEF Presented, Before
<1>8. LiveInv'
  BY <1>6, <1>7 DEF LiveInv
<1>9. FailedInv'
  BY <1>1, <1>3 DEF FailedInv, IInv
<1> QED BY <1>8, <1>9

LEMMA LanesKeep ==
  ASSUME IInv, NEW k \in Kinds, Lane(k)
  PROVE  LiveInv' /\ FailedInv'
<1>0. TypeOK /\ LiveInv /\ FailedInv
  BY DEF IInv, Core
<1>1. CASE Admit(k) \/ Wakes(k)
  BY <1>1, AdmitsKeep
<1>2. CASE Dispatch(k)
  <2>1. /\ UNCHANGED <<wire, gates, admitted, closed, output, live, failed, strays>>
        /\ \A l \in Kinds : Range(lanes'[l]) \subseteq Range(lanes[l])
        /\ \A l \in Kinds : busy'[l].step = "live" => busy'[l] = busy[l]
    <3>1. lanes[k] \in Seq(Sequence) /\ Sequence \subseteq Nat /\ lanes[k] # <<>>
      BY <1>0, <1>2, PlacesTyped DEF Dispatch
    <3>2. Range(Tail(lanes[k])) \subseteq Range(lanes[k])
      BY <3>1, HeadAndTail
    <3> QED BY <1>0, <1>2, <3>2 DEF Dispatch, TypeOK
  <2>2. /\ Outputs' = Outputs
        /\ \A t \in Threads : Kept(t)' = Kept(t)
    BY <2>1 DEF Outputs, Kept, Popped
  <2>3. LiveInv'
    BY <1>0, <2>1, <2>2 DEF LiveInv, Presented, Before
  <2> QED BY <1>0, <2>1, <2>3 DEF FailedInv
<1>3. CASE LiveEnds(k) \/ LiveFails(k)
  <2> DEFINE s == busy[k].seq
  <2>1. Presented(k)
    BY <1>0, <1>3 DEF LiveInv, LiveEnds, LiveFails
  <2>2. s \in Sequence
    BY <1>0, <2>1 DEF Presented, TypeOK
  <2>3. /\ UNCHANGED <<wire, lanes, gates, admitted, closed, live, strays>>
        /\ busy'[k].step = "idle" /\ \A l \in Kinds \ {k} : busy'[l] = busy[l]
        /\ failed' \subseteq failed \cup {s}
    BY <1>0, <1>3 DEF LiveEnds, LiveFails, TypeOK, Idle
  <2>4. Outputs' \subseteq Outputs \cup {s}
    <3>1. CASE LiveEnds(k)
      BY <1>0, <2>2, <3>1, SentAppends DEF LiveEnds
    <3>2. CASE LiveFails(k)
      BY <3>2 DEF LiveFails, Outputs
    <3> QED BY <1>3, <3>1, <3>2
  <2>5. \A t \in Threads : Kept(t)' = Kept(t)
    BY <2>3 DEF Kept, Popped
  <2>6. \A l \in Kinds \ {k} : Presented(l) => busy[l].seq # s
    BY <2>1 DEF Presented
  <2>7. LiveInv'
    BY <1>0, <2>3, <2>4, <2>5, <2>6 DEF LiveInv, Presented, Before
  <2>8. FailedInv'
    BY <1>0, <2>1, <2>3 DEF FailedInv, Presented
  <2> QED BY <2>7, <2>8
<1> QED BY <1>1, <1>2, <1>3 DEF Lane

LEMMA ConnectionKeeps ==
  ASSUME IInv, Receive \/ Reset
  PROVE  LiveInv' /\ FailedInv'
<1>0. TypeOK /\ AdmissionInv /\ LiveInv /\ FailedInv
      /\ Len(wire) \in Nat /\ admitted \in Nat
  BY PlacesTyped DEF IInv, Core, TypeOK
<1>1. CASE Receive
  <2> DEFINE new == Len(wire) + 1
  <2>1. PICK th \in Threads, k \in Kinds, own \in Own :
          /\ wire' = Append(wire, [thread |-> th, kind |-> k, own |-> own, epoch |-> epoch])
          /\ lanes' = [lanes EXCEPT ![k] = Append(@, new)]
    BY <1>1 DEF Receive
  <2>2. UNCHANGED <<busy, admitted, gates, closed, output, live, failed, strays>>
        /\ Len(wire) < MaxWire
    BY <1>1 DEF Receive
  <2>3. /\ Len(wire') = new /\ \A s \in 1..Len(wire) : wire'[s] = wire[s]
    BY <1>0, <2>1 DEF TypeOK
  <2>4. \A l \in Kinds : Range(lanes'[l]) \subseteq Range(lanes[l]) \cup {new}
    <3>1. new \in Sequence /\ lanes[k] \in Seq(Sequence)
      BY <1>0, <2>2, GateAssumption, PlacesTyped DEF Sequence
    <3>2. Range(Append(lanes[k], new)) = Range(lanes[k]) \cup {new}
      BY <3>1, RangeAppend
    <3> QED BY <1>0, <2>1, <3>2 DEF TypeOK
  <2>5. Outputs' = Outputs /\ \A t \in Threads : Kept(t)' = Kept(t)
    BY <2>2 DEF Outputs, Kept, Popped
  <2>6. ASSUME NEW l \in Kinds, busy'[l].step = "live" PROVE Presented(l)'
    <3> DEFINE s == busy[l].seq
    <3>1. Presented(l) /\ busy'[l] = busy[l]
      BY <1>0, <2>2, <2>6 DEF LiveInv
    <3>2. s \in Sequence /\ s \in 1..Len(wire)
      <4>1. s \in Sequence
        BY <1>0, <3>1 DEF Presented, TypeOK
      <4> QED BY <1>0, <3>1, <4>1, PlacesTyped DEF Presented
    <3>3. wire'[s] = wire[s] /\ s < new /\ s <= new
      BY <1>0, <2>3, <3>2
    <3>4. \A x \in 1..admitted : wire'[x] = wire[x]
      BY <1>0, <2>3 DEF AdmissionInv
    <3>5. Before(s, Range(lanes'[l]))
      BY <2>4, <3>1, <3>3 DEF Presented, Before
    <3> QED BY <2>2, <2>3, <2>5, <3>1, <3>3, <3>4, <3>5 DEF Presented
  <2>7. LiveInv'
    BY <2>6 DEF LiveInv
  <2>8. FailedInv'
    <3> SUFFICES ASSUME NEW s \in failed
                 PROVE  s <= Len(wire') /\ (s \in live \cup strays \/ wire'[s].kind = "request")
      BY <2>2 DEF FailedInv
    <3>1. s \in Sequence /\ s <= Len(wire)
      BY <1>0 DEF FailedInv, TypeOK
    <3>2. s \in 1..Len(wire)
      BY <1>0, <3>1, PlacesTyped
    <3> QED BY <1>0, <2>3, <3>2 DEF FailedInv
  <2> QED BY <2>7, <2>8
<1>2. CASE Reset
  <2>1. \A k \in Kinds : busy'[k].step # "live"
    BY <1>2 DEF Reset, Idle
  <2>2. UNCHANGED <<wire, live, failed, strays>>
    BY <1>2 DEF Reset
  <2> QED BY <1>0, <2>1, <2>2 DEF LiveInv, FailedInv
<1> QED BY <1>1, <1>2

(* What a step is. *)
LEMMA StepsAre ==
  ASSUME IInv, [Next]_vars
  PROVE  Receive \/ Reset \/ (\E k \in Kinds : Lane(k)) \/ Moves
<1>1. CASE Close
  BY <1>1, CloseMoves
<1>2. CASE SendEnds
  <2>1. PICK th \in Threads : DrainSends(th) \/ DrainRejects(th) \/ DrainSendFails(th)
    BY <1>2 DEF SendEnds
  <2> QED BY <2>1, GateStepMoves
<1>3. ASSUME NEW who \in Commands \cup {"retry"}, Drain(who) PROVE Moves
  <2>1. PICK th \in Threads : DrainTakes(who, th) \/ DrainFinishes(who, th)
    BY <1>3 DEF Drain
  <2> QED BY <2>1, GateStepMoves
<1>4. CASE UNCHANGED vars
  BY <1>4, SameMoves DEF vars
<1> QED BY <1>1, <1>2, <1>3, <1>4, CommandMoves DEF Next

LEMMA NextKeeps == IInv /\ [Next]_vars => IInv'
BY CoreKept, StepsAre, MovesKeep, LanesKeep, ConnectionKeeps DEF IInv

(* What every reachable state of the gate satisfies: the types, the order  *)
(* of the lanes and of each gate's messages, where a message may be, what  *)
(* the lanes are presenting, and how far the command that owns a gate has  *)
(* come.                                                                   *)
THEOREM GateInvariant == Spec => []IInv
<1>1. Init => IInv
  BY InitHolds
<1>2. IInv /\ [Next]_vars => IInv'
  BY NextKeeps
<1> QED BY <1>1, <1>2, PTL DEF Spec

-----------------------------------------------------------------------------
(* The properties that are conjuncts of it. *)

(* A conversation has one gate, a gate holds its messages in wire order,   *)
(* one more than its limit at most (thread_handoff.py): GateInv.           *)
THEOREM GatesAreInOrder == Spec => []GateInv
<1>1. IInv => GateInv
  <2> SUFFICES ASSUME IInv PROVE GateInv
    OBVIOUS
  <2>1. TypeOK /\ KeptSorted /\ OwnerInv /\ next = admitted + 1
    BY DEF IInv, Core, AdmissionInv
  <2>2. ASSUME NEW th \in Threads
        PROVE  /\ Increasing(Held(gates[th])) /\ Len(Held(gates[th])) <= Limit + 1
               /\ Held(gates[th]) # <<>> => HasGate(th)
    <3> DEFINE g == gates[th]
    <3>1. /\ Increasing(g.buffer) /\ (g.hand # 0 => Before(g.hand, Range(g.buffer)))
          /\ Len(g.buffer) <= Limit + 1
          /\ g.hand # 0 => Len(g.buffer) <= Limit
      BY <2>1 DEF KeptSorted, Popped
    <3>2. g \in Gate
      BY <2>1 DEF TypeOK
    <3>3. Len(g.buffer) \in Nat /\ Limit \in Nat
      BY <3>2, LenProperties, GateAssumption DEF Gate
    <3>4. CASE g.hand = 0
      <4>1. Held(g) = <<>> \o g.buffer /\ <<>> \o g.buffer = g.buffer
        BY <3>2, <3>4, ConcatEmptySeq DEF Held, Gate
      <4> QED BY <2>1, <3>1, <3>4, <4>1 DEF OwnerInv, Owned
    <3>5. CASE g.hand # 0
      <4>1. Len(Held(g)) = Len(g.buffer) + 1 /\ Increasing(Held(g))
        BY <3>1, <3>2, <3>5, HeldIsKept
      <4>2. HasGate(th)
        BY <2>1, <3>5 DEF OwnerInv, Owned
      <4> QED BY <3>1, <3>3, <3>5, <4>1, <4>2
    <3> QED BY <3>4, <3>5
  <2> QED BY <2>1, <2>2 DEF GateInv, OwnerInv, OneGateEach, Increasing
<1> QED BY <1>1, GateInvariant, PTL

(* What native says of a thread is shown in the order of the wire, across  *)
(* both lanes, full gates, failed sends and reconnections, but for what a  *)
(* discarded gate hands over and for a message that no gate held back and  *)
(* that the other lane overtook while it was presented (InWireOrder).      *)
THEOREM ShownInWireOrder == Spec => []InWireOrder
<1>1. IInv => InWireOrder
  BY DEF IInv, Core, ShownInv
<1> QED BY <1>1, GateInvariant, PTL

(* A native event is projected once however often its message is sent.     *)
THEOREM EventsProjectedOnce == Spec => []ProjectedOnce
<1>1. IInv => ProjectedOnce
  BY DEF IInv, Core, ShownInv
<1> QED BY <1>1, GateInvariant, PTL

-----------------------------------------------------------------------------
(* What a step shows. *)

Allowed(s) ==
  s \in live \cup strays \/ gates[wire[s].thread].cmd \in answered

LEMMA StepShows ==
  ASSUME IInv, [Next]_vars
  PROVE  output' = output \/ \E s \in Sequence : Sent(s) /\ Allowed(s)
<1> DEFINE Goal == output' = output \/ \E s \in Sequence : Sent(s) /\ Allowed(s)
<1>0. TypeOK /\ OwnerInv /\ LeftApart /\ KeptFresh /\ LiveInv
  BY DEF IInv, Core
<1>1. CASE Receive \/ Reset \/ Close \/ UNCHANGED vars
  BY <1>1 DEF Receive, Reset, Close, vars
<1>2. ASSUME NEW th \in Threads, DrainSends(th) PROVE Goal
  <2> DEFINE h == gates[th].hand
  <2>1. h # 0 /\ Sent(h) /\ gates[th].cmd \in answered
    BY <1>0, <1>2 DEF DrainSends, OwnerInv, Owned
  <2>2. h \in Kept(th) /\ h \in Sequence
    BY <1>0, <2>1, PlacesTyped DEF Kept, Popped
  <2>3. wire[h].thread = th
    BY <1>0, <2>2 DEF KeptFresh
  <2> QED BY <2>1, <2>2, <2>3 DEF Allowed
<1>3. ASSUME NEW th \in Threads, DrainRejects(th) \/ DrainSendFails(th)
      PROVE  output' = output
  BY <1>3 DEF DrainRejects, DrainSendFails
<1>4. ASSUME NEW k \in Kinds, Lane(k) PROVE Goal
  <2>1. CASE LiveEnds(k)
    <3>1. Presented(k) /\ Sent(busy[k].seq)
      BY <1>0, <2>1 DEF LiveEnds, LiveInv
    <3>2. busy[k].seq \in Sequence /\ busy[k].seq \in live
      BY <1>0, <3>1 DEF Presented, TypeOK
    <3> QED BY <3>1, <3>2 DEF Allowed
  <2> QED BY <1>4, <2>1 DEF Lane, Dispatch, Admit, Wakes, LiveFails
<1>5. ASSUME NEW c \in Commands, DiscardStep(c) PROVE Goal
  <2>1. CASE cmd[c].left = <<>>
    BY <1>5, <2>1 DEF DiscardStep
  <2>2. CASE cmd[c].left # <<>>
    <3>1. Sent(Head(cmd[c].left))
      BY <1>5, <2>2 DEF DiscardStep
    <3>2. cmd[c].left \in Seq(Sequence) /\ Sequence \subseteq Nat
      BY <1>0, PlacesTyped
    <3>3. Head(cmd[c].left) \in Sequence /\ Head(cmd[c].left) \in Left(c)
      BY <2>2, <3>2, HeadAndTail DEF Left
    <3> QED BY <1>0, <3>1, <3>3 DEF LeftApart, Allowed
  <2> QED BY <2>1, <2>2
<1>6. ASSUME NEW c \in Commands, Answer(c) PROVE Goal
  BY <1>5, <1>6 DEF Answer, Attached, HistoryRead, AttachFails, Abandoned, DiscardFails,
                    Responds, ResponseFails, DrainEnds
<1>7. ASSUME NEW c \in Commands,
             \/ Begin(c) \/ Redelivered(c) \/ CommandCancelled(c) \/ DiscardCancelled(c)
             \/ DrainCancelled(c)
      PROVE  output' = output
  BY <1>7 DEF Begin, Redelivered, CommandCancelled, Abandoned, DiscardCancelled,
              DrainCancelled
<1>8. ASSUME NEW who \in Commands \cup {"retry"}, Drain(who) PROVE output' = output
  BY <1>8 DEF Drain, DrainTakes, DrainFinishes
<1> QED BY <1>1, <1>2, <1>3, <1>4, <1>6, <1>7, <1>8 DEF Next, SendEnds

(* What passes the gates by passes no gate that stands. *)
LEMMA PassesNoGate ==
  ASSUME IInv, [Next]_vars, NEW s \in live' \ live
  PROVE  ~HasGate(wire[s].thread)
<1>1. live' # live
  OBVIOUS
<1>2. PICK k \in Kinds : Admit(k) \/ Wakes(k)
  BY <1>1, StepsAre DEF Moves, Receive, Reset, Lane, Dispatch, LiveEnds, LiveFails
<1>3. live' = live \cup {busy[k].seq} /\ ~HasGate(wire[busy[k].seq].thread)
  BY <1>1, <1>2, LaneServes
<1> QED BY <1>3

(* While the gate of a thread stands nothing that comes passes it, and     *)
(* nothing of that thread is shown before the command that opened it is    *)
(* answered, but for what had passed before and what an earlier gate of    *)
(* the thread, discarded, still hands over (AnswerComesFirst).             *)
THEOREM AnswersComeFirst == Spec => AnswerComesFirst
<1> DEFINE A == \A th \in Threads : HasGate(th) =>
                  /\ \A s \in live' \ live : wire[s].thread # th
                  /\ \A i \in DOMAIN output' \ DOMAIN output :
                       wire[output'[i].seq].thread = th
                       => gates[th].cmd \in answered \/ output'[i].seq \in live \cup strays
<1>1. IInv /\ [Next]_vars => A
  <2> SUFFICES ASSUME IInv, [Next]_vars, NEW th \in Threads, HasGate(th)
               PROVE  /\ \A s \in live' \ live : wire[s].thread # th
                      /\ \A i \in DOMAIN output' \ DOMAIN output :
                           wire[output'[i].seq].thread = th
                           => gates[th].cmd \in answered \/ output'[i].seq \in live \cup strays
    OBVIOUS
  <2>1. TypeOK
    BY DEF IInv, Core
  <2>2. ASSUME NEW i \in DOMAIN output' \ DOMAIN output, wire[output'[i].seq].thread = th
        PROVE  gates[th].cmd \in answered \/ output'[i].seq \in live \cup strays
    <3>1. PICK s \in Sequence : Sent(s) /\ Allowed(s)
      BY <2>2, StepShows
    <3>2. output'[i].seq = s
      BY <2>1, <3>1, SentAppends
    <3> QED BY <2>2, <3>1, <3>2 DEF Allowed
  <2> QED BY <2>2, PassesNoGate
<1>2. IInv /\ [Next]_vars => [A]_vars
  BY <1>1
<1> QED BY <1>2, GateInvariant, PTL DEF Spec, AnswerComesFirst

-----------------------------------------------------------------------------
(* What becomes of a message that was admitted. *)

Accounted == Outputs \cup Waiting \cup dropped \cup failed \cup UNION {Live(k) : k \in Kinds}

LEMMA AccountedMeans ==
  ASSUME TypeOK
  PROVE  \A s : s \in Accounted <=> \/ s \in Outputs \cup dropped \cup failed \/ Stored(s)
                                    \/ \E k \in Kinds : s \in Live(k)
<1>1. \A t \in Threads : Range(Held(gates[t])) = Kept(t)
  BY HeldIsKept DEF TypeOK, Kept, Popped
<1>2. /\ \A t \in Threads : Kept(t) \subseteq Sequence
      /\ \A c \in Commands : Left(c) \subseteq Sequence
  BY PlacesTyped
<1>3. \A s : s \in Waiting <=> Stored(s)
  BY <1>1, <1>2 DEF Waiting, Stored, Left
<1> QED BY <1>3 DEF Accounted

AllAccounted ==
  \A s \in 1..admitted : \/ s \in Outputs \cup dropped \cup failed \/ Stored(s)
                         \/ \E k \in Kinds : s \in Live(k)

(* A step accounts for what was accounted for and for what it admits.      *)
LEMMA StepAccounts ==
  ASSUME IInv, AllAccounted, [Next]_vars
  PROVE  AllAccounted'
<1> DEFINE Known(s) == \/ s \in Outputs \cup dropped \cup failed \/ Stored(s)
                       \/ \E k \in Kinds : s \in Live(k)
<1>0. TypeOK /\ admitted \in Nat /\ Len(wire) \in Nat
  BY PlacesTyped DEF IInv, Core, TypeOK
<1>1. CASE Moves
  <2>1. \A k \in Kinds : Live(k)' = Live(k)
    BY <1>1 DEF Moves, Live
  <2> QED BY <1>1, <2>1 DEF Moves, AllAccounted
<1>2. CASE Receive \/ Reset
  <2>1. /\ UNCHANGED <<gates, cmd, output, failed>>
        /\ dropped \subseteq dropped'
    BY <1>2 DEF Receive, Reset
  <2>2. \A s : Stored(s)' = Stored(s) /\ Outputs' = Outputs
    BY <2>1 DEF Stored, Kept, Popped, Left, Outputs
  <2>3. CASE Receive
    BY <2>1, <2>2, <2>3 DEF Receive, AllAccounted, Live
  <2>4. CASE Reset
    <3>1. /\ admitted' = Len(wire)
          /\ dropped' = dropped \cup {x \in 1..Len(wire) : x > admitted}
                                \cup UNION {Live(k) : k \in Kinds}
      BY <2>4 DEF Reset
    <3> SUFFICES ASSUME NEW s \in 1..Len(wire) PROVE s \in dropped' \/ Known(s)'
      BY <3>1 DEF AllAccounted
    <3>2. s > admitted \/ s \in 1..admitted
      BY <1>0
    <3> QED BY <2>1, <2>2, <3>1, <3>2 DEF AllAccounted
  <2> QED BY <1>2, <2>3, <2>4
<1>3. ASSUME NEW k \in Kinds, Dispatch(k) PROVE AllAccounted'
  <2>1. /\ UNCHANGED <<gates, cmd, output, failed, dropped, admitted>>
        /\ \A l \in Kinds : Live(l) \subseteq Live(l)'
    BY <1>0, <1>3 DEF Dispatch, TypeOK, Live, Idle
  <2>2. \A s : Stored(s)' = Stored(s) /\ Outputs' = Outputs
    BY <2>1 DEF Stored, Kept, Popped, Left, Outputs
  <2> QED BY <2>1, <2>2 DEF AllAccounted
<1>4. ASSUME NEW k \in Kinds, LiveEnds(k) \/ LiveFails(k) PROVE AllAccounted'
  <2> DEFINE q == busy[k].seq
  <2>1. /\ UNCHANGED <<gates, cmd, dropped, admitted>>
        /\ \A l \in Kinds \ {k} : busy'[l] = busy[l] /\ Live(k) = {q}
    BY <1>0, <1>4 DEF LiveEnds, LiveFails, TypeOK, Live
  <2>2. \A s : Stored(s)' = Stored(s)
    BY <2>1 DEF Stored, Kept, Popped, Left
  <2>3. Outputs \subseteq Outputs' /\ failed \subseteq failed' /\ q \in Outputs' \cup failed'
    <3>1. CASE LiveEnds(k)
      <4>1. q \in Sequence
        BY <1>0, <3>1 DEF LiveEnds, IInv, LiveInv, Presented, TypeOK
      <4> QED BY <1>0, <3>1, <4>1, SentAppends DEF LiveEnds
    <3>2. CASE LiveFails(k)
      BY <3>2 DEF LiveFails, Outputs
    <3> QED BY <1>4, <3>1, <3>2
  <2>4. \A l \in Kinds \ {k} : Live(l)' = Live(l)
    BY <2>1 DEF Live
  <2>5. \A l \in Kinds : \A s \in Live(l) : s \in Live(l)' \/ s = q
    BY <1>4, <2>4 DEF Live
  <2> QED BY <2>1, <2>2, <2>3, <2>5 DEF AllAccounted
<1>5. ASSUME NEW k \in Kinds, Admit(k) \/ Wakes(k) PROVE AllAccounted'
  <2>0. PICK q : q = busy[k].seq
    OBVIOUS
  <2>1. /\ q \in Sequence /\ admitted < q
        /\ ~closed => q = admitted + 1
        /\ \A l \in Kinds \ {k} : busy'[l] = busy[l]
        /\ UNCHANGED <<wire, lanes, cmd, closed, output, dropped, failed, strays>>
    BY <1>5, <2>0, LaneServes
  <2>2. \/ /\ busy'[k].step = "live" /\ busy'[k].seq = q /\ live' = live \cup {q}
           /\ UNCHANGED gates /\ ~HasGate(wire[q].thread)
           /\ IF closed THEN admitted' = admitted ELSE admitted' = q
        \/ /\ busy'[k].step = "idle" /\ live' = live /\ ~closed /\ admitted' = q
           /\ \E th \in Threads :
                /\ wire[q].thread = th /\ Kept(th)' = Kept(th) \cup {q}
                /\ \A t \in Threads \ {th} : Kept(t)' = Kept(t)
        \/ /\ busy'[k].step = "capacity" /\ live' = live /\ admitted' = admitted
           /\ \A t \in Threads : Kept(t)' = Kept(t)
    BY <1>5, <2>0, LaneServes
  <2>3. \A t \in Threads : Kept(t) \subseteq Kept(t)'
    <3>1. UNCHANGED gates => \A t \in Threads : Kept(t)' = Kept(t)
      BY DEF Kept, Popped
    <3> QED BY <2>2, <3>1
  <2>4. /\ \A s : Stored(s) => Stored(s)'
        /\ Outputs' = Outputs
    BY <2>1, <2>3 DEF Stored, Left, Outputs
  <2>5. \A l \in Kinds : Live(l) \subseteq Live(l)'
    <3>1. Live(k) = {}
      BY <1>5 DEF Admit, Wakes, Live
    <3> QED BY <2>1, <3>1 DEF Live
  <2>6. ASSUME NEW s \in 1..admitted' PROVE s \in 1..admitted \/ s = q
    BY <1>0, <2>1, <2>2
  <2>7. q \in 1..admitted' => Stored(q)' \/ q \in Live(k)'
    <3>1. q \in Nat
      BY <2>1, <1>0, PlacesTyped
    <3>2. CASE admitted' = admitted
      BY <1>0, <2>1, <3>1, <3>2
    <3>3. CASE busy'[k].step = "live"
      BY <2>2, <3>3 DEF Live
    <3>4. CASE \E th \in Threads : Kept(th)' = Kept(th) \cup {q}
      BY <3>4 DEF Stored
    <3> QED BY <2>2, <3>2, <3>3, <3>4
  <2> SUFFICES ASSUME NEW s \in 1..admitted' PROVE Known(s)'
    BY DEF AllAccounted
  <2>8. CASE s \in 1..admitted
    BY <2>1, <2>4, <2>5, <2>8 DEF AllAccounted
  <2>9. CASE s = q
    BY <2>7, <2>9
  <2> QED BY <2>6, <2>8, <2>9
<1> QED BY <1>1, <1>2, <1>3, <1>4, <1>5, StepsAre DEF Lane

LEMMA AccountedAlways == Spec => [](IInv /\ AllAccounted)
<1>1. Init => AllAccounted
  BY DEF Init, AllAccounted
<1>2. IInv /\ AllAccounted /\ [Next]_vars => AllAccounted'
  BY StepAccounts
<1> QED BY <1>1, <1>2, GateInvariant, PTL DEF Spec

(* What was admitted is shown, being presented, or kept, whatever is full, *)
(* fails or is cancelled; what a lost connection or the end of the bridge  *)
(* met, and what was given up after a failure, is lost, and the latter     *)
(* only of messages that no gate held back, of rejected requests and of    *)
(* what a discarded gate had held; nothing is shown twice (NothingLost).   *)
THEOREM NoMessageIsLost == Spec => []NothingLost
<1>1. IInv /\ AllAccounted => NothingLost
  <2> SUFFICES ASSUME IInv, AllAccounted PROVE NothingLost
    OBVIOUS
  <2>1. TypeOK /\ ShownInv /\ FailedInv
    BY DEF IInv, Core
  <2>2. \A s \in 1..admitted : s \in Accounted
    BY <2>1, AccountedMeans DEF AllAccounted
  <2> QED BY <2>1, <2>2 DEF ShownInv, FailedInv, NothingLost, Accounted
<1> QED BY <1>1, AccountedAlways, PTL

-----------------------------------------------------------------------------
(* When a gate goes. *)

LEMMA OnlyDrainsRemove ==
  ASSUME IInv, [Next]_vars, NEW th \in Threads, HasGate(th), gates'[th] = NoGate,
         gates[th].cmd \in answered, ~closed', Discarding' \subseteq Discarding
  PROVE  \E who \in Commands \cup {"retry"} : DrainFinishes(who, th)
<1> DEFINE Goal == \E who \in Commands \cup {"retry"} : DrainFinishes(who, th)
<1>0. TypeOK /\ OwnerInv /\ gates \in [Threads -> Gate]
  BY DEF IInv, Core, TypeOK
<1>1. gates'[th].cmd # gates[th].cmd
  <2>1. gates'[th].cmd = None
    BY DEF NoGate
  <2> QED BY <2>1 DEF HasGate
<1>2. CASE Receive \/ Reset \/ Close \/ UNCHANGED vars
  BY <1>1, <1>2 DEF Receive, Reset, Close, vars
<1>3. ASSUME NEW t \in Threads, DrainSends(t) \/ DrainRejects(t) \/ DrainSendFails(t)
      PROVE  FALSE
  <2> DEFINE g == gates[t]
             h == g.hand
             open == g.open \/ Len(g.buffer) < Limit
             back == <<h>> \o g.buffer
             ready == g.ready \cup {h}
             sent == [g EXCEPT !.hand = 0, !.by = None, !.open = open]
             kept == [g EXCEPT !.hand = 0, !.by = None, !.buffer = back, !.open = FALSE,
                               !.ready = ready, !.retry = TRUE]
  <2>1. gates'[t] \in {sent, kept} /\ \A u \in Threads \ {t} : gates'[u] = gates[u]
    BY <1>0, <1>3 DEF DrainSends, DrainRejects, DrainSendFails
  <2>2. sent.cmd = g.cmd /\ kept.cmd = g.cmd
    <3> HIDE DEF open, back, ready
    <3> QED BY <1>0 DEF Gate
  <2> HIDE DEF sent, kept
  <2> QED BY <1>1, <2>1, <2>2
<1>4. ASSUME NEW k \in Kinds, Lane(k) PROVE FALSE
  <2>1. CASE UNCHANGED gates
    BY <1>1, <2>1
  <2>2. CASE Offer(k)
    <3>1. gates'[th].cmd = gates[th].cmd
      BY <1>0, <2>2 DEF Offer, IsBuffered, Gate
    <3> QED BY <1>1, <3>1
  <2> QED BY <1>4, <2>1, <2>2 DEF Lane, Dispatch, Admit, Wakes, LiveEnds, LiveFails
<1>5. ASSUME NEW c \in Commands, NEW then, Abandoned(c, then) PROVE FALSE
  <2>1. CASE Owns(c) /\ Wants[c] = th
    <3>1. cmd[c].phase \in {"attaching", "reading"} /\ c = gates[th].cmd
      BY <1>5, <2>1 DEF Abandoned, Owns
    <3> QED BY <1>0, <3>1 DEF OwnerInv, AnsweredInv
  <2>2. CASE ~(Owns(c) /\ Wants[c] = th)
    <3>1. gates'[th] = gates[th]
      BY <1>0, <1>5, <2>2 DEF Abandoned, Discard
    <3> QED BY <1>1, <3>1
  <2> QED BY <2>1, <2>2
<1>6. ASSUME NEW c \in Commands, Attached(c) \/ HistoryRead(c) \/ Responds(c) PROVE FALSE
  <2>1. CASE Attached(c) \/ HistoryRead(c)
    <3>1. Sealed(c)
      BY <2>1 DEF Attached, HistoryRead
    <3>2. gates'[th].cmd = gates[th].cmd
      BY <1>0, <3>1 DEF Sealed, Gate
    <3> QED BY <1>1, <3>2
  <2>2. CASE Responds(c)
    <3>1. gates'[th] = gates[th] \/ gates'[th] = [gates[th] EXCEPT !.delivered = TRUE]
      BY <2>2 DEF Responds
    <3>2. gates'[th].cmd = gates[th].cmd
      BY <1>0, <3>1 DEF Gate
    <3> QED BY <1>1, <3>2
  <2> QED BY <1>6, <2>1, <2>2
<1>7. ASSUME NEW c \in Commands, Begin(c) PROVE FALSE
  <2>1. gates'[th] = gates[th]
    BY <1>0, <1>7 DEF Begin
  <2> QED BY <1>1, <2>1
<1>8. ASSUME NEW c \in Commands,
             \/ DiscardStep(c) \/ DiscardFails(c) \/ DiscardCancelled(c)
             \/ ResponseFails(c) \/ DrainEnds(c) \/ Redelivered(c)
      PROVE  FALSE
  BY <1>1, <1>8 DEF DiscardStep, DiscardFails, DiscardCancelled, ResponseFails, DrainEnds,
                    Redelivered
<1>9. ASSUME NEW c \in Commands, DrainCancelled(c) PROVE FALSE
  <2>1. PICK b, after :
          cmd' = [cmd EXCEPT ![c] = [phase |-> "discarding", left |-> b, then |-> after]]
    BY <1>9 DEF DrainCancelled, Discard, GateOfRoute
  <2> DEFINE now == [phase |-> "discarding", left |-> b, then |-> after]
  <2>2. now.phase = "discarding"
    OBVIOUS
  <2> HIDE DEF now
  <2>3. cmd'[c] = now
    BY <1>0, <2>1 DEF TypeOK, now
  <2>4. c \in Discarding'
    BY <2>2, <2>3 DEF Discarding
  <2>5. cmd[c].phase = "draining"
    BY <1>9 DEF DrainCancelled
  <2> QED BY <2>4, <2>5 DEF Discarding
<1>10. ASSUME NEW who \in Commands \cup {"retry"}, NEW t \in Threads,
              DrainTakes(who, t) \/ DrainFinishes(who, t)
       PROVE  Goal
  <2>1. CASE DrainTakes(who, t)
    <3>1. gates'[th].cmd = gates[th].cmd
      BY <1>0, <2>1 DEF DrainTakes, Gate
    <3> QED BY <1>1, <3>1
  <2>2. CASE DrainFinishes(who, t) /\ t # th
    <3>1. gates'[th] = gates[th]
      BY <1>0, <2>2 DEF DrainFinishes
    <3> QED BY <1>1, <3>1
  <2> QED BY <1>10, <2>1, <2>2
<1> QED BY <1>2, <1>3, <1>4, <1>5, <1>6, <1>7, <1>8, <1>9, <1>10
        DEF Next, SendEnds, Answer, AttachFails, CommandCancelled, Drain

(* What a drain has left when it removes its gate.                         *)
LEMMA FinishedMeans ==
  ASSUME IInv, AllAccounted, NEW th \in Threads, HasGate(th), gates[th].cmd \in answered,
         NEW who, DrainFinishes(who, th),
         NEW s \in 1..sealed[gates[th].cmd], wire[s].thread = th
  PROVE  s \in Outputs \cup live \cup dropped' \cup failed' \cup strays'
<1> DEFINE c == gates[th].cmd
<1>0. TypeOK /\ OwnerInv /\ KeptFresh /\ LeftApart /\ LiveInv /\ c \in Commands
  <2>1. TypeOK /\ OwnerInv /\ KeptFresh /\ LeftApart /\ LiveInv
    BY DEF IInv, Core
  <2>2. gates[th] \in Gate
    BY <2>1 DEF TypeOK
  <2> QED BY <2>1, <2>2 DEF HasGate, Gate
<1>1. sealed[c] = gates[th].release
  BY <1>0 DEF OwnerInv, Owned, AnsweredInv
<1>2. sealed[c] \in Nat /\ admitted \in Nat /\ sealed[c] <= admitted
  BY <1>0, <1>1 DEF DrainFinishes, TypeOK
<1>3. s \in 1..admitted
  BY <1>2
<1>4. \/ s \in Outputs \cup dropped \cup failed \/ Stored(s) \/ \E k \in Kinds : s \in Live(k)
  BY <1>3 DEF AllAccounted
<1>5. ~\E t \in Threads : s \in Kept(t)
  <2>1. \A t \in Threads : s \in Kept(t) => t = th
    BY <1>0 DEF KeptFresh
  <2>2. Kept(th) = {}
    BY DEF DrainFinishes, Kept, Popped, Range
  <2> QED BY <2>1, <2>2
<1>6. \A d \in Commands : s \in Left(d) => s \in strays
  BY <1>0 DEF LeftApart
<1>7. \A k \in Kinds : s \in Live(k) => s \in live
  BY <1>0 DEF LiveInv, Presented, Live
<1> QED BY <1>4, <1>5, <1>6, <1>7 DEF Stored, DrainFinishes

(* A gate is not removed before what was received when native last         *)
(* answered its command, and did not pass before the gate stood, has been  *)
(* handed over, from whichever lane (HandoffIsComplete), unless the gate   *)
(* is discarded or the bridge ends.                                        *)
THEOREM HandoffsAreComplete == Spec => HandoffIsComplete
<1> DEFINE A == \A th \in Threads :
                  LET c == gates[th].cmd
                  IN  /\ HasGate(th) /\ gates'[th] = NoGate /\ c \in answered
                      /\ ~closed' /\ Discarding' \subseteq Discarding
                      => \A s \in 1..sealed[c] :
                           wire[s].thread = th =>
                             s \in Outputs \cup live \cup dropped' \cup failed' \cup strays'
<1>1. IInv /\ AllAccounted /\ [Next]_vars => A
  <2> SUFFICES ASSUME IInv, AllAccounted, [Next]_vars, NEW th \in Threads, HasGate(th),
                      gates'[th] = NoGate, gates[th].cmd \in answered, ~closed',
                      Discarding' \subseteq Discarding,
                      NEW s \in 1..sealed[gates[th].cmd], wire[s].thread = th
               PROVE  s \in Outputs \cup live \cup dropped' \cup failed' \cup strays'
    OBVIOUS
  <2>1. PICK who \in Commands \cup {"retry"} : DrainFinishes(who, th)
    BY OnlyDrainsRemove
  <2> QED BY <2>1, FinishedMeans
<1>2. IInv /\ AllAccounted /\ [Next]_vars => [A]_vars
  BY <1>1
<1> QED BY <1>2, AccountedAlways, PTL DEF Spec, HandoffIsComplete
=============================================================================
