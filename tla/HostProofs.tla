------------------------------ MODULE HostProofs ------------------------------
(***************************************************************************)
(* Processes and settings of one host, for any number of processes and of  *)
(* those who edit.  A restart never has two bridges, and as long as starts *)
(* wait for each other there is one; a bridge that has crossed no other    *)
(* has the run directory, and leaves nothing behind; a script becomes a    *)
(* bridge only on the core that its manifest names; native settings stay   *)
(* what the catalog offers, .env stays usable, and nobody's choice or edit *)
(* is undone unseen.                                                       *)
(***************************************************************************)
EXTENDS Host, FiniteSetTheorems, WellFoundedInduction, TLAPS
-----------------------------------------------------------------------------
(* Bridges. *)

(* Those that use the run directory and the data: they have found the port free
   and have not ended. *)
Owners == {b \in Bridges : process[b].at \in {"starting", "serving", "stopping"}}
(* Two of them have crossed each other: while one holds the port the other does
   not pass its check (composition.py:254-285). *)
Apart == \A a, b \in Owners : a = b \/ b \in crossed
(* Who listens is up and knows that it has the port to give back. *)
PortIsHeld ==
  port \in Bridges =>
    process[port].at \in {"serving", "stopping"} /\ "port" \in process[port].undo

Parts == {"port", "channels", "service", "client", "flush", "observability", "credential",
          "files", "media"}
Places == {"none", "launched", "starting", "serving", "stopping", "exited", "crashed"}
BridgeRecords == [at : Places, n : Nat, undo : SUBSET Parts, failed : SUBSET Parts,
                  dirty : BOOLEAN, term : BOOLEAN]
RunDirectories ==
  [snapshot : Bridges \union {Nobody}, credential : Bridges \union {Nobody}]
MakesChanges == {"channels", "service", "client"}

(* What a process still has to take down, by how far it has come.          *)
ToUndo(b) ==
  LET p == process[b]
  IN /\ p.at \in {"none", "launched"} => p.undo = {} /\ ~p.dirty /\ p.n = 1
     /\ p.at = "starting" => /\ p.n \in 1..7 /\ "port" \notin p.undo
                             /\ p.n >= 4 => OfRuntime \subseteq p.undo
                             /\ p.n >= 7 => "credential" \in p.undo
     /\ p.at = "serving" => port = b /\ "credential" \in p.undo /\ OfRuntime \subseteq p.undo
     /\ p.at = "stopping" /\ "port" \in p.undo => port = b
     /\ p.at = "exited" => p.undo = {}
     /\ "port" \in p.undo => p.n >= 4
     /\ p.undo \intersect MakesChanges # {} => "flush" \in p.undo
     /\ p.dirty => \/ "flush" \in p.undo
                   \/ p.failed \intersect (MakesChanges \union {"flush"}) # {}
(* Whose launch.json and whose token are in run/current: those of a bridge that
   has not crossed another one are not touched by anybody else.            *)
InCurrent(b) ==
  LET p == process[b]
  IN /\ b \in Owners \ crossed /\ p.n >= 4 => current.snapshot = b
     /\ b \notin crossed /\ (p.at = "serving" \/ (p.at = "starting" /\ p.n >= 7))
          => current.credential = b
     /\ current.credential = b => p.at = "crashed" \/ "credential" \in p.undo

(* A restart command has a process to replace, and an id for the one to    *)
(* launch; when it launches the old process has ended.                     *)
Steps == {"wanted", "preflight", "verify", "signal", "wait", "launch", "health", "done"}
CommandRecords ==
  [at : Steps, old : Bridges \union {Nobody}, new : Bridges \union {Nobody},
   said : {"nothing", "failed", "healthy"}]
CommandInv(k) ==
  LET c == restart[k]
  IN /\ c.at \notin {"wanted", "done"} => c.old \in Bridges
     /\ c.at = "launch" \/ c.new # Nobody => c.old \in Bridges /\ Ended(c.old)
     /\ c.at = "health" => c.new \in Bridges
     /\ c.at \notin {"health", "done"} => c.new = Nobody
RestartInv ==
  /\ restart \in [RestartCommands -> CommandRecords]
  /\ \A k \in RestartCommands : CommandInv(k)
  /\ Cardinality(Unused) >= Cardinality(Reserving)
RunInv ==
  /\ process \in [Bridges -> BridgeRecords] /\ current \in RunDirectories
  /\ crossed \subseteq Bridges /\ Apart /\ PortIsHeld
  /\ \A b \in Bridges : ToUndo(b) /\ InCurrent(b)
  /\ RestartInv

LEMMA PartsDiffer ==
  /\ OfRuntime = {"channels", "service", "client", "flush", "observability"}
  /\ Len(StopOrder) = 9 /\ \A i \in 1..9 : StopOrder[i] \in Parts
  /\ \A part \in Parts : \E i \in 1..9 : StopOrder[i] = part
  /\ \A i \in 1..9 : StopOrder[i] = "flush" <=> i = 5
  /\ StopOrder[2] = "channels" /\ StopOrder[3] = "service" /\ StopOrder[4] = "client"
BY DEF OfRuntime, StopOrder, Parts

LEMMA LeastIsThere ==
  ASSUME NEW I, I # {}, I \subseteq Nat
  PROVE  \E m \in I : \A i \in I : m <= i
<1> DEFINE R == OpToRel(<, Nat)
<1>1. IsWellFoundedOn(R, Nat)
  BY NatLessThanWellFounded, Zenon
<1>2. R = {ss \in Nat \X Nat : ss[1] < ss[2]}
  BY DEF OpToRel
<1> HIDE DEF R
<1>3. PICK m \in I : \A i \in I : ~(<<i, m>> \in R)
  BY <1>1, WFMin
<1>4. \A i \in I : ~(i < m)
  BY <1>2, <1>3
<1> QED BY <1>4

(* The store is flushed after what changes it is down.                     *)
LEMMA TakenDown ==
  ASSUME NEW b \in Bridges, process[b].undo \subseteq Parts, process[b].undo # {}
  PROVE  /\ NextDown(b) \in process[b].undo
         /\ NextDown(b) = "flush" => process[b].undo \intersect MakesChanges = {}
<1> DEFINE I == {i \in 1..Len(StopOrder) : StopOrder[i] \in process[b].undo}
           n == Min(I)
<1>1. Len(StopOrder) = 9 /\ I \subseteq 1..9 /\ I # {}
  BY PartsDiffer
<1>2. \E m \in I : \A i \in I : m <= i
  <2>1. I \subseteq Nat
    BY <1>1
  <2> QED BY <1>1, <2>1, LeastIsThere
<1>3. n \in I /\ \A i \in I : n <= i
  BY <1>2 DEF Min
<1>4. NextDown(b) = StopOrder[n]
  BY DEF NextDown
<1> HIDE DEF n
<1>5. StopOrder[n] \in process[b].undo /\ n \in 1..9
  BY <1>1, <1>3
<1>6. ASSUME StopOrder[n] = "flush"
      PROVE  process[b].undo \intersect MakesChanges = {}
  <2>1. n = 5
    BY <1>5, <1>6, PartsDiffer
  <2>2. 2 \notin I /\ 3 \notin I /\ 4 \notin I
    BY <1>3, <2>1
  <2>3. 2 \in 1..Len(StopOrder) /\ 3 \in 1..Len(StopOrder) /\ 4 \in 1..Len(StopOrder)
    BY <1>1
  <2>4. {"channels", "service", "client"} \intersect process[b].undo = {}
    BY <2>2, <2>3, PartsDiffer
  <2> QED BY <2>4 DEF MakesChanges
<1> QED BY <1>4, <1>5, <1>6

(* Nothing of the others depends on what a living bridge becomes.          *)
LEMMA RunsOn ==
  ASSUME RunInv, Nobody \notin Bridges, NEW b \in Alive, NEW p \in BridgeRecords,
         p.at # "none", process' = [process EXCEPT ![b] = p], UNCHANGED restart,
         crossed' \subseteq Bridges, crossed \subseteq crossed', Apart',
         current' \in RunDirectories, b \in Owners \/ UNCHANGED current,
         current'.credential \in {current.credential, Nobody, b},
         port' = port \/ (port \in {Nobody, b} /\ port' \in {Nobody, b}),
         port' = b => p.at \in {"serving", "stopping"} /\ "port" \in p.undo,
         ToUndo(b)', InCurrent(b)'
  PROVE  RunInv'
<1>1. b \in Bridges /\ process[b].at # "none" /\ ~Ended(b)
  BY DEF Alive, Is
<1>2. process' \in [Bridges -> BridgeRecords]
  BY DEF RunInv
<1>3. process'[b] = p /\ \A a \in Bridges \ {b} : process'[a] = process[a]
  BY <1>1 DEF RunInv
<1>4. ASSUME NEW a \in Bridges \ {b} PROVE ToUndo(a)' /\ InCurrent(a)'
  <2>1. ToUndo(a) /\ InCurrent(a) /\ process'[a] = process[a]
    BY <1>3 DEF RunInv
  <2>2. \/ process[a].at = "serving"
        \/ process[a].at = "stopping" /\ "port" \in process[a].undo
        => port' = a
    BY <2>1, Nobody \notin Bridges DEF ToUndo
  <2>3. ToUndo(a)'
    BY <2>1, <2>2 DEF ToUndo
  <2>4. a \in Owners' <=> a \in Owners
    BY <2>1 DEF Owners
  <2>5. a \in Owners \ crossed' => UNCHANGED current
    BY DEF RunInv, Apart
  <2>6. current'.credential = a => current.credential = a
    BY Nobody \notin Bridges
  <2>7. process[a].at \in {"serving", "starting"} => a \in Owners
    BY DEF Owners
  <2>8. InCurrent(a)'
    BY <2>1, <2>4, <2>5, <2>6, <2>7 DEF InCurrent
  <2> QED BY <2>3, <2>8
<1>5. Unused' = Unused
  BY <1>1, <1>3 DEF Unused, Is
<1>6. \A a \in Bridges : Ended(a) => Ended(a)'
  BY <1>1, <1>3 DEF Ended
<1>7. RestartInv'
  BY <1>5, <1>6 DEF RunInv, RestartInv, CommandInv, Reserving, Ended
<1>8. PortIsHeld'
  BY <1>1, <1>3, Nobody \notin Bridges DEF RunInv, PortIsHeld
<1>9. \A a \in Bridges : ToUndo(a)' /\ InCurrent(a)'
  BY <1>4
<1> QED BY <1>2, <1>7, <1>8, <1>9 DEF RunInv

(* What a process becomes, field by field.                                 *)
Became(at, n, undo, failed, dirty, term) ==
  [at |-> at, n |-> n, undo |-> undo, failed |-> failed, dirty |-> dirty, term |-> term]
Changed(b, p) == [process EXCEPT ![b] = p]
LEMMA ProcessFields ==
  ASSUME RunInv, NEW b \in Bridges
  PROVE  LET p == process[b]
         IN /\ p \in BridgeRecords /\ p = Became(p.at, p.n, p.undo, p.failed, p.dirty, p.term)
            /\ \A parts : Undoes(b, parts) = Changed(b,
                 Became(p.at, p.n + 1, p.undo \union parts, p.failed, p.dirty, p.term))
            /\ \A parts : GivesUp(b, parts) = Changed(b,
                 Became("stopping", p.n, p.undo \union parts, p.failed, p.dirty, p.term))
            /\ \A at : [process EXCEPT ![b].at = at] = Changed(b,
                 Became(at, p.n, p.undo, p.failed, p.dirty, p.term))
            /\ \A x : [process EXCEPT ![b].term = x] = Changed(b,
                 Became(p.at, p.n, p.undo, p.failed, p.dirty, x))
            /\ \A x : [process EXCEPT ![b].dirty = x] = Changed(b,
                 Became(p.at, p.n, p.undo, p.failed, x, p.term))
<1>1. process[b] \in BridgeRecords
  BY DEF RunInv
<1>2. process[b] = Became(process[b].at, process[b].n, process[b].undo, process[b].failed,
                          process[b].dirty, process[b].term)
  BY <1>1 DEF BridgeRecords, Became
<1>3. ASSUME NEW parts
      PROVE  Undoes(b, parts) = [process EXCEPT ![b] =
               Became(process[b].at, process[b].n + 1, process[b].undo \union parts,
                      process[b].failed, process[b].dirty, process[b].term)]
  <2> DEFINE q == [process[b] EXCEPT !.n = @ + 1]
             r == [q EXCEPT !.undo = @ \union parts]
  <2>1. Undoes(b, parts) = [process EXCEPT ![b] = r]
    BY DEF Undoes, RunInv
  <2>2. q = Became(process[b].at, process[b].n + 1, process[b].undo, process[b].failed,
                   process[b].dirty, process[b].term)
    BY <1>1 DEF BridgeRecords, Became
  <2> HIDE DEF q
  <2>3. q.undo = process[b].undo
    BY <2>2 DEF Became
  <2>4. r = [q EXCEPT !.undo = process[b].undo \union parts]
    BY <2>3
  <2>5. \A u : [q EXCEPT !.undo = u] = Became(process[b].at, process[b].n + 1, u,
                                   process[b].failed, process[b].dirty, process[b].term)
    BY <2>2 DEF Became
  <2>6. r = Became(process[b].at, process[b].n + 1, process[b].undo \union parts,
                   process[b].failed, process[b].dirty, process[b].term)
    BY <2>4, <2>5
  <2> QED BY <2>1, <2>6 DEF q
<1>4. ASSUME NEW parts
      PROVE  GivesUp(b, parts) = [process EXCEPT ![b] =
               Became("stopping", process[b].n, process[b].undo \union parts,
                      process[b].failed, process[b].dirty, process[b].term)]
  <2> DEFINE q == [process[b] EXCEPT !.at = "stopping"]
             r == [q EXCEPT !.undo = @ \union parts]
  <2>1. GivesUp(b, parts) = [process EXCEPT ![b] = r]
    BY DEF GivesUp, RunInv
  <2>2. q = Became("stopping", process[b].n, process[b].undo, process[b].failed,
                   process[b].dirty, process[b].term)
    BY <1>1 DEF BridgeRecords, Became
  <2> HIDE DEF q
  <2>3. q.undo = process[b].undo
    BY <2>2 DEF Became
  <2>4. r = [q EXCEPT !.undo = process[b].undo \union parts]
    BY <2>3
  <2>5. \A u : [q EXCEPT !.undo = u] = Became("stopping", process[b].n, u,
                                   process[b].failed, process[b].dirty, process[b].term)
    BY <2>2 DEF Became
  <2>6. r = Became("stopping", process[b].n, process[b].undo \union parts,
                   process[b].failed, process[b].dirty, process[b].term)
    BY <2>4, <2>5
  <2> QED BY <2>1, <2>6 DEF q
<1>5. \A at : [process[b] EXCEPT !.at = at] = Became(at, process[b].n, process[b].undo,
                process[b].failed, process[b].dirty, process[b].term)
  BY <1>1 DEF BridgeRecords, Became
<1>6. \A x : [process[b] EXCEPT !.term = x] = Became(process[b].at, process[b].n,
                process[b].undo, process[b].failed, process[b].dirty, x)
  BY <1>1 DEF BridgeRecords, Became
<1>7. \A x : [process[b] EXCEPT !.dirty = x] = Became(process[b].at, process[b].n,
                process[b].undo, process[b].failed, x, process[b].term)
  BY <1>1 DEF BridgeRecords, Became
<1> QED BY <1>1, <1>2, <1>3, <1>4, <1>5, <1>6, <1>7 DEF Changed

LEMMA BecameFields ==
  ASSUME NEW at, NEW n, NEW undo, NEW failed, NEW dirty, NEW term,
         at \in {"none", "launched", "starting", "serving", "stopping", "exited", "crashed"},
         n \in Nat, undo \subseteq Parts, failed \subseteq Parts, dirty \in BOOLEAN,
         term \in BOOLEAN
  PROVE  LET p == Became(at, n, undo, failed, dirty, term)
         IN /\ p \in BridgeRecords /\ p.at = at /\ p.n = n /\ p.undo = undo
            /\ p.failed = failed /\ p.dirty = dirty /\ p.term = term
BY DEF Became, BridgeRecords, Places

(* The place of a bridge that starts is in its number.                     *)
LEMMA StartPlace ==
  ASSUME RunInv, NEW b \in Bridges, NEW part, NextPart(b, part)
  PROVE  /\ b \in Alive /\ process[b].at = "starting" /\ process[b].n \in 1..7
         /\ part \in {"media", "files"} => process[b].n <= 2
         /\ part = "observability" => process[b].n = 3
         /\ part \in {"channels", "client"} => process[b].n \in 4..5
         /\ part = "credential" => process[b].n = 6
         /\ part = "port" => process[b].n = 7
<1>1. process[b].at = "starting" /\ ToUndo(b)
  BY DEF RunInv, NextPart, Is
<1>2. process[b].n \in 1..7
  BY <1>1 DEF ToUndo
<1>3. b \in Alive
  BY <1>1 DEF Alive, Is, Ended
<1>4. part = StartOrder[process[b].n]
  BY DEF NextPart
<1>5. \A i \in 1..7 :
        /\ StartOrder[i] \in {"media", "files"} => i <= 2
        /\ StartOrder[i] = "observability" => i = 3
        /\ StartOrder[i] \in {"channels", "client"} => i \in 4..5
        /\ StartOrder[i] = "credential" => i = 6
        /\ StartOrder[i] = "port" => i = 7
  BY DEF StartOrder
<1> QED BY <1>1, <1>2, <1>3, <1>4, <1>5

LEMMA ChecksRuns ==
  ASSUME RunInv, Nobody \notin Bridges, NEW b \in Bridges, Checks(b)
  PROVE  RunInv'
<1> DEFINE p == process[b]
<1>1. b \in Alive /\ p.at = "launched"
  BY DEF Checks, Alive, Is, Ended
<1>2. PICK at \in {"starting", "exited"} : process' = [process EXCEPT ![b].at = at]
  BY DEF Checks
<1> DEFINE q == Became(at, p.n, p.undo, p.failed, p.dirty, p.term)
<1>3. p \in BridgeRecords /\ process' = [process EXCEPT ![b] = q]
  BY <1>2, ProcessFields DEF Changed
<1>4. q \in BridgeRecords /\ q.at = at /\ q.n = p.n /\ q.undo = p.undo /\ q.dirty = p.dirty
  BY <1>3, BecameFields DEF BridgeRecords, Places
<1>5. process'[b] = q /\ \A a \in Bridges \ {b} : process'[a] = process[a]
  BY <1>3 DEF RunInv
<1> HIDE DEF q
<1>6. UNCHANGED <<port, current, restart>>
  BY DEF Checks
<1>7. ToUndo(b) /\ InCurrent(b)
  BY DEF RunInv
<1>8. ToUndo(b)'
  BY <1>1, <1>4, <1>5, <1>7 DEF ToUndo
<1>9. p.undo = {} /\ p.n = 1
  BY <1>1, <1>7 DEF ToUndo
<1>10. InCurrent(b)'
  BY <1>1, <1>4, <1>5, <1>6, <1>7, <1>9 DEF InCurrent
<1>11. crossed \subseteq crossed' /\ crossed' \subseteq Bridges
  BY DEF Checks, Crossing, OffPort, RunInv
<1>12. Apart'
  <2>1. CASE UNCHANGED crossed /\ process' = [process EXCEPT ![b].at = "exited"]
    <3>1. process'[b].at = "exited"
      BY <2>1 DEF RunInv, BridgeRecords
    <3>2. Owners' \subseteq Owners
      BY <1>5, <3>1 DEF Owners
    <3> QED BY <2>1, <3>2 DEF RunInv, Apart
  <2>2. CASE PortIsFree /\ crossed' = Crossing(b)
    <3>1. Owners' \subseteq Owners \union {b}
      BY <1>5 DEF Owners
    <3>2. ASSUME NEW a \in Owners PROVE a \in OffPort
      <4>1. a \in Bridges /\ ToUndo(a)
        BY DEF Owners, RunInv
      <4>2. process[a].at # "serving"
        BY <2>2, <4>1 DEF PortIsFree, ToUndo
      <4> QED BY <4>1, <4>2 DEF Owners, OffPort
    <3>3. ASSUME NEW a \in Owners' , NEW c \in Owners', a # c PROVE c \in crossed'
      <4>1. OffPort # {} /\ c \in OffPort \union {b}
        BY <3>1, <3>2, <3>3
      <4> QED BY <2>2, <4>1 DEF Crossing
    <3> QED BY <3>3 DEF Apart
  <2> QED BY <2>1, <2>2 DEF Checks
<1>13. current \in RunDirectories /\ (port' = b => FALSE)
  BY <1>1, <1>6 DEF RunInv, PortIsHeld
<1>14. q.at # "none"
  BY <1>4
<1> QED BY <1>1, <1>3, <1>4, <1>6, <1>8, <1>10, <1>11, <1>12, <1>13, <1>14, RunsOn

(* What a step of a living bridge has to show, field by field.             *)
Sensible(b, at, n, undo, failed, dirty, term) ==
  /\ at \in {"launched", "starting", "serving", "stopping", "exited", "crashed"}
  /\ n \in Nat /\ undo \subseteq Parts /\ failed \subseteq Parts /\ dirty \in BOOLEAN
  /\ term \in BOOLEAN
  /\ at = "launched" => undo = {} /\ ~dirty /\ n = 1
  /\ at = "starting" => /\ n \in 1..7 /\ "port" \notin undo
                        /\ n >= 4 => OfRuntime \subseteq undo
                        /\ n >= 7 => "credential" \in undo
  /\ at = "serving" => port' = b /\ "credential" \in undo /\ OfRuntime \subseteq undo
  /\ at = "stopping" /\ "port" \in undo => port' = b
  /\ at = "exited" => undo = {}
  /\ "port" \in undo => n >= 4
  /\ undo \intersect MakesChanges # {} => "flush" \in undo
  /\ dirty => "flush" \in undo \/ failed \intersect (MakesChanges \union {"flush"}) # {}
  /\ at \in {"starting", "serving", "stopping"} => b \in Owners
  /\ at \in {"starting", "serving", "stopping"} /\ n >= 4 /\ b \notin crossed
       => current'.snapshot = b
  /\ b \notin crossed /\ (at = "serving" \/ (at = "starting" /\ n >= 7))
       => current'.credential = b
  /\ current'.credential = b => at = "crashed" \/ "credential" \in undo
  /\ port' = port \/ (port \in {Nobody, b} /\ port' \in {Nobody, b})
  /\ port' = b => at \in {"serving", "stopping"} /\ "port" \in undo

LEMMA GoesOn ==
  ASSUME RunInv, Nobody \notin Bridges, NEW b \in Alive,
         NEW at, NEW n, NEW undo, NEW failed, NEW dirty, NEW term,
         Sensible(b, at, n, undo, failed, dirty, term),
         process' = Changed(b, Became(at, n, undo, failed, dirty, term)),
         UNCHANGED <<restart, crossed>>, current' \in RunDirectories,
         b \in Owners \/ UNCHANGED current,
         current'.credential \in {current.credential, Nobody, b}
  PROVE  RunInv'
<1> DEFINE p == Became(at, n, undo, failed, dirty, term)
<1>1. /\ p \in BridgeRecords /\ p.at = at /\ p.n = n /\ p.undo = undo
      /\ p.failed = failed /\ p.dirty = dirty /\ p.term = term
  BY BecameFields DEF Sensible, Places
<1>2. process' = [process EXCEPT ![b] = p]
  BY DEF Changed
<1> HIDE DEF p
<1>3. b \in Bridges
  BY DEF Alive
<1>4. process'[b] = p /\ \A a \in Bridges \ {b} : process'[a] = process[a]
  BY <1>2, <1>3 DEF RunInv
<1>5. ToUndo(b)'
  BY <1>1, <1>4 DEF ToUndo, Sensible
<1>6. InCurrent(b)'
  BY <1>1, <1>4 DEF InCurrent, Owners, Sensible
<1>7. at # "none" /\ (port' = b => p.at \in {"serving", "stopping"} /\ "port" \in p.undo)
      /\ (port' = port \/ (port \in {Nobody, b} /\ port' \in {Nobody, b}))
  BY <1>1 DEF Sensible
<1>8. Owners' \subseteq Owners
  BY <1>1, <1>4 DEF Owners, Sensible
<1>9. Apart' /\ crossed' = crossed /\ crossed \subseteq Bridges
  BY <1>8 DEF RunInv, Apart
<1> QED BY <1>1, <1>2, <1>5, <1>6, <1>7, <1>9, RunsOn

(* The fields of a process.                                                *)
LEMMA FieldTypes ==
  ASSUME RunInv, NEW b \in Bridges
  PROVE  LET p == process[b]
         IN /\ p.n \in Nat /\ p.undo \subseteq Parts /\ p.failed \subseteq Parts
            /\ p.dirty \in BOOLEAN /\ p.term \in BOOLEAN
            /\ p.at \in Places
            /\ current \in RunDirectories
            /\ ToUndo(b) /\ InCurrent(b)
BY DEF RunInv, BridgeRecords

(* A living bridge is not one that was, or is to be.                       *)
LEMMA AliveOwns ==
  ASSUME RunInv, NEW b \in Alive
  PROVE  /\ b \in Bridges /\ (process[b].at = "launched" \/ b \in Owners)
         /\ process[b].at \notin {"none", "exited", "crashed"}
         /\ port = b => /\ process[b].at \in {"serving", "stopping"}
                        /\ "port" \in process[b].undo
<1>1. b \in Bridges /\ process[b].at \in Places
  BY DEF RunInv, BridgeRecords, Alive
<1> QED BY <1>1 DEF Alive, Is, Ended, Owners, Places, RunInv, PortIsHeld

(* A bridge that starts gives up: whatever it has begun is taken down.     *)
LEMMA GivesUpRuns ==
  ASSUME RunInv, Nobody \notin Bridges, NEW b \in Alive, NEW parts,
         process[b].at = "starting" \/ process[b].at = "serving", parts \in {{}, OfRuntime},
         process' = GivesUp(b, parts), UNCHANGED <<restart, crossed, port>>,
         current' \in RunDirectories,
         current'.credential \in {current.credential, Nobody},
         process[b].n >= 4 => current' = current
  PROVE  RunInv'
<1> DEFINE p == process[b]
<1>1. b \in Bridges
  BY DEF Alive
<1>2. process' = Changed(b, Became("stopping", p.n, p.undo \union parts, p.failed,
                                   p.dirty, p.term))
  BY <1>1, ProcessFields
<1>3. OfRuntime \subseteq Parts /\ "flush" \in OfRuntime /\ "credential" \notin OfRuntime
      /\ "port" \notin OfRuntime
  BY DEF OfRuntime, Parts
<1>4. /\ p.n \in Nat /\ p.undo \subseteq Parts /\ p.failed \subseteq Parts
      /\ p.dirty \in BOOLEAN /\ p.term \in BOOLEAN /\ ToUndo(b) /\ InCurrent(b)
  BY <1>1, FieldTypes
<1>5. p.undo \union parts \subseteq Parts /\ ("port" \in p.undo \union parts => p.n >= 4)
  BY <1>3, <1>4 DEF ToUndo
<1>6. (p.undo \union parts) \intersect MakesChanges # {} => "flush" \in p.undo \union parts
  BY <1>3, <1>4 DEF ToUndo
<1>7. p.dirty => "flush" \in p.undo \union parts
                 \/ p.failed \intersect (MakesChanges \union {"flush"}) # {}
  BY <1>4 DEF ToUndo
<1>8. b \in Owners /\ (port' = b => "port" \in p.undo \union parts)
      /\ (p.n >= 4 /\ b \notin crossed => current'.snapshot = b)
  BY <1>4, AliveOwns DEF InCurrent
<1>9. current'.credential = b => "credential" \in p.undo \union parts
  BY <1>1, <1>4 DEF InCurrent
<1>11. "port" \in p.undo \union parts => port' = b
  BY <1>3, <1>4 DEF ToUndo
<1>10. Sensible(b, "stopping", p.n, p.undo \union parts, p.failed, p.dirty, p.term)
  BY <1>4, <1>5, <1>6, <1>7, <1>8, <1>9, <1>11 DEF Sensible
<1> HIDE DEF p
<1> QED BY <1>2, <1>8, <1>10, GoesOn

CurrentTyped == current' \in RunDirectories

LEMMA StartsRun ==
  ASSUME RunInv, Nobody \notin Bridges, NEW b \in Bridges,
         \/ StartsMaterializer(b) \/ StartsObservability(b) \/ StartsTransport(b)
         \/ PublishesCredential(b)
  PROVE  RunInv'
<1> DEFINE p == process[b]
<1>1. UNCHANGED <<port, restart, crossed>>
  BY DEF StartsMaterializer, StartsObservability, StartsTransport, PublishesCredential,
         historyVars
<1>2. /\ p.n \in Nat /\ p.undo \subseteq Parts /\ p.failed \subseteq Parts
      /\ p.dirty \in BOOLEAN /\ p.term \in BOOLEAN /\ ToUndo(b) /\ InCurrent(b)
      /\ current \in RunDirectories
  BY FieldTypes
<1>3. OfRuntime \subseteq Parts /\ "flush" \in OfRuntime /\ "credential" \notin OfRuntime
      /\ "port" \notin OfRuntime /\ {"media", "files", "credential"} \subseteq Parts
      /\ MakesChanges = {"channels", "service", "client"}
  BY DEF OfRuntime, Parts, MakesChanges
<1>4. b \in Alive /\ p.at = "starting" /\ p.n \in 1..7 /\ b \in Owners /\ port' # b
  BY <1>1, StartPlace, AliveOwns
     DEF StartsMaterializer, StartsObservability, StartsTransport, PublishesCredential
<1>5. \A parts : Undoes(b, parts) = Changed(b, Became(p.at, p.n + 1, p.undo \union parts,
                                              p.failed, p.dirty, p.term))
  BY ProcessFields
<1>6. CASE \E part \in {"media", "files"} : NextPart(b, part) /\ UNCHANGED current
             /\ (process' = Undoes(b, {part}) \/ process' = GivesUp(b, {}))
  <2>1. PICK part \in {"media", "files"} : NextPart(b, part) /\ UNCHANGED current
             /\ (process' = Undoes(b, {part}) \/ process' = GivesUp(b, {}))
    BY <1>6
  <2>2. p.n <= 2
    BY <2>1, StartPlace
  <2>3. CASE process' = Undoes(b, {part})
    <3>1. process' = Changed(b, Became(p.at, p.n + 1, p.undo \union {part}, p.failed, p.dirty,
                                       p.term))
      BY <1>5, <2>3
    <3>2. Sensible(b, p.at, p.n + 1, p.undo \union {part}, p.failed, p.dirty, p.term)
      BY <1>1, <1>2, <1>3, <1>4, <2>1, <2>2 DEF Sensible, ToUndo, InCurrent
    <3> HIDE DEF p
    <3> QED BY <1>1, <1>2, <1>4, <2>1, <3>1, <3>2, GoesOn
  <2>4. CASE process' = GivesUp(b, {})
    BY <1>1, <1>2, <1>4, <2>1, <2>4, GivesUpRuns
  <2> QED BY <2>1, <2>3, <2>4
<1>7. CASE StartsObservability(b)
  <2>1. NextPart(b, "observability")
    BY <1>7 DEF StartsObservability
  <2>2. p.n = 3
    BY <2>1, StartPlace
  <2> DEFINE fresh == [snapshot |-> b, credential |-> Nobody]
  <2>3. CASE current' = fresh /\ process' = Undoes(b, OfRuntime)
    <3>1. process' = Changed(b, Became(p.at, p.n + 1, p.undo \union OfRuntime, p.failed, p.dirty,
                                       p.term))
      BY <1>5, <2>3
    <3>2. Sensible(b, p.at, p.n + 1, p.undo \union OfRuntime, p.failed, p.dirty, p.term)
      BY <1>1, <1>2, <1>3, <1>4, <2>2, <2>3 DEF Sensible, ToUndo
    <3>3. CurrentTyped /\ current'.credential = Nobody
      BY <2>3 DEF CurrentTyped, RunDirectories
    <3> HIDE DEF p
    <3> QED BY <1>1, <1>4, <3>1, <3>2, <3>3, GoesOn DEF CurrentTyped
  <2>4. CASE /\ process' = GivesUp(b, OfRuntime)
             /\ current' \in {current, [fresh EXCEPT !.snapshot = Nobody], fresh}
    <3>1. CurrentTyped /\ current'.credential \in {current.credential, Nobody}
      BY <1>2, <2>4 DEF CurrentTyped, RunDirectories
    <3> QED BY <1>1, <1>4, <2>2, <2>4, <3>1, GivesUpRuns DEF CurrentTyped
  <2> QED BY <1>7, <2>3, <2>4 DEF StartsObservability
<1>8. CASE \E part \in {"channels", "client"} : NextPart(b, part) /\ UNCHANGED current
             /\ (process' = Undoes(b, {}) \/ process' = GivesUp(b, {}))
  <2>1. PICK part \in {"channels", "client"} : NextPart(b, part)
    BY <1>8
  <2>2. p.n \in 4..5
    BY <2>1, StartPlace
  <2>3. CASE process' = Undoes(b, {})
    <3>1. process' = Changed(b, Became(p.at, p.n + 1, p.undo, p.failed, p.dirty, p.term))
      BY <1>5, <2>3
    <3>2. Sensible(b, p.at, p.n + 1, p.undo, p.failed, p.dirty, p.term)
      BY <1>1, <1>2, <1>3, <1>4, <1>8, <2>2 DEF Sensible, ToUndo, InCurrent
    <3> HIDE DEF p
    <3> QED BY <1>1, <1>2, <1>4, <1>8, <3>1, <3>2, GoesOn
  <2> QED BY <1>1, <1>2, <1>4, <1>8, <2>3, GivesUpRuns
<1>9. CASE PublishesCredential(b)
  <2>1. NextPart(b, "credential")
    BY <1>9 DEF PublishesCredential
  <2>2. p.n = 6
    BY <2>1, StartPlace
  <2>3. CASE /\ current' = [current EXCEPT !.credential = b]
             /\ process' = Undoes(b, {"credential"})
    <3>1. process' = Changed(b, Became(p.at, p.n + 1, p.undo \union {"credential"}, p.failed,
                                       p.dirty, p.term))
      BY <1>5, <2>3
    <3>2. CurrentTyped /\ current'.credential = b /\ current'.snapshot = current.snapshot
      BY <1>2, <2>3 DEF CurrentTyped, RunDirectories
    <3>3. Sensible(b, p.at, p.n + 1, p.undo \union {"credential"}, p.failed, p.dirty, p.term)
      BY <1>1, <1>2, <1>3, <1>4, <2>2, <3>2 DEF Sensible, ToUndo, InCurrent
    <3> HIDE DEF p
    <3> QED BY <1>1, <1>4, <3>1, <3>2, <3>3, GoesOn DEF CurrentTyped
  <2>4. CASE process' = GivesUp(b, {}) /\ UNCHANGED current
    BY <1>1, <1>2, <1>4, <2>4, GivesUpRuns
  <2> QED BY <1>9, <2>3, <2>4 DEF PublishesCredential
<1> QED BY <1>6, <1>7, <1>8, <1>9 DEF StartsMaterializer, StartsTransport

LEMMA BindsRuns ==
  ASSUME RunInv, Nobody \notin Bridges, NEW b \in Bridges, BindsPort(b)
  PROVE  RunInv'
<1> DEFINE p == process[b]
<1>1. UNCHANGED <<current, restart, crossed>>
  BY DEF BindsPort, historyVars
<1>2. /\ p.n \in Nat /\ p.undo \subseteq Parts /\ p.failed \subseteq Parts
      /\ p.dirty \in BOOLEAN /\ p.term \in BOOLEAN /\ ToUndo(b) /\ InCurrent(b)
      /\ current \in RunDirectories
  BY FieldTypes
<1>3. b \in Alive /\ p.at = "starting" /\ p.n = 7 /\ b \in Owners
  BY StartPlace, AliveOwns DEF BindsPort
<1>4. CASE port = Nobody /\ port' = b /\ process' = [Undoes(b, {"port"}) EXCEPT ![b].at = "serving"]
  <2> DEFINE q == Became(p.at, p.n + 1, p.undo \union {"port"}, p.failed, p.dirty, p.term)
  <2>1. Undoes(b, {"port"}) = Changed(b, q)
    BY ProcessFields
  <2>2. ASSUME NEW n, NEW undo, q = Became(p.at, n, undo, p.failed, p.dirty, p.term)
        PROVE  [q EXCEPT !.at = "serving"]
                 = Became("serving", n, undo, p.failed, p.dirty, p.term)
    <3> HIDE DEF p, q
    <3> QED BY <2>2 DEF Became
  <2> HIDE DEF q
  <2>3. process' = Changed(b, [q EXCEPT !.at = "serving"])
    BY <1>4, <2>1 DEF Changed, RunInv
  <2>4. process' = Changed(b, Became("serving", p.n + 1, p.undo \union {"port"}, p.failed,
                                     p.dirty, p.term))
    <3>1. [q EXCEPT !.at = "serving"]
            = Became("serving", p.n + 1, p.undo \union {"port"}, p.failed, p.dirty, p.term)
      BY <2>2 DEF q
    <3> QED BY <2>3, <3>1
  <2>5. Sensible(b, "serving", p.n + 1, p.undo \union {"port"}, p.failed, p.dirty, p.term)
    BY <1>1, <1>2, <1>3, <1>4 DEF Sensible, ToUndo, InCurrent, Parts, MakesChanges
  <2> HIDE DEF p
  <2> QED BY <1>1, <1>2, <1>3, <2>4, <2>5, GoesOn
<1>5. CASE process' = GivesUp(b, {}) /\ UNCHANGED port
  BY <1>1, <1>2, <1>3, <1>5, GivesUpRuns
<1> QED BY <1>4, <1>5 DEF BindsPort

(* What is done is noted, or the process ends.                             *)
LEMMA OthersRun ==
  ASSUME RunInv, Nobody \notin Bridges, NEW b \in Bridges,
         ChangesStore(b) \/ StopsServing(b) \/ Exits(b) \/ Dies(b) \/ OperatorStops(b)
  PROVE  RunInv'
<1> DEFINE p == process[b]
<1>1. UNCHANGED <<current, restart, crossed>>
  BY DEF historyVars, ChangesStore, StopsServing, Exits, Dies, OperatorStops
<1>2. /\ p.n \in Nat /\ p.undo \subseteq Parts /\ p.failed \subseteq Parts
      /\ p.dirty \in BOOLEAN /\ p.term \in BOOLEAN /\ ToUndo(b) /\ InCurrent(b)
      /\ p.at \in Places
      /\ current \in RunDirectories
  BY FieldTypes
<1>3. OfRuntime \subseteq Parts /\ "flush" \in OfRuntime
      /\ MakesChanges = {"channels", "service", "client"}
  BY DEF OfRuntime, Parts, MakesChanges
<1>0. b \in Alive => /\ p.at = "launched" \/ b \in Owners
                     /\ p.at \notin {"none", "exited", "crashed"}
                     /\ port = b => p.at \in {"serving", "stopping"} /\ "port" \in p.undo
  BY AliveOwns
<1>4. CASE ChangesStore(b)
  <2>1. process' = Changed(b, Became(p.at, p.n, p.undo, p.failed, TRUE, p.term))
    BY <1>4, ProcessFields DEF ChangesStore
  <2>2. /\ b \in Alive /\ p.n >= 4 /\ port' = port
        /\ p.at \notin {"none", "launched", "exited", "crashed"}
    BY <1>2, <1>4 DEF ChangesStore, Alive, Is, Ended, ToUndo
  <2>3. "flush" \in p.undo
    BY <1>2, <1>3, <1>4, <2>2 DEF ChangesStore, Is, ToUndo, Places
  <2>4. Sensible(b, p.at, p.n, p.undo, p.failed, TRUE, p.term)
    BY <1>0, <1>1, <1>2, <2>2, <2>3 DEF Sensible, ToUndo, InCurrent, Places
  <2> HIDE DEF p
  <2> QED BY <1>1, <1>2, <2>1, <2>2, <2>4, GoesOn
<1>5. CASE StopsServing(b)
  <2>1. b \in Alive /\ p.at = "serving" /\ process' = GivesUp(b, {}) /\ UNCHANGED port
    BY <1>5 DEF StopsServing, Alive, Is, Ended
  <2> QED BY <1>1, <1>2, <2>1, GivesUpRuns
<1>6. CASE Exits(b)
  <2>1. process' = Changed(b, Became("exited", p.n, p.undo, p.failed, p.dirty, p.term))
    BY <1>6, ProcessFields DEF Exits
  <2>2. b \in Alive /\ p.at = "stopping" /\ p.undo = {} /\ port' = port
    BY <1>6 DEF Exits, Alive, Is, Ended
  <2>3. Sensible(b, "exited", p.n, p.undo, p.failed, p.dirty, p.term)
    BY <1>0, <1>1, <1>2, <2>2 DEF Sensible, ToUndo, InCurrent
  <2> HIDE DEF p
  <2> QED BY <1>1, <1>2, <2>1, <2>2, <2>3, GoesOn
<1>7. CASE /\ b \in Alive /\ process' = [process EXCEPT ![b].at = "crashed"]
           /\ port' = IF port = b THEN Nobody ELSE port
  <2>1. process' = Changed(b, Became("crashed", p.n, p.undo, p.failed, p.dirty, p.term))
    BY <1>7, ProcessFields
  <2>2. Sensible(b, "crashed", p.n, p.undo, p.failed, p.dirty, p.term)
    BY <1>0, <1>1, <1>2, <1>7, Nobody \notin Bridges DEF Sensible, ToUndo, InCurrent
  <2> HIDE DEF p
  <2> QED BY <1>1, <1>2, <1>7, <2>1, <2>2, GoesOn
<1>8. CASE OperatorStops(b) /\ ~Is(b, "launched") /\ process' = [process EXCEPT ![b].term = TRUE]
  <2>1. process' = Changed(b, Became(p.at, p.n, p.undo, p.failed, p.dirty, TRUE))
    BY <1>8, ProcessFields
  <2>2. b \in Alive /\ p.at # "none" /\ port' = port
    BY <1>8 DEF OperatorStops, Alive, Is
  <2>3. p.at \notin {"none", "exited", "crashed"}
    BY <2>2 DEF Alive, Is, Ended
  <2>4. Sensible(b, p.at, p.n, p.undo, p.failed, p.dirty, TRUE)
    BY <1>0, <1>1, <1>2, <1>8, <2>2, <2>3
       DEF OperatorStops, Is, Sensible, ToUndo, InCurrent, Places
  <2> HIDE DEF p
  <2> QED BY <1>1, <1>2, <2>1, <2>2, <2>4, GoesOn
<1>9. CASE Dies(b)
  BY <1>7, <1>9 DEF Dies
<1>10. CASE OperatorStops(b)
  <2>1. CASE Is(b, "launched")
    <3>1. port # b /\ b \in Alive /\ UNCHANGED port
          /\ process' = [process EXCEPT ![b].at = "crashed"]
      BY <1>0, <1>10, <2>1 DEF OperatorStops, Is
    <3> QED BY <1>7, <3>1
  <2>2. CASE ~Is(b, "launched")
    BY <1>8, <1>10, <2>2 DEF OperatorStops
  <2> QED BY <2>1, <2>2
<1> QED BY <1>4, <1>5, <1>6, <1>9, <1>10

LEMMA StopsPartRuns ==
  ASSUME RunInv, Nobody \notin Bridges, NEW b \in Bridges, StopsPart(b)
  PROVE  RunInv'
<1> DEFINE p == process[b]
<1>1. /\ p.n \in Nat /\ p.undo \subseteq Parts /\ p.failed \subseteq Parts
      /\ p.dirty \in BOOLEAN /\ p.term \in BOOLEAN /\ ToUndo(b) /\ InCurrent(b)
      /\ current \in RunDirectories
  BY FieldTypes
<1>2. b \in Alive /\ p.at = "stopping" /\ p.undo # {} /\ UNCHANGED <<restart, crossed>>
      /\ b \in Owners /\ (port = b => "port" \in p.undo)
  BY AliveOwns DEF StopsPart, Alive, Is, Ended, Owners, historyVars, RunInv, PortIsHeld
<1>3. PICK part : part = NextDown(b)
  OBVIOUS
<1>4. part \in p.undo /\ (part = "flush" => p.undo \intersect MakesChanges = {})
  BY <1>1, <1>2, <1>3, TakenDown
<1> DEFINE down == [p EXCEPT !.undo = @ \ {part}]
<1>5. /\ \/ process' = [process EXCEPT ![b] = [down EXCEPT !.dirty = @ /\ part # "flush"]]
         \/ /\ part \notin {"port", "credential"}
            /\ process' = [process EXCEPT ![b] = [down EXCEPT !.failed = @ \union {part}]]
      /\ current' = IF part = "credential" /\ current.credential = b
                      THEN [current EXCEPT !.credential = Nobody] ELSE current
      /\ port' = IF part = "port" THEN Nobody ELSE port
  BY <1>3 DEF StopsPart
<1>6. p = Became(p.at, p.n, p.undo, p.failed, p.dirty, p.term)
  BY ProcessFields
<1>7. down = Became("stopping", p.n, p.undo \ {part}, p.failed, p.dirty, p.term)
  BY <1>2, <1>6 DEF Became
<1> HIDE DEF down
<1>8. CurrentTyped /\ current'.snapshot = current.snapshot
      /\ current'.credential \in {current.credential, Nobody}
  BY <1>1, <1>5 DEF CurrentTyped, RunDirectories
<1>9. current'.credential = b => "credential" \in p.undo \ {part}
  BY <1>1, <1>2, <1>5, <1>8 DEF InCurrent, CurrentTyped
<1>13. /\ port' = b => "port" \in p.undo \ {part}
       /\ port' = port \/ (port \in {Nobody, b} /\ port' \in {Nobody, b})
  <2>1. part = "port" => port = b
    BY <1>1, <1>2, <1>4 DEF ToUndo
  <2> QED BY <1>2, <1>5, <2>1, Nobody \notin Bridges
<1>14. "port" \in p.undo \ {part} => port' = b
  BY <1>1, <1>2, <1>5 DEF ToUndo
<1>10. (p.undo \ {part}) \intersect MakesChanges # {} => "flush" \in p.undo \ {part}
  BY <1>1, <1>4 DEF ToUndo
<1>11. CASE process' = [process EXCEPT ![b] = [down EXCEPT !.dirty = @ /\ part # "flush"]]
  <2>1. PICK dirty \in BOOLEAN : dirty = (p.dirty /\ part # "flush")
    BY <1>1
  <2>2. [down EXCEPT !.dirty = @ /\ part # "flush"] = [down EXCEPT !.dirty = dirty]
    BY <1>7, <2>1 DEF Became
  <2>3. [down EXCEPT !.dirty = dirty]
          = Became("stopping", p.n, p.undo \ {part}, p.failed, dirty, p.term)
    BY <1>7 DEF Became
  <2>4. process' = Changed(b, Became("stopping", p.n, p.undo \ {part}, p.failed, dirty, p.term))
    BY <1>11, <2>2, <2>3 DEF Changed
  <2>5. Sensible(b, "stopping", p.n, p.undo \ {part}, p.failed, dirty, p.term)
    BY <1>1, <1>2, <1>4, <1>8, <1>9, <1>10, <1>13, <1>14, <2>1
       DEF Sensible, ToUndo, InCurrent
  <2> HIDE DEF p
  <2> QED BY <1>2, <1>8, <2>4, <2>5, GoesOn DEF CurrentTyped
<1>12. CASE process' = [process EXCEPT ![b] = [down EXCEPT !.failed = @ \union {part}]]
  <2>1. [down EXCEPT !.failed = @ \union {part}]
          = Became("stopping", p.n, p.undo \ {part}, p.failed \union {part}, p.dirty, p.term)
    <3>1. \A u : [down EXCEPT !.failed = u]
                  = Became("stopping", p.n, p.undo \ {part}, u, p.dirty, p.term)
      BY <1>7 DEF Became
    <3>2. down.failed = p.failed
      BY <1>7 DEF Became
    <3> QED BY <3>1, <3>2
  <2>2. process' = Changed(b, Became("stopping", p.n, p.undo \ {part}, p.failed \union {part},
                                     p.dirty, p.term))
    BY <1>12, <2>1 DEF Changed
  <2>3. Sensible(b, "stopping", p.n, p.undo \ {part}, p.failed \union {part}, p.dirty, p.term)
    BY <1>1, <1>2, <1>4, <1>8, <1>9, <1>10, <1>13, <1>14
       DEF Sensible, ToUndo, InCurrent
  <2> HIDE DEF p
  <2> QED BY <1>2, <1>8, <2>2, <2>3, GoesOn DEF CurrentTyped
<1> QED BY <1>5, <1>11, <1>12

(* A new process has the least unused id.                                  *)
LEMMA LaunchRuns ==
  ASSUME RunInv, IdsAreNumbers, Unused # {}, process' = Launched(NextPid),
         UNCHANGED <<port, current, crossed>>
  PROVE  /\ process' \in [Bridges -> BridgeRecords] /\ NextPid \in Bridges
         /\ \A b \in Bridges : ToUndo(b)' /\ InCurrent(b)'
         /\ \A b \in Bridges : Ended(b) => Ended(b)'
         /\ Apart' /\ PortIsHeld' /\ Alive' \subseteq Alive \union {NextPid}
         /\ Cardinality(Unused') = Cardinality(Unused) - 1 /\ Cardinality(Unused) \in Nat \ {0}
<1>1. Unused \subseteq Bridges /\ Unused \subseteq Nat /\ IsFiniteSet(Unused)
  BY FS_Subset DEF Unused, IdsAreNumbers
<1>2. NextPid \in Unused
  <2>1. \E b \in Unused : \A other \in Unused : b <= other
    BY <1>1, LeastIsThere
  <2> QED BY <2>1 DEF NextPid
<1>3. PICK b \in Unused : b = NextPid
  BY <1>2
<1>4. b \in Bridges /\ process[b].at = "none"
  BY <1>1 DEF Unused, Is
<1> DEFINE p == process[b]
<1>5. process' = Changed(b, Became("launched", p.n, p.undo, p.failed, p.dirty, p.term))
  BY <1>3, <1>4, ProcessFields DEF Launched
<1>6. /\ p.n \in Nat /\ p.undo \subseteq Parts /\ p.failed \subseteq Parts
      /\ p.dirty \in BOOLEAN /\ p.term \in BOOLEAN /\ ToUndo(b) /\ InCurrent(b)
  BY <1>4, FieldTypes
<1> DEFINE q == Became("launched", p.n, p.undo, p.failed, p.dirty, p.term)
<1>7. q \in BridgeRecords /\ q.at = "launched" /\ q.n = p.n /\ q.undo = p.undo /\ q.dirty = p.dirty
  BY <1>6, BecameFields DEF Places
<1> HIDE DEF q
<1>8. /\ process' \in [Bridges -> BridgeRecords] /\ process'[b] = q
      /\ \A a \in Bridges \ {b} : process'[a] = process[a]
  BY <1>4, <1>5, <1>7 DEF Changed, RunInv, q
<1>9. \A a \in Bridges : Ended(a) => Ended(a)'
  BY <1>4, <1>8 DEF Ended
<1>10. ToUndo(b)' /\ InCurrent(b)'
  <2>1. p.undo = {} /\ ~p.dirty /\ p.n = 1
    BY <1>4, <1>6 DEF ToUndo
  <2>2. current.credential # b
    BY <1>4, <1>6, <2>1 DEF InCurrent
  <2>3. ToUndo(b)'
    BY <1>7, <1>8, <2>1 DEF ToUndo
  <2>4. InCurrent(b)'
    BY <1>7, <1>8, <2>1, <2>2 DEF InCurrent
  <2> QED BY <2>3, <2>4
<1>11. ASSUME NEW a \in Bridges \ {b} PROVE ToUndo(a)' /\ InCurrent(a)'
  <2>1. ToUndo(a) /\ InCurrent(a) /\ process'[a] = process[a]
    BY <1>8 DEF RunInv
  <2>2. a \in Owners' <=> a \in Owners
    BY <2>1 DEF Owners
  <2>3. ToUndo(a)'
    BY <2>1 DEF ToUndo
  <2>4. InCurrent(a)'
    BY <2>1, <2>2 DEF InCurrent
  <2> QED BY <2>3, <2>4
<1>12. Unused' = Unused \ {b}
  BY <1>4, <1>7, <1>8 DEF Unused, Is
<1>13. Cardinality(Unused \ {b}) = Cardinality(Unused) - 1 /\ Cardinality(Unused) \in Nat
  BY <1>1, FS_RemoveElement, FS_CardinalityType
<1>14. Cardinality(Unused) # 0
  BY <1>1, FS_EmptySet
<1>15. \A a \in Bridges : ToUndo(a)' /\ InCurrent(a)'
  BY <1>10, <1>11
<1>17. Owners' \subseteq Owners /\ Alive' \subseteq Alive \union {b}
  BY <1>7, <1>8 DEF Owners, Alive, Is, Ended
<1>18. Apart' /\ PortIsHeld'
  BY <1>4, <1>8, <1>17 DEF RunInv, Apart, PortIsHeld
<1>16. Cardinality(Unused') = Cardinality(Unused) - 1
  BY <1>12, <1>13
<1> QED BY <1>3, <1>4, <1>8, <1>9, <1>13, <1>14, <1>15, <1>16, <1>17, <1>18

LEMMA UnusedCounted ==
  ASSUME IdsAreNumbers
  PROVE  Cardinality(Unused) \in Nat /\ (Cardinality(Unused) > 0 => Unused # {})
<1>1. IsFiniteSet(Unused)
  BY FS_Subset DEF Unused, IdsAreNumbers
<1> QED BY <1>1, FS_CardinalityType, FS_EmptySet

LEMMA ReservingCounted ==
  ASSUME IsFiniteSet(RestartCommands)
  PROVE  IsFiniteSet(Reserving) /\ Cardinality(Reserving) \in Nat
<1>1. IsFiniteSet(Reserving)
  BY FS_Subset DEF Reserving
<1> QED BY <1>1, FS_CardinalityType

LEMMA OperatorStartRuns ==
  ASSUME RunInv, IdsAreNumbers, IsFiniteSet(RestartCommands), OperatorStarts
  PROVE  RunInv'
<1>1. /\ process' = Launched(NextPid) /\ Cardinality(Unused) > Cardinality(Reserving)
      /\ UNCHANGED <<port, current, crossed, restart>>
  BY DEF OperatorStarts
<1>2. Cardinality(Reserving) \in Nat
  BY ReservingCounted
<1>3. Unused # {} /\ Cardinality(Unused) \in Nat
  BY <1>1, <1>2, UnusedCounted
<1>4. /\ process' \in [Bridges -> BridgeRecords] /\ Apart' /\ PortIsHeld'
      /\ \A b \in Bridges : ToUndo(b)' /\ InCurrent(b)'
      /\ \A b \in Bridges : Ended(b) => Ended(b)'
      /\ Cardinality(Unused') = Cardinality(Unused) - 1
  BY <1>1, <1>3, LaunchRuns
<1>5. Reserving' = Reserving
  BY <1>1 DEF Reserving
<1>6. \A k \in RestartCommands : CommandInv(k)'
  BY <1>1, <1>4 DEF RunInv, RestartInv, CommandInv, Ended
<1>7. Cardinality(Unused') >= Cardinality(Reserving')
  BY <1>1, <1>2, <1>3, <1>4, <1>5
<1>8. RestartInv'
  BY <1>1, <1>6, <1>7 DEF RunInv, RestartInv
<1> QED BY <1>1, <1>4, <1>8 DEF RunInv

(* One command has moved on; the others do not know.                       *)
CommandIs(k, at, old, new, said) ==
  /\ restart' \in [RestartCommands -> CommandRecords]
  /\ \A j \in RestartCommands \ {k} : restart'[j] = restart[j]
  /\ restart'[k].at = at /\ restart'[k].old = old /\ restart'[k].new = new
  /\ restart'[k].said = said

LEMMA CommandFields ==
  ASSUME RunInv, NEW k \in RestartCommands
  PROVE  LET c == restart[k]
         IN /\ \A at \in Steps : MovesOn(k, at) => CommandIs(k, at, c.old, c.new, c.said)
            /\ \A said \in {"nothing", "failed", "healthy"} :
                 Says(k, said) => CommandIs(k, "done", c.old, c.new, said)
            /\ \A at \in Steps, old \in Bridges :
                 restart' = [restart EXCEPT ![k].at = at, ![k].old = old]
                   => CommandIs(k, at, old, c.new, c.said)
            /\ \A at \in Steps, new \in Bridges :
                 restart' = [restart EXCEPT ![k].at = at, ![k].new = new]
                   => CommandIs(k, at, c.old, new, c.said)
<1> DEFINE c == restart[k]
<1>1. restart \in [RestartCommands -> CommandRecords] /\ c \in CommandRecords
  BY DEF RunInv, RestartInv
<1>2. /\ c.at \in Steps /\ c.old \in Bridges \union {Nobody}
      /\ c.new \in Bridges \union {Nobody} /\ c.said \in {"nothing", "failed", "healthy"}
      /\ "done" \in Steps
  BY <1>1 DEF CommandRecords, Steps
<1>3. ASSUME NEW r \in CommandRecords, restart' = [restart EXCEPT ![k] = r]
      PROVE  CommandIs(k, r.at, r.old, r.new, r.said)
  BY <1>1, <1>3 DEF CommandIs
<1>4. ASSUME NEW at \in Steps, MovesOn(k, at) PROVE CommandIs(k, at, c.old, c.new, c.said)
  <2> DEFINE r == [c EXCEPT !.at = at]
  <2>1. r \in CommandRecords /\ r.at = at /\ r.old = c.old /\ r.new = c.new /\ r.said = c.said
    BY <1>1, <1>2 DEF CommandRecords
  <2>2. restart' = [restart EXCEPT ![k] = r]
    BY <1>1, <1>4 DEF MovesOn
  <2> HIDE DEF r, c
  <2> QED BY <1>3, <2>1, <2>2
<1>5. ASSUME NEW said \in {"nothing", "failed", "healthy"}, Says(k, said)
      PROVE  CommandIs(k, "done", c.old, c.new, said)
  <2> DEFINE r == [[c EXCEPT !.at = "done"] EXCEPT !.said = said]
  <2>1. r \in CommandRecords /\ r.at = "done" /\ r.old = c.old /\ r.new = c.new /\ r.said = said
    BY <1>1, <1>2 DEF CommandRecords
  <2>2. restart' = [restart EXCEPT ![k] = r]
    BY <1>1, <1>5 DEF Says
  <2> HIDE DEF r, c
  <2> QED BY <1>3, <2>1, <2>2
<1>6. ASSUME NEW at \in Steps, NEW old \in Bridges,
             restart' = [restart EXCEPT ![k].at = at, ![k].old = old]
      PROVE  CommandIs(k, at, old, c.new, c.said)
  <2> DEFINE r == [[c EXCEPT !.at = at] EXCEPT !.old = old]
  <2>1. r \in CommandRecords /\ r.at = at /\ r.old = old /\ r.new = c.new /\ r.said = c.said
    BY <1>1, <1>2 DEF CommandRecords
  <2>2. restart' = [restart EXCEPT ![k] = r]
    BY <1>1, <1>6
  <2> HIDE DEF r, c
  <2> QED BY <1>3, <2>1, <2>2
<1>7. ASSUME NEW at \in Steps, NEW new \in Bridges,
             restart' = [restart EXCEPT ![k].at = at, ![k].new = new]
      PROVE  CommandIs(k, at, c.old, new, c.said)
  <2> DEFINE r == [[c EXCEPT !.at = at] EXCEPT !.new = new]
  <2>1. r \in CommandRecords /\ r.at = at /\ r.old = c.old /\ r.new = new /\ r.said = c.said
    BY <1>1, <1>2 DEF CommandRecords
  <2>2. restart' = [restart EXCEPT ![k] = r]
    BY <1>1, <1>7
  <2> HIDE DEF r, c
  <2> QED BY <1>3, <2>1, <2>2
<1> QED BY <1>4, <1>5, <1>6, <1>7

(* What the command that moves on has to show.  It gives up its id or keeps it. *)
LEMMA CommandMoves ==
  ASSUME RunInv, IdsAreNumbers, IsFiniteSet(RestartCommands), NEW k \in RestartCommands,
         NEW at, NEW old, NEW new, NEW said, CommandIs(k, at, old, new, said), CommandInv(k)',
         k \in Reserving \/ at \in {"health", "done"}, Unused' = Unused,
         \A b \in Bridges : Ended(b)' <=> Ended(b)
  PROVE  RestartInv'
<1>1. Reserving' \subseteq Reserving
  BY DEF CommandIs, Reserving
<1>2. Cardinality(Reserving') <= Cardinality(Reserving)
  BY <1>1, ReservingCounted, FS_Subset
<1>3. Cardinality(Reserving') \in Nat
  BY <1>1, ReservingCounted, FS_Subset, FS_CardinalityType
<1>4. Cardinality(Unused) >= Cardinality(Reserving')
  BY <1>2, <1>3, ReservingCounted, UnusedCounted DEF RunInv, RestartInv
<1>5. ASSUME NEW j \in RestartCommands PROVE CommandInv(j)'
  <2>1. CASE j # k
    BY <2>1 DEF CommandIs, RunInv, RestartInv, CommandInv, Ended
  <2>2. CASE j = k
    BY <2>2
  <2> QED BY <2>1, <2>2
<1> QED BY <1>4, <1>5 DEF RestartInv, CommandIs

(* Nothing but the commands has changed.                                   *)
LEMMA OnlyTheCommands ==
  ASSUME RunInv, UNCHANGED <<process, port, current, crossed>>, RestartInv'
  PROVE  RunInv'
<1>1. Apart' /\ PortIsHeld'
  BY DEF RunInv, Apart, Owners, PortIsHeld
<1>2. \A b \in Bridges : ToUndo(b)' /\ InCurrent(b)'
  BY DEF RunInv, ToUndo, InCurrent, Owners
<1> QED BY <1>1, <1>2 DEF RunInv

(* A signal changes nothing but that it has been sent.                     *)
LEMMA SignalRuns ==
  ASSUME RunInv, NEW old \in Bridges, process' = [process EXCEPT ![old].term = TRUE],
         UNCHANGED <<port, current, crossed>>
  PROVE  /\ Unused' = Unused /\ \A b \in Bridges : Ended(b)' <=> Ended(b)
         /\ Alive' = Alive
         /\ RestartInv' => RunInv'
<1> DEFINE p == process[old]
           q == Became(p.at, p.n, p.undo, p.failed, p.dirty, TRUE)
<1>1. process' = Changed(old, q)
  BY ProcessFields
<1>2. /\ q \in BridgeRecords /\ q.at = p.at /\ q.n = p.n /\ q.undo = p.undo
      /\ q.failed = p.failed /\ q.dirty = p.dirty
  <2>1. /\ p.n \in Nat /\ p.undo \subseteq Parts /\ p.failed \subseteq Parts
        /\ p.dirty \in BOOLEAN /\ p.at \in Places
    BY FieldTypes
  <2>2. p.at \in {"none", "launched", "starting", "serving", "stopping", "exited", "crashed"}
    BY <2>1 DEF Places
  <2> QED BY <2>1, <2>2, BecameFields DEF BridgeRecords, Became, Places
<1> HIDE DEF q
<1>3. /\ process' \in [Bridges -> BridgeRecords] /\ process'[old] = q
      /\ \A a \in Bridges \ {old} : process'[a] = process[a]
  BY <1>1, <1>2 DEF Changed, RunInv
<1>4. ASSUME NEW a \in Bridges
      PROVE  /\ process'[a].at = process[a].at /\ process'[a].n = process[a].n
             /\ process'[a].undo = process[a].undo /\ process'[a].failed = process[a].failed
             /\ process'[a].dirty = process[a].dirty
  BY <1>2, <1>3
<1>5. Owners' = Owners /\ Unused' = Unused /\ Alive' = Alive
  BY <1>4 DEF Owners, Unused, Alive, Is, Ended
<1>6. \A b \in Bridges : Ended(b)' <=> Ended(b)
  BY <1>4 DEF Ended
<1>7. ASSUME NEW a \in Bridges PROVE ToUndo(a)' /\ InCurrent(a)'
  <2>1. ToUndo(a) /\ InCurrent(a)
    BY DEF RunInv
  <2>2. ToUndo(a)'
    BY <1>4, <2>1 DEF ToUndo
  <2>3. InCurrent(a)'
    BY <1>4, <1>5, <2>1 DEF InCurrent
  <2> QED BY <2>2, <2>3
<1>8. Apart' /\ PortIsHeld'
  BY <1>4, <1>5 DEF RunInv, Apart, PortIsHeld
<1>9. current' \in RunDirectories /\ crossed' \subseteq Bridges
  BY DEF RunInv
<1> QED BY <1>3, <1>5, <1>6, <1>7, <1>8, <1>9 DEF RunInv

LEMMA CommandRuns ==
  ASSUME RunInv, IdsAreNumbers, IsFiniteSet(RestartCommands), Nobody \notin Bridges,
         NEW k \in RestartCommands, RestartStep(k) \/ ReadsSnapshot(k) \/ RestartKilled(k)
  PROVE  RunInv'
<1> DEFINE c == restart[k]
           Same == UNCHANGED <<process, port, current, crossed>>
<1>1. CommandInv(k) /\ c \in CommandRecords
  BY DEF RunInv, RestartInv
<1>2. Same => Unused' = Unused /\ \A b \in Bridges : Ended(b)' <=> Ended(b)
  BY DEF Unused, Is, Ended
<1>3. ASSUME Same, NEW at, NEW old, NEW new, NEW said, CommandIs(k, at, old, new, said),
             CommandInv(k)', k \in Reserving \/ at \in {"health", "done"}
      PROVE  RunInv'
  BY <1>2, <1>3, CommandMoves, OnlyTheCommands
<1>4. ASSUME Same, NEW said \in {"nothing", "failed", "healthy"}, Says(k, said)
      PROVE  RunInv'
  <2>1. CommandIs(k, "done", c.old, c.new, said)
    BY <1>4, CommandFields
  <2>2. CommandInv(k)'
    BY <1>1, <1>4, <2>1 DEF CommandInv, CommandIs, Ended
  <2> QED BY <1>3, <1>4, <2>1, <2>2
<1>5. ASSUME Same, NEW step \in {"verify", "signal", "wait", "launch"}, MovesOn(k, step),
             c.at \in {"preflight", "verify", "signal", "wait"},
             step = "launch" => Ended(c.old)
      PROVE  RunInv'
  <2>1. CommandIs(k, step, c.old, c.new, c.said)
    BY <1>5, CommandFields DEF Steps
  <2>2. CommandInv(k)'
    BY <1>1, <1>5, <2>1 DEF CommandInv, CommandIs, Ended
  <2>3. k \in Reserving
    BY <1>5 DEF Reserving
  <2> QED BY <1>3, <1>5, <2>1, <2>2, <2>3
<1>6. CASE ReadsSnapshot(k)
  <2>1. /\ Same /\ c.at = "wanted" /\ current.snapshot # Nobody
        /\ restart' = [restart EXCEPT ![k].at = "preflight", ![k].old = current.snapshot]
    BY <1>6 DEF ReadsSnapshot, Restarting
  <2>2. current.snapshot \in Bridges /\ "preflight" \in Steps
    BY <2>1 DEF RunInv, RunDirectories, Steps
  <2>3. PICK old \in Bridges : old = current.snapshot
    BY <2>2
  <2>4. CommandIs(k, "preflight", old, c.new, c.said)
    BY <2>1, <2>2, <2>3, CommandFields
  <2>5. c.new = Nobody
    BY <1>1, <2>1 DEF CommandInv
  <2>6. CommandInv(k)'
    BY <1>1, <2>1, <2>4, <2>5 DEF CommandInv, CommandIs, Ended
  <2>7. k \in Reserving
    BY <2>1 DEF Reserving
  <2> QED BY <1>3, <2>1, <2>4, <2>6, <2>7
<1>7. CASE Preflights(k)
  BY <1>4, <1>5, <1>7 DEF Preflights, Restarting, historyVars
<1>8. CASE Verifies(k)
  BY <1>4, <1>5, <1>8 DEF Verifies, Restarting, historyVars
<1>9. CASE Waits(k)
  BY <1>4, <1>5, <1>9 DEF Waits, Restarting, historyVars
<1>10. CASE AwaitsHealth(k) \/ RestartKilled(k)
  BY <1>4, <1>10 DEF AwaitsHealth, RestartKilled, historyVars
<1>11. CASE Signals(k)
  <2>1. c.at = "signal" /\ UNCHANGED <<port, current, crossed>>
    BY <1>11 DEF Signals, Restarting, historyVars
  <2>2. CASE Ended(c.old) /\ MovesOn(k, "launch") /\ UNCHANGED process
    BY <1>5, <2>1, <2>2
  <2>3. CASE MovesOn(k, "wait") /\ process' = [process EXCEPT ![c.old].term = TRUE]
    <3>1. PICK old \in Bridges : old = c.old
      BY <1>1, <2>1 DEF CommandInv
    <3>2. /\ Unused' = Unused /\ \A b \in Bridges : Ended(b)' <=> Ended(b)
          /\ RestartInv' => RunInv'
      BY <2>1, <2>3, <3>1, SignalRuns
    <3>3. CommandIs(k, "wait", c.old, c.new, c.said)
      BY <2>3, CommandFields DEF Steps
    <3>4. CommandInv(k)'
      BY <1>1, <2>1, <3>2, <3>3 DEF CommandInv, CommandIs
    <3>5. k \in Reserving
      BY <2>1 DEF Reserving
    <3> QED BY <3>2, <3>3, <3>4, <3>5, CommandMoves
  <2> QED BY <1>11, <2>2, <2>3 DEF Signals
<1>12. CASE Launches(k)
  <2>1. /\ c.at = "launch" /\ process' = Launched(NextPid)
        /\ UNCHANGED <<port, current, crossed>>
        /\ restart' = [restart EXCEPT ![k].at = "health", ![k].new = NextPid]
    BY <1>12 DEF Launches, Restarting, historyVars
  <2>2. k \in Reserving /\ IsFiniteSet(Reserving) /\ Cardinality(Reserving) \in Nat
    BY <2>1, ReservingCounted DEF Reserving
  <2>3. /\ Cardinality(Reserving \ {k}) = Cardinality(Reserving) - 1
        /\ Cardinality(Reserving) # 0
    BY <2>2, FS_RemoveElement, FS_EmptySet
  <2>4. Cardinality(Unused) \in Nat /\ Cardinality(Unused) > 0
    BY <2>2, <2>3, UnusedCounted DEF RunInv, RestartInv
  <2>5. Unused # {}
    BY <2>4, UnusedCounted
  <2>6. /\ process' \in [Bridges -> BridgeRecords] /\ NextPid \in Bridges
        /\ Apart' /\ PortIsHeld' /\ \A b \in Bridges : ToUndo(b)' /\ InCurrent(b)'
        /\ \A b \in Bridges : Ended(b) => Ended(b)'
        /\ Cardinality(Unused') = Cardinality(Unused) - 1
    BY <2>1, <2>5, LaunchRuns
  <2>7. PICK new \in Bridges : new = NextPid
    BY <2>6
  <2>8. CommandIs(k, "health", c.old, new, c.said)
    BY <2>1, <2>7, CommandFields DEF Steps
  <2>9. Reserving' = Reserving \ {k}
    BY <2>8 DEF CommandIs, Reserving
  <2>10. Cardinality(Unused') >= Cardinality(Reserving')
    BY <2>2, <2>3, <2>4, <2>6, <2>9 DEF RunInv, RestartInv
  <2>11. ASSUME NEW j \in RestartCommands PROVE CommandInv(j)'
    <3>1. CommandInv(j)
      BY DEF RunInv, RestartInv
    <3>2. CASE j # k
      BY <2>6, <2>8, <3>1, <3>2 DEF CommandIs, CommandInv, Ended
    <3>3. CASE j = k
      BY <2>1, <2>6, <2>8, <3>1, <3>3 DEF CommandIs, CommandInv, Ended
    <3> QED BY <3>2, <3>3
  <2>12. RestartInv'
    BY <2>8, <2>10, <2>11 DEF RestartInv, CommandIs
  <2> QED BY <2>1, <2>6, <2>12 DEF RunInv
<1> QED BY <1>6, <1>7, <1>8, <1>9, <1>10, <1>11, <1>12 DEF RestartStep

LEMMA RunInvStays ==
  ASSUME RunInv, IdsAreNumbers, IsFiniteSet(RestartCommands), Nobody \notin Bridges,
         Stranger \notin Bridges, [ProcessNext]_processVars
  PROVE  RunInv'
<1>1. CASE StrangerBinds
  <2>1. /\ port = Nobody /\ port' = Stranger
        /\ UNCHANGED <<process, current, restart, crossed>>
    BY <1>1 DEF StrangerBinds, historyVars
  <2>2. ASSUME NEW b \in Bridges PROVE ToUndo(b)' /\ InCurrent(b)'
    <3>1. ToUndo(b) /\ InCurrent(b)
      BY DEF RunInv
    <3>2. InCurrent(b)'
      BY <2>1, <3>1 DEF InCurrent, Owners
    <3>3. ToUndo(b)'
      BY <2>1, <3>1 DEF ToUndo
    <3> QED BY <3>2, <3>3
  <2>3. RestartInv'
    BY <2>1 DEF RunInv, RestartInv, CommandInv, Reserving, Unused, Is, Ended
  <2>4. Apart' /\ PortIsHeld'
    BY <2>1 DEF RunInv, Apart, Owners, PortIsHeld
  <2> QED BY <2>1, <2>2, <2>3, <2>4 DEF RunInv
<1>2. CASE UNCHANGED processVars
  <2>1. UNCHANGED <<process, port, current, restart, crossed>>
    BY <1>2 DEF processVars, historyVars
  <2>2. RestartInv'
    BY <2>1 DEF RunInv, RestartInv, CommandInv, Reserving, Unused, Is, Ended
  <2> QED BY <2>1, <2>2, OnlyTheCommands
<1> QED
  BY <1>1, <1>2, ChecksRuns, StartsRun, BindsRuns, OthersRun, StopsPartRuns,
     OperatorStartRuns, CommandRuns DEF ProcessNext, BridgeStep

LEMMA RunBegins ==
  ASSUME IdsAreNumbers, IsFiniteSet(RestartCommands), Nobody \notin Bridges,
         NEW commands \in SUBSET RestartCommands, NEW ids \in SUBSET Bridges,
         Cardinality(commands) <= Cardinality(ids), NEW faults,
         ProcessInit(commands, ids, faults)
  PROVE  RunInv /\ Alive = {}
<1>1. /\ process = [b \in Bridges |->
                     [NotStarted EXCEPT !.at = IF b \in ids THEN "none" ELSE "exited"]]
      /\ restart = [k \in RestartCommands |->
                     AskedFor(IF k \in commands THEN "wanted" ELSE "done")]
      /\ current = [snapshot |-> Nobody, credential |-> Nobody] /\ port = Nobody
      /\ crossed = {}
  BY DEF ProcessInit
<1>2. ASSUME NEW b \in Bridges
      PROVE  /\ process[b] \in BridgeRecords
             /\ process[b].at = IF b \in ids THEN "none" ELSE "exited"
             /\ process[b].undo = {} /\ ~process[b].dirty /\ process[b].n = 1
  BY <1>1 DEF NotStarted, BridgeRecords, Places
<1>3. process \in [Bridges -> BridgeRecords]
  BY <1>1, <1>2
<1>4. \A b \in Bridges : ToUndo(b)
  BY <1>2 DEF ToUndo
<1>5. \A b \in Bridges : InCurrent(b)
  BY <1>1, <1>2 DEF InCurrent
<1>6. Owners = {} /\ Alive = {} /\ Unused = ids
  BY <1>2 DEF Owners, Alive, Unused, Is, Ended
<1>7. ASSUME NEW k \in RestartCommands
      PROVE  /\ restart[k] \in CommandRecords
             /\ restart[k].at = (IF k \in commands THEN "wanted" ELSE "done")
             /\ CommandInv(k)
  BY <1>1 DEF AskedFor, CommandRecords, Steps, CommandInv
<1>8. Reserving = commands
  BY <1>7 DEF Reserving
<1>9. IsFiniteSet(commands) /\ IsFiniteSet(ids)
  BY FS_Subset DEF IdsAreNumbers
<1>10. Cardinality(Unused) >= Cardinality(Reserving)
  BY <1>6, <1>8, <1>9, FS_CardinalityType
<1>11. RestartInv
  BY <1>1, <1>7, <1>10 DEF RestartInv
<1>12. current \in RunDirectories /\ crossed \subseteq Bridges /\ Apart /\ PortIsHeld
  BY <1>1, <1>6 DEF RunDirectories, Apart, PortIsHeld
<1> QED BY <1>3, <1>4, <1>5, <1>6, <1>11, <1>12 DEF RunInv

-----------------------------------------------------------------------------
(* As long as starts and restarts wait for each other.                     *)
AtMostOne == \A a, b \in Alive : a = b
OneCommand == \A j, k \in UnderWay : j = k
(* From the moment the restart command has found its bridge nobody else is
   there, and nobody at all before it launches (ops.py:260-322).           *)
RestartIsAlone ==
  \A k \in RestartCommands :
    /\ restart[k].at \in {"signal", "wait"} => Alive \subseteq {restart[k].old}
    /\ restart[k].at = "launch" => Alive = {}
InTurn == AtMostOne /\ OneCommand /\ RestartIsAlone /\ crossed = {}
TurnInv == overlap \/ InTurn

(* What a step that leaves the commands alone and adds no process has to show. *)
LEMMA NobodyNewIsEnough ==
  ASSUME TurnInv, Alive' \subseteq Alive, UNCHANGED <<restart, overlap>>,
         InTurn => crossed' = {}
  PROVE  TurnInv'
BY DEF TurnInv, InTurn, AtMostOne, OneCommand, RestartIsAlone, UnderWay

(* A step of a bridge adds nobody, and it crosses nobody while it is alone. *)
LEMMA BridgeTurns ==
  ASSUME RunInv, TurnInv, NEW b \in Bridges,
         BridgeStep(b) \/ OperatorStops(b) \/ ChangesStore(b) \/ Dies(b)
  PROVE  TurnInv'
<1>1. DOMAIN process = Bridges
  BY DEF RunInv
<1>2. UNCHANGED <<restart, overlap>>
  BY DEF BridgeStep, Checks, StartsMaterializer, StartsObservability, StartsTransport,
         PublishesCredential, BindsPort, StopsServing, StopsPart, Exits, OperatorStops,
         ChangesStore, Dies, historyVars
<1>3. UNCHANGED crossed \/ Checks(b)
  BY DEF BridgeStep, StartsMaterializer, StartsObservability, StartsTransport,
         PublishesCredential, BindsPort, StopsServing, StopsPart, Exits, OperatorStops,
         ChangesStore, Dies, historyVars
<1>4. CASE ChangesStore(b)
  <2>1. process' = [process EXCEPT ![b].dirty = TRUE] /\ UNCHANGED crossed
    BY <1>4 DEF ChangesStore, historyVars
  <2>2. process'[b].at = process[b].at /\ \A a \in Bridges \ {b} : process'[a] = process[a]
    BY <1>1, <2>1 DEF RunInv, BridgeRecords
  <2>3. Alive' \subseteq Alive
    BY <2>2 DEF Alive, Is, Ended
  <2> QED BY <1>2, <2>1, <2>3, NobodyNewIsEnough DEF InTurn
<1>5. CASE BridgeStep(b) \/ OperatorStops(b) \/ Dies(b)
  <2>1. b \in Alive
    BY <1>5 DEF BridgeStep, Checks, StartsMaterializer, StartsObservability, StartsTransport,
         PublishesCredential, BindsPort, StopsServing, StopsPart, Exits, OperatorStops,
         Dies, NextPart, Alive, Is, Ended
  <2>2. \A a \in Bridges \ {b} : process'[a] = process[a]
    BY <1>1, <1>5 DEF BridgeStep, Checks, StartsMaterializer, StartsObservability,
         StartsTransport, PublishesCredential, BindsPort, StopsServing, StopsPart, Exits,
         OperatorStops, Dies, Undoes, GivesUp
  <2>3. Alive' \subseteq Alive
    BY <2>1, <2>2 DEF Alive, Is, Ended
  <2>4. ASSUME InTurn PROVE crossed' = {}
    <3>1. CASE UNCHANGED crossed
      BY <2>4, <3>1 DEF InTurn
    <3>2. CASE Checks(b)
      <4>1. OffPort \subseteq Alive /\ b \notin OffPort
        BY <3>2 DEF OffPort, Alive, Is, Ended, Checks
      <4>2. OffPort = {}
        BY <2>1, <2>4, <4>1 DEF InTurn, AtMostOne
      <4> QED BY <2>4, <3>2, <4>2 DEF Checks, Crossing, InTurn
    <3> QED BY <1>3, <3>1, <3>2
  <2> QED BY <1>2, <2>3, <2>4, NobodyNewIsEnough
<1> QED BY <1>4, <1>5

LEMMA OperatorStartTurns ==
  ASSUME RunInv, TurnInv, OperatorStarts
  PROVE  TurnInv'
<1> SUFFICES ASSUME ~overlap' PROVE InTurn'
  BY DEF TurnInv
<1>1. ~overlap /\ Alive = {} /\ UnderWay = {} /\ UNCHANGED <<restart, crossed>>
  BY DEF OperatorStarts
<1>2. process' = [process EXCEPT ![NextPid].at = "launched"] /\ DOMAIN process = Bridges
  BY DEF OperatorStarts, Launched, RunInv
<1>3. \A b \in Bridges : b # NextPid => process'[b] = process[b]
  BY <1>2
<1>4. Alive' \subseteq {NextPid}
  BY <1>1, <1>3 DEF Alive, Is, Ended
<1>5. AtMostOne'
  BY <1>4 DEF AtMostOne
<1>6. crossed' = {} /\ UnderWay' = {}
  BY <1>1 DEF TurnInv, InTurn, UnderWay
<1>7. OneCommand' /\ RestartIsAlone'
  BY <1>6 DEF OneCommand, RestartIsAlone, UnderWay
<1> QED BY <1>5, <1>6, <1>7 DEF InTurn

(* The restart command.  Verifies is what it all hangs on: who answers on the
   port is the bridge it is about to replace, and the only one. *)
LEMMA CommandTurns ==
  ASSUME RunInv, TurnInv, Nobody \notin Bridges, NEW k \in RestartCommands,
         RestartStep(k) \/ ReadsSnapshot(k) \/ RestartKilled(k)
  PROVE  TurnInv'
<1> DEFINE c == restart[k]
           Same == UNCHANGED <<process, crossed>>
<1>0. SUFFICES ASSUME ~overlap' PROVE InTurn'
  BY DEF TurnInv
<1>1. ~overlap /\ InTurn
  <2>1. overlap' = overlap \/ ReadsSnapshot(k)
    BY DEF RestartStep, Preflights, Verifies, Signals, Waits, Launches, AwaitsHealth,
           RestartKilled, historyVars
  <2>2. ~overlap
    BY <1>0, <2>1 DEF ReadsSnapshot
  <2> QED BY <2>2 DEF TurnInv
<1>2. c \in CommandRecords /\ CommandInv(k)
  BY DEF RunInv, RestartInv
<1>3. ASSUME NEW at, NEW old, NEW new, NEW said, CommandIs(k, at, old, new, said),
             UnderWay \subseteq {k}, UNCHANGED crossed, AtMostOne',
             at \in {"signal", "wait"} => Alive' \subseteq {old},
             at = "launch" => Alive' = {}
      PROVE  InTurn'
  <2>1. UnderWay' \subseteq {k}
    BY <1>3 DEF UnderWay, CommandIs
  <2>2. ASSUME NEW j \in RestartCommands, j # k
        PROVE  restart'[j].at \notin {"signal", "wait", "launch"}
    BY <1>3, <2>2 DEF UnderWay, CommandIs
  <2>3. RestartIsAlone'
    BY <1>3, <2>2 DEF RestartIsAlone, CommandIs
  <2> QED BY <1>1, <1>3, <2>1, <2>3 DEF InTurn, OneCommand
<1>4. Same => Alive' = Alive /\ AtMostOne' /\ UNCHANGED crossed
  BY <1>1 DEF Alive, Is, Ended, InTurn, AtMostOne
<1>5. k \in UnderWay => UnderWay \subseteq {k}
  BY <1>1 DEF InTurn, OneCommand
<1>6. ASSUME Same, NEW said \in {"nothing", "failed", "healthy"}, Says(k, said), k \in UnderWay
      PROVE  InTurn'
  <2>1. CommandIs(k, "done", c.old, c.new, said)
    BY <1>6, CommandFields
  <2> QED BY <1>3, <1>4, <1>5, <1>6, <2>1
<1>7. ASSUME Same, NEW step \in {"verify", "signal", "wait", "launch"}, MovesOn(k, step),
             k \in UnderWay,
             step \in {"signal", "wait"} => Alive \subseteq {c.old},
             step = "launch" => Alive = {}
      PROVE  InTurn'
  <2>1. CommandIs(k, step, c.old, c.new, c.said)
    BY <1>7, CommandFields DEF Steps
  <2> QED BY <1>3, <1>4, <1>5, <1>7, <2>1
<1>8. CASE ReadsSnapshot(k)
  <2>1. /\ Same /\ c.at = "wanted" /\ current.snapshot # Nobody /\ UnderWay = {}
        /\ restart' = [restart EXCEPT ![k].at = "preflight", ![k].old = current.snapshot]
    BY <1>0, <1>1, <1>8 DEF ReadsSnapshot, Restarting
  <2>2. current.snapshot \in Bridges /\ "preflight" \in Steps
    BY <2>1 DEF RunInv, RunDirectories, Steps
  <2>3. PICK old \in Bridges : old = current.snapshot
    BY <2>2
  <2>4. CommandIs(k, "preflight", old, c.new, c.said)
    BY <2>1, <2>2, <2>3, CommandFields
  <2> QED BY <1>3, <1>4, <2>1, <2>4
<1>9. CASE Preflights(k)
  <2>1. Same /\ k \in UnderWay /\ (MovesOn(k, "verify") \/ Says(k, "failed"))
    BY <1>9 DEF Preflights, Restarting, historyVars, UnderWay
  <2> QED BY <1>6, <1>7, <2>1
<1>10. CASE Verifies(k)
  <2>1. Same /\ k \in UnderWay /\ c.at = "verify"
    BY <1>10 DEF Verifies, Restarting, historyVars, UnderWay
  <2>2. CASE port = c.old /\ MovesOn(k, "signal")
    <3>1. c.old \in Bridges
      BY <1>2, <2>1 DEF CommandInv
    <3>2. c.old \in Alive
      BY <2>2, <3>1 DEF RunInv, PortIsHeld, Alive, Is, Ended
    <3>3. Alive \subseteq {c.old}
      BY <1>1, <3>2 DEF InTurn, AtMostOne
    <3> QED BY <1>7, <2>1, <2>2, <3>3
  <2>3. CASE Says(k, "failed")
    BY <1>6, <2>1, <2>3
  <2> QED BY <1>10, <2>2, <2>3 DEF Verifies
<1>11. CASE Signals(k)
  <2>1. /\ UNCHANGED <<port, current, crossed, overlap>> /\ k \in UnderWay /\ c.at = "signal"
        /\ Alive \subseteq {c.old}
    BY <1>1, <1>11 DEF Signals, Restarting, historyVars, UnderWay, InTurn, RestartIsAlone
  <2>2. CASE Ended(c.old) /\ MovesOn(k, "launch") /\ UNCHANGED process
    <3>1. Alive = {}
      BY <2>1, <2>2 DEF Alive
    <3> QED BY <1>7, <2>1, <2>2, <3>1
  <2>3. CASE MovesOn(k, "wait") /\ process' = [process EXCEPT ![c.old].term = TRUE]
    <3>1. PICK old \in Bridges : old = c.old
      BY <1>2, <2>1 DEF CommandInv
    <3>2. Alive' = Alive
      BY <2>1, <2>3, <3>1, SignalRuns
    <3>3. CommandIs(k, "wait", c.old, c.new, c.said)
      BY <2>3, CommandFields DEF Steps
    <3>4. AtMostOne'
      BY <1>1, <3>2 DEF InTurn, AtMostOne
    <3> QED BY <1>3, <1>5, <2>1, <3>2, <3>3, <3>4
  <2> QED BY <1>11, <2>2, <2>3 DEF Signals
<1>12. CASE Waits(k)
  <2>1. Same /\ k \in UnderWay /\ Alive \subseteq {c.old}
    BY <1>1, <1>12 DEF Waits, Restarting, historyVars, UnderWay, InTurn, RestartIsAlone
  <2>2. CASE Ended(c.old) /\ MovesOn(k, "launch")
    <3>1. Alive = {}
      BY <2>1, <2>2 DEF Alive
    <3> QED BY <1>7, <2>1, <2>2, <3>1
  <2>3. CASE Says(k, "failed")
    BY <1>6, <2>1, <2>3
  <2> QED BY <1>12, <2>2, <2>3 DEF Waits
<1>13. CASE Launches(k)
  <2>1. /\ k \in UnderWay /\ Alive = {} /\ UNCHANGED crossed
        /\ process' = [process EXCEPT ![NextPid].at = "launched"] /\ DOMAIN process = Bridges
    BY <1>1, <1>13 DEF Launches, Launched, Restarting, historyVars, UnderWay, InTurn,
       RestartIsAlone, RunInv
  <2>2. \A b \in Bridges : b # NextPid => process'[b] = process[b]
    BY <2>1
  <2>3. Alive' \subseteq {NextPid}
    BY <2>1, <2>2 DEF Alive, Is, Ended
  <2>4. AtMostOne'
    BY <2>3 DEF AtMostOne
  <2>5. /\ UnderWay' \subseteq {k}
        /\ \A j \in RestartCommands : restart'[j].at \notin {"signal", "wait", "launch"}
    <3>1. restart' = [restart EXCEPT ![k].at = "health", ![k].new = NextPid]
      BY <1>13 DEF Launches
    <3>2. restart'[k].at = "health" /\ \A j \in RestartCommands \ {k} : restart'[j] = restart[j]
      BY <3>1 DEF RunInv, RestartInv, CommandRecords
    <3> QED BY <1>5, <2>1, <3>2 DEF UnderWay
  <2> QED BY <1>1, <2>1, <2>4, <2>5 DEF InTurn, OneCommand, RestartIsAlone
<1>14. CASE AwaitsHealth(k) \/ RestartKilled(k)
  <2>1. Same /\ k \in UnderWay
    BY <1>14 DEF AwaitsHealth, RestartKilled, Restarting, historyVars, UnderWay
  <2>2. \E said \in {"nothing", "failed", "healthy"} : Says(k, said)
    BY <1>14 DEF AwaitsHealth, RestartKilled
  <2> QED BY <1>6, <2>1, <2>2
<1> QED
  BY <1>8, <1>9, <1>10, <1>11, <1>12, <1>13, <1>14 DEF RestartStep

LEMMA TurnInvStays ==
  ASSUME RunInv, TurnInv, Nobody \notin Bridges, [ProcessNext]_processVars
  PROVE  TurnInv'
<1>1. CASE StrangerBinds \/ UNCHANGED processVars
  <2>1. UNCHANGED <<process, restart, crossed, overlap>>
    BY <1>1 DEF StrangerBinds, processVars, historyVars
  <2>2. Alive' \subseteq Alive
    BY <2>1 DEF Alive, Is, Ended
  <2> QED BY <2>1, <2>2, NobodyNewIsEnough DEF InTurn
<1> QED
  BY <1>1, BridgeTurns, OperatorStartTurns, CommandTurns DEF ProcessNext

LEMMA OwnersTakeTurns ==
  ASSUME RunInv, TurnInv, Nobody \notin Bridges
  PROVE  OneOwner
<1>1. \A k \in RestartCommands : restart[k].new # Nobody => Ended(restart[k].old)
  BY DEF RunInv, RestartInv, CommandInv
<1>2. ASSUME InTurn PROVE Cardinality(Alive) <= 1
  <2>1. CASE Alive = {}
    BY <2>1, FS_EmptySet
  <2>2. ASSUME NEW b \in Alive PROVE Cardinality(Alive) <= 1
    <3>1. Alive = {b}
      BY <1>2, <2>2 DEF InTurn, AtMostOne
    <3>2. Cardinality({b}) = 1
      BY FS_Singleton
    <3> QED BY <3>1, <3>2
  <2> QED BY <2>1, <2>2
<1>3. overlap \/ (Cardinality(Alive) <= 1 /\ crossed = {})
  BY <1>2 DEF TurnInv, InTurn
<1> QED BY <1>1, <1>3 DEF OneOwner

(* What the theorems on bridges begin with: each restart that may be asked for
   has an id for its replacement. *)
LEMMA BridgesBegin ==
  ASSUME NEW commands \in SUBSET RestartCommands, NEW ids \in SUBSET Bridges,
         Cardinality(commands) <= Cardinality(ids), NEW faults,
         ProcessInit(commands, ids, faults)
  PROVE  RunInv /\ TurnInv
<1>1. RunInv /\ Alive = {}
  BY BridgesAssumption, RunBegins
<1>2. \A k \in RestartCommands : restart[k].at \in {"wanted", "done"}
  BY DEF ProcessInit, AskedFor
<1>3. UnderWay = {} /\ crossed = {}
  BY <1>2 DEF UnderWay, ProcessInit
<1>4. InTurn
  BY <1>1, <1>2, <1>3 DEF InTurn, AtMostOne, OneCommand, RestartIsAlone
<1> QED BY <1>1, <1>4 DEF TurnInv

LEMMA BridgesGoOn ==
  ASSUME RunInv, TurnInv, [ProcessNext]_processVars
  PROVE  RunInv' /\ TurnInv'
BY BridgesAssumption, RunInvStays, TurnInvStays

(* A restart never has its replacement beside the bridge it replaces, whatever
   else is started or restarted meanwhile; and as long as starts and restarts
   wait for each other, the data directory has one owner, whatever hangs, dies
   or is killed on the way (ops.py:91-112, 260-322;
   docs/system-constraints-spec.md:495). *)
THEOREM DataHasOneOwner ==
  ASSUME NEW commands \in SUBSET RestartCommands, NEW ids \in SUBSET Bridges,
         Cardinality(commands) <= Cardinality(ids), NEW faults
  PROVE  ProcessInit(commands, ids, faults) /\ [][ProcessNext]_processVars => []OneOwner
<1>1. ProcessInit(commands, ids, faults) => RunInv /\ TurnInv
  BY BridgesBegin
<1>2. RunInv /\ TurnInv /\ [ProcessNext]_processVars => RunInv' /\ TurnInv'
  BY BridgesGoOn
<1>3. RunInv /\ TurnInv => OneOwner
  BY BridgesAssumption, OwnersTakeTurns
<1> QED BY <1>1, <1>2, <1>3, PTL

(* Besides, the run directory holds the launch.json and the token of the bridge
   that serves, also when another one is started meanwhile, unless the two had
   found the port free one after the other; and nothing is left to take down or
   to save when a bridge has ended (ops.py:91-112, composition.py:254-285,
   runtime.py:89-148, observability/runtime.py:149-157). *)
THEOREM BridgesAlwaysTakeTurns ==
  ASSUME NEW commands \in SUBSET RestartCommands, NEW ids \in SUBSET Bridges,
         Cardinality(commands) <= Cardinality(ids), NEW faults
  PROVE  ProcessInit(commands, ids, faults) /\ [][ProcessNext]_processVars
         => []BridgesTakeTurns
<1>1. ProcessInit(commands, ids, faults) => RunInv /\ TurnInv
  BY BridgesBegin
<1>2. RunInv /\ TurnInv /\ [ProcessNext]_processVars => RunInv' /\ TurnInv'
  BY BridgesGoOn
<1>3. RunInv /\ TurnInv => BridgesTakeTurns
  <2> SUFFICES ASSUME RunInv, TurnInv PROVE BridgesTakeTurns
    OBVIOUS
  <2>1. RunDirectoryIsOurs
    <3> SUFFICES ASSUME NEW b \in Bridges, process[b].at = "serving"
                 PROVE  /\ port = b
                        /\ b \in crossed \/ current = [snapshot |-> b, credential |-> b]
      BY DEF RunDirectoryIsOurs, Is
    <3>1. ToUndo(b) /\ InCurrent(b) /\ b \in Owners
      BY DEF RunInv, Owners
    <3>2. port = b
      BY <3>1 DEF ToUndo
    <3>3. process[b].n >= 4
      BY <3>1, <3>2 DEF RunInv, PortIsHeld, ToUndo
    <3>4. b \notin crossed => current.snapshot = b /\ current.credential = b
      BY <3>1, <3>3 DEF InCurrent
    <3> QED BY <3>2, <3>4 DEF RunInv, RunDirectories
  <2>2. LeavesNothingBehind
    <3> SUFFICES ASSUME NEW b \in Bridges, process[b].at = "exited"
                 PROVE  /\ process[b].undo = {} /\ port # b /\ current.credential # b
                        /\ process[b].dirty => process[b].failed
                             \intersect {"channels", "service", "client", "flush"} # {}
      BY DEF LeavesNothingBehind, Is
    <3>1. ToUndo(b) /\ InCurrent(b)
      BY DEF RunInv
    <3>2. process[b].undo = {} /\ port # b /\ current.credential # b
      BY <3>1 DEF ToUndo, InCurrent, RunInv, PortIsHeld
    <3>3. process[b].dirty => process[b].failed
                                \intersect {"channels", "service", "client", "flush"} # {}
      BY <3>1, <3>2 DEF ToUndo, MakesChanges
    <3> QED BY <3>2, <3>3
  <2> QED BY <2>1, <2>2, BridgesAssumption, OwnersTakeTurns DEF BridgesTakeTurns
<1> QED BY <1>1, <1>2, <1>3, PTL

(* "healthy" is said of the process the restart has launched: it has the port, and
   the run directory unless it has crossed another bridge, and the one it replaces
   has ended (ops.py:532-571). *)
THEOREM HealthyIsAlwaysTheNewOne ==
  ASSUME NEW commands \in SUBSET RestartCommands, NEW ids \in SUBSET Bridges,
         Cardinality(commands) <= Cardinality(ids), NEW faults
  PROVE  ProcessInit(commands, ids, faults) /\ [][ProcessNext]_processVars
         => HealthyIsTheNewOne
<1> DEFINE Step == \A k \in RestartCommands :
       restart'[k].said = "healthy" /\ restart[k].said # "healthy" =>
         /\ port' = restart[k].new /\ Ended(restart[k].old)
         /\ restart[k].new \in crossed \/ current'.snapshot = restart[k].new
<1>1. ProcessInit(commands, ids, faults) => RunInv /\ TurnInv
  BY BridgesBegin
<1>2. RunInv /\ TurnInv /\ [ProcessNext]_processVars => RunInv' /\ TurnInv'
  BY BridgesGoOn
<1>3. RunInv /\ [ProcessNext]_processVars => [Step]_processVars
  <2> SUFFICES ASSUME RunInv, ProcessNext, NEW k \in RestartCommands,
                      restart'[k].said = "healthy", restart[k].said # "healthy"
               PROVE  /\ port' = restart[k].new /\ Ended(restart[k].old)
                      /\ restart[k].new \in crossed \/ current'.snapshot = restart[k].new
    OBVIOUS
  <2>1. restart' # restart
    OBVIOUS
  <2>2. PICK j \in RestartCommands : ReadsSnapshot(j) \/ RestartStep(j) \/ RestartKilled(j)
    <3>1. OperatorStarts \/ StrangerBinds => UNCHANGED restart
      BY DEF OperatorStarts, StrangerBinds
    <3>2. \A b \in Bridges : BridgeStep(b) => UNCHANGED restart
      BY DEF BridgeStep, Checks, StartsMaterializer, StartsObservability, StartsTransport,
         PublishesCredential, BindsPort, StopsServing, StopsPart, Exits
    <3>3. \A b \in Bridges : OperatorStops(b) \/ ChangesStore(b) \/ Dies(b) => UNCHANGED restart
      BY DEF OperatorStops, ChangesStore, Dies
    <3> QED BY <2>1, <3>1, <3>2, <3>3 DEF ProcessNext
  <2>3. restart \in [RestartCommands -> CommandRecords]
    BY DEF RunInv, RestartInv
  <2>4. ~(ReadsSnapshot(j) \/ Launches(j) \/ \E step : MovesOn(j, step))
    BY <2>3 DEF ReadsSnapshot, Launches, MovesOn, CommandRecords
  <2>5. \A said \in {"nothing", "failed"} : ~Says(j, said)
    BY <2>3 DEF Says, CommandRecords
  <2>6. AwaitsHealth(j) /\ Says(j, "healthy")
    BY <2>2, <2>4, <2>5 DEF RestartStep, Preflights, Verifies, Signals, Waits, AwaitsHealth,
       RestartKilled
  <2>7. j = k
    BY <2>3, <2>6 DEF Says
  <2>8. /\ port = restart[k].new /\ UNCHANGED <<port, current>> /\ restart[k].at = "health"
    BY <2>5, <2>6, <2>7 DEF AwaitsHealth, Restarting
  <2>9. CommandInv(k) /\ Nobody \notin Bridges
    BY BridgesAssumption DEF RunInv, RestartInv
  <2>10. restart[k].new \in Bridges /\ Ended(restart[k].old)
    BY <2>8, <2>9 DEF CommandInv
  <2>11. PICK b \in Bridges : b = restart[k].new
    BY <2>10
  <2>12. b \in Owners /\ "port" \in process[b].undo
    BY <2>8, <2>11 DEF RunInv, PortIsHeld, Owners
  <2>13. b \in crossed \/ current.snapshot = b
    BY <2>12 DEF RunInv, ToUndo, InCurrent
  <2> QED BY <2>8, <2>10, <2>11, <2>13
<1> QED BY <1>1, <1>2, <1>3, PTL DEF HealthyIsTheNewOne

(* How far a process has come with starting, and who may have the port. *)
PlacesKnown ==
  /\ port \in Bridges \union {Nobody, Stranger} /\ overlap \in BOOLEAN
  /\ \A b \in Bridges : process[b].n \in 1..8

(* The places of a step that starts nothing, and of one that starts a part. *)
LEMMA PlacesStay ==
  ASSUME RunInv, NEW b, NEW x,
         \/ process' = process
         \/ process' = [process EXCEPT ![b].at = x]
         \/ process' = [process EXCEPT ![b].term = x]
         \/ process' = [process EXCEPT ![b].dirty = x]
  PROVE  \A a \in Bridges : process'[a].n = process[a].n
<1> SUFFICES ASSUME NEW a \in Bridges PROVE process'[a].n = process[a].n
  OBVIOUS
<1>1. process \in [Bridges -> BridgeRecords] /\ process[a] \in BridgeRecords
  BY DEF RunInv
<1>2. /\ [process[a] EXCEPT !.at = x].n = process[a].n
      /\ [process[a] EXCEPT !.term = x].n = process[a].n
      /\ [process[a] EXCEPT !.dirty = x].n = process[a].n
  BY <1>1 DEF BridgeRecords
<1> QED BY <1>1, <1>2

LEMMA PlaceMoves ==
  ASSUME RunInv, NEW b \in Bridges, NEW parts,
         process' = Undoes(b, parts) \/ process' = GivesUp(b, parts)
  PROVE  /\ process'[b].n \in {process[b].n, process[b].n + 1}
         /\ process' = GivesUp(b, parts) => process'[b].n = process[b].n
         /\ \A a \in Bridges \ {b} : process'[a] = process[a]
<1> DEFINE p == process[b]
           on == Became(p.at, p.n + 1, p.undo \union parts, p.failed, p.dirty, p.term)
           up == Became("stopping", p.n, p.undo \union parts, p.failed, p.dirty, p.term)
<1>1. Undoes(b, parts) = [process EXCEPT ![b] = on]
      /\ GivesUp(b, parts) = [process EXCEPT ![b] = up]
  BY ProcessFields DEF Changed
<1>2. on.n = p.n + 1 /\ up.n = p.n
  BY DEF Became
<1>3. DOMAIN process = Bridges
  BY DEF RunInv
<1> HIDE DEF on, up
<1> QED BY <1>1, <1>2, <1>3

LEMMA PlacesStayKnown ==
  ASSUME RunInv, PlacesKnown, [ProcessNext]_processVars
  PROVE  PlacesKnown'
<1>1. overlap' \in BOOLEAN
  <2>1. UNCHANGED overlap \/ OperatorStarts \/ \E k \in RestartCommands : ReadsSnapshot(k)
    BY DEF ProcessNext, BridgeStep, RestartStep, StrangerBinds, RestartKilled, Preflights,
       Verifies, Signals, Waits, Launches, AwaitsHealth, OperatorStops, ChangesStore, Dies,
       Checks, Exits, StartsMaterializer, StartsObservability, StartsTransport,
       PublishesCredential, BindsPort, StopsServing, StopsPart, processVars, historyVars
  <2> QED BY <2>1 DEF PlacesKnown, OperatorStarts, ReadsSnapshot
<1>2. CASE \/ OperatorStarts \/ StrangerBinds \/ UNCHANGED processVars
           \/ \E k \in RestartCommands : ReadsSnapshot(k) \/ RestartStep(k) \/ RestartKilled(k)
  <2>1. /\ port' \in {port, Stranger}
        /\ \/ process' = process
           \/ \E b : process' = [process EXCEPT ![b].at = "launched"]
           \/ \E b : process' = [process EXCEPT ![b].term = TRUE]
    BY <1>2 DEF OperatorStarts, StrangerBinds, ReadsSnapshot, RestartStep, RestartKilled,
                Preflights, Verifies, Signals, Waits, Launches, AwaitsHealth, Launched,
                processVars
  <2>2. \A a \in Bridges : process'[a].n = process[a].n
    BY <2>1, PlacesStay
  <2> QED BY <1>1, <2>1, <2>2 DEF PlacesKnown
<1>3. ASSUME NEW b \in Bridges, OperatorStops(b) \/ ChangesStore(b) \/ Dies(b)
             \/ Checks(b) \/ Exits(b)
      PROVE  PlacesKnown'
  <2>1. /\ port' \in {port, Nobody}
        /\ \/ \E at : process' = [process EXCEPT ![b].at = at]
           \/ \E x : process' = [process EXCEPT ![b].term = x]
           \/ \E x : process' = [process EXCEPT ![b].dirty = x]
    BY <1>3 DEF OperatorStops, ChangesStore, Dies, Checks, Exits
  <2>2. \A a \in Bridges : process'[a].n = process[a].n
    BY <2>1, PlacesStay
  <2> QED BY <1>1, <2>1, <2>2 DEF PlacesKnown
<1>4. ASSUME NEW b \in Bridges, StartsMaterializer(b) \/ StartsObservability(b)
             \/ StartsTransport(b) \/ PublishesCredential(b)
      PROVE  PlacesKnown'
  <2>1. PICK parts : process' = Undoes(b, parts) \/ process' = GivesUp(b, parts)
    BY <1>4 DEF StartsMaterializer, StartsObservability, StartsTransport, PublishesCredential
  <2>2. \E part : NextPart(b, part)
    BY <1>4 DEF StartsMaterializer, StartsObservability, StartsTransport, PublishesCredential
  <2>3. process[b].n \in 1..7
    BY <2>2, StartPlace
  <2>4. port' = port
    BY <1>4 DEF StartsMaterializer, StartsObservability, StartsTransport, PublishesCredential
  <2>5. /\ process'[b].n \in {process[b].n, process[b].n + 1}
        /\ \A a \in Bridges \ {b} : process'[a] = process[a]
    BY <2>1, PlaceMoves
  <2>6. process'[b].n \in 1..8
    BY <2>3, <2>5
  <2> QED BY <1>1, <2>4, <2>5, <2>6 DEF PlacesKnown
<1>5. ASSUME NEW b \in Bridges, BindsPort(b) PROVE PlacesKnown'
  <2>1. process[b].n \in 1..7
    BY <1>5, StartPlace DEF BindsPort
  <2>2. CASE process' = GivesUp(b, {}) /\ port' = port
    <3>1. process'[b].n = process[b].n /\ \A a \in Bridges \ {b} : process'[a] = process[a]
      BY <2>2, PlaceMoves
    <3> QED BY <1>1, <2>2, <3>1 DEF PlacesKnown
  <2>3. CASE port' = b /\ process' = [Undoes(b, {"port"}) EXCEPT ![b].at = "serving"]
    <3> DEFINE p == process[b]
               on == Became(p.at, p.n + 1, p.undo \union {"port"}, p.failed, p.dirty, p.term)
    <3>1. Undoes(b, {"port"}) = [process EXCEPT ![b] = on] /\ DOMAIN process = Bridges
      BY ProcessFields DEF Changed, RunInv
    <3>2. on.n = process[b].n + 1 /\ [on EXCEPT !.at = "serving"].n = on.n
      BY DEF Became
    <3> HIDE DEF on
    <3>3. process'[b] = [on EXCEPT !.at = "serving"]
          /\ \A a \in Bridges \ {b} : process'[a] = process[a]
      BY <2>3, <3>1
    <3>4. process'[b].n \in 1..8
      BY <2>1, <3>2, <3>3
    <3> QED BY <1>1, <2>3, <3>3, <3>4 DEF PlacesKnown
  <2> QED BY <1>5, <2>2, <2>3 DEF BindsPort
<1>6. ASSUME NEW b \in Bridges, StopsServing(b) PROVE PlacesKnown'
  <2>1. process' = GivesUp(b, {}) /\ port' = port
    BY <1>6 DEF StopsServing
  <2>2. process'[b].n = process[b].n /\ \A a \in Bridges \ {b} : process'[a] = process[a]
    BY <2>1, PlaceMoves
  <2> QED BY <1>1, <2>1, <2>2 DEF PlacesKnown
<1>7. ASSUME NEW b \in Bridges, StopsPart(b) PROVE PlacesKnown'
  <2>1. port' \in {port, Nobody}
    BY <1>7 DEF StopsPart
  <2>2. DOMAIN process = Bridges /\ process[b] \in BridgeRecords
    BY DEF RunInv
  <2> DEFINE part == NextDown(b)
             down == [process[b] EXCEPT !.undo = @ \ {part}]
  <2>3. \/ process' = [process EXCEPT ![b] = [down EXCEPT !.dirty = @ /\ part # "flush"]]
        \/ process' = [process EXCEPT ![b] = [down EXCEPT !.failed = @ \union {part}]]
    BY <1>7 DEF StopsPart
  <2>4. DOMAIN down = DOMAIN process[b] /\ down.n = process[b].n /\ "n" \in DOMAIN process[b]
    BY <2>2 DEF BridgeRecords
  <2> HIDE DEF part, down
  <2>5. /\ [down EXCEPT !.dirty = @ /\ part # "flush"].n = down.n
        /\ [down EXCEPT !.failed = @ \union {part}].n = down.n
    BY <2>4
  <2>6. process'[b].n = process[b].n /\ \A a \in Bridges \ {b} : process'[a] = process[a]
    BY <2>2, <2>3, <2>4, <2>5
  <2> QED BY <1>1, <2>1, <2>6 DEF PlacesKnown
<1> QED BY <1>2, <1>3, <1>4, <1>5, <1>6, <1>7 DEF ProcessNext, BridgeStep

(* A bridge process keeps to its types, and so do the port, the run directory and
   the restart commands: it starts at most the parts there are and takes down or
   fails to take down only parts of its own (runtime.py:89-148, ops.py:260-322). *)
THEOREM BridgesKeepTheirTypes ==
  ASSUME NEW commands \in SUBSET RestartCommands, NEW ids \in SUBSET Bridges,
         Cardinality(commands) <= Cardinality(ids), NEW faults
  PROVE  ProcessInit(commands, ids, faults) /\ [][ProcessNext]_processVars => []ProcessTypeOK
<1>1. ProcessInit(commands, ids, faults) => RunInv /\ TurnInv /\ PlacesKnown
  <2> SUFFICES ASSUME ProcessInit(commands, ids, faults) PROVE PlacesKnown
    BY BridgesBegin
  <2>1. port = Nobody /\ overlap = FALSE
    BY DEF ProcessInit
  <2>3. process = [b \in Bridges |->
                    [NotStarted EXCEPT !.at = IF b \in ids THEN "none" ELSE "exited"]]
    BY DEF ProcessInit
  <2>2. \A b \in Bridges : process[b].n = 1
    BY <2>3 DEF NotStarted
  <2>4. \A b \in Bridges : process[b].n \in 1..8
    BY <2>2
  <2>5. overlap \in BOOLEAN
    BY <2>1
  <2> QED BY <2>1, <2>4, <2>5 DEF PlacesKnown
<1>2. RunInv /\ TurnInv /\ PlacesKnown /\ [ProcessNext]_processVars
        => RunInv' /\ TurnInv' /\ PlacesKnown'
  BY BridgesGoOn, PlacesStayKnown
<1>3. RunInv /\ PlacesKnown => ProcessTypeOK
  <2> SUFFICES ASSUME RunInv, PlacesKnown PROVE ProcessTypeOK
    OBVIOUS
  <2>1. Len(StartOrder) + 1 = 8
    BY DEF StartOrder
  <2>2. Parts \subseteq ToSet(StopOrder)
    <3>1. DOMAIN StopOrder = 1..9
      BY DEF StopOrder
    <3> QED BY <3>1, PartsDiffer DEF ToSet
  <2>3. ASSUME NEW b \in Bridges PROVE process[b].n \in 1..8
    BY DEF PlacesKnown
  <2>4. ASSUME NEW b \in Bridges
        PROVE  /\ process[b].at \in {"none", "launched", "starting", "serving", "stopping",
                                     "exited", "crashed"}
               /\ process[b].undo \union process[b].failed \subseteq ToSet(StopOrder)
    BY <2>2, FieldTypes DEF Places
  <2>5. ASSUME NEW k \in RestartCommands
        PROVE  /\ restart[k].at \in Steps
               /\ {restart[k].old, restart[k].new} \subseteq Bridges \union {Nobody}
               /\ restart[k].said \in {"nothing", "failed", "healthy"}
    BY DEF RunInv, RestartInv, CommandRecords
  <2>6. /\ current \in [snapshot : Bridges \union {Nobody}, credential : Bridges \union {Nobody}]
        /\ crossed \subseteq Bridges
    BY DEF RunInv, RunDirectories
  <2> QED BY <2>1, <2>3, <2>4, <2>5, <2>6 DEF ProcessTypeOK, PlacesKnown, Steps
<1> QED BY <1>1, <1>2, <1>3, PTL

-----------------------------------------------------------------------------
Manifests == [pid : Pids \union {NoPid}, status : {"none", "running", "stopped"}]

(* Whoever of ours listens is a core, not one that has ended and not the
   stranger who has its id now; what stop commands hold is a manifest. *)
CoreInv ==
  /\ DOMAIN core = Pids
  /\ listener \in Pids => core[listener] = "listening"
  /\ manifest \in Manifests
  /\ DOMAIN script = Scripts /\ \A s \in Scripts : script[s].pid \in Pids \union {NoPid}
  /\ DOMAIN stop = StopCommands /\ \A c \in StopCommands : stop[c].read \in Manifests
  /\ \A s \in Scripts : script[s] = [at |-> script[s].at, pid |-> script[s].pid]
  /\ \A c \in StopCommands : stop[c] = [at |-> stop[c].at, read |-> stop[c].read]

(* The ids with which no process runs that is not a core. *)
StrangersStay == \A p \in Pids : core[p] = "stranger" => core'[p] = "stranger"
BridgesHaveTheirCore ==
  \A s \in Scripts : script'[s].at = "bridge" /\ script[s].at # "bridge" =>
    /\ listener \in Pids /\ core[listener] = "listening"
    /\ manifest = [pid |-> listener, status |-> "running"]

-----------------------------------------------------------------------------
(* The process that OwnsListener finds is a core of ours. *)
LEMMA OwnerIsCore ==
  ASSUME NoPid \notin Pids, CoreInv, NEW m \in Manifests, OwnsListener(m)
  PROVE  /\ m.pid \in Pids /\ listener = m.pid /\ core[listener] = "listening"
         /\ m = [pid |-> listener, status |-> "running"]
BY DEF CoreInv, Manifests, OwnsListener, Exists, ListenedBy

(* A new core gets an id that nobody has. *)
LEMMA LaunchTakesFreeId ==
  ASSUME PidsInOrder, CoreInv, NEW s \in Scripts, LaunchesCore(s)
  PROVE  /\ \E p \in Unlaunched : /\ core' = [core EXCEPT ![p] = "launched"]
                                  /\ script' = [script EXCEPT ![s] = [at |-> "record", pid |-> p]]
         /\ UNCHANGED <<listener, manifest, stop>>
<1> DEFINE p == CHOOSE p \in Unlaunched : \A q \in Unlaunched : p <= q
<1>1. Unlaunched # {} /\ Unlaunched \in SUBSET Pids
  BY DEF LaunchesCore, Unlaunched
<1>2. \E q \in Unlaunched : \A r \in Unlaunched : q <= r
  BY <1>1 DEF PidsInOrder
<1>3. p \in Unlaunched
  BY <1>2
<1> QED BY <1>3 DEF LaunchesCore

-----------------------------------------------------------------------------
(* Launcher scripts.  Only VerifiesCore lets one become a bridge. *)
LEMMA ScriptSteps ==
  ASSUME PidsInOrder, NoPid \notin Pids, CoreInv, NEW s \in Scripts, ScriptStep(s)
  PROVE  CoreInv' /\ StrangersStay /\ BridgesHaveTheirCore
<1> USE DEF CoreInv, StrangersStay, BridgesHaveTheirCore, ScriptAt, ScriptGoes
<1>1. CASE Looks(s)
  BY <1>1 DEF Looks
<1>2. CASE LaunchesCore(s)
  <2>1. PICK p \in Unlaunched : /\ core' = [core EXCEPT ![p] = "launched"]
                                /\ script' = [script EXCEPT ![s] = [at |-> "record", pid |-> p]]
                                /\ UNCHANGED <<listener, manifest, stop>>
    BY <1>2, LaunchTakesFreeId
  <2> QED BY <2>1 DEF Unlaunched
<1>3. CASE RecordsCore(s)
  BY <1>3 DEF RecordsCore, Manifests
<1>4. CASE AwaitsCore(s)
  BY <1>4 DEF AwaitsCore
<1>5. CASE VerifiesCore(s)
  <2>1. OwnsListener(manifest) =>
          /\ listener \in Pids /\ core[listener] = "listening"
          /\ manifest = [pid |-> listener, status |-> "running"]
    BY OwnerIsCore
  <2> QED BY <1>5, <2>1 DEF VerifiesCore
<1> QED BY <1>1, <1>2, <1>3, <1>4, <1>5 DEF ScriptStep

(* Stop commands.  A process is only ended while it listens for us. *)
LEMMA StopSteps ==
  ASSUME NoPid \notin Pids, CoreInv, NEW c \in StopCommands, StopStep(c)
  PROVE  CoreInv' /\ StrangersStay /\ BridgesHaveTheirCore
<1> USE DEF CoreInv, StrangersStay, BridgesHaveTheirCore, StopAt, StopGoes
<1>1. CASE StopReads(c)
  BY <1>1 DEF StopReads
<1>2. CASE StopLooks(c)
  <2>1. OwnsListener(stop[c].read) =>
          stop[c].read.pid = listener /\ listener \in Pids /\ core[listener] = "listening"
    BY OwnerIsCore
  <2> QED BY <1>2, <2>1, NoPid \notin Pids DEF StopLooks, CoreEnds
<1>3. CASE StopMarks(c)
  <2>1. manifest' \in Manifests
    BY <1>3 DEF StopMarks, Manifests
  <2> QED BY <1>3, <2>1 DEF StopMarks
<1> QED BY <1>1, <1>2, <1>3 DEF StopStep

(* Cores and the system. *)
LEMMA ProcessSteps ==
  ASSUME NoPid \notin Pids, Foreign \notin Pids, CoreInv,
         ForeignBinds \/ \E p \in Pids : CoreBinds(p) \/ CoreDies(p) \/ PidIsReused(p)
  PROVE  CoreInv' /\ StrangersStay /\ BridgesHaveTheirCore
<1> USE DEF CoreInv, StrangersStay, BridgesHaveTheirCore
<1>1. CASE ForeignBinds
  BY <1>1 DEF ForeignBinds
<1>2. ASSUME NEW p \in Pids, CoreBinds(p) PROVE CoreInv' /\ StrangersStay /\ BridgesHaveTheirCore
  BY <1>2 DEF CoreBinds
<1>3. ASSUME NEW p \in Pids, CoreDies(p) PROVE CoreInv' /\ StrangersStay /\ BridgesHaveTheirCore
  BY <1>3 DEF CoreDies, CoreEnds
<1>4. ASSUME NEW p \in Pids, PidIsReused(p) PROVE CoreInv' /\ StrangersStay /\ BridgesHaveTheirCore
  BY <1>4 DEF PidIsReused
<1> QED BY <1>1, <1>2, <1>3, <1>4

-----------------------------------------------------------------------------
(* Manifests outlive their processes and are written over each other, ids are
   reused; still a bridge starts only on the core its manifest names, and only
   cores are stopped (core_manager.py:109-148, 166-210). *)
THEOREM CoresStayIdentified ==
  ASSUME NEW scripts, NEW stops, NEW faults
  PROVE  CoreInit(scripts, stops, faults) /\ [][CoreNext]_coreVars => CoresAreIdentified
<1>1. CoreInit(scripts, stops, faults) => CoreInv
  BY PidsAssumption DEF CoreInit, CoreInv, Manifests, NoManifest
<1>2. CoreInv /\ [CoreNext]_coreVars => CoreInv'
  <2>1. CoreInv /\ UNCHANGED coreVars => CoreInv'
    BY DEF CoreInv, coreVars
  <2> QED BY <2>1, PidsAssumption, ScriptSteps, StopSteps, ProcessSteps DEF CoreNext
<1>3. CoreInv /\ [CoreNext]_coreVars => [BridgesHaveTheirCore /\ StrangersStay]_coreVars
  BY PidsAssumption, ScriptSteps, StopSteps, ProcessSteps DEF CoreNext
<1> QED
  BY <1>1, <1>2, <1>3, PTL DEF CoresAreIdentified, BridgesHaveTheirCore, StrangersStay

-----------------------------------------------------------------------------
(* The steps that the processes of a core, its scripts and the stop commands
   are at. *)
CoreSteps ==
  /\ core \in [Pids -> {"none", "launched", "listening", "ended", "stranger"}]
  /\ listener \in Pids \union {NoPid, Foreign}
  /\ \A s \in Scripts : script[s].at \in {"new", "start", "record", "wait", "verify",
                                          "bridge", "done"}
  /\ \A c \in StopCommands : stop[c].at \in {"new", "look", "mark", "done"}

LEMMA CoreStepsStay ==
  ASSUME PidsInOrder, NoPid \notin Pids, CoreInv, CoreSteps, CoreNext
  PROVE  CoreSteps'
<1> USE DEF CoreInv, CoreSteps, ScriptAt, ScriptGoes, StopAt, StopGoes
<1>1. CASE ForeignBinds
  BY <1>1 DEF ForeignBinds
<1>2. ASSUME NEW s \in Scripts, ScriptStep(s) PROVE CoreSteps'
  <2>1. CASE Looks(s)
    BY <2>1 DEF Looks
  <2>2. CASE LaunchesCore(s)
    <3>1. PICK p \in Unlaunched : /\ core' = [core EXCEPT ![p] = "launched"]
                                  /\ script' = [script EXCEPT ![s] = [at |-> "record", pid |-> p]]
                                  /\ UNCHANGED <<listener, manifest, stop>>
      BY <2>2, LaunchTakesFreeId
    <3> QED BY <3>1 DEF Unlaunched
  <2>3. CASE RecordsCore(s)
    BY <2>3 DEF RecordsCore
  <2>4. CASE AwaitsCore(s)
    BY <2>4 DEF AwaitsCore
  <2>5. CASE VerifiesCore(s)
    BY <2>5 DEF VerifiesCore
  <2> QED BY <1>2, <2>1, <2>2, <2>3, <2>4, <2>5 DEF ScriptStep
<1>3. ASSUME NEW c \in StopCommands, StopStep(c) PROVE CoreSteps'
  <2>1. CASE StopReads(c)
    BY <2>1 DEF StopReads
  <2>2. CASE StopLooks(c)
    <3>1. OwnsListener(stop[c].read) =>
            stop[c].read.pid = listener /\ listener \in Pids /\ core[listener] = "listening"
      BY OwnerIsCore
    <3> QED BY <2>2, <3>1 DEF StopLooks, CoreEnds
  <2>3. CASE StopMarks(c)
    BY <2>3 DEF StopMarks
  <2> QED BY <1>3, <2>1, <2>2, <2>3 DEF StopStep
<1>4. ASSUME NEW p \in Pids, CoreBinds(p) \/ CoreDies(p) \/ PidIsReused(p) PROVE CoreSteps'
  BY <1>4 DEF CoreBinds, CoreDies, CoreEnds, PidIsReused
<1> QED BY <1>1, <1>2, <1>3, <1>4 DEF CoreNext

(* The dedicated core keeps to its types: the process of an id that is free,
   runs or has ended, the manifest and the steps of the scripts and commands
   (core_manager.py:109-210, scripts/start.sh). *)
THEOREM CoreKeepsItsTypes ==
  ASSUME NEW scripts, NEW stops, NEW faults
  PROVE  CoreInit(scripts, stops, faults) /\ [][CoreNext]_coreVars => []CoreTypeOK
<1>1. CoreInit(scripts, stops, faults) => CoreInv /\ CoreSteps
  BY PidsAssumption DEF CoreInit, CoreInv, CoreSteps, Manifests, NoManifest
<1>2. CoreInv /\ CoreSteps /\ [CoreNext]_coreVars => CoreInv' /\ CoreSteps'
  <2>1. CoreInv /\ CoreSteps /\ UNCHANGED coreVars => CoreInv' /\ CoreSteps'
    BY DEF CoreInv, CoreSteps, coreVars
  <2>2. CoreInv /\ CoreNext => CoreInv'
    BY PidsAssumption, ScriptSteps, StopSteps, ProcessSteps DEF CoreNext
  <2> QED BY <2>1, <2>2, PidsAssumption, CoreStepsStay
<1>3. CoreInv /\ CoreSteps => CoreTypeOK
  BY DEF CoreInv, CoreSteps, CoreTypeOK, Manifests
<1> QED BY <1>1, <1>2, <1>3, PTL

-----------------------------------------------------------------------------
(* Native settings. *)
(* What an edit has read is what is there if nobody has written since. *)
ReadsAreVersioned ==
  \A e \in Edits :
    edit[e].at = "read" =>
      /\ edit[e].version \in Nat /\ edit[e].version <= version
      /\ edit[e].version = version => edit[e].saw = config
SettingsTyped ==
  /\ config = [k \in Keys |-> config[k]] /\ version \in Nat /\ DOMAIN edit = Edits
  /\ \A e \in Edits : edit[e] = [at |-> edit[e].at, saw |-> edit[e].saw,
                                 version |-> edit[e].version]
SettingsInv == SettingsTyped /\ ReadsAreVersioned /\ ModelSupportsSettings


-----------------------------------------------------------------------------
(* An edit that is allowed leaves settings that fit each other, if it changes
   the configuration it was checked against (settings_backend.py:1051-1107). *)
LEMMA AllowedEditFits ==
  ASSUME EditsAreSettings, "priority" # Unset,
         NEW e \in Edits, Allowed(e), edit[e].saw = config, Fits(config)
  PROVE  Fits(With(config, e))
<1> DEFINE new == With(config, e)
           keeps(k) == k \notin DOMAIN Updates[e]
<1>1. \A k \in Keys : new[k] = IF k \in DOMAIN Updates[e] THEN Updates[e][k] ELSE config[k]
  BY DEF With
<1>2. {"model", "effort", "personality", "fast", "permission"} = Keys
  BY DEF Keys
<1> HIDE DEF new
<1> USE <1>1, <1>2 DEF Fits, EffortFits, FastFits, PersonalityFits, ModelOf
<1>3. CASE OnlySets(e, "effort")
  BY <1>3 DEF Allowed, OnlySets, new
<1>4. CASE OnlySets(e, "personality")
  BY <1>4 DEF Allowed, OnlySets, new
<1>5. CASE OnlySets(e, "fast")
  BY <1>5 DEF Allowed, OnlySets, new
<1>6. CASE OnlySets(e, "permission")
  BY <1>6 DEF OnlySets, new
<1>7. CASE ~ \E k \in {"effort", "personality", "fast", "permission"} : OnlySets(e, k)
  <2>1. CASE (\E k \in Keys : ~keeps(k) /\ Updates[e][k] # Unset) \/ ~keeps("model")
    BY <1>7, <2>1 DEF Allowed, new
  <2>2. CASE (\A k \in Keys : ~keeps(k) => Updates[e][k] = Unset) /\ keeps("model")
    BY <2>2 DEF EditsAreSettings, new
  <2> QED BY <2>1, <2>2
<1> QED BY <1>3, <1>4, <1>5, <1>6, <1>7

(* Who names a version writes over nothing it has not read. *)
LEMMA VersionedWritesAreCurrent ==
  ASSUME SettingsInv, NEW e \in Edits, edit[e].at = "read", Versioned(e), UpToDate(e)
  PROVE  edit[e].saw = config
BY DEF SettingsInv, ReadsAreVersioned, UpToDate

LEMMA ReadKeepsInvariant ==
  ASSUME SettingsInv, NEW e \in Edits, Reads(e)
  PROVE  SettingsInv'
<1>1. /\ edit'[e] = [at |-> "read", saw |-> config, version |-> version]
      /\ \A f \in Edits \ {e} : edit'[f] = edit[f]
      /\ DOMAIN edit' = Edits /\ UNCHANGED <<config, version, overtaken>>
  BY DEF Reads, SettingsInv, SettingsTyped
<1>2. SettingsTyped' /\ ReadsAreVersioned'
  BY <1>1 DEF SettingsInv, SettingsTyped, ReadsAreVersioned
<1> QED BY <1>1, <1>2 DEF SettingsInv, ModelSupportsSettings, Fits, EffortFits, FastFits,
                          PersonalityFits, ModelOf

(* An edit that is over has nothing left to say about what it read. *)
LEMMA EditEnds ==
  ASSUME SettingsTyped, NEW e \in Edits, edit' = [edit EXCEPT ![e].at = "done"]
  PROVE  /\ edit'[e] = [at |-> "done", saw |-> edit[e].saw, version |-> edit[e].version]
         /\ \A f \in Edits \ {e} : edit'[f] = edit[f]
         /\ DOMAIN edit' = Edits
<1>1. edit'[e] = [edit[e] EXCEPT !.at = "done"]
  BY DEF SettingsTyped
<1>2. edit[e] = [at |-> edit[e].at, saw |-> edit[e].saw, version |-> edit[e].version]
  BY DEF SettingsTyped
<1> QED BY <1>1, <1>2 DEF SettingsTyped

LEMMA RefusalKeepsInvariant ==
  ASSUME SettingsInv, NEW e \in Edits, Refused(e)
  PROVE  SettingsInv'
<1>1. edit' = [edit EXCEPT ![e].at = "done"] /\ UNCHANGED <<config, version, overtaken>>
  BY DEF Refused
<1>2. SettingsTyped' /\ ReadsAreVersioned'
  BY <1>1, EditEnds DEF SettingsInv, SettingsTyped, ReadsAreVersioned
<1> QED BY <1>1, <1>2 DEF SettingsInv, ModelSupportsSettings, Fits, EffortFits, FastFits,
                          PersonalityFits, ModelOf

LEMMA WriteKeepsInvariant ==
  ASSUME EditsAreSettings, "priority" # Unset, SettingsInv, NEW e \in Edits, Writes(e)
  PROVE  SettingsInv'
<1>1. edit' = [edit EXCEPT ![e].at = "done"] /\ Allowed(e) /\ SettingsTyped
  BY DEF Writes, SettingsInv
<1>2. CASE UpToDate(e)
  <2>1. /\ config' = With(config, e) /\ version' = version + 1
        /\ overtaken' = (overtaken \/ edit[e].saw # config)
    BY <1>2 DEF Writes
  <2>2. ~overtaken' => Fits(With(config, e))
    BY <1>1, <2>1, AllowedEditFits DEF SettingsInv, ModelSupportsSettings
  <2>3. SettingsTyped'
    BY <1>1, <2>1, EditEnds DEF SettingsTyped, With
  <2>4. ReadsAreVersioned'
    BY <1>1, <2>1, EditEnds DEF SettingsInv, SettingsTyped, ReadsAreVersioned
  <2>5. ModelSupportsSettings'
    BY <2>1, <2>2 DEF ModelSupportsSettings, Fits, EffortFits, FastFits, PersonalityFits, ModelOf
  <2> QED BY <2>3, <2>4, <2>5 DEF SettingsInv
<1>3. CASE ~UpToDate(e)
  <2>1. UNCHANGED <<config, version, overtaken>>
    BY <1>3 DEF Writes
  <2>2. SettingsTyped' /\ ReadsAreVersioned'
    BY <1>1, <2>1, EditEnds DEF SettingsInv, SettingsTyped, ReadsAreVersioned
  <2> QED BY <2>1, <2>2 DEF SettingsInv, ModelSupportsSettings, Fits, EffortFits, FastFits,
                            PersonalityFits, ModelOf
<1> QED BY <1>2, <1>3

LEMMA OthersKeepInvariant ==
  ASSUME SettingsInv, OtherClientWrites
  PROVE  SettingsInv'
<1>1. PICK k \in Keys \ Managed, v \in Values :
        config' = [config EXCEPT ![k] = v] /\ Fits(config')
  BY DEF OtherClientWrites
<1>2. version' = version + 1 /\ UNCHANGED <<edit, overtaken>>
  BY DEF OtherClientWrites
<1>3. SettingsTyped'
  BY <1>1, <1>2 DEF SettingsInv, SettingsTyped
<1>4. ReadsAreVersioned'
  BY <1>2 DEF SettingsInv, SettingsTyped, ReadsAreVersioned
<1>5. ModelSupportsSettings'
  BY <1>1 DEF ModelSupportsSettings, Fits, EffortFits, FastFits, PersonalityFits, ModelOf
<1> QED BY <1>3, <1>4, <1>5 DEF SettingsInv

LEMMA SettingsInvStays ==
  ASSUME EditsAreSettings, "priority" # Unset, SettingsInv, [SettingsNext]_settingsVars
  PROVE  SettingsInv'
<1>1. CASE SettingsNext
  BY <1>1, ReadKeepsInvariant, RefusalKeepsInvariant, WriteKeepsInvariant,
     OthersKeepInvariant DEF SettingsNext
<1>2. CASE UNCHANGED settingsVars
  BY <1>2 DEF settingsVars, SettingsInv, SettingsTyped, ReadsAreVersioned,
              ModelSupportsSettings, Fits, EffortFits, FastFits, PersonalityFits, ModelOf
<1> QED BY <1>1, <1>2

-----------------------------------------------------------------------------
(* The inductive invariant of the settings. *)
THEOREM SettingsInvariant ==
  ASSUME NEW edits, NEW foreign
  PROVE  SettingsInit(edits, foreign) /\ [][SettingsNext]_settingsVars => []SettingsInv
<1>1. SettingsInit(edits, foreign) => SettingsInv
  <2> SUFFICES ASSUME SettingsInit(edits, foreign) PROVE SettingsInv
    OBVIOUS
  <2>1. Fits(Fresh)
    BY EditsAssumption DEF Fits, EffortFits, FastFits, PersonalityFits, ModelOf, Fresh, Keys
  <2>2. config = [k \in Keys |-> config[k]]
    BY DEF SettingsInit, Fresh
  <2>3. DOMAIN edit = Edits
        /\ \A e \in Edits : edit[e] = [at |-> IF e \in edits THEN "new" ELSE "done",
                                      saw |-> Fresh, version |-> 0]
    BY DEF SettingsInit
  <2>4. \A e \in Edits :
          /\ edit[e].at # "read"
          /\ edit[e] = [at |-> edit[e].at, saw |-> edit[e].saw, version |-> edit[e].version]
    <3> SUFFICES ASSUME NEW e \in Edits
                 PROVE  /\ edit[e].at # "read"
                        /\ edit[e] = [at |-> edit[e].at, saw |-> edit[e].saw,
                                      version |-> edit[e].version]
      OBVIOUS
    <3>1. PICK at : at # "read" /\ edit[e] = [at |-> at, saw |-> Fresh, version |-> 0]
      BY <2>3
    <3> QED BY <3>1
  <2>5. SettingsTyped /\ ReadsAreVersioned
    BY <2>2, <2>3, <2>4 DEF SettingsInit, SettingsTyped, ReadsAreVersioned
  <2> QED BY <2>1, <2>5 DEF SettingsInit, SettingsInv, ModelSupportsSettings
<1>2. SettingsInv /\ [SettingsNext]_settingsVars => SettingsInv'
  BY EditsAssumption, SettingsInvStays
<1> QED BY <1>1, <1>2, PTL

(* The values of the settings, the steps of the edits, the edits to come.   *)
SettingsKnown ==
  /\ config \in [Keys -> Values] /\ others \in Nat
  /\ \A e \in Edits : edit[e].at \in {"new", "read", "done"}

LEMMA SettingsStayKnown ==
  ASSUME CatalogIsKnown, SettingsTyped, SettingsKnown, [SettingsNext]_settingsVars
  PROVE  SettingsKnown'
<1>1. CASE OtherClientWrites
  BY <1>1 DEF OtherClientWrites, SettingsKnown
<1>2. ASSUME NEW e \in Edits, Reads(e) PROVE SettingsKnown'
  BY <1>2 DEF Reads, SettingsKnown, SettingsTyped
<1>3. ASSUME NEW e \in Edits, Refused(e) PROVE SettingsKnown'
  BY <1>3, EditEnds DEF Refused, SettingsKnown
<1>4. ASSUME NEW e \in Edits, Writes(e) PROVE SettingsKnown'
  <2>1. With(config, e) \in [Keys -> Values]
    BY DEF With, CatalogIsKnown, SettingsKnown
  <2>2. config' \in [Keys -> Values] /\ others' \in Nat
    BY <1>4, <2>1 DEF Writes, SettingsKnown
  <2>3. \A f \in Edits : edit'[f].at \in {"new", "read", "done"}
    BY <1>4, EditEnds DEF Writes, SettingsKnown
  <2> QED BY <2>2, <2>3 DEF SettingsKnown
<1>5. CASE UNCHANGED settingsVars
  BY <1>5 DEF settingsVars, SettingsKnown
<1> QED BY <1>1, <1>2, <1>3, <1>4, <1>5 DEF SettingsNext

(* The configuration keeps to its types: every key has a value of the catalog or
   none, whoever has written it (settings_backend.py:668-834). *)
THEOREM SettingsKeepTheirTypes ==
  ASSUME NEW edits, NEW foreign \in Nat
  PROVE  SettingsInit(edits, foreign) /\ [][SettingsNext]_settingsVars => []SettingsTypeOK
<1>1. SettingsInit(edits, foreign) => SettingsKnown
  <2> SUFFICES ASSUME SettingsInit(edits, foreign) PROVE SettingsKnown
    OBVIOUS
  <2>1. Fresh \in [Keys -> Values]
    BY CatalogAssumption DEF Fresh, Values, CatalogIsKnown
  <2>2. \A e \in Edits : edit[e].at \in {"new", "done"}
    BY DEF SettingsInit
  <2> QED BY <2>1, <2>2 DEF SettingsInit, SettingsKnown
<1>2. SettingsInv /\ SettingsKnown /\ [SettingsNext]_settingsVars => SettingsKnown'
  BY CatalogAssumption, SettingsStayKnown DEF SettingsInv
<1>3. SettingsInv /\ SettingsKnown => SettingsTypeOK
  BY DEF SettingsInv, SettingsTyped, SettingsKnown, SettingsTypeOK
<1> QED BY <1>1, <1>2, <1>3, SettingsInvariant, PTL

(* Effort, speed and personality fit the model, unless an edit without version
   wrote over what it had not read (settings_backend.py:545-586, 668-834). *)
THEOREM SettingsFitTheModel ==
  ASSUME NEW edits, NEW foreign
  PROVE  SettingsInit(edits, foreign) /\ [][SettingsNext]_settingsVars
           => []ModelSupportsSettings
<1>1. SettingsInv => ModelSupportsSettings
  BY DEF SettingsInv
<1> QED BY <1>1, SettingsInvariant, PTL

(* The permission default is written where there is none, not only where there
   was none when the bridge looked (settings_backend.py:434-499). *)
THEOREM ChoiceStays ==
  ASSUME NEW edits, NEW foreign
  PROVE  SettingsInit(edits, foreign) /\ [][SettingsNext]_settingsVars
           => ChoiceIsNeverOverridden
<1> DEFINE Step == \A e \in Edits :
             By[e] = "bridge" /\ edit[e].at = "read" /\ config' # config
               /\ edit'[e].at = "done" => config["permission"] = Unset
<1>1. SettingsInv /\ [SettingsNext]_settingsVars => [Step]_settingsVars
  <2> SUFFICES ASSUME SettingsInv, SettingsNext, NEW e \in Edits,
                      By[e] = "bridge", edit[e].at = "read", config' # config,
                      edit'[e].at = "done"
               PROVE  config["permission"] = Unset
    OBVIOUS
  <2>1. ~OtherClientWrites
    BY DEF OtherClientWrites
  <2>2. PICK f \in Edits : Writes(f)
    BY <2>1 DEF SettingsNext, Reads, Refused
  <2>3. f = e
    BY <2>2, EditEnds DEF Writes, SettingsInv
  <2>4. Wanted(e) /\ UpToDate(e) /\ Versioned(e)
    BY <2>2, <2>3 DEF Writes, Versioned
  <2> QED BY <2>4, VersionedWritesAreCurrent DEF Wanted
<1> QED BY <1>1, SettingsInvariant, PTL DEF ChoiceIsNeverOverridden

-----------------------------------------------------------------------------
(* Whoever is past the lock file's open holds it (config_store.py:141-171). *)
OneWriter ==
  \A t \in DOMAIN seen : save[t].at \in {"locked", "prepared", "writing"} => flocked = t

(* What a save has read is what its page has shown, its replacement was found
   acceptable, and nobody has come between unless he slipped in. *)
Replacement(t) == Merged(t, save[t].base)
WritersAreChecked ==
  \A t \in DOMAIN seen :
    /\ save[t].at \in {"prepared", "writing"} =>
         save[t].base = seen[t] /\ Usable(Replacement(t))
    /\ save[t].at = "writing" => save[t].base = file \/ slipped

(* Only an open page saves. *)
SavesTyped ==
  /\ DOMAIN save = Tabs /\ DOMAIN seen \subseteq Tabs
  /\ \A t \in Tabs \ DOMAIN seen : save[t].at = "none"
IsSave(s) == s = [at |-> s.at, edits |-> s.edits, base |-> s.base]
SavesAreRecords == \A t \in Tabs : IsSave(save[t])
EnvInv == SavesTyped /\ SavesAreRecords /\ OneWriter /\ WritersAreChecked /\ Usable(file)

(* A replacement that was accepted is usable: it is checked if it touches the
   channel, and leaves the channel alone if not (_validate_updates). *)
LEMMA AcceptedIsUsable ==
  ASSUME NEW t \in Tabs, Acceptable(t), Usable(file)
  PROVE  Usable(Merged(t, file))
<1>1. CASE Touched(t) \intersect {"enabled", "secret"} # {}
  BY <1>1 DEF Acceptable
<1>2. CASE Touched(t) \intersect {"enabled", "secret"} = {}
  <2>1. "enabled" \notin Touched(t) /\ "secret" \notin Touched(t)
    BY <1>2
  <2>2. "enabled" \in DOMAIN Empty /\ "secret" \in DOMAIN Empty
    BY DEF Empty
  <2>3. Merged(t, file)["enabled"] = file["enabled"]
         /\ Merged(t, file)["secret"] = file["secret"]
    BY <2>1, <2>2 DEF Merged
  <2> QED BY <2>3 DEF Usable
<1> QED BY <1>1, <1>2

-----------------------------------------------------------------------------
(* What one page does leaves the saves of the others where they are; only its
   own lock comes free. *)
OthersStay(t) ==
  /\ DOMAIN seen' = DOMAIN seen
  /\ \A u \in Tabs \ {t} : save'[u] = save[u] /\ (flocked = u => flocked' = u)
  /\ \A u \in DOMAIN seen \ {t} : seen'[u] = seen[u]

LEMMA StepsOfOnePage ==
  ASSUME Free \notin Tabs, SavesTyped, NEW t \in DOMAIN seen, TabStep(t)
  PROVE  SavesTyped' /\ OthersStay(t)
<1> USE DEF SavesTyped, OthersStay, SaveAt
<1>1. CASE Opens(t)
  BY <1>1 DEF Opens
<1>2. CASE Submits(t)
  BY <1>2 DEF Submits
<1>3. CASE TakesThreadLock(t) \/ TakesFileLock(t)
  BY <1>3 DEF TakesThreadLock, TakesFileLock
<1>4. CASE Rejects(t)
  BY <1>4 DEF Rejects, SaveOver
<1>5. CASE Prepares(t)
  BY <1>5 DEF Prepares
<1>6. CASE LooksAgain(t)
  BY <1>6 DEF LooksAgain, SaveOver
<1>7. CASE Replaces(t)
  BY <1>7 DEF Replaces, SaveOver
<1> QED BY <1>1, <1>2, <1>3, <1>4, <1>5, <1>6, <1>7 DEF TabStep

(* A step of ConfigStore.update changes its own record. *)
LEMMA SaveMoves ==
  ASSUME SavesTyped, SavesAreRecords, NEW t \in Tabs,
         NEW at, save' = [save EXCEPT ![t].at = at]
  PROVE  save'[t] = [at |-> at, edits |-> save[t].edits, base |-> save[t].base]
<1>1. save[t] = [at |-> save[t].at, edits |-> save[t].edits, base |-> save[t].base]
  BY DEF SavesAreRecords, IsSave
<1>2. save'[t] = [save[t] EXCEPT !.at = at]
  BY DEF SavesTyped
<1> QED BY <1>1, <1>2

LEMMA SavePrepares ==
  ASSUME SavesTyped, SavesAreRecords, NEW t \in Tabs, Prepares(t)
  PROVE  save'[t] = [at |-> "prepared", edits |-> save[t].edits, base |-> file]
<1>1. save[t] = [at |-> save[t].at, edits |-> save[t].edits, base |-> save[t].base]
  BY DEF SavesAreRecords, IsSave
<1>2. save'[t] = [[save[t] EXCEPT !.at = "prepared"] EXCEPT !.base = file]
  BY DEF SavesTyped, Prepares
<1> QED BY <1>1, <1>2

LEMMA SaveEnds ==
  ASSUME SavesTyped, NEW t \in Tabs, SaveOver(t)
  PROVE  save'[t] = NoSave
BY DEF SavesTyped, SaveOver

LEMMA OnePageSavesRecords ==
  ASSUME SavesTyped, SavesAreRecords, NEW t \in DOMAIN seen, TabStep(t)
  PROVE  IsSave(save'[t])
<1>1. t \in Tabs /\ IsSave(save[t]) /\ DOMAIN save = Tabs /\ IsSave(NoSave)
  BY DEF SavesTyped, SavesAreRecords, IsSave, NoSave
<1>2. CASE Opens(t)
  BY <1>1, <1>2 DEF Opens
<1>3. CASE Submits(t)
  <2>1. PICK edits \in Wishes :
          save' = [save EXCEPT ![t] = [NoSave EXCEPT !.at = "submitted", !.edits = edits]]
    BY <1>3 DEF Submits
  <2>2. save'[t] = [at |-> "submitted", edits |-> edits, base |-> Empty]
    BY <1>1, <2>1 DEF NoSave
  <2> QED BY <2>2 DEF IsSave
<1>4. CASE TakesThreadLock(t) \/ TakesFileLock(t)
  BY <1>1, <1>4, SaveMoves DEF TakesThreadLock, TakesFileLock, IsSave
<1>5. CASE LooksAgain(t) /\ save' = [save EXCEPT ![t].at = "writing"]
  BY <1>1, <1>5, SaveMoves DEF IsSave
<1>6. CASE SaveOver(t)
  BY <1>1, <1>6, SaveEnds
<1>7. CASE Prepares(t)
  <2>1. save'[t] = [at |-> "prepared", edits |-> save[t].edits, base |-> file]
    BY <1>1, <1>7, SavePrepares
  <2> QED BY <2>1 DEF IsSave
<1>8. LooksAgain(t) => SaveOver(t) \/ save' = [save EXCEPT ![t].at = "writing"]
  BY DEF LooksAgain
<1> QED BY <1>2, <1>3, <1>4, <1>5, <1>6, <1>7, <1>8 DEF TabStep, Rejects, Replaces

(* A replacement depends on its save alone. *)
LEMMA ReplacementStays ==
  ASSUME NEW u, save'[u] = save[u]
  PROVE  Replacement(u)' = Replacement(u)
BY DEF Replacement, Merged, Touched

LEMMA InvariantOfOnePage ==
  ASSUME Free \notin Tabs, EnvInv, NEW t \in DOMAIN seen, TabStep(t)
  PROVE  EnvInv'
<1>1. /\ SavesTyped' /\ OthersStay(t) /\ IsSave(save'[t])
      /\ t \in Tabs /\ SavesTyped /\ SavesAreRecords
  BY StepsOfOnePage, OnePageSavesRecords DEF EnvInv, SavesTyped
<1>2. UNCHANGED slipped /\ DOMAIN seen' = DOMAIN seen
  BY <1>1 DEF TabStep, Opens, Submits, TakesThreadLock, TakesFileLock, Rejects, Prepares,
         LooksAgain, Replaces, OthersStay
<1>3. ASSUME NEW u \in DOMAIN seen \ {t}
      PROVE  /\ save'[u] = save[u] /\ seen'[u] = seen[u]
             /\ Usable(Replacement(u))' <=> Usable(Replacement(u))
             /\ flocked = u => flocked' = u
  BY <1>1, ReplacementStays DEF OthersStay, SavesTyped, Usable
<1>4. SavesAreRecords'
  BY <1>1 DEF SavesAreRecords, OthersStay
(* Whether this page still satisfies the invariant. *)
<1> DEFINE Good == /\ save'[t].at \in {"locked", "prepared", "writing"} => flocked' = t
                   /\ save'[t].at \in {"prepared", "writing"} =>
                        save'[t].base = seen'[t] /\ Usable(Replacement(t))'
                   /\ save'[t].at = "writing" => save'[t].base = file' \/ slipped'
<1>5. ASSUME UNCHANGED file, Good PROVE EnvInv'
  <2>1. Usable(file)'
    BY <1>5 DEF EnvInv, Usable
  <2>2. OneWriter'
    BY <1>2, <1>3, <1>5 DEF EnvInv, OneWriter
  <2>3. WritersAreChecked'
    BY <1>2, <1>3, <1>5 DEF EnvInv, WritersAreChecked
  <2> QED BY <1>1, <1>4, <2>1, <2>2, <2>3 DEF EnvInv
<1>6. CASE Opens(t)
  <2>1. UNCHANGED file /\ save'[t].at = "none"
    BY <1>6 DEF Opens, SaveAt
  <2> QED BY <1>5, <2>1
<1>7. CASE Submits(t)
  <2>1. PICK edits \in Wishes :
          save' = [save EXCEPT ![t] = [NoSave EXCEPT !.at = "submitted", !.edits = edits]]
    BY <1>7 DEF Submits
  <2>2. save'[t] = [NoSave EXCEPT !.at = "submitted", !.edits = edits]
    BY <1>1, <2>1 DEF SavesTyped
  <2>3. save'[t].at = "submitted"
    BY <2>2 DEF NoSave
  <2>4. file' = file
    BY <1>7 DEF Submits
  <2> QED BY <1>5, <2>3, <2>4
<1>8. CASE TakesThreadLock(t)
  <2>1. save' = [save EXCEPT ![t].at = "locking"]
    BY <1>8 DEF TakesThreadLock
  <2>2. save'[t] = [at |-> "locking", edits |-> save[t].edits, base |-> save[t].base]
    BY <1>1, <2>1, SaveMoves
  <2>3. save'[t].at = "locking"
    BY <2>2
  <2>4. file' = file /\ (save'[t].at = "locked" => flocked' = t)
    BY <1>8, <2>3 DEF TakesThreadLock
  <2> QED BY <1>5, <2>3, <2>4
<1>9. CASE TakesFileLock(t)
  <2>1. save' = [save EXCEPT ![t].at = "locked"]
    BY <1>9 DEF TakesFileLock
  <2>2. save'[t] = [at |-> "locked", edits |-> save[t].edits, base |-> save[t].base]
    BY <1>1, <2>1, SaveMoves
  <2>3. save'[t].at = "locked"
    BY <2>2
  <2>4. file' = file /\ (save'[t].at = "locked" => flocked' = t)
    BY <1>9, <2>3 DEF TakesFileLock
  <2> QED BY <1>5, <2>3, <2>4
<1>10. CASE SaveOver(t) /\ UNCHANGED file
  <2>1. save'[t].at = "none"
    BY <1>1, <1>10, SaveEnds DEF NoSave
  <2> QED BY <1>5, <1>10, <2>1
<1>11. CASE Prepares(t)
  <2>1. /\ save'[t] = [at |-> "prepared", edits |-> save[t].edits, base |-> file]
        /\ seen'[t] = file /\ flocked' = flocked /\ file' = file
    BY <1>1, <1>11, SavePrepares DEF Prepares
  <2>2. flocked = t
    BY <1>11 DEF Prepares, SaveAt, EnvInv, OneWriter
  <2>3. Usable(Merged(t, file))
    BY <1>1, <1>11, AcceptedIsUsable DEF Prepares, EnvInv
  <2>4. Replacement(t)' = Merged(t, file)
    BY <2>1 DEF Merged, Replacement, Touched
  <2>5. Usable(Replacement(t))'
    BY <2>3, <2>4 DEF Usable
  <2> QED BY <1>5, <2>1, <2>2, <2>5
<1>12. CASE /\ LooksAgain(t) /\ file = save[t].base
             /\ save' = [save EXCEPT ![t].at = "writing"] /\ UNCHANGED <<threads, flocked>>
  <2>1. /\ save[t].at = "prepared" /\ file = save[t].base /\ file' = file
        /\ save'[t] = [at |-> "writing", edits |-> save[t].edits, base |-> save[t].base]
        /\ flocked' = flocked /\ seen' = seen
    BY <1>1, <1>12, SaveMoves DEF LooksAgain, SaveAt
  <2>2. Replacement(t)' = Replacement(t)
    BY <2>1 DEF Merged, Replacement, Touched
  <2>3. Usable(Replacement(t)) /\ flocked = t /\ save[t].base = seen[t]
    BY <2>1 DEF EnvInv, OneWriter, WritersAreChecked
  <2>4. Usable(Replacement(t))'
    BY <2>2, <2>3 DEF Usable
  <2> QED BY <1>5, <2>1, <2>3, <2>4
<1>13. CASE Replaces(t)
  <2>1. SaveAt(t, "writing") /\ flocked = t /\ save'[t].at = "none"
    BY <1>1, <1>13, SaveEnds DEF Replaces, EnvInv, OneWriter, SaveAt, NoSave
  <2>2. \A u \in DOMAIN seen \ {t} : save[u].at \notin {"locked", "prepared", "writing"}
    BY <2>1 DEF EnvInv, OneWriter
  <2>3. file' = Replacement(t) \/ file' = file
    BY <1>13 DEF Replaces, Replacement
  <2>4. Usable(file)'
    BY <2>1, <2>3 DEF EnvInv, WritersAreChecked, SaveAt, Usable
  <2>5. OneWriter' /\ WritersAreChecked'
    BY <1>2, <1>3, <2>1, <2>2 DEF OneWriter, WritersAreChecked
  <2> QED BY <1>1, <1>4, <2>4, <2>5 DEF EnvInv
<1> QED
  BY <1>6, <1>7, <1>8, <1>9, <1>10, <1>11, <1>12, <1>13 DEF TabStep, Rejects, LooksAgain

(* The other writers: a person, and the end of a process with its locks. *)
LEMMA InvariantOfOthers ==
  ASSUME EnvInv, PersonEdits \/ \E p \in Processes : ProcessEnds(p)
  PROVE  EnvInv'
<1>1. CASE PersonEdits
  <2>1. /\ save' = save /\ seen' = seen /\ flocked' = flocked /\ Usable(file)'
        /\ slipped => slipped'
        /\ \A t \in Tabs : save[t].at = "writing" => slipped'
    BY <1>1 DEF PersonEdits, SaveAt, Usable
  <2>2. ASSUME NEW t \in Tabs PROVE Usable(Replacement(t))' <=> Usable(Replacement(t))
    BY <2>1, ReplacementStays DEF Usable
  <2>3. SavesTyped' /\ SavesAreRecords' /\ OneWriter'
    BY <2>1 DEF EnvInv, SavesTyped, SavesAreRecords, OneWriter
  <2>4. WritersAreChecked'
    BY <2>1, <2>2 DEF EnvInv, SavesTyped, WritersAreChecked
  <2> QED BY <2>1, <2>3, <2>4 DEF EnvInv
<1>2. ASSUME NEW p \in Processes, ProcessEnds(p) PROVE EnvInv'
  <2>1. /\ UNCHANGED <<file, seen, slipped>> /\ DOMAIN save' = Tabs
        /\ \A t \in Tabs : \/ save'[t] = NoSave
                           \/ save'[t] = save[t] /\ (flocked = t => flocked' = t)
    BY <1>2 DEF ProcessEnds
  <2>2. NoSave.at = "none" /\ IsSave(NoSave)
    BY DEF NoSave, IsSave
  <2>3. ASSUME NEW t \in Tabs, save'[t] = save[t]
        PROVE  Usable(Replacement(t))' <=> Usable(Replacement(t))
    BY <2>3, ReplacementStays DEF Usable
  <2>4. SavesTyped' /\ SavesAreRecords' /\ OneWriter'
    BY <2>1, <2>2 DEF EnvInv, SavesTyped, SavesAreRecords, OneWriter
  <2>5. WritersAreChecked'
    BY <2>1, <2>2, <2>3 DEF EnvInv, SavesTyped, WritersAreChecked
  <2>6. Usable(file)'
    BY <2>1 DEF EnvInv, Usable
  <2> QED BY <2>4, <2>5, <2>6 DEF EnvInv
<1> QED BY <1>1, <1>2

LEMMA InvariantStays ==
  ASSUME Free \notin Tabs, EnvInv, [EnvNext]_envVars
  PROVE  EnvInv'
<1>1. CASE EnvNext
  BY <1>1, InvariantOfOnePage, InvariantOfOthers DEF EnvNext
<1>2. CASE UNCHANGED envVars
  BY <1>2 DEF envVars, EnvInv, SavesTyped, SavesAreRecords, OneWriter,
              WritersAreChecked, Usable, Replacement, Merged, Touched
<1> QED BY <1>1, <1>2
-----------------------------------------------------------------------------
(* Every behaviour that starts with a usable file keeps it usable: the check of
   one page is made under both locks, with the file that is then replaced
   (admin/config_store.py:135-171, 377-495). *)
THEOREM EnvInvariant ==
  ASSUME NEW start, Usable(start), NEW pages \in SUBSET Tabs, NEW trouble
  PROVE  EnvInit(start, pages, trouble) /\ [][EnvNext]_envVars => []EnvInv
<1>1. EnvInit(start, pages, trouble) => EnvInv
  <2> SUFFICES ASSUME EnvInit(start, pages, trouble) PROVE EnvInv
    OBVIOUS
  <2>1. \A t \in Tabs : save[t] = NoSave
    BY DEF EnvInit
  <2>2. NoSave.at = "none" /\ IsSave(NoSave)
    BY DEF NoSave, IsSave
  <2>3. SavesTyped /\ SavesAreRecords
    BY <2>1, <2>2 DEF EnvInit, SavesTyped, SavesAreRecords
  <2>4. OneWriter /\ WritersAreChecked
    BY <2>1, <2>2, <2>3 DEF SavesTyped, OneWriter, WritersAreChecked
  <2> QED BY <2>3, <2>4 DEF EnvInit, EnvInv
<1>2. EnvInv /\ [EnvNext]_envVars => EnvInv'
  BY TabsAssumption, InvariantStays
<1> QED BY <1>1, <1>2, PTL

(* What the file, the pages and the saves hold, and who holds the locks.    *)
EnvKnown ==
  /\ file \in Contents /\ seen \in [DOMAIN seen -> Contents]
  /\ \A t \in Tabs :
       /\ save[t].at \in {"none", "submitted", "locking", "locked", "prepared", "writing"}
       /\ IsWish(save[t].edits) /\ save[t].base \in Contents
  /\ threads \in [Processes -> Tabs \union {Free}] /\ flocked \in Tabs \union {Free}

WishesAssumed == \A w \in Wishes : IsWish(w)

(* A replacement is a file again. *)
LEMMA MergedIsContents ==
  ASSUME NEW t, IsWish(save[t].edits), NEW c \in Contents
  PROVE  Merged(t, c) \in Contents
<1> DEFINE v(s) == IF s \in Touched(t) THEN save[t].edits[s] ELSE c[s]
<1>1. DOMAIN Empty = {"enabled", "secret", "other"}
  BY DEF Empty
<1>2. Merged(t, c) = [enabled |-> v("enabled"), secret |-> v("secret"), other |-> v("other")]
  BY <1>1 DEF Merged
<1>3. c["enabled"] \in BOOLEAN /\ c["secret"] \in BOOLEAN /\ c["other"] \in {0, 1}
  BY DEF Contents
<1>4. v("enabled") \in BOOLEAN /\ v("secret") \in BOOLEAN /\ v("other") \in {0, 1}
  BY <1>3 DEF IsWish, Touched
<1> HIDE DEF v
<1> QED BY <1>2, <1>4 DEF Contents

(* What a step of one page has to show, once its own save is known.         *)
LEMMA OnePageStaysKnown ==
  ASSUME SavesTyped, EnvKnown, NEW t \in Tabs,
         \A u \in Tabs \ {t} : save'[u] = save[u],
         save'[t].at \in {"none", "submitted", "locking", "locked", "prepared", "writing"},
         IsWish(save'[t].edits), save'[t].base \in Contents,
         file' \in Contents, seen' \in [DOMAIN seen' -> Contents],
         \/ threads' = threads
         \/ \E h \in Tabs \union {Free} : threads' = [threads EXCEPT ![ProcessOf[t]] = h],
         flocked' \in {flocked, t, Free}
  PROVE  EnvKnown'
<1>1. threads' \in [Processes -> Tabs \union {Free}]
  BY DEF EnvKnown
<1> QED BY <1>1 DEF EnvKnown

LEMMA NoSaveIsKnown ==
  NoSave.at = "none" /\ IsWish(NoSave.edits) /\ NoSave.base \in Contents
<1>1. NoSave.at = "none" /\ NoSave.edits = NoEdits /\ NoSave.base = Empty
  BY DEF NoSave
<1>2. DOMAIN NoEdits = {}
  BY DEF NoEdits
<1>3. Empty \in Contents
  BY DEF Empty, Contents
<1> QED BY <1>1, <1>2, <1>3 DEF IsWish

LEMMA TabStepStaysKnown ==
  ASSUME WishesAssumed, Free \notin Tabs, SavesTyped, SavesAreRecords, EnvKnown,
         NEW t \in DOMAIN seen, TabStep(t)
  PROVE  EnvKnown'
<1>1. /\ t \in Tabs /\ OthersStay(t) /\ IsWish(save[t].edits) /\ save[t].base \in Contents
      /\ file \in Contents /\ seen \in [DOMAIN seen -> Contents]
      /\ \A u \in Tabs \ {t} : save'[u] = save[u]
  BY StepsOfOnePage DEF SavesTyped, EnvKnown, OthersStay
<1>2. CASE Opens(t)
  BY <1>1, <1>2, OnePageStaysKnown DEF Opens, EnvKnown
<1>3. CASE Submits(t)
  <2>1. PICK edits \in Wishes :
          save' = [save EXCEPT ![t] = [NoSave EXCEPT !.at = "submitted", !.edits = edits]]
    BY <1>3 DEF Submits
  <2>2. save'[t] = [at |-> "submitted", edits |-> edits, base |-> Empty]
    BY <1>1, <2>1 DEF NoSave, SavesTyped
  <2>3. Empty \in Contents /\ IsWish(edits)
    BY DEF Empty, Contents, WishesAssumed
  <2>4. UNCHANGED <<file, seen, threads, flocked>>
    BY <1>3 DEF Submits
  <2>5. /\ save'[t].at = "submitted" /\ save'[t].edits = edits /\ save'[t].base = Empty
    BY <2>2
  <2> QED BY <1>1, <2>3, <2>4, <2>5, OnePageStaysKnown
<1>4. ASSUME NEW at \in {"locking", "locked", "writing"},
             save' = [save EXCEPT ![t].at = at], UNCHANGED <<file, seen>>,
             \/ threads' = threads
             \/ threads' = [threads EXCEPT ![ProcessOf[t]] = t],
             flocked' \in {flocked, t}
      PROVE  EnvKnown'
  <2>1. save'[t] = [at |-> at, edits |-> save[t].edits, base |-> save[t].base]
    BY <1>1, <1>4, SaveMoves
  <2>2. save'[t].at = at /\ save'[t].edits = save[t].edits /\ save'[t].base = save[t].base
    BY <2>1
  <2> QED BY <1>1, <1>4, <2>2, OnePageStaysKnown
<1>5. CASE TakesThreadLock(t)
  <2>1. /\ save' = [save EXCEPT ![t].at = "locking"] /\ UNCHANGED <<file, seen, flocked>>
        /\ threads' = [threads EXCEPT ![ProcessOf[t]] = t]
    BY <1>5 DEF TakesThreadLock
  <2> QED BY <1>4, <2>1
<1>6. CASE TakesFileLock(t)
  <2>1. /\ save' = [save EXCEPT ![t].at = "locked"] /\ UNCHANGED <<file, seen, threads>>
        /\ flocked' = t
    BY <1>6 DEF TakesFileLock
  <2> QED BY <1>4, <2>1
<1>7. ASSUME SaveOver(t), file' \in Contents, seen' \in [DOMAIN seen' -> Contents]
      PROVE  EnvKnown'
  <2>1. save'[t] = NoSave
    BY <1>1, <1>7, SaveEnds
  <2>2. threads' = [threads EXCEPT ![ProcessOf[t]] = Free] /\ flocked' \in {flocked, Free}
    BY <1>7 DEF SaveOver
  <2> QED BY <1>1, <1>7, <2>1, <2>2, NoSaveIsKnown, OnePageStaysKnown
<1>8. CASE Rejects(t)
  BY <1>1, <1>7, <1>8 DEF Rejects
<1>9. CASE Prepares(t)
  <2>1. save'[t] = [at |-> "prepared", edits |-> save[t].edits, base |-> file]
    BY <1>1, <1>9, SavePrepares
  <2>2. save'[t].at = "prepared" /\ save'[t].edits = save[t].edits /\ save'[t].base = file
    BY <2>1
  <2>3. UNCHANGED <<file, seen, threads, flocked>>
    BY <1>9 DEF Prepares
  <2> QED BY <1>1, <2>2, <2>3, OnePageStaysKnown
<1>10. CASE LooksAgain(t)
  <2>1. UNCHANGED <<file, seen>>
        /\ \/ SaveOver(t)
           \/ save' = [save EXCEPT ![t].at = "writing"] /\ UNCHANGED <<threads, flocked>>
    BY <1>10 DEF LooksAgain
  <2> QED BY <1>1, <1>4, <1>7, <2>1
<1>11. CASE Replaces(t)
  <2>1. SaveOver(t)
        /\ \/ file' = Merged(t, save[t].base) /\ seen' = [seen EXCEPT ![t] = file']
           \/ UNCHANGED <<file, seen>>
    BY <1>11 DEF Replaces
  <2>2. Merged(t, save[t].base) \in Contents
    BY <1>1, MergedIsContents
  <2>3. file' \in Contents /\ seen' \in [DOMAIN seen' -> Contents]
    BY <1>1, <2>1, <2>2
  <2> QED BY <1>7, <2>1, <2>3
<1> QED BY <1>2, <1>3, <1>5, <1>6, <1>8, <1>9, <1>10, <1>11 DEF TabStep

LEMMA EnvStaysKnown ==
  ASSUME WishesAssumed, Free \notin Tabs, SavesTyped, SavesAreRecords, EnvKnown,
         [EnvNext]_envVars
  PROVE  EnvKnown'
<1>1. CASE PersonEdits
  BY <1>1 DEF PersonEdits, EnvKnown
<1>2. ASSUME NEW p \in Processes, ProcessEnds(p) PROVE EnvKnown'
  <2>1. /\ \A t \in Tabs : save'[t] \in {NoSave, save[t]}
        /\ threads' = [threads EXCEPT ![p] = Free] /\ flocked' \in {flocked, Free}
        /\ UNCHANGED <<file, seen>>
    BY <1>2 DEF ProcessEnds
  <2> QED BY <2>1, NoSaveIsKnown DEF EnvKnown
<1>3. CASE UNCHANGED envVars
  BY <1>3 DEF envVars, EnvKnown
<1> QED BY <1>1, <1>2, <1>3, TabStepStaysKnown DEF EnvNext

(* The .env file keeps to its types: whatever pages, persons and ending processes
   do, it is a file the bridge can read, and so is what every page has seen
   (admin/config_store.py:135-171, 377-495). *)
THEOREM EnvKeepsItsTypes ==
  ASSUME NEW start \in Contents, Usable(start), NEW pages \in SUBSET Tabs, NEW trouble
  PROVE  EnvInit(start, pages, trouble) /\ [][EnvNext]_envVars => []EnvTypeOK
<1>1. EnvInit(start, pages, trouble) => EnvKnown
  BY NoSaveIsKnown DEF EnvInit, EnvKnown
<1>2. EnvInv /\ EnvKnown /\ [EnvNext]_envVars => EnvKnown'
  BY TabsAssumption, WishesAssumption, EnvStaysKnown DEF EnvInv, WishesAssumed
<1>3. EnvInv /\ EnvKnown => EnvTypeOK
  BY DEF EnvInv, SavesTyped, EnvKnown, EnvTypeOK
<1> QED BY <1>1, <1>2, <1>3, EnvInvariant, PTL

(* The channel keeps its secret (admin/config_store.py:377-495). *)
THEOREM EnvStaysUsable ==
  ASSUME NEW start, Usable(start), NEW pages \in SUBSET Tabs, NEW trouble
  PROVE  EnvInit(start, pages, trouble) /\ [][EnvNext]_envVars => []ChannelStaysUsable
<1>1. EnvInv => ChannelStaysUsable
  BY DEF EnvInv, ChannelStaysUsable
<1> QED BY <1>1, EnvInvariant, PTL

(* A save undoes no edit its page has not seen, except one that came between
   the last look and os.replace (admin/config_store.py:141-171). *)
THEOREM EnvLosesNoEdit ==
  ASSUME NEW start, Usable(start), NEW pages \in SUBSET Tabs, NEW trouble
  PROVE  EnvInit(start, pages, trouble) /\ [][EnvNext]_envVars => NoEditIsLost
<1> DEFINE Step == \A t \in Tabs :
             SaveAt(t, "writing") /\ save'[t].at = "none" /\ file' # file
               => file = seen[t] \/ slipped
<1>1. EnvInv /\ [EnvNext]_envVars => [Step]_envVars
  <2> SUFFICES ASSUME EnvInv, NEW t \in Tabs, SaveAt(t, "writing")
               PROVE  file = seen[t] \/ slipped
    OBVIOUS
  <2>1. t \in DOMAIN seen
    BY DEF EnvInv, SavesTyped, SaveAt
  <2> QED BY <2>1 DEF EnvInv, WritersAreChecked, SaveAt
<1> QED BY <1>1, EnvInvariant, PTL DEF NoEditIsLost

-----------------------------------------------------------------------------
(* All of it. *)

(* Both kinds of settings stay usable, whoever edits which of them (settings_backend.py,
   admin/config_store.py). *)
THEOREM SettingsAlwaysUsable ==
  ASSUME NEW edits, NEW foreign,
         NEW start, Usable(start), NEW pages \in SUBSET Tabs, NEW trouble
  PROVE  /\ SettingsInit(edits, foreign) /\ [][SettingsNext]_settingsVars
         /\ EnvInit(start, pages, trouble) /\ [][EnvNext]_envVars
         => []SettingsStayUsable
<1>1. ModelSupportsSettings /\ ChannelStaysUsable => SettingsStayUsable
  BY DEF SettingsStayUsable
<1> QED BY <1>1, SettingsFitTheModel, EnvStaysUsable, PTL

(* Every process and every edit of another is respected (ops.py:532-571,
   core_manager.py, settings_backend.py:434-499, admin/config_store.py). *)
THEOREM OthersAlwaysRespected ==
  ASSUME NEW commands \in SUBSET RestartCommands, NEW ids \in SUBSET Bridges,
         Cardinality(commands) <= Cardinality(ids), NEW bridgeFaults,
         NEW scripts, NEW stops, NEW faults, NEW edits, NEW foreign,
         NEW start, Usable(start), NEW pages \in SUBSET Tabs, NEW trouble
  PROVE  /\ ProcessInit(commands, ids, bridgeFaults) /\ [][ProcessNext]_processVars
         /\ CoreInit(scripts, stops, faults) /\ [][CoreNext]_coreVars
         /\ SettingsInit(edits, foreign) /\ [][SettingsNext]_settingsVars
         /\ EnvInit(start, pages, trouble) /\ [][EnvNext]_envVars
         => OthersAreRespected
<1>1. ProcessInit(commands, ids, bridgeFaults) /\ [][ProcessNext]_processVars => HealthyIsTheNewOne
  BY HealthyIsAlwaysTheNewOne
<1>2. CoreInit(scripts, stops, faults) /\ [][CoreNext]_coreVars => CoresAreIdentified
  BY CoresStayIdentified
<1>3. SettingsInit(edits, foreign) /\ [][SettingsNext]_settingsVars => ChoiceIsNeverOverridden
  BY ChoiceStays
<1>4. EnvInit(start, pages, trouble) /\ [][EnvNext]_envVars => NoEditIsLost
  BY EnvLosesNoEdit
<1> QED
  BY <1>1, <1>2, <1>3, <1>4, PTL DEF OthersAreRespected
=============================================================================
