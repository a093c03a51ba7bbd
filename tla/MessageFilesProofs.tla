-------------------------- MODULE MessageFilesProofs --------------------------
(***************************************************************************)
(* For any requests, turns, calls and faults: the outbox keeps what it     *)
(* told the clients of the delivery API, the spool has every file somebody *)
(* still needs, and the media directory is what its calls returned and     *)
(* within the quota.                                                       *)
(***************************************************************************)
EXTENDS MessageFiles, FiniteSetTheorems, SequenceTheorems, WellFoundedInduction, TLAPS

-----------------------------------------------------------------------------
(* Inbound media. *)
Used == {f \in SpoolFiles : directory[f] # "none"}
MediaTyped ==
  /\ DOMAIN fetch = Fetches /\ DOMAIN worker = Workers
  /\ directory \in [SpoolFiles -> {"none", "part", "file"}]
  /\ old \subseteq SpoolFiles
(* Who works in the directory has the file lock, and who writes has made sure
   that there is room for all of its files. *)
LockIsTaken ==
  \A w \in Workers : worker[w] \in {"holds", "writes"} =>
    flock = w /\ (worker[w] = "writes" => w[2] = "stage")
RoomIsLeft ==
  /\ Cardinality(Used) <= Quota
  /\ \A w \in Workers : worker[w] = "writes" => Cardinality(Used \union Own(w)) <= Quota
(* What ages belongs to calls that have returned. *)
OldIsOver ==
  \A c \in Fetches : fetch[c] \notin {"ok", "error"} => ToSet(Batch[c]) \intersect old = {}

(* What a call has in the directory, by where it is and by what its two
   processes that change anything do. *)
NothingOf(c) == \A f \in ToSet(Batch[c]) : directory[f] = "none"
AllOf(c) == \A f \in ToSet(Batch[c]) : directory[f] = "file"
Stager(c) == worker[<<c, "stage">>]
Cleaner(c) == worker[<<c, "clean">>]
NobodyStages(c) == Stager(c) \notin {"polls", "holds", "writes"}
NotYet == {"never", "idle", "waits", "looks", "downloads"}
CallOK(c) ==
  /\ fetch[c] \in NotYet \union {"stages", "cleans", "ok", "error"}
  /\ c \in Sweeps => fetch[c] \in {"never", "idle", "waits", "looks"}
  /\ fetch[c] \in NotYet => NothingOf(c) /\ Stager(c) = "none" /\ Cleaner(c) = "none"
  /\ fetch[c] = "stages" =>
       /\ Cleaner(c) = "none"
       /\ Stager(c) \in {"polls", "holds"} => NothingOf(c)
       /\ Stager(c) = "ok" => AllOf(c)
  /\ fetch[c] = "cleans" =>
       \/ NobodyStages(c) /\ (Cleaner(c) = "ok" => NothingOf(c))
       \/ Kind[c] \in tainted
  /\ fetch[c] = "ok" =>
       /\ Stager(c) = "none" /\ Cleaner(c) = "none"
       /\ \A f \in ToSet(Batch[c]) : directory[f] = "file" \/ f \in old
  /\ fetch[c] = "error" => (NobodyStages(c) /\ NothingOf(c)) \/ Kind[c] \in tainted

MediaInv ==
  /\ MediaTyped /\ LockIsTaken /\ RoomIsLeft /\ OldIsOver
  /\ \A c \in Fetches : CallOK(c)

LEMMA FilesAreFinite ==
  ASSUME MediaAssumed, NEW S \in SUBSET SpoolFiles
  PROVE  IsFiniteSet(S) /\ Cardinality(S) \in Nat
BY FS_Subset, FS_CardinalityType DEF MediaAssumed

LEMMA FewerFit ==
  ASSUME MediaAssumed, NEW S \in SUBSET SpoolFiles, NEW T \in SUBSET S,
         Cardinality(S) <= Quota
  PROVE  Cardinality(T) <= Quota
<1>1. IsFiniteSet(S) /\ Cardinality(S) \in Nat /\ Cardinality(T) \in Nat
  BY FilesAreFinite
<1>2. Cardinality(T) <= Cardinality(S)
  BY <1>1, FS_Subset
<1> QED BY <1>1, <1>2 DEF MediaAssumed

(* The files of a batch are not more than its length. *)
LEMMA BatchIsNoLarger ==
  ASSUME MediaAssumed, NEW c \in Fetches
  PROVE  /\ ToSet(Batch[c]) \subseteq SpoolFiles
         /\ Cardinality(ToSet(Batch[c])) <= Len(Batch[c]) /\ Len(Batch[c]) \in Nat
<1> DEFINE n == Len(Batch[c])
           at == [i \in 1..n |-> Batch[c][i]]
<1>1. Batch[c] \in Seq(SpoolFiles) /\ n \in Nat /\ DOMAIN Batch[c] = 1..n
  BY DEF MediaAssumed
<1>2. ToSet(Batch[c]) \subseteq SpoolFiles
  BY <1>1 DEF ToSet
<1>3. at \in Surjection(1..n, ToSet(Batch[c]))
  BY <1>1 DEF ToSet, Surjection
<1>4. IsFiniteSet(1..n) /\ Cardinality(1..n) = n
  BY <1>1, FS_Interval
<1>5. Cardinality(ToSet(Batch[c])) <= n
  BY <1>3, <1>4, FS_Surjection
<1> QED BY <1>1, <1>2, <1>5

-----------------------------------------------------------------------------
(* What does not concern a call leaves it as it is; so does the removal of what
   is old. *)
LEMMA CallKeeps ==
  ASSUME MediaInv, NEW c \in Fetches,
         fetch'[c] = fetch[c], Stager(c)' = Stager(c), Cleaner(c)' = Cleaner(c),
         tainted \subseteq tainted', old \subseteq old',
         \A f \in ToSet(Batch[c]) :
           directory'[f] = directory[f] \/ (f \in old /\ directory'[f] = "none")
  PROVE  CallOK(c)'
<1>1. CallOK(c)
  BY DEF MediaInv
<1>2. fetch[c] \notin {"ok", "error"} => ToSet(Batch[c]) \intersect old = {}
  BY DEF MediaInv, OldIsOver
<1>3. NothingOf(c) => NothingOf(c)'
  BY DEF NothingOf
<1>4. fetch[c] = "stages" /\ AllOf(c) => AllOf(c)'
  BY <1>2 DEF AllOf
<1>5. NobodyStages(c)' = NobodyStages(c)
  BY DEF NobodyStages
<1> QED BY <1>1, <1>2, <1>3, <1>4, <1>5 DEF CallOK, NotYet

LEMMA RoomKeeps ==
  ASSUME MediaAssumed, MediaInv, Used' \subseteq Used,
         \A w \in Workers : worker'[w] = "writes" => worker[w] = "writes"
  PROVE  RoomIsLeft'
<1>1. Used \subseteq SpoolFiles
  BY DEF Used
<1>2. Cardinality(Used') <= Quota
  BY <1>1, FewerFit DEF MediaInv, RoomIsLeft
<1>3. ASSUME NEW w \in Workers, worker'[w] = "writes"
      PROVE  Cardinality(Used' \union Own(w)) <= Quota
  <2>1. w[1] \in Fetches
    BY DEF Workers
  <2>2. Own(w) \subseteq SpoolFiles
    BY <2>1, BatchIsNoLarger DEF Own
  <2>3. Cardinality(Used \union Own(w)) <= Quota
    BY <1>3 DEF MediaInv, RoomIsLeft
  <2> QED BY <1>1, <2>2, <2>3, FewerFit
<1>4. \A w \in Workers : Own(w)' = Own(w)
  BY DEF Own
<1> QED BY <1>2, <1>3, <1>4 DEF RoomIsLeft

-----------------------------------------------------------------------------
(* The processes.  One that does not stage or clean for a call leaves the call
   as it is. *)
LEMMA OthersKeep ==
  ASSUME MediaInv, NEW w \in Workers, NEW c \in Fetches,
         w \notin {<<c, "stage">>, <<c, "clean">>},
         \A v \in Workers \ {w} : worker'[v] = worker[v],
         fetch' = fetch, tainted \subseteq tainted', old' = old,
         \A f \in ToSet(Batch[c]) :
           directory'[f] = directory[f] \/ (f \in old /\ directory'[f] = "none")
  PROVE  CallOK(c)'
<1>1. <<c, "stage">> \in Workers \ {w} /\ <<c, "clean">> \in Workers \ {w}
  BY DEF Workers
<1>2. Stager(c)' = Stager(c) /\ Cleaner(c)' = Cleaner(c)
  BY <1>1 DEF Stager, Cleaner
<1> QED BY <1>2, CallKeeps

(* A worker has a call and a role. *)
LEMMA WorkerIs ==
  ASSUME NEW w \in Workers
  PROVE  /\ w[1] \in Fetches
         /\ \/ w = <<w[1], "look">> \/ w = <<w[1], "stage">> \/ w = <<w[1], "clean">>
BY DEF Workers

(* Files of different calls are different. *)
LEMMA OwnFiles ==
  ASSUME MediaAssumed, NEW w \in Workers, NEW c \in Fetches, w[1] # c
  PROVE  ToSet(Batch[c]) \intersect Own(w) = {}
BY WorkerIs DEF MediaAssumed, Own

LEMMA LocksStep ==
  ASSUME MediaAssumed, MediaInv, NEW w \in Workers, Locks(w)
  PROVE  MediaInv'
<1>1. MediaTyped' /\ OldIsOver'
  BY DEF MediaInv, MediaTyped, OldIsOver, Locks
<1>2. LockIsTaken'
  BY DEF MediaAssumed, MediaInv, MediaTyped, LockIsTaken, Locks
<1>3. RoomIsLeft'
  BY RoomKeeps DEF MediaInv, MediaTyped, Locks, Used
<1>4. ASSUME NEW c \in Fetches PROVE CallOK(c)'
  <2>1. CASE w \notin {<<c, "stage">>, <<c, "clean">>}
    BY <2>1, OthersKeep DEF Locks, MediaInv, MediaTyped
  <2>2. CASE w = <<c, "stage">>
    BY <2>2 DEF Locks, Stager, Cleaner, MediaInv, MediaTyped, CallOK, NobodyStages,
                NothingOf, AllOf, NotYet
  <2>3. CASE w = <<c, "clean">>
    BY <2>3 DEF Locks, Stager, Cleaner, MediaInv, MediaTyped, CallOK, NobodyStages,
                NothingOf, AllOf, NotYet
  <2> QED BY <2>1, <2>2, <2>3
<1> QED BY <1>1, <1>2, <1>3, <1>4 DEF MediaInv

(* A process that ends, or is ended, gives the file lock back; what it erases
   before is old, or its own. *)
LEMMA EndsStep ==
  ASSUME MediaAssumed, MediaInv, NEW w \in Workers, NEW how \in {"ok", "error", "dead"},
         NEW gone \in SUBSET SpoolFiles,
         gone = old \/ gone \subseteq Own(w),
         worker' = [worker EXCEPT ![w] = how],
         flock' = IF flock = w THEN Unheld ELSE flock,
         directory' = [f \in SpoolFiles |-> IF f \in gone THEN "none" ELSE directory[f]],
         UNCHANGED <<fetch, old>>, tainted \subseteq tainted',
         worker[w] \in {"polls", "holds", "writes"},
         gone # {} => gone = old \/ w[2] \in {"stage", "clean"},
         how = "ok" /\ w[2] = "stage" => gone = {} /\ \A f \in Own(w) : directory[f] = "file",
         how = "ok" /\ w[2] = "clean" => gone = Own(w)
  PROVE  MediaInv'
<1>1. MediaTyped' /\ OldIsOver'
  BY DEF MediaInv, MediaTyped, OldIsOver
<1>2. LockIsTaken'
  BY DEF MediaAssumed, MediaInv, MediaTyped, LockIsTaken
<1>3. RoomIsLeft'
  <2>1. Used' \subseteq Used
    BY DEF Used
  <2> QED BY <2>1, RoomKeeps DEF MediaInv, MediaTyped
<1>4. ASSUME NEW c \in Fetches PROVE CallOK(c)'
  <2>1. ToSet(Batch[c]) \subseteq SpoolFiles /\ CallOK(c)
    BY BatchIsNoLarger DEF MediaInv
  <2>2. CASE w[1] # c \/ w[2] = "look"
    <3>1. w \notin {<<c, "stage">>, <<c, "clean">>}
      BY <2>2
    <3>2. gone = old \/ gone \intersect ToSet(Batch[c]) = {}
      BY <2>2, OwnFiles, WorkerIs
    <3> QED BY <2>1, <3>1, <3>2, OthersKeep DEF MediaInv, MediaTyped
  <2>3. Own(<<c, "stage">>) = ToSet(Batch[c]) /\ Own(<<c, "clean">>) = ToSet(Batch[c])
    BY DEF Own
  <2>4. fetch[c] \notin {"ok", "error"} => ToSet(Batch[c]) \intersect old = {}
    BY DEF MediaInv, OldIsOver
  <2>5. CASE w = <<c, "stage">>
    <3>1. <<c, "clean">> \in Workers /\ <<c, "clean">> # w
      BY <2>5 DEF Workers
    <3>2. Cleaner(c)' = Cleaner(c) /\ Stager(c)' = how /\ Stager(c) \in {"polls", "holds", "writes"}
      BY <2>5, <3>1 DEF Stager, Cleaner, MediaInv, MediaTyped
    <3>3. NobodyStages(c)' /\ ~NobodyStages(c)
      BY <3>2 DEF NobodyStages
    <3>4. how = "ok" => AllOf(c)'
      BY <2>1, <2>3, <2>5 DEF AllOf
    <3> QED BY <2>1, <3>2, <3>3, <3>4 DEF CallOK, NotYet
  <2>6. CASE w = <<c, "clean">>
    <3>1. <<c, "stage">> \in Workers /\ <<c, "stage">> # w
      BY <2>6 DEF Workers
    <3>2. Stager(c)' = Stager(c) /\ Cleaner(c)' = how /\ Cleaner(c) \in {"polls", "holds", "writes"}
      BY <2>6, <3>1 DEF Stager, Cleaner, MediaInv, MediaTyped
    <3>3. NobodyStages(c)' = NobodyStages(c)
      BY <3>2 DEF NobodyStages
    <3>4. how = "ok" => NothingOf(c)'
      BY <2>1, <2>3, <2>6 DEF NothingOf
    <3>5. NothingOf(c) => NothingOf(c)'
      BY <2>1 DEF NothingOf
    <3> QED BY <2>1, <3>2, <3>3, <3>4, <3>5 DEF CallOK, NotYet
  <2> QED BY <2>2, <2>5, <2>6, WorkerIs
<1> QED BY <1>1, <1>2, <1>3, <1>4 DEF MediaInv

LEMMA EndsAndErasesNothing ==
  ASSUME MediaAssumed, MediaInv, NEW w \in Workers, NEW how \in {"ok", "error", "dead"},
         WorkerExits(w, how), UNCHANGED <<fetch, old, directory>>, tainted \subseteq tainted',
         worker[w] \in {"polls", "holds", "writes"},
         how = "ok" => w[2] = "stage" /\ \A f \in Own(w) : directory[f] = "file"
  PROVE  MediaInv'
<1> DEFINE gone == {}
<1>1. directory' = [f \in SpoolFiles |-> IF f \in gone THEN "none" ELSE directory[f]]
  BY DEF MediaInv, MediaTyped
<1>2. gone \in SUBSET SpoolFiles /\ gone \subseteq Own(w) /\ gone = {}
  OBVIOUS
<1>3. /\ worker' = [worker EXCEPT ![w] = how]
      /\ flock' = IF flock = w THEN Unheld ELSE flock
  BY DEF WorkerExits, Unlock
<1> HIDE DEF gone
<1>4. how = "ok" /\ w[2] = "clean" => gone = Own(w)
  OBVIOUS
<1> QED BY <1>1, <1>2, <1>3, <1>4, EndsStep

LEMMA EndingSteps ==
  ASSUME MediaAssumed, MediaInv, NEW w \in Workers,
         \/ LooksOver(w) \/ Completes(w) \/ Removes(w) \/ Fails(w) \/ WorkerDies(w)
         \/ Admits(w) /\ ~HasRoom(w[1])
         \/ \E f \in SpoolFiles : RejectsFile(w, f)
  PROVE  MediaInv'
<1> DEFINE Gone(gone) == directory' = [f \in SpoolFiles |->
                           IF f \in gone THEN "none" ELSE directory[f]]
<1>1. old \subseteq SpoolFiles
  BY DEF MediaInv, MediaTyped
<1>2. Own(w) \subseteq SpoolFiles /\ {} \subseteq SpoolFiles
  BY WorkerIs, BatchIsNoLarger DEF Own
<1>3. worker[w] = "writes" => w[2] = "stage"
  BY DEF MediaInv, LockIsTaken
<1>4. CASE LooksOver(w)
  <2>1. Gone(old) /\ w[2] = "look"
    BY <1>4 DEF LooksOver, Erase
  <2>2. PICK how \in {"ok", "error"} : WorkerExits(w, how)
    BY <1>4 DEF LooksOver
  <2> QED BY <1>1, <1>4, <2>1, <2>2, EndsStep DEF LooksOver, WorkerExits, Unlock
<1>5. CASE Completes(w)
  BY <1>5, EndsAndErasesNothing DEF Completes
<1>6. CASE Removes(w)
  <2>1. Gone(Own(w))
    BY <1>6 DEF Removes, Erase
  <2> QED BY <1>2, <1>6, <2>1, EndsStep DEF Removes, WorkerExits, Unlock
<1>7. CASE Fails(w)
  <2>1. CASE UNCHANGED directory
    BY <1>7, <2>1, EndsAndErasesNothing DEF Fails
  <2>2. CASE w[2] = "stage" /\ directory' = Erase(Own(w))
    <3>1. Gone(Own(w))
      BY <2>2 DEF Erase
    <3> QED BY <1>2, <1>7, <2>2, <3>1, EndsStep DEF Fails, WorkerExits, Unlock
  <2> QED BY <1>7, <2>1, <2>2 DEF Fails
<1>8. CASE WorkerDies(w)
  BY <1>8, EndsAndErasesNothing DEF WorkerDies, Living
<1>9. CASE Admits(w) /\ ~HasRoom(w[1])
  <2>1. Gone(old) /\ w[2] = "stage"
    BY <1>9 DEF Admits, Erase
  <2> QED BY <1>1, <1>9, <2>1, EndsStep DEF Admits, WorkerExits, Unlock
<1>10. CASE \E f \in SpoolFiles : RejectsFile(w, f)
  <2>1. Gone(Own(w)) /\ w[2] = "stage" /\ worker[w] = "writes"
    BY <1>10 DEF RejectsFile, NextFile, Erase
  <2> QED BY <1>2, <1>10, <2>1, EndsStep DEF RejectsFile, WorkerExits, Unlock
<1> QED BY <1>4, <1>5, <1>6, <1>7, <1>8, <1>9, <1>10

(* The quota is looked at again, and the batch fits into what is left. *)
LEMMA AdmitsStep ==
  ASSUME MediaAssumed, MediaInv, NEW w \in Workers, Admits(w), HasRoom(w[1])
  PROVE  MediaInv'
<1>1. /\ w[2] = "stage" /\ worker[w] = "holds"
      /\ directory' = [f \in SpoolFiles |-> IF f \in old THEN "none" ELSE directory[f]]
      /\ worker' = [worker EXCEPT ![w] = "writes"] /\ UNCHANGED <<flock, fetch, old, tainted>>
  BY DEF Admits, Erase
<1>2. MediaTyped' /\ OldIsOver'
  BY <1>1 DEF MediaInv, MediaTyped, OldIsOver
<1>3. LockIsTaken'
  BY <1>1 DEF MediaInv, MediaTyped, LockIsTaken
<1>4. RoomIsLeft'
  <2> DEFINE young == {f \in SpoolFiles : directory[f] # "none" /\ f \notin old}
             own == ToSet(Batch[w[1]])
  <2>1. Used' = young /\ Own(w)' = own
    BY <1>1 DEF Used, Own
  <2>2. w[1] \in Fetches /\ own \subseteq SpoolFiles
    BY WorkerIs, BatchIsNoLarger
  <2>3. IsFiniteSet(young) /\ IsFiniteSet(own) /\ young \intersect own \subseteq SpoolFiles
    BY <2>2, FilesAreFinite
  <2>4. Cardinality(young) + Len(Batch[w[1]]) <= Quota
    BY DEF HasRoom, Young
  <2>5. Cardinality(own) <= Len(Batch[w[1]]) /\ Len(Batch[w[1]]) \in Nat
    BY <2>2, BatchIsNoLarger
  <2>6. /\ Cardinality(young \union own)
             = Cardinality(young) + Cardinality(own) - Cardinality(young \intersect own)
        /\ Cardinality(young) \in Nat /\ Cardinality(own) \in Nat
        /\ Cardinality(young \intersect own) \in Nat
    BY <2>3, FS_Union, FS_CardinalityType, FS_Subset
  <2>7. Cardinality(young \union own) <= Quota /\ Cardinality(young) <= Quota
    BY <2>4, <2>5, <2>6 DEF MediaAssumed
  <2>8. \A v \in Workers : worker'[v] = "writes" => v = w
    BY <1>1 DEF MediaInv, MediaTyped, LockIsTaken
  <2> QED BY <2>1, <2>7, <2>8 DEF RoomIsLeft
<1>5. ASSUME NEW c \in Fetches PROVE CallOK(c)'
  <2>1. CASE w \notin {<<c, "stage">>, <<c, "clean">>}
    BY <1>1, <2>1, BatchIsNoLarger, OthersKeep DEF MediaInv, MediaTyped
  <2>2. CASE w = <<c, "stage">>
    <3>1. <<c, "clean">> \in Workers /\ <<c, "clean">> # w
      BY <2>2 DEF Workers
    <3>2. Cleaner(c)' = Cleaner(c) /\ Stager(c)' = "writes" /\ Stager(c) = "holds"
      BY <1>1, <2>2, <3>1 DEF Stager, Cleaner, MediaInv, MediaTyped
    <3>3. ~NobodyStages(c)
      BY <3>2 DEF NobodyStages
    <3>4. fetch[c] \notin NotYet /\ fetch[c] # "ok" /\ CallOK(c)
      BY <3>2 DEF CallOK, MediaInv
    <3> QED BY <1>1, <3>2, <3>3, <3>4 DEF CallOK
  <2>3. w # <<c, "clean">>
    BY <1>1
  <2> QED BY <2>1, <2>2, <2>3
<1> QED BY <1>2, <1>3, <1>4, <1>5 DEF MediaInv

(* A file is written and put in its place. *)
LEMMA FileSteps ==
  ASSUME MediaAssumed, MediaInv, NEW w \in Workers, NEW f \in SpoolFiles,
         WritesPart(w, f) \/ PlacesFile(w, f)
  PROVE  MediaInv'
<1>1. /\ w[2] = "stage" /\ worker[w] = "writes" /\ f \in Own(w)
      /\ UNCHANGED <<worker, flock, fetch, old, tainted>>
  BY DEF WritesPart, PlacesFile, NextFile, Own, ToSet
<1>2. PICK how \in {"part", "file"} : directory' = [directory EXCEPT ![f] = how]
  BY DEF WritesPart, PlacesFile
<1>3. MediaTyped' /\ OldIsOver' /\ LockIsTaken'
  BY <1>1, <1>2 DEF MediaInv, MediaTyped, OldIsOver, LockIsTaken
<1>4. RoomIsLeft'
  <2>1. Used' \subseteq Used \union Own(w) /\ Own(w) \subseteq SpoolFiles
    BY <1>1, <1>2, WorkerIs, BatchIsNoLarger DEF Used, Own, MediaInv, MediaTyped
  <2>2. Cardinality(Used \union Own(w)) <= Quota /\ Used \union Own(w) \subseteq SpoolFiles
    BY <1>1, <2>1 DEF Used, MediaInv, RoomIsLeft
  <2>3. \A v \in Workers : worker'[v] = "writes" => v = w
    BY <1>1 DEF MediaInv, LockIsTaken
  <2>4. Used' \union Own(w) \subseteq Used \union Own(w)
    BY <2>1
  <2>5. Cardinality(Used') <= Quota /\ Cardinality(Used' \union Own(w)) <= Quota
    BY <2>1, <2>2, <2>4, FewerFit
  <2> QED BY <2>3, <2>5 DEF RoomIsLeft, Own
<1>5. ASSUME NEW c \in Fetches PROVE CallOK(c)'
  <2>1. CASE w[1] # c
    <3>1. w \notin {<<c, "stage">>, <<c, "clean">>} /\ f \notin ToSet(Batch[c])
      BY <1>1, <2>1, OwnFiles
    <3> QED BY <1>1, <1>2, <3>1, BatchIsNoLarger, OthersKeep DEF MediaInv, MediaTyped
  <2>2. CASE w = <<c, "stage">>
    <3>1. Cleaner(c)' = Cleaner(c) /\ Stager(c)' = "writes" /\ Stager(c) = "writes"
      BY <1>1, <2>2 DEF Stager, Cleaner
    <3>2. ~NobodyStages(c)
      BY <3>1 DEF NobodyStages
    <3>3. fetch[c] \notin NotYet /\ fetch[c] # "ok" /\ CallOK(c)
      BY <3>1 DEF CallOK, MediaInv
    <3> QED BY <1>1, <3>1, <3>2, <3>3 DEF CallOK
  <2> QED BY <1>1, <2>1, <2>2, WorkerIs
<1> QED BY <1>3, <1>4, <1>5 DEF MediaInv

(* stop() ends a process, finds that it has ended, or fails to. *)
LEMMA TerminatesStep ==
  ASSUME MediaAssumed, MediaInv, NEW w \in Workers, Terminates(w)
  PROVE  MediaInv'
<1>1. CASE w \in Living /\ WorkerExits(w, "dead") /\ UNCHANGED tainted
  BY <1>1, EndsAndErasesNothing DEF Terminates, Living
<1>2. CASE UNCHANGED <<worker, flock>>
  <2>1. UNCHANGED <<worker, flock, fetch, directory, old>> /\ tainted \subseteq tainted'
    BY <1>2 DEF Terminates
  <2>2. MediaTyped' /\ OldIsOver' /\ LockIsTaken'
    BY <2>1 DEF MediaInv, MediaTyped, OldIsOver, LockIsTaken
  <2>3. RoomIsLeft'
    BY <2>1, RoomKeeps DEF Used
  <2>4. \A c \in Fetches : CallOK(c)'
    BY <2>1, CallKeeps DEF Stager, Cleaner
  <2> QED BY <2>2, <2>3, <2>4 DEF MediaInv
<1> QED BY <1>1, <1>2 DEF Terminates

-----------------------------------------------------------------------------
(* The calls.  A step of one changes nothing in the directory, and begins no
   work there: it starts a process, takes the answer of one, or ends it. *)
LEMMA CallSteps ==
  ASSUME MediaAssumed, MediaInv, NEW c \in Fetches, NEW how,
         fetch' = [fetch EXCEPT ![c] = how],
         DOMAIN worker' = Workers,
         \A v \in Workers : v[1] # c => worker'[v] = worker[v],
         \A v \in Workers : worker'[v] \in {"holds", "writes"} =>
           worker'[v] = worker[v] /\ (flock = v => flock' = v),
         UNCHANGED <<directory, old>>, tainted \subseteq tainted',
         how \notin {"ok", "error"} => fetch[c] \notin {"ok", "error"},
         CallOK(c)'
  PROVE  MediaInv'
<1>1. MediaTyped' /\ OldIsOver'
  BY DEF MediaInv, MediaTyped, OldIsOver
<1>2. LockIsTaken'
  BY DEF MediaInv, LockIsTaken
<1>3. RoomIsLeft'
  BY RoomKeeps DEF Used
<1>4. ASSUME NEW d \in Fetches, d # c PROVE CallOK(d)'
  <2>1. <<d, "stage">> \in Workers /\ <<d, "clean">> \in Workers
    BY DEF Workers
  <2>2. Stager(d)' = Stager(d) /\ Cleaner(d)' = Cleaner(d)
    BY <1>4, <2>1 DEF Stager, Cleaner
  <2> QED BY <1>4, <2>2, CallKeeps DEF MediaInv, MediaTyped
<1> QED BY <1>1, <1>2, <1>3, <1>4 DEF MediaInv

LEMMA MediaCallNext ==
  ASSUME MediaAssumed, MediaInv, NEW c \in Fetches, CallNext(c)
  PROVE  MediaInv'
<1> DEFINE look == <<c, "look">>
           stage == <<c, "stage">>
           clean == <<c, "clean">>
<1>1. /\ look \in Workers /\ stage \in Workers /\ clean \in Workers
      /\ look # stage /\ look # clean /\ stage # clean
      /\ look[1] = c /\ stage[1] = c /\ clean[1] = c
  BY DEF Workers
<1>2. CallOK(c) /\ DOMAIN fetch = Fetches /\ DOMAIN worker = Workers
  BY DEF MediaInv, MediaTyped
<1> HIDE DEF look, stage, clean
<1>3. ASSUME UNCHANGED directory PROVE NothingOf(c)' = NothingOf(c) /\ AllOf(c)' = AllOf(c)
  BY <1>3 DEF NothingOf, AllOf
<1>4. /\ Stager(c) = worker[stage] /\ Cleaner(c) = worker[clean]
      /\ Stager(c)' = worker'[stage] /\ Cleaner(c)' = worker'[clean]
  BY DEF Stager, Cleaner, stage, clean
<1>5. NobodyStages(c) = (Stager(c) \notin {"polls", "holds", "writes"})
      /\ NobodyStages(c)' = (Stager(c)' \notin {"polls", "holds", "writes"})
  BY DEF NobodyStages
<1>6. CASE Calls(c)
  <2>1. CallOK(c)'
    BY <1>2, <1>3, <1>4, <1>6 DEF Calls, CallOK, NotYet
  <2> QED BY <1>2, <1>6, <2>1, CallSteps DEF Calls
<1>7. CASE CallRefused(c)
  <2>1. CallOK(c)'
    BY <1>2, <1>3, <1>4, <1>5, <1>7 DEF CallRefused, CallOK, NotYet
  <2> QED BY <1>2, <1>7, <2>1, CallSteps DEF CallRefused
<1>8. CASE Enters(c)
  <2>1. worker' = [worker EXCEPT ![look] = "polls"]
    BY <1>8 DEF Enters, Starts, look
  <2>2. CallOK(c)'
    BY <1>1, <1>2, <1>3, <1>4, <1>8, <2>1 DEF Enters, CallOK, NotYet
  <2> QED BY <1>1, <1>2, <1>8, <2>1, <2>2, CallSteps DEF Enters
<1>9. CASE Looked(c)
  <2>1. /\ worker' = [worker EXCEPT ![look] = "none"]
        /\ \E how \in {"downloads", "idle", "error"} :
             fetch' = [fetch EXCEPT ![c] = how] /\ (how = "idle" <=> c \in Sweeps)
    BY <1>9 DEF Looked, Returns, Pause, look
  <2>2. CallOK(c)'
    BY <1>1, <1>2, <1>3, <1>4, <1>5, <1>9, <2>1 DEF Looked, CallOK, NotYet
  <2> QED BY <1>1, <1>2, <1>9, <2>1, <2>2, CallSteps DEF Looked
<1>10. CASE Downloads(c)
  <2>1. worker' = [worker EXCEPT ![stage] = "polls"]
    BY <1>10 DEF Downloads, Starts, stage
  <2>2. CallOK(c)'
    BY <1>1, <1>2, <1>3, <1>4, <1>10, <2>1 DEF Downloads, CallOK, NotYet
  <2> QED BY <1>1, <1>2, <1>10, <2>1, <2>2, CallSteps DEF Downloads
<1>11. CASE DownloadFails(c)
  <2>1. CallOK(c)'
    BY <1>2, <1>3, <1>4, <1>5, <1>11 DEF DownloadFails, Returns, CallOK, NotYet
  <2> QED BY <1>2, <1>11, <2>1, CallSteps DEF DownloadFails, Returns
<1>12. CASE Staged(c)
  <2>1. worker' = [worker EXCEPT ![stage] = "none"] /\ worker[stage] = "ok"
    BY <1>12 DEF Staged, Answer, stage
  <2>2. AllOf(c) => \A f \in ToSet(Batch[c]) : directory'[f] = "file"
    BY <1>12 DEF Staged, AllOf
  <2>3. CallOK(c)'
    BY <1>1, <1>2, <1>3, <1>4, <1>12, <2>1, <2>2 DEF Staged, Returns, CallOK, NotYet
  <2> QED BY <1>1, <1>2, <1>12, <2>1, <2>3, CallSteps DEF Staged, Returns
<1>13. CASE NotStaged(c)
  <2>1. worker' = [worker EXCEPT ![stage] = "none", ![clean] = "polls"]
    BY <1>13 DEF NotStaged, stage, clean
  <2>2. CallOK(c)'
    BY <1>1, <1>2, <1>3, <1>4, <1>5, <1>13, <2>1 DEF NotStaged, CallOK, NotYet
  <2> QED BY <1>1, <1>2, <1>13, <2>1, <2>2, CallSteps DEF NotStaged
<1>14. CASE Cleaned(c)
  <2>1. /\ worker' = [worker EXCEPT ![clean] = "none"]
        /\ worker[clean] = "ok" \/ Kind[c] \in tainted'
        /\ tainted \subseteq tainted'
    BY <1>14 DEF Cleaned, Answer, clean
  <2>2. CallOK(c)'
    BY <1>1, <1>2, <1>3, <1>4, <1>5, <1>14, <2>1 DEF Cleaned, Returns, CallOK, NotYet
  <2> QED BY <1>1, <1>2, <1>14, <2>1, <2>2, CallSteps DEF Cleaned, Returns
<1> QED
  BY <1>6, <1>7, <1>8, <1>9, <1>10, <1>11, <1>12, <1>13, <1>14, Zenon DEF CallNext, Staged

(* A call that gives up has ended its process, or refuses further work. *)
LEMMA GivesUpStep ==
  ASSUME MediaAssumed, MediaInv, NEW c \in Fetches, CallGivesUp(c)
  PROVE  MediaInv'
<1>1. Task(c) = CASE fetch[c] = "looks" -> {<<c, "look">>}
                  [] fetch[c] = "stages" -> {<<c, "stage">>}
                  [] fetch[c] = "cleans" -> {<<c, "clean">>}
                  [] OTHER -> {}
  <2>1. /\ DOMAIN Phases = {"looks", "stages", "cleans"}
        /\ Phases["looks"] = "look" /\ Phases["stages"] = "stage" /\ Phases["cleans"] = "clean"
    BY DEF Phases
  <2>2. CASE fetch[c] = "looks"
    BY <2>1, <2>2 DEF Task
  <2>3. CASE fetch[c] = "stages"
    BY <2>1, <2>3 DEF Task
  <2>4. CASE fetch[c] = "cleans"
    BY <2>1, <2>4 DEF Task
  <2>5. CASE fetch[c] \notin {"looks", "stages", "cleans"}
    BY <2>1, <2>5 DEF Task
  <2> QED BY <2>2, <2>3, <2>4, <2>5
<1>2. PICK killed \in BOOLEAN :
        LET ends == fetch[c] # "stages"
        IN /\ Task(c) \intersect Living = {} => killed
           /\ tainted' = IF killed /\ fetch[c] # "cleans" THEN tainted
                         ELSE tainted \union {Kind[c]}
           /\ IF ends THEN Returns(c, Pause(c))
              ELSE fetch' = [fetch EXCEPT ![c] = "cleans"] /\ UNCHANGED mutex
           /\ worker' = [w \in Workers |->
                IF w = <<c, "clean">> /\ ~ends THEN "polls"
                ELSE IF w \in Task(c) /\ (killed \/ w \notin Living) THEN "none"
                ELSE worker[w]]
           /\ flock' = IF killed /\ flock \in Task(c) THEN Unheld ELSE flock
  BY DEF CallGivesUp
<1>3. fetch[c] \in {"waits", "looks", "downloads", "stages", "cleans"}
  BY DEF CallGivesUp
<1>4. PICK how \in {"idle", "error", "cleans"} :
        /\ fetch' = [fetch EXCEPT ![c] = how]
        /\ how = "cleans" <=> fetch[c] = "stages"
        /\ fetch[c] # "stages" => (how = "idle" <=> c \in Sweeps)
  BY <1>2 DEF Returns, Pause
<1>5. \A w \in Task(c) : w \in Workers /\ w[1] = c
  BY <1>1 DEF Workers
<1>6. \A v \in Workers : v[1] # c => worker'[v] = worker[v]
  BY <1>2, <1>5
<1>7. \A v \in Workers : worker'[v] \in {"holds", "writes"} =>
        worker'[v] = worker[v] /\ (flock = v => flock' = v)
  BY <1>2
<1>8. UNCHANGED <<directory, old>> /\ tainted \subseteq tainted'
  BY <1>2 DEF CallGivesUp
<1>9. CallOK(c)'
  <2>1. CallOK(c) /\ DOMAIN fetch = Fetches
    BY DEF MediaInv, MediaTyped
  <2>2. NothingOf(c)' = NothingOf(c)
    BY <1>8 DEF NothingOf
  <2>3. <<c, "stage">> \in Workers /\ <<c, "clean">> \in Workers
    BY DEF Workers
  <2>4. CASE fetch[c] \in {"waits", "looks", "downloads"}
    <3>1. Stager(c)' = "none" /\ Cleaner(c)' = "none" /\ NothingOf(c)'
      BY <1>1, <1>2, <2>1, <2>2, <2>3, <2>4 DEF CallOK, NotYet, Stager, Cleaner
    <3> QED BY <1>4, <2>1, <2>4, <3>1 DEF CallOK, NotYet, NobodyStages
  <2>5. CASE fetch[c] = "stages"
    <3>1. Cleaner(c)' = "polls"
      BY <1>1, <1>2, <2>3, <2>5 DEF Cleaner
    <3>2. killed => Stager(c)' = "none"
      BY <1>1, <1>2, <2>3, <2>5 DEF Stager
    <3>3. ~killed => Kind[c] \in tainted'
      BY <1>2
    <3> QED BY <1>4, <2>1, <2>5, <3>1, <3>2, <3>3 DEF CallOK, NotYet, NobodyStages
  <2>6. CASE fetch[c] = "cleans"
    <3>1. Kind[c] \in tainted' /\ c \notin Sweeps
      BY <1>2, <2>1, <2>6 DEF CallOK
    <3> QED BY <1>4, <2>1, <2>6, <3>1 DEF CallOK, NotYet
  <2> QED BY <1>3, <2>4, <2>5, <2>6
<1> QED BY <1>2, <1>3, <1>4, <1>6, <1>7, <1>8, <1>9, CallSteps

LEMMA StopsAndAges ==
  ASSUME MediaAssumed, MediaInv,
         (\E k \in Kinds : StopsMedia(k)) \/ (\E f \in SpoolFiles : Ages(f))
  PROVE  MediaInv'
<1>1. UNCHANGED <<fetch, worker, flock, directory, tainted>> /\ old \subseteq old'
  BY DEF StopsMedia, Ages
<1>2. MediaTyped' /\ OldIsOver'
  <2>1. CASE UNCHANGED old
    BY <1>1, <2>1 DEF MediaInv, MediaTyped, OldIsOver
  <2>2. CASE \E f \in SpoolFiles : Ages(f)
    BY <1>1, <2>2 DEF MediaInv, MediaTyped, OldIsOver, Ages
  <2> QED BY <2>1, <2>2 DEF StopsMedia
<1>3. LockIsTaken'
  BY <1>1 DEF MediaInv, LockIsTaken
<1>4. RoomIsLeft'
  BY <1>1, RoomKeeps DEF Used
<1>5. \A c \in Fetches : CallOK(c)'
  BY <1>1, CallKeeps DEF Stager, Cleaner
<1> QED BY <1>2, <1>3, <1>4, <1>5 DEF MediaInv

LEMMA MediaInvBegins ==
  ASSUME MediaAssumed, NEW calls, NEW faults, MediaInit(calls, faults)
  PROVE  MediaInv
<1>1. MediaTyped /\ LockIsTaken /\ OldIsOver
  BY DEF MediaInit, MediaTyped, LockIsTaken, OldIsOver
<1>2. RoomIsLeft
  <2>1. Used = {} /\ Cardinality({}) = 0
    BY FS_EmptySet DEF Used, MediaInit
  <2> QED BY <2>1 DEF RoomIsLeft, MediaInit, MediaAssumed
<1>3. ASSUME NEW c \in Fetches PROVE CallOK(c)
  <2>1. ToSet(Batch[c]) \subseteq SpoolFiles
    BY BatchIsNoLarger
  <2>2. NothingOf(c)
    BY <2>1 DEF NothingOf, MediaInit
  <2>3. <<c, "stage">> \in Workers /\ <<c, "clean">> \in Workers
    BY DEF Workers
  <2>4. Stager(c) = "none" /\ Cleaner(c) = "none"
    BY <2>3 DEF MediaInit, Stager, Cleaner
  <2>5. fetch[c] \in {"idle", "never"}
    BY DEF MediaInit
  <2> QED BY <2>2, <2>4, <2>5 DEF CallOK, NotYet
<1> QED BY <1>1, <1>2, <1>3 DEF MediaInv

LEMMA MediaInvStays ==
  ASSUME MediaAssumed, MediaInv, [MediaNext]_mediaVars
  PROVE  MediaInv'
<1>1. CASE UNCHANGED mediaVars
  <2>1. UNCHANGED <<fetch, worker, flock, directory, old, tainted>>
    BY <1>1 DEF mediaVars
  <2>2. MediaTyped' /\ OldIsOver' /\ LockIsTaken'
    BY <2>1 DEF MediaInv, MediaTyped, OldIsOver, LockIsTaken
  <2>3. RoomIsLeft'
    BY <2>1, RoomKeeps DEF Used
  <2>4. \A c \in Fetches : CallOK(c)'
    BY <2>1, CallKeeps DEF Stager, Cleaner
  <2> QED BY <2>2, <2>3, <2>4 DEF MediaInv
<1>2. ASSUME NEW w \in Workers, WorkerNext(w) \/ Fails(w) \/ WorkerDies(w) \/ Terminates(w)
      PROVE  MediaInv'
  <2>1. CASE Locks(w)
    BY <2>1, LocksStep
  <2>2. CASE Admits(w) /\ HasRoom(w[1])
    BY <2>2, AdmitsStep
  <2>3. CASE Terminates(w)
    BY <2>3, TerminatesStep
  <2>4. CASE \E f \in SpoolFiles : WritesPart(w, f) \/ PlacesFile(w, f)
    BY <2>4, FileSteps
  <2>5. CASE \/ LooksOver(w) \/ Completes(w) \/ Removes(w) \/ Fails(w) \/ WorkerDies(w)
             \/ Admits(w) /\ ~HasRoom(w[1])
             \/ \E f \in SpoolFiles : RejectsFile(w, f)
    BY <2>5, EndingSteps
  <2> QED BY <1>2, <2>1, <2>2, <2>3, <2>4, <2>5 DEF WorkerNext
<1>3. ASSUME NEW c \in Fetches, CallNext(c) \/ CallGivesUp(c) PROVE MediaInv'
  BY <1>3, MediaCallNext, GivesUpStep
<1>4. CASE (\E k \in Kinds : StopsMedia(k)) \/ (\E f \in SpoolFiles : Ages(f))
  BY <1>4, StopsAndAges
<1> QED BY <1>1, <1>2, <1>3, <1>4 DEF MediaNext

(* The media directory is what its calls have returned, and within the quota
   (channels/media.py:214-330, 560-700). *)
THEOREM MediaIsAccountedFor ==
  ASSUME NEW calls, NEW faults
  PROVE  MediaInit(calls, faults) /\ [][MediaNext]_mediaVars
           => [](SpoolMatchesResults /\ QuotaHolds)
<1>1. MediaInv => SpoolMatchesResults /\ QuotaHolds
  <2> SUFFICES ASSUME MediaInv PROVE SpoolMatchesResults /\ QuotaHolds
    OBVIOUS
  <2>1. QuotaHolds
    BY DEF MediaInv, RoomIsLeft, Used, QuotaHolds, Usage
  <2>2. ASSUME NEW c \in Fetches, NEW f \in ToSet(Batch[c])
        PROVE  /\ fetch[c] = "ok" => directory[f] = "file" \/ f \in old
               /\ fetch[c] = "error" => directory[f] = "none" \/ Kind[c] \in tainted
    BY DEF MediaInv, CallOK, NothingOf, NotYet
  <2> QED BY <2>1, <2>2 DEF SpoolMatchesResults
<1>2. MediaInit(calls, faults) => MediaInv
  BY MediaAssumption, MediaInvBegins
<1>3. MediaInv /\ [MediaNext]_mediaVars => MediaInv'
  BY MediaAssumption, MediaInvStays
<1> QED BY <1>1, <1>2, <1>3, PTL

-----------------------------------------------------------------------------
(* The outbound spool. *)
Entries == [key : DeliveryKeys, files : Seq(Files)]
Stores == [pending : Seq(Entries), acks : Seq(DeliveryKeys)]
Counters == [DeliveryKeys \X Files -> Nat]
JobPlaces == {"new", "staging", "submitted", "leaving", "tidying", "running", "answered",
              "recovering", "done"}
Codes == {NoOne, "rejected", "cancelled", "conflict", "delivered", "queued", "failed"}
Jobs == [Actors -> [at : JobPlaces, staged : Nat, code : Codes]]
SpoolTyped ==
  /\ outbox \in Stores /\ outboxSaved \in Stores
  /\ sends \in Counters /\ doubts \in Counters
  /\ sender \in [who : Actors \union {NoOne, "retry"}, key : DeliveryKeys \union {NoOne},
                 step : {"none", "release", "flush", "send", "ack", "next", "tidy"},
                 left : Seq(Files), rest : Seq(Entries)]
  /\ job \in Jobs
  /\ DOMAIN buffers = FileTurns

(* A store: a message is in it once, with different files, an id has one
   content, and there is a receipt only for what has been sent.  Of what has
   been sent it knows, unless the receipt had to go. *)
Distinct(s) == \A i, j \in DOMAIN s : s[i] = s[j] => i = j
OneEach(pending) == \A i, j \in DOMAIN pending : pending[i].key = pending[j].key => i = j
Known(store) == PendingKeys(store) \union ToSet(store.acks)
SentBy(counts) == {p[1] : p \in {q \in DeliveryKeys \X Files : counts[q] > 0}}
SentKeys == SentBy(sends) \union done
StoreOK(store) ==
  /\ OneEach(store.pending)
  /\ \A e \in ToSet(store.pending) : Distinct(e.files)
  /\ \A k, l \in Known(store) : k.id = l.id => k = l
  /\ ToSet(store.acks) \subseteq done
  /\ \A k \in SentKeys : k \in Known(store) \/ k.id \in pruned

(* The file is behind, but everything in it is still in memory or has been dealt with. *)
Handled(k, f) == sends[<<k, f>>] > 0 \/ <<k, f>> \in refused
SavedIsBehind ==
  \A e \in ToSet(outboxSaved.pending) :
    /\ e.key \in PendingKeys(outbox) \union done
    /\ \A f \in ToSet(e.files) :
         Handled(e.key, f) \/ \E n \in ToSet(outbox.pending) : n.key = e.key /\ f \in ToSet(n.files)

(* Who sends: what it has left of the message it sends, and what else it goes through. *)
SendsWell ==
  /\ sender.key \in PendingKeys(outbox) /\ sender.key \in PendingKeys(outboxSaved)
  /\ Distinct(sender.left)
  /\ \A e \in ToSet(outbox.pending) : e.key = sender.key =>
       /\ ToSet(sender.left) \subseteq ToSet(e.files)
       /\ \A f \in ToSet(e.files) : f \in ToSet(sender.left) \/ Handled(e.key, f)
GoesThrough ==
  \A i \in DOMAIN sender.rest :
    /\ sender.rest[i] \in ToSet(outbox.pending)
    /\ sender.rest[i].key \in PendingKeys(outboxSaved)
    /\ sender.step = "send" => sender.rest[i].key # sender.key
    /\ \A j \in DOMAIN sender.rest : sender.rest[j].key = sender.rest[i].key => j = i
SenderOK ==
  /\ sender.who = NoOne => sender = NoLane
  /\ sender.who \in Actors =>
       /\ sender.key = KeyOf[sender.who] /\ sender.step \notin {"none", "next"}
       /\ sender.step \in {"release", "flush"} => sender.key \in PendingKeys(outbox)
       /\ sender.step \in {"ack", "tidy"} => sender.key \in done
  /\ sender.who = "retry" => sender.step \in {"flush", "send", "next", "tidy"}
  /\ sender.step = "send" => SendsWell
  /\ sender.rest # <<>> => sender.who = "retry" /\ sender.step \in {"next", "send"}
  /\ GoesThrough

(* How often a file was sent: once, as long as nothing is in doubt, if the message
   does not list it any more or is being sent; else only as often as it was in doubt. *)
BeingSent(k, f) == sender.step = "send" /\ sender.key = k /\ f \notin ToSet(sender.left)
CountsOK ==
  /\ \A p \in DeliveryKeys \X Files : sends[p] <= 1 + doubts[p]
  /\ \A e \in ToSet(outbox.pending) : \A f \in ToSet(e.files) :
       sends[<<e.key, f>>] <= doubts[<<e.key, f>>] \/ BeingSent(e.key, f)

(* An upload is active until its request leaves, and nobody else's. *)
Unsubmitted == {"new", "staging"}
Untouched(f) ==
  /\ \A k \in DeliveryKeys : sends[<<k, f>>] = 0
  /\ \A e \in ToSet(outbox.pending) \union ToSet(outboxSaved.pending) : f \notin ToSet(e.files)
UploadsOK ==
  /\ uploading \subseteq UNION {UploadsOf(r) : r \in Deliveries}
  /\ \A r \in Deliveries :
       /\ job[r].at = "new" => job[r].staged = 0
       /\ job[r].at = "staging" =>
            \A i \in DOMAIN Uploads[r] : i <= job[r].staged => Uploads[r][i] \in uploading
       /\ job[r].at \in Unsubmitted => \A f \in UploadsOf(r) : Untouched(f)
  /\ \A t \in FileTurns : buffers[t] \subseteq {Image[t]}
  /\ recovering \subseteq {Image[t] : t \in FileTurns}
  /\ pruned \subseteq {KeyOf[r].id : r \in Deliveries}

(* What somebody still needs is in the directory, and a cleanup that goes on keeps it. *)
YetToGo(f) == \E e \in ToSet(outbox.pending) : f \in ToSet(e.files) /\ ~Handled(e.key, f)
Needed(f) ==
  f \in uploading \/ (\E t \in FileTurns : f \in buffers[t]) \/ f \in recovering \/ YetToGo(f)
NeededIsThere ==
  \A f \in Files : Needed(f) =>
    /\ f \in spool \union unleased
    /\ cleaner.who # NoOne => f \in cleaner.keeps \union leased \union unleased

SpoolInv ==
  /\ SpoolTyped /\ StoreOK(outbox) /\ StoreOK(outboxSaved) /\ SavedIsBehind
  /\ SenderOK /\ CountsOK /\ UploadsOK /\ NeededIsThere /\ AcceptedIsKept

-----------------------------------------------------------------------------
(* Sequences. *)
LEMMA LeastIndex ==
  ASSUME NEW S \in SUBSET Nat, S # {}
  PROVE  Min(S) \in S /\ \A i \in S : Min(S) <= i
<1> DEFINE R == OpToRel(<, Nat)
<1>1. IsWellFoundedOn(R, Nat)
  BY NatLessThanWellFounded, Zenon
<1>2. R = {ss \in Nat \X Nat : ss[1] < ss[2]}
  BY DEF OpToRel
<1> HIDE DEF R
<1>3. PICK m \in S : \A i \in S : ~(<<i, m>> \in R)
  BY <1>1, WFMin
<1>4. \A i \in S : ~(i < m)
  BY <1>2, <1>3
<1>5. \E n \in S : \A i \in S : n <= i
  BY <1>4
<1> QED BY <1>5 DEF Min

(* What stands at i is gone, and only that. *)
LEMMA RemovedAt ==
  ASSUME NEW S, NEW s \in Seq(S), NEW i \in 1..Len(s)
  PROVE  /\ RemoveAt(s, i) \in Seq(S) /\ Len(RemoveAt(s, i)) = Len(s) - 1
         /\ \A j \in 1..(Len(s) - 1) : RemoveAt(s, i)[j] = IF j < i THEN s[j] ELSE s[j + 1]
         /\ ToSet(RemoveAt(s, i)) = {s[j] : j \in (1..Len(s)) \ {i}}
<1> DEFINE front == SubSeq(s, 1, i - 1)
           back == SubSeq(s, i + 1, Len(s))
<1>1. /\ front \in Seq(S) /\ Len(front) = i - 1
      /\ \A j \in 1..(i - 1) : front[j] = s[j]
  BY SubSeqProperties
<1>2. /\ back \in Seq(S) /\ Len(back) = Len(s) - i
      /\ \A j \in 1..(Len(s) - i) : back[j] = s[i + j]
  <2>1. Len(s) \in Nat /\ i + 1 \in Int /\ \A j \in (i + 1)..Len(s) : s[j] \in S
    OBVIOUS
  <2>2. /\ back \in Seq(S)
        /\ Len(back) = IF i + 1 <= Len(s) THEN Len(s) - (i + 1) + 1 ELSE 0
        /\ \A j \in 1..(Len(s) - (i + 1) + 1) : back[j] = s[i + 1 + j - 1]
    BY <2>1, SubSeqProperties
  <2> QED BY <2>2
<1>3. RemoveAt(s, i) = front \o back
  BY DEF RemoveAt
<1> HIDE DEF front, back
<1>4. /\ RemoveAt(s, i) \in Seq(S) /\ Len(RemoveAt(s, i)) = Len(s) - 1
      /\ \A j \in 1..(Len(s) - 1) : RemoveAt(s, i)[j] = IF j < i THEN s[j] ELSE s[j + 1]
  BY <1>1, <1>2, <1>3
<1> DEFINE new == RemoveAt(s, i)
<1> HIDE DEF new
<1>5. ToSet(RemoveAt(s, i)) = {s[j] : j \in (1..Len(s)) \ {i}}
  <2>1. DOMAIN RemoveAt(s, i) = 1..(Len(s) - 1)
    BY <1>4
  <2>2. ASSUME NEW j \in 1..(Len(s) - 1)
        PROVE  \E n \in (1..Len(s)) \ {i} : RemoveAt(s, i)[j] = s[n]
    <3>1. CASE j < i
      BY <1>4, <3>1
    <3>2. CASE ~(j < i)
      <4>1. j + 1 \in (1..Len(s)) \ {i} /\ RemoveAt(s, i)[j] = s[j + 1]
        BY <1>4, <3>2
      <4> QED BY <4>1
    <3> QED BY <3>1, <3>2
  <2>3. ASSUME NEW n \in (1..Len(s)) \ {i}
        PROVE  \E j \in 1..(Len(s) - 1) : RemoveAt(s, i)[j] = s[n]
    <3>1. CASE n < i
      <4>1. n \in 1..(Len(s) - 1) /\ RemoveAt(s, i)[n] = s[n]
        BY <1>4, <3>1
      <4> QED BY <4>1
    <3>2. CASE n > i
      <4>1. n - 1 \in 1..(Len(s) - 1) /\ RemoveAt(s, i)[n - 1] = s[n]
        BY <1>4, <3>2
      <4> QED BY <4>1
    <3> QED BY <3>1, <3>2
  <2> DEFINE others == {s[j] : j \in (1..Len(s)) \ {i}}
  <2>4. ASSUME NEW e \in ToSet(RemoveAt(s, i)) PROVE e \in others
    <3>1. PICK j \in 1..(Len(s) - 1) : RemoveAt(s, i)[j] = e
      BY <2>1 DEF ToSet
    <3> QED BY <2>2, <3>1
  <2>5. ASSUME NEW e \in others PROVE e \in ToSet(RemoveAt(s, i))
    <3>1. PICK n \in (1..Len(s)) \ {i} : s[n] = e
      OBVIOUS
    <3>2. PICK j \in 1..(Len(s) - 1) : RemoveAt(s, i)[j] = s[n]
      BY <2>3
    <3> QED BY <2>1, <3>1, <3>2 DEF ToSet
  <2> HIDE DEF others
  <2>6. ToSet(RemoveAt(s, i)) = others
    BY <2>4, <2>5
  <2> QED BY <2>6 DEF others
<1> QED BY <1>4, <1>5

LEMMA ToSetOfTail ==
  ASSUME NEW S, NEW s \in Seq(S), s # <<>>
  PROVE  /\ Tail(s) \in Seq(S) /\ Head(s) \in S /\ Head(s) \in ToSet(s)
         /\ ToSet(s) = {Head(s)} \union ToSet(Tail(s)) /\ ToSet(Tail(s)) \subseteq ToSet(s)
         /\ Distinct(s) => Distinct(Tail(s)) /\ Head(s) \notin ToSet(Tail(s))
<1>1. /\ Tail(s) \in Seq(S) /\ Len(Tail(s)) = Len(s) - 1 /\ Head(s) = s[1] /\ Head(s) \in S
      /\ \A i \in 1..(Len(s) - 1) : Tail(s)[i] = s[i + 1]
      /\ Len(s) \in Nat \ {0} /\ DOMAIN s = 1..Len(s) /\ DOMAIN Tail(s) = 1..(Len(s) - 1)
  BY HeadTailProperties
<1>2. ASSUME NEW i \in 1..Len(s)
      PROVE  s[i] = Head(s) \/ \E j \in 1..(Len(s) - 1) : Tail(s)[j] = s[i]
  <2>1. CASE i > 1
    <3>1. i - 1 \in 1..(Len(s) - 1) /\ Tail(s)[i - 1] = s[i]
      BY <1>1, <2>1
    <3> QED BY <3>1
  <2> QED BY <1>1, <2>1
<1>3. \A j \in 1..(Len(s) - 1) : Tail(s)[j] = s[j + 1] /\ j + 1 \in 1..Len(s)
  BY <1>1
<1>4. ToSet(s) = {Head(s)} \union ToSet(Tail(s))
  <2>1. ASSUME NEW e \in ToSet(s) PROVE e \in {Head(s)} \union ToSet(Tail(s))
    <3>1. PICK i \in 1..Len(s) : s[i] = e
      BY <1>1 DEF ToSet
    <3> QED BY <1>1, <1>2, <3>1 DEF ToSet
  <2>2. ToSet(Tail(s)) \subseteq ToSet(s)
    BY <1>1, <1>3 DEF ToSet
  <2>3. Head(s) \in ToSet(s)
    BY <1>1 DEF ToSet
  <2> QED BY <2>1, <2>2, <2>3
<1>5. ASSUME Distinct(s) PROVE Distinct(Tail(s)) /\ Head(s) \notin ToSet(Tail(s))
  BY <1>1, <1>3, <1>5 DEF Distinct, ToSet
<1> QED BY <1>1, <1>4, <1>5

-----------------------------------------------------------------------------
(* What the operations of the outbox make of a store. *)
LEMMA StoreFacts ==
  ASSUME NEW store \in Stores
  PROVE  /\ ToSet(store.pending) \subseteq Entries /\ PendingKeys(store) \subseteq DeliveryKeys
         /\ ToSet(store.acks) \subseteq DeliveryKeys
         /\ \A k \in PendingKeys(store) : \E e \in ToSet(store.pending) : e.key = k
         /\ \A e \in ToSet(store.pending) : e.key \in PendingKeys(store)
         /\ OneEach(store.pending) =>
              \A e, n \in ToSet(store.pending) : e.key = n.key => e = n
<1>1. store.pending \in Seq(Entries) /\ store.acks \in Seq(DeliveryKeys)
  BY DEF Stores
<1>2. ToSet(store.pending) \subseteq Entries /\ ToSet(store.acks) \subseteq DeliveryKeys
  BY <1>1 DEF ToSet
<1>3. \A e \in Entries : e.key \in DeliveryKeys
  BY DEF Entries
<1>4. OneEach(store.pending) =>
        \A e, n \in ToSet(store.pending) : e.key = n.key => e = n
  BY DEF OneEach, ToSet
<1> QED BY <1>2, <1>3, <1>4 DEF PendingKeys

LEMMA EnqueuedFacts ==
  ASSUME outbox \in Stores, OneEach(outbox.pending),
         NEW k \in DeliveryKeys, NEW files \in Seq(Files), k \notin PendingKeys(outbox)
  PROVE  /\ Enqueued(k, files) \in Stores /\ Enqueued(k, files).acks = outbox.acks
         /\ OneEach(Enqueued(k, files).pending)
         /\ ToSet(Enqueued(k, files).pending)
              = ToSet(outbox.pending) \union {[key |-> k, files |-> files]}
         /\ PendingKeys(Enqueued(k, files)) = PendingKeys(outbox) \union {k}
<1> DEFINE e == [key |-> k, files |-> files]
           queue == outbox.pending
           new == Append(queue, e)
<1>1. e \in Entries /\ queue \in Seq(Entries)
  BY DEF Entries, Stores
<1>2. Enqueued(k, files) = [pending |-> new, acks |-> outbox.acks]
  BY DEF Enqueued, Stores
<1>3. /\ new \in Seq(Entries) /\ DOMAIN new = 1..(Len(queue) + 1) /\ new[Len(queue) + 1] = e
      /\ \A i \in 1..Len(queue) : new[i] = queue[i]
      /\ DOMAIN queue = 1..Len(queue) /\ Len(queue) \in Nat
  BY <1>1, AppendProperties
<1> HIDE DEF new
<1>4. ToSet(new) = ToSet(queue) \union {e}
  <2>1. ASSUME NEW n \in ToSet(new) PROVE n \in ToSet(queue) \union {e}
    BY <1>3 DEF ToSet
  <2>2. ToSet(queue) \subseteq ToSet(new)
    BY <1>3 DEF ToSet
  <2>3. e \in ToSet(new)
    BY <1>3 DEF ToSet
  <2> QED BY <2>1, <2>2, <2>3
<1>5. \A i \in DOMAIN queue : queue[i].key # k
  BY DEF PendingKeys, ToSet
<1>6. OneEach(new)
  <2>1. \A i \in 1..Len(queue) : new[i].key # new[Len(queue) + 1].key
    <3>1. e.key = k
      OBVIOUS
    <3> HIDE DEF e
    <3>2. \A i \in 1..Len(queue) : queue[i].key # k
      BY <1>3, <1>5
    <3>3. /\ new[Len(queue) + 1] = e
          /\ \A i \in 1..Len(queue) : new[i] = queue[i]
      BY <1>3
    <3> QED BY <3>1, <3>2, <3>3
  <2>2. \A i, j \in 1..Len(queue) : new[i].key = new[j].key => i = j
    BY <1>3 DEF OneEach
  <2>3. \A i \in 1..(Len(queue) + 1) : i \in 1..Len(queue) \/ i = Len(queue) + 1
    BY <1>3
  <2> QED BY <1>3, <2>1, <2>2, <2>3 DEF OneEach
<1>7. {n.key : n \in ToSet(new)} = PendingKeys(outbox) \union {k}
  <2>1. e.key = k
    OBVIOUS
  <2> HIDE DEF e
  <2> QED BY <1>4, <2>1 DEF PendingKeys
<1> QED BY <1>2, <1>3, <1>4, <1>6, <1>7 DEF Stores, PendingKeys

LEMMA CheckpointedFacts ==
  ASSUME outbox \in Stores, OneEach(outbox.pending),
         NEW k \in PendingKeys(outbox), NEW left \in Seq(Files)
  PROVE  /\ Checkpointed(k, left) \in Stores /\ Checkpointed(k, left).acks = outbox.acks
         /\ OneEach(Checkpointed(k, left).pending)
         /\ ToSet(Checkpointed(k, left).pending)
              = {e \in ToSet(outbox.pending) : e.key # k} \union {[key |-> k, files |-> left]}
         /\ PendingKeys(Checkpointed(k, left)) = PendingKeys(outbox)
<1> DEFINE e == [key |-> k, files |-> left]
           queue == outbox.pending
           new == Checkpointed(k, left).pending
<1>1. k \in DeliveryKeys /\ e \in Entries /\ queue \in Seq(Entries)
  BY StoreFacts DEF Entries, Stores
<1>2. /\ DOMAIN queue = 1..Len(queue) /\ \A i \in DOMAIN queue : queue[i] \in Entries
      /\ Len(queue) \in Nat
  BY <1>1
<1>3. /\ new = [i \in DOMAIN queue |-> IF queue[i].key = k THEN [queue[i] EXCEPT !.files = left]
                                     ELSE queue[i]]
      /\ Checkpointed(k, left) = [pending |-> new, acks |-> outbox.acks]
  <2> DEFINE body == [i \in DOMAIN queue |->
                        IF queue[i].key = k THEN [queue[i] EXCEPT !.files = left] ELSE queue[i]]
  <2>1. Checkpointed(k, left) = [outbox EXCEPT !.pending = body]
    BY DEF Checkpointed
  <2> HIDE DEF body
  <2>2. Checkpointed(k, left) = [pending |-> body, acks |-> outbox.acks]
    BY <2>1 DEF Stores
  <2> QED BY <2>2 DEF body
<1> HIDE DEF new
<1>4. /\ DOMAIN new = DOMAIN queue
      /\ \A i \in DOMAIN queue : new[i] = IF queue[i].key = k THEN e ELSE queue[i]
  BY <1>2, <1>3 DEF Entries
<1>5. new \in Seq(Entries)
  <2>1. new \in [1..Len(queue) -> Entries]
    BY <1>1, <1>2, <1>3, <1>4
  <2> QED BY <1>2, <2>1
<1>6. OneEach(new)
  BY <1>4 DEF OneEach
<1>7. PICK m \in DOMAIN queue : queue[m].key = k
  BY DEF PendingKeys, ToSet
<1>8. ToSet(new) = {n \in ToSet(queue) : n.key # k} \union {e}
  <2>1. ASSUME NEW n \in ToSet(new) PROVE n \in {o \in ToSet(queue) : o.key # k} \union {e}
    BY <1>4 DEF ToSet
  <2>2. ASSUME NEW n \in ToSet(queue), n.key # k PROVE n \in ToSet(new)
    BY <1>4, <2>2 DEF ToSet
  <2>3. e \in ToSet(new)
    BY <1>4, <1>7 DEF ToSet
  <2> QED BY <2>1, <2>2, <2>3
<1>9. {n.key : n \in ToSet(new)} = PendingKeys(outbox)
  <2>1. e.key = k
    OBVIOUS
  <2> HIDE DEF e
  <2> QED BY <1>8, <2>1 DEF PendingKeys
<1>10. outbox.acks \in Seq(DeliveryKeys)
  BY DEF Stores
<1> HIDE DEF e
<1>11. PendingKeys(Checkpointed(k, left)) = PendingKeys(outbox)
  <2>1. PendingKeys(Checkpointed(k, left)) = {n.key : n \in ToSet(Checkpointed(k, left).pending)}
    BY DEF PendingKeys
  <2> QED BY <1>9, <2>1 DEF new
<1> QED BY <1>3, <1>5, <1>6, <1>8, <1>10, <1>11 DEF Stores, e

(* A receipt that goes is one of the API and never the newest. *)
LEMMA NewestAcksFacts ==
  ASSUME NEW acks \in Seq(DeliveryKeys), NEW k \in DeliveryKeys, AckLimit \in Nat \ {0}
  PROVE  LET new == NewestAcks(Append(acks, k))
         IN /\ new \in Seq(DeliveryKeys) /\ ToSet(new) \subseteq ToSet(acks) \union {k}
            /\ k \in ToSet(new)
            /\ \A l \in ToSet(acks) \ ToSet(new) : \E r \in Deliveries : KeyOf[r] = l
<1> DEFINE all == Append(acks, k)
           ofApi == {i \in DOMAIN all : \E r \in Deliveries : KeyOf[r] = all[i]}
           new == NewestAcks(all)
<1>1. /\ all \in Seq(DeliveryKeys) /\ Len(all) = Len(acks) + 1 /\ all[Len(acks) + 1] = k
      /\ \A i \in 1..Len(acks) : all[i] = acks[i]
      /\ DOMAIN all = 1..Len(all) /\ Len(acks) \in Nat /\ DOMAIN acks = 1..Len(acks)
  BY AppendProperties
<1> HIDE DEF all
<1>2. ToSet(all) = ToSet(acks) \union {k}
  <2>1. ASSUME NEW l \in ToSet(all) PROVE l \in ToSet(acks) \union {k}
    BY <1>1 DEF ToSet
  <2>2. ToSet(acks) \subseteq ToSet(all) /\ k \in ToSet(all)
    BY <1>1 DEF ToSet
  <2> QED BY <2>1, <2>2
<1>3. new = IF Cardinality(ofApi) > AckLimit THEN RemoveAt(all, Min(ofApi)) ELSE all
  BY DEF NewestAcks
<1> DEFINE last == Len(acks) + 1
           m == Min(ofApi)
<1>4. CASE Cardinality(ofApi) > AckLimit
  <2>1. ofApi # {} /\ ofApi # {last}
    <3>1. Cardinality({}) = 0 /\ Cardinality({last}) = 1
      BY FS_EmptySet, FS_Singleton
    <3>2. ~(0 > AckLimit) /\ ~(1 > AckLimit)
      OBVIOUS
    <3> HIDE DEF ofApi
    <3>3. ofApi # {}
      BY <1>4, <3>1, <3>2, Zenon
    <3>4. ofApi # {last}
      BY <1>4, <3>1, <3>2, Zenon
    <3> QED BY <3>3, <3>4
  <2>2. PICK i \in ofApi : i # last
    BY <2>1
  <2>3. m \in ofApi /\ m <= i
    <3>1. ofApi \in SUBSET Nat
      BY <1>1
    <3> HIDE DEF ofApi
    <3> QED BY <2>1, <2>2, <3>1, LeastIndex
  <2> HIDE DEF m
  <2>4. m \in 1..Len(all) /\ m # last
    BY <1>1, <2>2, <2>3
  <2>5. /\ new \in Seq(DeliveryKeys) /\ ToSet(new) = {all[j] : j \in (1..Len(all)) \ {m}}
    <3>1. new = RemoveAt(all, m)
      BY <1>3, <1>4 DEF m
    <3>2. /\ RemoveAt(all, m) \in Seq(DeliveryKeys)
          /\ ToSet(RemoveAt(all, m)) = {all[j] : j \in (1..Len(all)) \ {m}}
      BY <1>1, <2>4, RemovedAt
    <3> HIDE DEF new, m
    <3> QED BY <3>1, <3>2
  <2>6. ToSet(new) \subseteq ToSet(acks) \union {k}
    BY <1>1, <1>2, <2>5 DEF ToSet
  <2>7. k \in ToSet(new)
    BY <1>1, <2>4, <2>5
  <2>8. ASSUME NEW l \in ToSet(acks) \ ToSet(new) PROVE \E r \in Deliveries : KeyOf[r] = l
    <3>1. PICK j \in 1..Len(acks) : acks[j] = l
      BY <1>1 DEF ToSet
    <3>2. all[j] = l /\ j \in 1..Len(all)
      BY <1>1, <3>1
    <3>3. j = m
      BY <2>5, <3>2
    <3> QED BY <2>3, <3>2, <3>3
  <2> QED BY <2>5, <2>6, <2>7, <2>8 DEF all
<1>5. CASE ~(Cardinality(ofApi) > AckLimit)
  BY <1>1, <1>2, <1>3, <1>5 DEF all
<1> QED BY <1>4, <1>5

LEMMA CompletedFacts ==
  ASSUME outbox \in Stores, OneEach(outbox.pending), AckLimit \in Nat \ {0},
         NEW k \in PendingKeys(outbox)
  PROVE  /\ Completed(k) \in Stores /\ OneEach(Completed(k).pending)
         /\ ToSet(Completed(k).pending) = {e \in ToSet(outbox.pending) : e.key # k}
         /\ PendingKeys(Completed(k)) = PendingKeys(outbox) \ {k}
         /\ k \in ToSet(Completed(k).acks)
         /\ ToSet(Completed(k).acks) \subseteq ToSet(outbox.acks) \union {k}
         /\ \A l \in ToSet(outbox.acks) \ ToSet(Completed(k).acks) :
              \E r \in Deliveries : KeyOf[r] = l
<1> DEFINE queue == outbox.pending
           place == {i \in DOMAIN queue : queue[i].key = k}
           m == Min(place)
           new == RemoveAt(queue, m)
           acks == NewestAcks(Append(outbox.acks, k))
<1>1. /\ queue \in Seq(Entries) /\ outbox.acks \in Seq(DeliveryKeys) /\ k \in DeliveryKeys
      /\ DOMAIN queue = 1..Len(queue) /\ Len(queue) \in Nat
  BY StoreFacts DEF Stores
<1>2. place # {} /\ place \in SUBSET Nat
  BY <1>1 DEF PendingKeys, ToSet
<1>3. Completed(k) = [pending |-> new, acks |-> acks]
  BY <1>2 DEF Completed
<1>4. m \in place
  <2> HIDE DEF place
  <2> QED BY <1>2, LeastIndex
<1> HIDE DEF m
<1>5. m \in 1..Len(queue) /\ queue[m].key = k
  BY <1>1, <1>4
<1>6. /\ new \in Seq(Entries) /\ Len(new) = Len(queue) - 1
      /\ \A j \in 1..(Len(queue) - 1) : new[j] = IF j < m THEN queue[j] ELSE queue[j + 1]
      /\ ToSet(new) = {queue[j] : j \in (1..Len(queue)) \ {m}}
  BY ONLY <1>1, <1>5, RemovedAt
<1> HIDE DEF new
<1>7. OneEach(new)
  <2> DEFINE was(j) == IF j < m THEN j ELSE j + 1
  <2>1. \A j \in 1..(Len(queue) - 1) : was(j) \in 1..Len(queue) /\ new[j] = queue[was(j)]
    BY <1>1, <1>5, <1>6
  <2>2. \A i, j \in 1..(Len(queue) - 1) : was(i) = was(j) => i = j
    BY <1>1, <1>5
  <2>3. DOMAIN new = 1..(Len(queue) - 1)
    BY <1>1, <1>6
  <2>4. \A i, j \in 1..Len(queue) : queue[i].key = queue[j].key => i = j
    BY <1>1 DEF OneEach
  <2> HIDE DEF was
  <2>5. ASSUME NEW i \in 1..(Len(queue) - 1), NEW j \in 1..(Len(queue) - 1),
               new[i].key = new[j].key
        PROVE  i = j
    <3>1. queue[was(i)].key = queue[was(j)].key
      BY <2>1, <2>5
    <3>2. was(i) = was(j)
      BY <2>1, <2>4, <3>1
    <3> QED BY <2>2, <3>2
  <2> QED BY <2>3, <2>5 DEF OneEach
<1>8. ToSet(new) = {e \in ToSet(queue) : e.key # k}
  <2>1. ASSUME NEW e \in ToSet(new) PROVE e \in ToSet(queue) /\ e.key # k
    <3>1. PICK j \in (1..Len(queue)) \ {m} : e = queue[j]
      BY <1>6, <2>1
    <3>2. e \in ToSet(queue)
      BY <1>1, <3>1 DEF ToSet
    <3>3. \A i \in 1..Len(queue) : queue[i].key = queue[m].key => i = m
      BY <1>1, <1>5 DEF OneEach
    <3>4. queue[j].key # k
      BY <1>5, <3>1, <3>3
    <3> QED BY <3>1, <3>2, <3>4
  <2>2. ASSUME NEW e \in ToSet(queue), e.key # k PROVE e \in ToSet(new)
    BY <1>1, <1>5, <1>6, <2>2 DEF ToSet
  <2> QED BY <2>1, <2>2
<1>9. {e.key : e \in ToSet(new)} = PendingKeys(outbox) \ {k}
  BY <1>8 DEF PendingKeys
<1>10. /\ acks \in Seq(DeliveryKeys) /\ ToSet(acks) \subseteq ToSet(outbox.acks) \union {k}
       /\ k \in ToSet(acks)
       /\ \A l \in ToSet(outbox.acks) \ ToSet(acks) : \E r \in Deliveries : KeyOf[r] = l
  BY <1>1, NewestAcksFacts
<1> HIDE DEF acks
<1> QED BY <1>3, <1>6, <1>7, <1>8, <1>9, <1>10 DEF Stores, PendingKeys

(* A turn has one picture, and its message holds that or nothing. *)
LEMMA BufferedFiles ==
  ASSUME NEW S, NEW f \in S, NEW B \in SUBSET {f}
  PROVE  /\ SetToSeq(B) \in Seq(S) /\ ToSet(SetToSeq(B)) = B /\ Distinct(SetToSeq(B))
<1> DEFINE n == Cardinality(B)
           q == SetToSeq(B)
<1>1. CASE B = {}
  <2>1. n = 0 /\ 1..0 = {}
    BY <1>1, FS_EmptySet
  <2>2. \E g \in [1..n -> B] : IsInjective(g)
    <3>1. <<>> \in [1..n -> B] /\ IsInjective(<<>>)
      BY <2>1 DEF IsInjective
    <3> QED BY <3>1
  <2>3. q \in [1..0 -> B]
    BY <2>1, <2>2 DEF SetToSeq
  <2>4. q = <<>>
    BY <2>1, <2>3
  <2> HIDE DEF q
  <2>5. q \in Seq(S) /\ DOMAIN q = {}
    BY <2>4
  <2> QED BY <1>1, <2>5 DEF ToSet, Distinct, q
<1>2. CASE B = {f}
  <2>1. n = 1
    BY <1>2, FS_Singleton
  <2>2. \E g \in [1..n -> B] : IsInjective(g)
    <3>1. [i \in 1..1 |-> f] \in [1..n -> B] /\ IsInjective([i \in 1..1 |-> f])
      BY <1>2, <2>1 DEF IsInjective
    <3> QED BY <3>1
  <2>3. q \in [1..1 -> {f}]
    BY <1>2, <2>1, <2>2 DEF SetToSeq
  <2> HIDE DEF q
  <2>4. q = <<f>>
    BY <2>3
  <2>5. q \in Seq(S) /\ DOMAIN q = {1} /\ q[1] = f
    BY <2>4
  <2>6. ToSet(q) = {f} /\ Distinct(q)
    BY <2>5 DEF ToSet, Distinct
  <2> QED BY <1>2, <2>5, <2>6 DEF q
<1> QED BY <1>1, <1>2

-----------------------------------------------------------------------------
(* What a step that leaves some of the variables alone keeps. *)
LEMMA NamesDiffer ==
  ASSUME SpoolAssumed
  PROVE  /\ \A x \in Actors : x # NoOne /\ x # "retry"
         /\ NoOne # "retry" /\ \A r \in Deliveries : r \in Actors /\ r \notin FileTurns
         /\ \A t \in FileTurns : t \in Actors /\ t \notin Deliveries
         /\ \A x \in Actors : KeyOf[x] \in DeliveryKeys
         /\ \A r \in Deliveries : UploadsOf(r) \subseteq Files
         /\ \A t \in FileTurns : Image[t] \in Files
<1>1. \A r \in Deliveries : UploadsOf(r) \subseteq Files
  BY DEF Files, UploadsOf
<1>2. \A t \in FileTurns : Image[t] \in Files
  BY DEF Files
<1> QED BY <1>1, <1>2 DEF SpoolAssumed, Actors, DeliveryKeys

LEMMA JobMoves ==
  ASSUME job \in Jobs, NEW x \in Actors, NEW place \in JobPlaces, Moves(x, place)
  PROVE  /\ job' \in Jobs /\ job'[x].at = place /\ job'[x].staged = job[x].staged
         /\ \A y \in Actors : job'[y].code = job[y].code
         /\ \A y \in Actors \ {x} : job'[y] = job[y]
BY DEF Jobs, Moves

LEMMA JobAnswers ==
  ASSUME job \in Jobs, NEW x \in Actors, NEW place \in JobPlaces, NEW code \in Codes,
         AnswersWith(x, place, code)
  PROVE  /\ job' \in Jobs /\ job'[x].at = place /\ job'[x].staged = job[x].staged
         /\ job'[x].code = code /\ \A y \in Actors \ {x} : job'[y] = job[y]
BY DEF Jobs, AnswersWith

LEMMA JobIsTold ==
  ASSUME job \in Jobs, NEW x \in Actors, NEW code \in Codes,
         job' = [job EXCEPT ![x].code = code]
  PROVE  /\ job' \in Jobs /\ job'[x].code = code
         /\ \A y \in Actors : job'[y].at = job[y].at /\ job'[y].staged = job[y].staged
         /\ \A y \in Actors \ {x} : job'[y] = job[y]
BY DEF Jobs

LEMMA StoresStay ==
  ASSUME StoreOK(outbox), StoreOK(outboxSaved), SavedIsBehind,
         UNCHANGED <<outbox, outboxSaved, sends, refused, done, pruned>>
  PROVE  StoreOK(outbox)' /\ StoreOK(outboxSaved)' /\ SavedIsBehind'
BY DEF StoreOK, SavedIsBehind, Known, PendingKeys, SentKeys, Handled

LEMMA SenderStays ==
  ASSUME SenderOK, UNCHANGED <<sender, outbox, outboxSaved, sends, refused, done>>
  PROVE  SenderOK'
BY DEF SenderOK, SendsWell, GoesThrough, PendingKeys, Handled

LEMMA NobodySends ==
  ASSUME SpoolAssumed, sender' = NoLane
  PROVE  SenderOK'
BY NamesDiffer DEF SenderOK, NoLane, SendsWell, GoesThrough

LEMMA CountsStay ==
  ASSUME CountsOK, UNCHANGED <<outbox, sends, doubts>>,
         sender' = sender \/ sender.step # "send"
  PROVE  CountsOK'
BY DEF CountsOK, BeingSent

(* The file catches up with the store in memory. *)
LEMMA FileCatchesUp ==
  ASSUME outbox \in Stores, StoreOK(outbox), SavedIsBehind, outboxSaved' = outbox,
         UNCHANGED <<outbox, sends, refused, done, pruned>>
  PROVE  /\ StoreOK(outbox)' /\ StoreOK(outboxSaved)' /\ SavedIsBehind'
         /\ outboxSaved' \in Stores
         /\ PendingKeys(outboxSaved) \subseteq PendingKeys(outboxSaved)' \union done'
<1>1. StoreOK(outbox)' /\ StoreOK(outboxSaved)'
  BY DEF StoreOK, Known, PendingKeys, SentKeys
<1>2. SavedIsBehind'
  BY StoreFacts DEF SavedIsBehind, PendingKeys
<1>3. PendingKeys(outboxSaved) \subseteq PendingKeys(outbox) \union done
  BY DEF SavedIsBehind, PendingKeys
<1> QED BY <1>1, <1>2, <1>3 DEF PendingKeys

(* Nobody is told anything that was not true already. *)
LEMMA WordsStay ==
  ASSUME SpoolAssumed, AcceptedIsKept, done \subseteq done',
         PendingKeys(outboxSaved) \subseteq PendingKeys(outboxSaved)' \union done',
         \A r \in Deliveries : \/ job'[r].code = job[r].code
                               \/ job'[r].code \notin {"delivered", "queued"}
                               \/ job'[r].code = "delivered" /\ KeyOf[r] \in done'
                               \/ job'[r].code = "queued" /\ KeyOf[r] \in PendingKeys(outboxSaved)'
  PROVE  AcceptedIsKept'
BY DEF AcceptedIsKept

(* The places of the requests: who waits to submit goes on waiting, or comes in
   with all it has staged. *)
LEMMA UploadsStay ==
  ASSUME SpoolAssumed, UploadsOK, UNCHANGED <<sends, outbox, outboxSaved, pruned>>,
         uploading \subseteq uploading',
         uploading' \subseteq UNION {UploadsOf(r) : r \in Deliveries},
         \A t \in FileTurns : buffers'[t] \subseteq {Image[t]},
         recovering' \subseteq {Image[t] : t \in FileTurns},
         \A r \in Deliveries :
           \/ job'[r].at = job[r].at /\ job'[r].staged = job[r].staged
           \/ job'[r].at \notin Unsubmitted
  PROVE  UploadsOK'
<1>1. \A f : Untouched(f) => Untouched(f)'
  BY DEF Untouched
<1> QED BY <1>1 DEF UploadsOK, Unsubmitted

LEMMA NeedsStay ==
  ASSUME NeededIsThere, UNCHANGED <<uploading, recovering, buffers, outbox, sends, refused>>,
         spool \union unleased \subseteq spool' \union unleased',
         cleaner' = cleaner \/ cleaner'.who = NoOne,
         leased \union unleased \subseteq leased' \union unleased'
  PROVE  NeededIsThere'
<1>1. \A f : Needed(f)' = Needed(f)
  BY DEF Needed, YetToGo, Handled
<1> QED BY <1>1 DEF NeededIsThere

(* A cleanup that begins keeps all that is needed. *)
LEMMA NeededIsReferenced ==
  ASSUME UploadsOK, NEW f, Needed(f)
  PROVE  f \in Referenced
<1>1. YetToGo(f) => f \in FilesIn(outbox)
  BY DEF YetToGo, FilesIn
<1>2. (\E t \in FileTurns : f \in buffers[t]) => f \in Buffered(buffers)
  BY DEF Buffered
<1> QED BY <1>1, <1>2 DEF Needed, Referenced

-----------------------------------------------------------------------------
(* The steps of requests, turns and cleanups that only move files and jobs. *)
LEMMA QuietStep ==
  ASSUME SpoolAssumed, SpoolInv,
         UNCHANGED <<outbox, outboxSaved, sends, refused, doubts, done, pruned>>,
         job' \in Jobs, DOMAIN buffers' = FileTurns,
         sender' = sender \/ (sender' = NoLane /\ sender.step # "send")
  PROVE  /\ SpoolTyped' /\ StoreOK(outbox)' /\ StoreOK(outboxSaved)' /\ SavedIsBehind'
         /\ SenderOK' /\ CountsOK'
<1>1. /\ SpoolTyped /\ StoreOK(outbox) /\ StoreOK(outboxSaved) /\ SavedIsBehind
      /\ SenderOK /\ CountsOK
  BY DEF SpoolInv
<1>2. NoLane \in [who : Actors \union {NoOne, "retry"}, key : DeliveryKeys \union {NoOne},
                  step : {"none", "release", "flush", "send", "ack", "next", "tidy"},
                  left : Seq(Files), rest : Seq(Entries)]
  BY DEF NoLane
<1>3. SpoolTyped'
  BY <1>1, <1>2 DEF SpoolTyped, Counters
<1>4. StoreOK(outbox)' /\ StoreOK(outboxSaved)' /\ SavedIsBehind'
  BY <1>1, StoresStay
<1>5. SenderOK'
  BY <1>1, SenderStays, NobodySends
<1>6. CountsOK'
  BY <1>1, CountsStay
<1> QED BY <1>3, <1>4, <1>5, <1>6

LEMMA CleanupSteps ==
  ASSUME SpoolAssumed, SpoolInv, (\E x : CleanupBegins(x)) \/ CleanupEnds
  PROVE  SpoolInv'
<1>1. /\ SpoolTyped /\ UploadsOK /\ NeededIsThere /\ AcceptedIsKept /\ SenderOK
  BY DEF SpoolInv
<1>2. job \in Jobs /\ DOMAIN buffers = FileTurns
  BY <1>1 DEF SpoolTyped
<1>3. CASE \E x : CleanupBegins(x)
  <2>1. /\ UNCHANGED <<outbox, outboxSaved, sends, refused, doubts, done, pruned, job, buffers,
                       sender, uploading, recovering, spool, leased, unleased>>
        /\ cleaner'.keeps = Referenced
    BY <1>3 DEF CleanupBegins, histVars
  <2>2. UploadsOK'
    BY <1>1, <2>1 DEF UploadsOK, Untouched
  <2>3. NeededIsThere'
    <3>1. \A f : Needed(f)' = Needed(f)
      BY <2>1 DEF Needed, YetToGo, Handled
    <3> QED BY <1>1, <2>1, <3>1, NeededIsReferenced DEF NeededIsThere
  <2>4. AcceptedIsKept'
    BY <1>1, <2>1 DEF AcceptedIsKept, PendingKeys
  <2> QED BY <1>2, <2>1, <2>2, <2>3, <2>4, QuietStep DEF SpoolInv
<1>4. CASE CleanupEnds
  <2>1. /\ UNCHANGED <<outbox, outboxSaved, sends, refused, doubts, done, pruned, buffers,
                       uploading, recovering, leased, unleased>>
        /\ cleaner.who # NoOne /\ cleaner'.who = NoOne
        /\ spool' = spool \intersect (cleaner.keeps \union leased)
        /\ sender' = sender \/ (sender' = NoLane /\ sender.step # "send")
    BY <1>4 DEF CleanupEnds, Kept, StageLockFree, histVars, NoCleaner
  <2>2. /\ job' \in Jobs /\ \A r \in Deliveries : job'[r].code = job[r].code
        /\ \A r \in Deliveries : \/ job'[r].at = job[r].at /\ job'[r].staged = job[r].staged
                                 \/ job'[r].at \notin Unsubmitted
    <3> DEFINE x == cleaner.who
    <3>1. CASE x \in Actors /\ Stands(x, "tidying")
      <4>1. Moves(x, "done")
        BY <1>4, <3>1 DEF CleanupEnds, Moves
      <4>2. "done" \in JobPlaces
        BY DEF JobPlaces
      <4> HIDE DEF x
      <4>3. /\ job' \in Jobs /\ job'[x].at = "done" /\ \A y \in Actors : job'[y].code = job[y].code
            /\ \A y \in Actors \ {x} : job'[y] = job[y]
        BY <1>2, <3>1, <4>1, <4>2, JobMoves
      <4> QED BY <4>3, NamesDiffer DEF Unsubmitted
    <3>2. CASE ~(x \in Actors /\ Stands(x, "tidying"))
      BY <1>2, <1>4, <3>2 DEF CleanupEnds
    <3> QED BY <3>1, <3>2
  <2>3. UploadsOK'
    BY <1>1, <2>1, <2>2, UploadsStay DEF UploadsOK
  <2>4. NeededIsThere'
    <3>1. \A f : Needed(f)' = Needed(f)
      BY <2>1 DEF Needed, YetToGo, Handled
    <3> QED BY <1>1, <2>1, <3>1 DEF NeededIsThere
  <2>5. AcceptedIsKept'
    BY <1>1, <2>1, <2>2 DEF AcceptedIsKept, PendingKeys
  <2> QED BY <1>2, <2>1, <2>2, <2>3, <2>4, <2>5, QuietStep DEF SpoolInv
<1> QED BY <1>3, <1>4

(* A request before it is submitted, and after. *)
LEMMA RequestSteps ==
  ASSUME SpoolAssumed, SpoolInv, NEW r \in Deliveries,
         \/ PostFiles(r) \/ Reject(r) \/ StageUpload(r) \/ StageRefused(r)
         \/ StageCancelled(r) \/ Leave(r)
  PROVE  SpoolInv'
<1>1. /\ SpoolTyped /\ UploadsOK /\ NeededIsThere /\ AcceptedIsKept /\ SenderOK
  BY DEF SpoolInv
<1>2. /\ job \in Jobs /\ DOMAIN buffers = FileTurns /\ r \in Actors
      /\ \A q \in Deliveries : q \in Actors
      /\ {"new", "staging", "leaving", "tidying", "done"} \subseteq JobPlaces
      /\ {"rejected", "cancelled"} \subseteq Codes
  BY <1>1, NamesDiffer DEF SpoolTyped, JobPlaces, Codes
<1>3. CASE PostFiles(r)
  <2>1. /\ UNCHANGED <<fileVars, sender, outbox, outboxSaved, histVars, unleased>>
        /\ job[r].at = "new" /\ Moves(r, "staging")
    BY <1>3 DEF PostFiles, Stands
  <2>2. /\ job' \in Jobs /\ job'[r].at = "staging" /\ job'[r].staged = job[r].staged
        /\ \A y \in Actors : job'[y].code = job[y].code
        /\ \A y \in Actors \ {r} : job'[y] = job[y]
    BY <1>2, <2>1, JobMoves
  <2>3. UploadsOK'
    <3>1. \A f : Untouched(f) => Untouched(f)'
      BY <2>1 DEF Untouched, histVars
    <3>2. job'[r].staged = 0 /\ \A i \in DOMAIN Uploads[r] : i \in Nat /\ ~(i <= 0)
      BY <1>1, <2>1, <2>2 DEF UploadsOK, SpoolAssumed
    <3> QED BY <1>1, <1>2, <2>1, <2>2, <3>1, <3>2
            DEF UploadsOK, Unsubmitted, fileVars, histVars
  <2>4. NeededIsThere'
    BY <1>1, <2>1, NeedsStay DEF fileVars, histVars
  <2>5. AcceptedIsKept'
    BY <1>1, <1>2, <2>1, <2>2 DEF AcceptedIsKept, PendingKeys, histVars
  <2> QED BY <1>2, <2>1, <2>2, <2>3, <2>4, <2>5, QuietStep DEF SpoolInv, fileVars, histVars
<1>4. CASE Reject(r) \/ StageRefused(r)
  <2>1. /\ UNCHANGED <<fileVars, sender, outbox, outboxSaved, histVars, unleased>>
        /\ AnswersWith(r, "done", "rejected") \/ AnswersWith(r, "leaving", "rejected")
    BY <1>4 DEF Reject, StageRefused
  <2>2. /\ job' \in Jobs /\ job'[r].at \in {"done", "leaving"} /\ job'[r].code = "rejected"
        /\ \A y \in Actors \ {r} : job'[y] = job[y]
    BY <1>2, <2>1, JobAnswers
  <2>3. UploadsOK'
    <3>1. \A q \in Deliveries : \/ job'[q].at = job[q].at /\ job'[q].staged = job[q].staged
                                \/ job'[q].at \notin Unsubmitted
      BY <1>2, <2>2 DEF Unsubmitted
    <3> QED BY <1>1, <2>1, <3>1, UploadsStay DEF UploadsOK, fileVars, histVars
  <2>4. NeededIsThere'
    BY <1>1, <2>1, NeedsStay DEF fileVars, histVars
  <2>5. AcceptedIsKept'
    BY <1>1, <1>2, <2>1, <2>2 DEF AcceptedIsKept, PendingKeys, histVars
  <2> QED BY <1>2, <2>1, <2>2, <2>3, <2>4, <2>5, QuietStep DEF SpoolInv, fileVars, histVars
<1>5. ASSUME StillStaging(r)
      PROVE  NextUpload(r) \in UploadsOf(r) /\ Untouched(NextUpload(r)) /\ NextUpload(r) \in Files
             /\ cleaner.who = NoOne /\ job[r].at = "staging"
  <2>1. job[r].staged + 1 \in DOMAIN Uploads[r] /\ job[r].at = "staging" /\ cleaner.who = NoOne
    BY <1>2, <1>5 DEF StillStaging, Stands, StageLockFree, Jobs, SpoolAssumed
  <2>2. NextUpload(r) \in UploadsOf(r)
    BY <2>1 DEF NextUpload, UploadsOf, ToSet
  <2> QED BY <1>1, <2>1, <2>2, NamesDiffer DEF UploadsOK, Unsubmitted
<1>6. CASE StageUpload(r)
  <2>1. /\ UNCHANGED <<leased, recovering, buffers, cleaner, sender, outbox, outboxSaved,
                       histVars, unleased>>
        /\ spool' = spool \union {NextUpload(r)} /\ uploading' = uploading \union {NextUpload(r)}
        /\ job' = [job EXCEPT ![r].staged = @ + 1] /\ StillStaging(r)
    BY <1>6 DEF StageUpload
  <2>2. /\ job' \in Jobs /\ job'[r].at = job[r].at /\ job'[r].staged = job[r].staged + 1
        /\ \A y \in Actors : job'[y].code = job[y].code
        /\ \A y \in Actors \ {r} : job'[y] = job[y]
    BY <1>2, <2>1 DEF Jobs
  <2>3. UploadsOK'
    <3>1. \A f : Untouched(f) => Untouched(f)'
      BY <2>1 DEF Untouched, histVars
    <3>2. \A i \in DOMAIN Uploads[r] : i <= job'[r].staged => Uploads[r][i] \in uploading'
      <4>1. \A i \in DOMAIN Uploads[r] : i \in Nat
        BY DEF SpoolAssumed
      <4>2. job[r].staged \in Nat
        BY <1>2 DEF Jobs
      <4>3. \A i \in DOMAIN Uploads[r] :
              i <= job'[r].staged => i <= job[r].staged \/ i = job[r].staged + 1
        BY <2>2, <4>1, <4>2
      <4>4. \A i \in DOMAIN Uploads[r] : i <= job[r].staged => Uploads[r][i] \in uploading
        BY <1>1, <1>5, <2>1 DEF UploadsOK
      <4> QED BY <2>1, <4>3, <4>4 DEF NextUpload
    <3>3. uploading' \subseteq UNION {UploadsOf(q) : q \in Deliveries}
      BY <1>1, <1>5, <2>1 DEF UploadsOK
    <3>4. job'[r].at # "new"
      BY <1>5, <2>1, <2>2
    <3>5. job'[r].at \in Unsubmitted => \A f \in UploadsOf(r) : Untouched(f)'
      BY <1>1, <2>2, <3>1 DEF UploadsOK
    <3>6. ASSUME NEW q \in Deliveries \ {r}
          PROVE  /\ job'[q].at = "new" => job'[q].staged = 0
                 /\ job'[q].at = "staging" =>
                      \A i \in DOMAIN Uploads[q] : i <= job'[q].staged => Uploads[q][i] \in uploading'
                 /\ job'[q].at \in Unsubmitted => \A f \in UploadsOf(q) : Untouched(f)'
      BY <1>1, <1>2, <2>1, <2>2, <3>1 DEF UploadsOK
    <3>7. /\ \A t \in FileTurns : buffers'[t] \subseteq {Image[t]}
          /\ recovering' \subseteq {Image[t] : t \in FileTurns}
          /\ pruned' \subseteq {KeyOf[q].id : q \in Deliveries}
      BY <1>1, <2>1 DEF UploadsOK, histVars
    <3> QED BY <3>2, <3>3, <3>4, <3>5, <3>6, <3>7 DEF UploadsOK
  <2>4. NeededIsThere'
    <3>1. \A f : Needed(f)' => Needed(f) \/ f = NextUpload(r)
      BY <2>1 DEF Needed, YetToGo, Handled, histVars
    <3> QED BY <1>1, <1>5, <2>1, <3>1 DEF NeededIsThere
  <2>5. AcceptedIsKept'
    BY <1>1, <1>2, <2>1, <2>2 DEF AcceptedIsKept, PendingKeys, histVars
  <2> QED BY <1>2, <2>1, <2>2, <2>3, <2>4, <2>5, QuietStep DEF SpoolInv, histVars
<1>7. CASE StageCancelled(r)
  <2>1. /\ UNCHANGED <<leased, uploading, recovering, buffers, sender, outbox, outboxSaved,
                       histVars, unleased>>
        /\ spool' = spool \union {NextUpload(r)} /\ cleaner'.keeps = Referenced
        /\ AnswersWith(r, "leaving", "cancelled")
    BY <1>7 DEF StageCancelled
  <2>2. /\ job' \in Jobs /\ job'[r].at = "leaving" /\ job'[r].code = "cancelled"
        /\ \A y \in Actors \ {r} : job'[y] = job[y]
    BY <1>2, <2>1, JobAnswers
  <2>3. UploadsOK'
    <3>1. \A q \in Deliveries : \/ job'[q].at = job[q].at /\ job'[q].staged = job[q].staged
                                \/ job'[q].at \notin Unsubmitted
      BY <1>2, <2>2 DEF Unsubmitted
    <3> QED BY <1>1, <2>1, <3>1, UploadsStay DEF UploadsOK, histVars
  <2>4. NeededIsThere'
    <3>1. \A f : Needed(f)' = Needed(f)
      BY <2>1 DEF Needed, YetToGo, Handled, histVars
    <3> QED BY <1>1, <2>1, <3>1, NeededIsReferenced DEF NeededIsThere
  <2>5. AcceptedIsKept'
    BY <1>1, <1>2, <2>1, <2>2 DEF AcceptedIsKept, PendingKeys, histVars
  <2> QED BY <1>2, <2>1, <2>2, <2>3, <2>4, <2>5, QuietStep DEF SpoolInv, histVars
<1>8. CASE Leave(r)
  <2>1. /\ UNCHANGED <<spool, leased, recovering, buffers, cleaner, sender, outbox, outboxSaved,
                       histVars, unleased>>
        /\ uploading' = uploading \ UploadsOf(r) /\ Moves(r, "tidying")
    BY <1>8 DEF Leave
  <2>2. /\ job' \in Jobs /\ job'[r].at = "tidying"
        /\ \A y \in Actors : job'[y].code = job[y].code
        /\ \A y \in Actors \ {r} : job'[y] = job[y]
    BY <1>2, <2>1, JobMoves
  <2>3. UploadsOK'
    <3>1. \A f : Untouched(f) => Untouched(f)'
      BY <2>1 DEF Untouched, histVars
    <3>2. ASSUME NEW q \in Deliveries \ {r}
          PROVE  /\ job'[q].at = "new" => job'[q].staged = 0
                 /\ job'[q].at = "staging" =>
                      \A i \in DOMAIN Uploads[q] : i <= job'[q].staged => Uploads[q][i] \in uploading'
                 /\ job'[q].at \in Unsubmitted => \A f \in UploadsOf(q) : Untouched(f)'
      <4>1. job'[q] = job[q]
        BY <1>2, <2>2
      <4>2. \A i \in DOMAIN Uploads[q] : Uploads[q][i] \in UploadsOf(q)
        BY DEF UploadsOf, ToSet
      <4>3. UploadsOf(q) \intersect UploadsOf(r) = {}
        BY DEF SpoolAssumed
      <4> QED BY <1>1, <2>1, <3>1, <4>1, <4>2, <4>3 DEF UploadsOK
    <3>3. /\ \A t \in FileTurns : buffers'[t] \subseteq {Image[t]}
          /\ recovering' \subseteq {Image[t] : t \in FileTurns}
          /\ pruned' \subseteq {KeyOf[q].id : q \in Deliveries}
          /\ uploading' \subseteq UNION {UploadsOf(q) : q \in Deliveries}
      BY <1>1, <2>1 DEF UploadsOK, histVars
    <3> QED BY <2>2, <3>2, <3>3 DEF UploadsOK, Unsubmitted
  <2>4. NeededIsThere'
    <3>1. \A f : Needed(f)' => Needed(f)
      BY <2>1 DEF Needed, YetToGo, Handled, histVars
    <3> QED BY <1>1, <2>1, <3>1 DEF NeededIsThere
  <2>5. AcceptedIsKept'
    BY <1>1, <1>2, <2>1, <2>2 DEF AcceptedIsKept, PendingKeys, histVars
  <2> QED BY <1>2, <2>1, <2>2, <2>3, <2>4, <2>5, QuietStep DEF SpoolInv, histVars
<1> QED BY <1>3, <1>4, <1>6, <1>7, <1>8

(* A turn that hands nothing over.  Only who clears a buffer gives up leases of
   others, and those are counted. *)
LEMMA TurnSteps ==
  ASSUME SpoolAssumed, SpoolInv, NEW t \in FileTurns,
         \/ TurnBegins(t) \/ TurnItem(t) \/ TurnItemFails(t) \/ TurnContinues(t)
         \/ TurnCompletes(t) \/ TurnDiscarded(t) \/ RecoveryEnds(t)
  PROVE  SpoolInv'
<1>1. /\ SpoolTyped /\ UploadsOK /\ NeededIsThere /\ AcceptedIsKept /\ SenderOK
  BY DEF SpoolInv
<1>2. /\ job \in Jobs /\ DOMAIN buffers = FileTurns /\ t \in Actors /\ t \notin Deliveries
      /\ \A q \in Deliveries : q \in Actors
      /\ {"running", "tidying", "done"} \subseteq JobPlaces
      /\ Image[t] \in Files
  BY <1>1, NamesDiffer DEF SpoolTyped, JobPlaces
<1>3. /\ UNCHANGED <<sender, outbox, outboxSaved, histVars>>
      /\ job' \in Jobs /\ \A q \in Deliveries : job'[q] = job[q]
  <2>1. /\ UNCHANGED <<sender, outbox, outboxSaved, histVars>>
        /\ job' = job \/ \E place \in {"running", "tidying", "done"} : Moves(t, place)
    BY DEF TurnBegins, TurnItem, TurnItemFails, TurnContinues, TurnCompletes, TurnDiscarded,
           RecoveryEnds, fileVars
  <2>2. CASE job' = job
    BY <1>2, <2>1, <2>2
  <2>3. ASSUME NEW place \in {"running", "tidying", "done"}, Moves(t, place)
        PROVE  job' \in Jobs /\ \A q \in Deliveries : job'[q] = job[q]
    <3>1. place \in JobPlaces
      BY <1>2
    <3>2. job' \in Jobs /\ \A y \in Actors \ {t} : job'[y] = job[y]
      BY <1>2, <2>3, <3>1, JobMoves
    <3> QED BY <1>2, <3>2
  <2> QED BY <2>1, <2>2, <2>3
<1>4. ASSUME DOMAIN buffers' = FileTurns, uploading' = uploading, recovering' \subseteq recovering,
             \A u \in FileTurns : buffers'[u] \subseteq {Image[u]}, NeededIsThere'
      PROVE  SpoolInv'
  <2>1. UploadsOK'
    BY <1>1, <1>3, <1>4, UploadsStay DEF UploadsOK, histVars
  <2>2. AcceptedIsKept'
    BY <1>1, <1>3 DEF AcceptedIsKept, PendingKeys, histVars
  <2> QED BY <1>2, <1>3, <1>4, <2>1, <2>2, QuietStep DEF SpoolInv, histVars
<1>5. \A u \in FileTurns : buffers[u] \subseteq {Image[u]}
  BY <1>1 DEF UploadsOK
<1>6. \A f : YetToGo(f)' = YetToGo(f)
  BY <1>3 DEF YetToGo, Handled, histVars
<1>7. CASE TurnBegins(t)
  BY <1>1, <1>2, <1>3, <1>4, <1>5, <1>7, NeedsStay DEF TurnBegins, fileVars, histVars
<1>8. CASE TurnItem(t)
  <2>1. /\ uploading' = uploading /\ recovering' = recovering /\ cleaner' = cleaner
        /\ unleased' = unleased /\ buffers' = [buffers EXCEPT ![t] = {Image[t]}]
        /\ spool' = spool \union {Image[t]} /\ leased' = leased \union {Image[t]}
    BY <1>8 DEF TurnItem, Stages
  <2>2. DOMAIN buffers' = FileTurns /\ \A u \in FileTurns : buffers'[u] \subseteq {Image[u]}
    BY <1>2, <1>5, <2>1
  <2>3. \A f : Needed(f)' => Needed(f) \/ f = Image[t]
    BY <1>2, <1>6, <2>1 DEF Needed
  <2>4. NeededIsThere'
    BY <1>1, <2>1, <2>3 DEF NeededIsThere
  <2> QED BY <1>4, <2>1, <2>2, <2>4
<1>9. CASE TurnItemFails(t)
  <2>1. /\ uploading' = uploading /\ recovering' = recovering /\ cleaner' = cleaner
        /\ unleased' = unleased /\ buffers' = buffers /\ leased' = leased
        /\ spool' = spool \union {Image[t]}
    BY <1>9 DEF TurnItemFails
  <2>2. NeededIsThere'
    BY <1>1, <1>3, <2>1, NeedsStay DEF histVars
  <2> QED BY <1>2, <1>4, <1>5, <2>1, <2>2
<1>10. CASE TurnContinues(t) \/ TurnDiscarded(t)
  <2> DEFINE others == FilesIn(outbox) \union Buffered(buffers') \union recovering
  <2>1. /\ uploading' = uploading /\ recovering' = recovering /\ cleaner' = cleaner
        /\ spool' = spool
        /\ buffers' = [buffers EXCEPT ![t] = {}] /\ leased' = leased \ buffers[t]
        /\ unleased' = unleased \union (buffers[t] \intersect others)
    BY <1>10 DEF TurnContinues, TurnDiscarded, ClearsBuffer
  <2> HIDE DEF others
  <2>2. DOMAIN buffers' = FileTurns /\ \A u \in FileTurns : buffers'[u] \subseteq {Image[u]}
    BY <1>2, <1>5, <2>1
  <2>3. \A f : Needed(f)' => Needed(f)
    BY <1>2, <1>6, <2>1 DEF Needed
  <2>4. ASSUME NEW f \in buffers[t], Needed(f)' PROVE f \in others
    <3>1. f \notin uploading'
      BY <1>1, <1>5, <2>1 DEF UploadsOK, SpoolAssumed
    <3>2. YetToGo(f)' => f \in FilesIn(outbox)
      BY <1>6 DEF YetToGo, FilesIn
    <3>3. (\E u \in FileTurns : f \in buffers'[u]) => f \in Buffered(buffers')
      BY DEF Buffered
    <3> QED BY <2>1, <2>4, <3>1, <3>2, <3>3 DEF Needed, others
  <2>5. NeededIsThere'
    BY <1>1, <2>1, <2>3, <2>4 DEF NeededIsThere
  <2> QED BY <1>4, <2>1, <2>2, <2>5
<1>11. CASE TurnCompletes(t)
  <2>1. /\ uploading' = uploading /\ recovering' = recovering /\ cleaner' = cleaner
        /\ spool' = spool /\ leased' = leased /\ unleased' = unleased
        /\ buffers' = [buffers EXCEPT ![t] = {}]
    BY <1>11 DEF TurnCompletes
  <2>2. DOMAIN buffers' = FileTurns /\ \A u \in FileTurns : buffers'[u] \subseteq {Image[u]}
    BY <1>2, <1>5, <2>1
  <2>3. \A f : Needed(f)' => Needed(f)
    BY <1>2, <1>6, <2>1 DEF Needed
  <2>4. NeededIsThere'
    BY <1>1, <2>1, <2>3 DEF NeededIsThere
  <2> QED BY <1>4, <2>1, <2>2, <2>4
<1>12. CASE RecoveryEnds(t)
  <2>1. /\ uploading' = uploading /\ recovering' \subseteq recovering /\ cleaner' = cleaner
        /\ spool' = spool /\ unleased' = unleased /\ buffers' = buffers
        /\ cleaner.who = NoOne
    BY <1>12 DEF RecoveryEnds, StageLockFree
  <2>2. \A f : Needed(f)' => Needed(f)
    BY <1>6, <2>1 DEF Needed
  <2>3. NeededIsThere'
    BY <1>1, <2>1, <2>2 DEF NeededIsThere
  <2> QED BY <1>2, <1>4, <1>5, <2>1, <2>3
<1> QED BY <1>7, <1>8, <1>9, <1>10, <1>11, <1>12

(* What another process or the retry task does without a message. *)
LEMMA OtherQuietSteps ==
  ASSUME SpoolAssumed, SpoolInv, PreflightCleans \/ RetryEnds \/ UNCHANGED spoolVars
  PROVE  SpoolInv'
<1>1. /\ SpoolTyped /\ UploadsOK /\ NeededIsThere /\ AcceptedIsKept
  BY DEF SpoolInv
<1>2. /\ UNCHANGED <<outbox, outboxSaved, sends, refused, doubts, done, pruned, job, buffers,
                     sender, uploading, recovering, leased, cleaner>>
      /\ spool \union unleased \subseteq spool' \union unleased' /\ unleased \subseteq unleased'
  BY DEF PreflightCleans, RetryEnds, spoolVars, fileVars, histVars
<1>3. NeededIsThere'
  BY <1>1, <1>2, NeedsStay
<1>4. UploadsOK'
  BY <1>1, <1>2 DEF UploadsOK, Untouched
<1>5. AcceptedIsKept'
  BY <1>1, <1>2 DEF AcceptedIsKept, PendingKeys
<1>6. job' \in Jobs /\ DOMAIN buffers' = FileTurns
  BY <1>1, <1>2 DEF SpoolTyped
<1> QED BY <1>2, <1>3, <1>4, <1>5, <1>6, QuietStep DEF SpoolInv

-----------------------------------------------------------------------------
(* The steps of who sends. *)
Senders == [who : Actors \union {NoOne, "retry"}, key : DeliveryKeys \union {NoOne},
            step : {"none", "release", "flush", "send", "ack", "next", "tidy"},
            left : Seq(Files), rest : Seq(Entries)]

LEMMA LaneEndsFacts ==
  ASSUME SpoolAssumed, job \in Jobs, NEW code \in Codes, LaneEnds(code)
  PROVE  /\ sender' = NoLane /\ sender' \in Senders /\ job' \in Jobs
         /\ \A r \in Deliveries :
              /\ job'[r].at = job[r].at /\ job'[r].staged = job[r].staged
              /\ job'[r].code = job[r].code \/ (r = sender.who /\ job'[r].code = code)
<1>1. sender' = NoLane /\ NoLane \in Senders
  BY DEF LaneEnds, NoLane, Senders
<1>2. CASE sender.who \in Deliveries
  <2>1. job' = [job EXCEPT ![sender.who].code = code] /\ sender.who \in Actors
    BY <1>2, NamesDiffer DEF LaneEnds
  <2>2. /\ job' \in Jobs /\ job'[sender.who].code = code
        /\ \A y \in Actors : job'[y].at = job[y].at /\ job'[y].staged = job[y].staged
        /\ \A y \in Actors \ {sender.who} : job'[y] = job[y]
    BY <2>1, JobIsTold
  <2> QED BY <1>1, <2>2, NamesDiffer
<1>3. CASE sender.who \notin Deliveries
  BY <1>1, <1>3 DEF LaneEnds
<1> QED BY <1>2, <1>3

LEMMA UploadsKeep ==
  ASSUME SpoolAssumed, UploadsOK, UNCHANGED <<uploading, recovering, buffers>>,
         pruned' \subseteq {KeyOf[r].id : r \in Deliveries},
         \A f \in Files : Untouched(f) => Untouched(f)',
         \A r \in Deliveries : job'[r].at = job[r].at /\ job'[r].staged = job[r].staged
  PROVE  UploadsOK'
<1>1. \A r \in Deliveries : UploadsOf(r) \subseteq Files
  BY NamesDiffer
<1>2. \A r \in Deliveries : job'[r].at \in Unsubmitted => \A f \in UploadsOf(r) : Untouched(f)'
  BY <1>1 DEF UploadsOK
<1> QED BY <1>2 DEF UploadsOK

LEMMA FewerNeeds ==
  ASSUME NeededIsThere, UNCHANGED <<uploading, recovering, buffers, cleaner, spool, unleased>>,
         leased' = leased \/ cleaner.who = NoOne,
         \A f \in Files : YetToGo(f)' => YetToGo(f)
  PROVE  NeededIsThere'
<1>1. \A f \in Files : Needed(f)' => Needed(f)
  BY DEF Needed
<1> QED BY <1>1 DEF NeededIsThere

(* A step of the sender that touches no message: the file may catch up. *)
LEMMA CalmStep ==
  ASSUME SpoolAssumed, SpoolInv,
         UNCHANGED <<outbox, histVars, uploading, recovering, buffers, spool, unleased>>,
         outboxSaved' \in {outboxSaved, outbox},
         cleaner' = cleaner \/ cleaner'.keeps = Referenced,
         leased' = leased \/ (cleaner.who = NoOne /\ cleaner' = cleaner),
         sender.step # "send" \/ sender' = sender, sender' \in Senders, SenderOK',
         job' \in Jobs,
         \A r \in Deliveries :
           /\ job'[r].at = job[r].at /\ job'[r].staged = job[r].staged
           /\ \/ job'[r].code = job[r].code
              \/ job'[r].code \notin {"delivered", "queued"}
              \/ job'[r].code = "delivered" /\ KeyOf[r] \in done
              \/ job'[r].code = "queued" /\ KeyOf[r] \in PendingKeys(outboxSaved)'
  PROVE  SpoolInv'
<1>1. /\ SpoolTyped /\ UploadsOK /\ NeededIsThere /\ AcceptedIsKept /\ CountsOK
      /\ StoreOK(outbox) /\ StoreOK(outboxSaved) /\ SavedIsBehind
      /\ outbox \in Stores /\ outboxSaved \in Stores
  BY DEF SpoolInv, SpoolTyped
<1>2. /\ StoreOK(outbox)' /\ StoreOK(outboxSaved)' /\ SavedIsBehind'
      /\ outboxSaved' \in Stores
      /\ PendingKeys(outboxSaved) \subseteq PendingKeys(outboxSaved)' \union done'
  <2>1. CASE outboxSaved' = outboxSaved
    BY <1>1, <2>1, StoresStay DEF histVars, PendingKeys
  <2>2. CASE outboxSaved' = outbox
    BY <1>1, <2>2, FileCatchesUp DEF histVars
  <2> QED BY <2>1, <2>2
<1>3. SpoolTyped'
  BY <1>1, <1>2 DEF SpoolTyped, Senders, histVars, Counters
<1>4. UploadsOK'
  <2>1. \A f \in Files : Untouched(f) => Untouched(f)'
    BY DEF Untouched, histVars
  <2> QED BY <1>1, <2>1, UploadsKeep DEF UploadsOK, histVars
<1>5. NeededIsThere'
  <2>1. \A f : YetToGo(f)' = YetToGo(f)
    BY DEF YetToGo, Handled, histVars
  <2>2. \A f : Needed(f)' = Needed(f)
    BY <2>1 DEF Needed
  <2> QED BY <1>1, <2>2, NeededIsReferenced DEF NeededIsThere
<1>6. AcceptedIsKept'
  BY <1>1, <1>2, WordsStay DEF histVars
<1>7. CountsOK'
  BY <1>1, CountsStay DEF histVars
<1> QED BY <1>2, <1>3, <1>4, <1>5, <1>6, <1>7 DEF SpoolInv

LEMMA FlushSteps ==
  ASSUME SpoolAssumed, SpoolInv, Release \/ FlushOk \/ FlushFails
  PROVE  SpoolInv'
<1>1. /\ SpoolTyped /\ SenderOK /\ job \in Jobs /\ outbox \in Stores /\ StoreOK(outbox)
      /\ sender \in Senders
  BY DEF SpoolInv, SpoolTyped, Senders
<1>2. sender.who \in Actors /\ sender.step \in {"release", "flush"}
  BY DEF Release, FlushOk, FlushFails, InLane
<1>3. /\ sender.who # NoOne /\ sender.who # "retry" /\ sender.key \in PendingKeys(outbox)
      /\ sender.key = KeyOf[sender.who] /\ sender.rest = <<>>
  BY <1>1, <1>2, NamesDiffer DEF SenderOK
<1>4. {"queued", "failed"} \subseteq Codes
  BY DEF Codes
<1>5. CASE Release
  <2>1. /\ UNCHANGED <<spool, uploading, recovering, buffers, cleaner, outbox, outboxSaved, job,
                       histVars, unleased>>
        /\ cleaner.who = NoOne /\ sender' = [sender EXCEPT !.step = "flush"]
    BY <1>5 DEF Release, StageLockFree
  <2>2. /\ sender' \in Senders /\ sender'.who = sender.who /\ sender'.key = sender.key
        /\ sender'.step = "flush" /\ sender'.rest = <<>>
    BY <1>1, <1>3, <2>1 DEF Senders
  <2>3. SenderOK'
    BY <1>2, <1>3, <2>1, <2>2 DEF SenderOK, GoesThrough, PendingKeys
  <2> QED BY <1>1, <1>2, <2>1, <2>2, <2>3, CalmStep
<1>6. CASE FlushOk /\ IsHead(sender.key)
  <2>1. /\ UNCHANGED <<fileVars, outbox, job, histVars, unleased>> /\ outboxSaved' = outbox
        /\ sender' = [sender EXCEPT !.step = "send", !.left = EntryOf(outbox, sender.key).files]
    BY <1>6 DEF FlushOk
  <2> DEFINE e == EntryOf(outbox, sender.key)
  <2>2. e \in ToSet(outbox.pending) /\ e.key = sender.key
    BY <1>1, <1>3, StoreFacts DEF EntryOf
  <2> HIDE DEF e
  <2>3. e \in Entries /\ Distinct(e.files) /\ e.files \in Seq(Files)
    BY <1>1, <2>2, StoreFacts DEF StoreOK, Entries
  <2>4. /\ sender' \in Senders /\ sender'.who = sender.who /\ sender'.key = sender.key
        /\ sender'.step = "send" /\ sender'.rest = <<>> /\ sender'.left = e.files
    BY <1>1, <1>3, <2>1, <2>3 DEF Senders, e
  <2>5. SendsWell'
    <3>1. \A n \in ToSet(outbox.pending) : n.key = sender.key => n = e
      BY <1>1, <2>2, StoreFacts DEF StoreOK
    <3> QED BY <1>3, <2>1, <2>3, <2>4, <3>1 DEF SendsWell, PendingKeys
  <2>6. SenderOK'
    BY <1>2, <1>3, <2>1, <2>4, <2>5 DEF SenderOK, GoesThrough
  <2> QED BY <1>1, <1>2, <2>1, <2>4, <2>6, CalmStep DEF fileVars
<1>7. ASSUME LaneEnds("queued") \/ LaneEnds("failed"),
             UNCHANGED <<fileVars, outbox, histVars, unleased>>,
             outboxSaved' = outbox \/ (outboxSaved' = outboxSaved /\ LaneEnds("failed"))
      PROVE  SpoolInv'
  <2>1. PICK code \in {"queued", "failed"} :
          LaneEnds(code) /\ (code = "queued" => outboxSaved' = outbox)
    BY <1>7
  <2>2. /\ sender' = NoLane /\ sender' \in Senders /\ job' \in Jobs
        /\ \A r \in Deliveries :
             /\ job'[r].at = job[r].at /\ job'[r].staged = job[r].staged
             /\ job'[r].code = job[r].code \/ (r = sender.who /\ job'[r].code = code)
    BY <1>1, <1>4, <2>1, LaneEndsFacts
  <2>3. SenderOK'
    BY <2>2, NobodySends
  <2>4. code = "queued" => KeyOf[sender.who] \in PendingKeys(outboxSaved)'
    BY <1>3, <2>1 DEF PendingKeys
  <2> QED BY <1>2, <1>7, <2>1, <2>2, <2>3, <2>4, CalmStep DEF fileVars
<1>8. CASE (FlushOk /\ ~IsHead(sender.key)) \/ FlushFails
  BY <1>7, <1>8 DEF FlushOk, FlushFails
<1> QED BY <1>5, <1>6, <1>8

LEMMA ReceiptSteps ==
  ASSUME SpoolAssumed, SpoolInv, AckFlushed \/ AckNotFlushed
  PROVE  SpoolInv'
<1>1. /\ SenderOK /\ job \in Jobs /\ sender \in Senders
  BY DEF SpoolInv, SpoolTyped, Senders
<1>2. sender.who \in Actors /\ sender.step = "ack"
  BY DEF AckFlushed, AckNotFlushed, InLane
<1>3. /\ sender.who # NoOne /\ sender.who # "retry" /\ sender.key \in done
      /\ sender.key = KeyOf[sender.who] /\ sender.rest = <<>>
  BY <1>1, <1>2, NamesDiffer DEF SenderOK
<1>4. "delivered" \in Codes
  BY DEF Codes
<1>5. CASE AckFlushed
  <2>1. /\ UNCHANGED <<fileVars, outbox, histVars, unleased>> /\ outboxSaved' = outbox
        /\ sender' = [sender EXCEPT !.step = "tidy"]
    BY <1>5 DEF AckFlushed
  <2>2. /\ sender' \in Senders /\ sender'.who = sender.who /\ sender'.key = sender.key
        /\ sender'.step = "tidy" /\ sender'.rest = <<>>
    BY <1>1, <1>3, <2>1 DEF Senders
  <2>3. SenderOK'
    BY <1>2, <1>3, <2>1, <2>2 DEF SenderOK, GoesThrough, histVars
  <2>4. /\ job' \in Jobs
        /\ \A r \in Deliveries :
             /\ job'[r].at = job[r].at /\ job'[r].staged = job[r].staged
             /\ job'[r].code = job[r].code \/ (r = sender.who /\ job'[r].code = "delivered")
    <3>1. CASE sender.who \in Deliveries
      <4>1. job' = [job EXCEPT ![sender.who].code = "delivered"]
        BY <1>5, <3>1 DEF AckFlushed
      <4>2. /\ job' \in Jobs /\ job'[sender.who].code = "delivered"
            /\ \A y \in Actors : job'[y].at = job[y].at /\ job'[y].staged = job[y].staged
            /\ \A y \in Actors \ {sender.who} : job'[y] = job[y]
        BY <1>1, <1>2, <1>4, <4>1, JobIsTold
      <4> QED BY <4>2, NamesDiffer
    <3>2. CASE sender.who \notin Deliveries
      BY <1>1, <1>5, <3>2 DEF AckFlushed
    <3> QED BY <3>1, <3>2
  <2> QED BY <1>2, <1>3, <2>1, <2>2, <2>3, <2>4, CalmStep DEF fileVars
<1>6. CASE AckNotFlushed
  <2>1. /\ UNCHANGED <<fileVars, outbox, outboxSaved, histVars, unleased>>
        /\ LaneEnds("delivered")
    BY <1>6 DEF AckNotFlushed
  <2>2. /\ sender' = NoLane /\ sender' \in Senders /\ job' \in Jobs
        /\ \A r \in Deliveries :
             /\ job'[r].at = job[r].at /\ job'[r].staged = job[r].staged
             /\ job'[r].code = job[r].code \/ (r = sender.who /\ job'[r].code = "delivered")
    BY <1>1, <1>4, <2>1, LaneEndsFacts
  <2>3. SenderOK'
    BY <2>2, NobodySends
  <2> QED BY <1>2, <1>3, <2>1, <2>2, <2>3, CalmStep DEF fileVars
<1> QED BY <1>5, <1>6

(* The background writer, and the receipts the retry task still has to save. *)
LEMMA WriterSteps ==
  ASSUME SpoolAssumed, SpoolInv, PersistsOutbox \/ RetryReceipts
  PROVE  SpoolInv'
<1>1. /\ SenderOK /\ job \in Jobs /\ sender \in Senders /\ outbox \in Stores
  BY DEF SpoolInv, SpoolTyped, Senders
<1>2. /\ UNCHANGED <<outbox, histVars, uploading, recovering, buffers, spool, unleased, leased,
                     sender, job>>
      /\ outboxSaved' = outbox
      /\ cleaner' = cleaner \/ cleaner'.keeps = Referenced
  BY DEF PersistsOutbox, RetryReceipts, fileVars
<1>3. PendingKeys(outboxSaved)' = PendingKeys(outbox)
  BY <1>2 DEF PendingKeys
<1>4. \A e \in ToSet(outbox.pending) : e.key \in PendingKeys(outbox)
  BY <1>1, StoreFacts
<1>5. SenderOK'
  <2>1. sender.step = "send" => SendsWell'
    BY <1>1, <1>2, <1>3 DEF SenderOK, SendsWell, PendingKeys, Handled, histVars
  <2>2. GoesThrough'
    BY <1>1, <1>2, <1>3, <1>4 DEF SenderOK, GoesThrough
  <2> QED BY <1>1, <1>2, <2>1, <2>2 DEF SenderOK, PendingKeys, histVars
<1> QED BY <1>1, <1>2, <1>5, CalmStep

LEMMA RetrySteps ==
  ASSUME SpoolAssumed, SpoolInv,
         RetryBegins \/ RetryFlushed \/ RetryNotFlushed \/ RetryNext \/ RetrySaves
  PROVE  SpoolInv'
<1>1. /\ SenderOK /\ job \in Jobs /\ sender \in Senders /\ outbox \in Stores /\ StoreOK(outbox)
      /\ outbox.pending \in Seq(Entries) /\ NoLane \in Senders
  BY DEF SpoolInv, SpoolTyped, Senders, Stores, NoLane
<1>2. "retry" \notin Actors /\ NoOne # "retry" /\ NoOne \notin Actors
  BY DEF SpoolAssumed
<1>3. ASSUME UNCHANGED <<outbox, histVars, fileVars, unleased, job>>,
             outboxSaved' \in {outboxSaved, outbox}, sender.step # "send",
             sender' \in Senders, SenderOK'
      PROVE  SpoolInv'
  BY <1>1, <1>3, CalmStep DEF fileVars
<1>4. CASE RetryBegins
  <2>1. /\ UNCHANGED <<outbox, histVars, fileVars, unleased, job, outboxSaved>>
        /\ sender.who = NoOne /\ sender' = [NoLane EXCEPT !.who = "retry", !.step = "flush"]
    BY <1>4 DEF RetryBegins, LaneFree
  <2>2. /\ sender' \in Senders /\ sender'.who = "retry" /\ sender'.step = "flush"
        /\ sender'.rest = <<>> /\ sender.step = "none"
    BY <1>1, <2>1 DEF NoLane, Senders, SenderOK
  <2>3. SenderOK'
    BY <1>2, <2>2 DEF SenderOK, GoesThrough
  <2> QED BY <1>3, <2>1, <2>2, <2>3
<1>5. CASE RetryFlushed
  <2>1. /\ UNCHANGED <<outbox, histVars, fileVars, unleased, job>> /\ outboxSaved' = outbox
        /\ sender.who = "retry" /\ sender.step = "flush"
        /\ sender' = [sender EXCEPT !.step = "next", !.rest = outbox.pending]
    BY <1>5 DEF RetryFlushed, Retrying
  <2>2. /\ sender' \in Senders /\ sender'.who = "retry" /\ sender'.step = "next"
        /\ sender'.rest = outbox.pending
    BY <1>1, <2>1 DEF Senders
  <2>3. GoesThrough'
    <3>1. \A i \in DOMAIN outbox.pending : outbox.pending[i] \in ToSet(outbox.pending)
      BY DEF ToSet
    <3>2. \A i \in DOMAIN outbox.pending : outbox.pending[i].key \in PendingKeys(outbox)
      BY <1>1, <3>1, StoreFacts
    <3>3. PendingKeys(outboxSaved)' = PendingKeys(outbox)
      BY <2>1 DEF PendingKeys
    <3> QED BY <1>1, <2>1, <2>2, <3>1, <3>2, <3>3 DEF GoesThrough, StoreOK, OneEach
  <2>4. SenderOK'
    BY <1>2, <2>2, <2>3 DEF SenderOK
  <2> QED BY <1>3, <2>1, <2>2, <2>4
<1>6. CASE RetryNotFlushed
  BY <1>1, <1>3, <1>6, NobodySends DEF RetryNotFlushed, Retrying
<1>7. CASE RetrySaves
  <2>1. /\ UNCHANGED <<outbox, histVars, fileVars, unleased, job>>
        /\ sender.who = "retry" /\ sender.step = "next" /\ sender.rest = <<>>
        /\ outboxSaved' \in {outboxSaved, outbox}
        /\ sender' = NoLane \/ sender' = [sender EXCEPT !.step = "tidy"]
    BY <1>7 DEF RetrySaves, Retrying
  <2>2. CASE sender' = NoLane
    BY <1>1, <1>3, <2>1, <2>2, NobodySends
  <2>3. CASE sender' = [sender EXCEPT !.step = "tidy"]
    <3>1. /\ sender' \in Senders /\ sender'.who = "retry" /\ sender'.step = "tidy"
          /\ sender'.rest = <<>>
      BY <1>1, <2>1, <2>3 DEF Senders
    <3>2. SenderOK'
      BY <1>2, <3>1 DEF SenderOK, GoesThrough
    <3> QED BY <1>3, <2>1, <3>1, <3>2
  <2> QED BY <2>1, <2>2, <2>3
<1>8. CASE RetryNext
  <2> DEFINE e == Head(sender.rest)
  <2>1. /\ UNCHANGED <<outbox, histVars, fileVars, unleased, job, outboxSaved>>
        /\ sender.who = "retry" /\ sender.step = "next" /\ sender.rest # <<>>
        /\ sender' = [sender EXCEPT !.step = "send", !.key = e.key, !.left = e.files,
                                    !.rest = Tail(sender.rest)]
    BY <1>8 DEF RetryNext, Retrying
  <2>2. /\ sender.rest \in Seq(Entries) /\ Tail(sender.rest) \in Seq(Entries)
        /\ e = sender.rest[1] /\ 1 \in DOMAIN sender.rest
        /\ DOMAIN Tail(sender.rest) = 1..(Len(sender.rest) - 1) /\ Len(sender.rest) \in Nat
        /\ \A i \in DOMAIN Tail(sender.rest) :
             i + 1 \in DOMAIN sender.rest /\ Tail(sender.rest)[i] = sender.rest[i + 1]
    <3>1. sender.rest \in Seq(Entries)
      BY <1>1 DEF Senders
    <3> QED BY <2>1, <3>1, HeadTailProperties
  <2>3. e \in ToSet(outbox.pending) /\ e.key \in PendingKeys(outboxSaved) /\ e \in Entries
    BY <1>1, <2>2 DEF SenderOK, GoesThrough
  <2> HIDE DEF e
  <2>4. e.key \in PendingKeys(outbox) /\ Distinct(e.files) /\ e.files \in Seq(Files)
        /\ e.key \in DeliveryKeys
    BY <1>1, <2>3, StoreFacts DEF StoreOK, Entries
  <2>5. /\ sender' \in Senders /\ sender'.who = "retry" /\ sender'.step = "send"
        /\ sender'.key = e.key /\ sender'.left = e.files /\ sender'.rest = Tail(sender.rest)
    BY <1>1, <2>1, <2>2, <2>4 DEF Senders
  <2>6. SendsWell'
    <3>1. \A n \in ToSet(outbox.pending) : n.key = e.key => n = e
      BY <1>1, <2>3, StoreFacts DEF StoreOK
    <3> QED BY <2>1, <2>3, <2>4, <2>5, <3>1 DEF SendsWell, PendingKeys
  <2>7. GoesThrough'
    <3>1. ASSUME NEW i \in DOMAIN Tail(sender.rest)
          PROVE  /\ Tail(sender.rest)[i] \in ToSet(outbox.pending)
                 /\ Tail(sender.rest)[i].key \in PendingKeys(outboxSaved)
                 /\ Tail(sender.rest)[i].key # e.key
                 /\ \A j \in DOMAIN Tail(sender.rest) :
                      Tail(sender.rest)[j].key = Tail(sender.rest)[i].key => j = i
      <4>1. i + 1 \in DOMAIN sender.rest /\ Tail(sender.rest)[i] = sender.rest[i + 1] /\ i + 1 # 1
            /\ i \in Nat
        BY <2>2
      <4>2. /\ sender.rest[i + 1] \in ToSet(outbox.pending)
            /\ sender.rest[i + 1].key \in PendingKeys(outboxSaved)
            /\ \A j \in DOMAIN sender.rest : sender.rest[j].key = sender.rest[i + 1].key => j = i + 1
        BY <1>1, <4>1 DEF SenderOK, GoesThrough
      <4>3. e.key # sender.rest[i + 1].key
        BY <2>2, <4>1, <4>2
      <4>4. ASSUME NEW j \in DOMAIN Tail(sender.rest),
                   Tail(sender.rest)[j].key = Tail(sender.rest)[i].key
            PROVE  j = i
        <5>1. j + 1 = i + 1 /\ j \in Nat
          BY <2>2, <4>1, <4>2, <4>4
        <5> QED BY <4>1, <5>1
      <4> QED BY <4>1, <4>2, <4>3, <4>4
    <3> QED BY <2>1, <2>5, <3>1 DEF GoesThrough, PendingKeys
  <2>8. SenderOK'
    BY <1>2, <2>5, <2>6, <2>7 DEF SenderOK
  <2> QED BY <1>3, <2>1, <2>5, <2>8
<1> QED BY <1>4, <1>5, <1>6, <1>7, <1>8

-----------------------------------------------------------------------------
(* One more in a count. *)
LEMMA CountOne ==
  ASSUME sends \in Counters, NEW p \in DeliveryKeys \X Files, sends' = [sends EXCEPT ![p] = @ + 1]
  PROVE  /\ sends' \in Counters /\ sends'[p] = sends[p] + 1
         /\ \A q \in DeliveryKeys \X Files :
              sends[q] \in Nat /\ sends'[q] \in Nat /\ (q # p => sends'[q] = sends[q])
         /\ SentBy(sends') \subseteq SentBy(sends) \union {p[1]}
<1>1. /\ sends' \in Counters /\ sends'[p] = sends[p] + 1
      /\ \A q \in DeliveryKeys \X Files :
           sends[q] \in Nat /\ sends'[q] \in Nat /\ (q # p => sends'[q] = sends[q])
  BY DEF Counters
<1>2. SentBy(sends') \subseteq SentBy(sends) \union {p[1]}
  BY <1>1 DEF SentBy
<1> QED BY <1>1, <1>2

(* What is being sent: a message that memory and file have, and a file of it. *)
LEMMA InSendFacts ==
  ASSUME SpoolAssumed, SpoolInv, Sending
  PROVE  /\ SendsWell /\ sender.key \in DeliveryKeys /\ sender.left \in Seq(Files)
         /\ sender.left # <<>> =>
              /\ InSend \in DeliveryKeys \X Files /\ Head(sender.left) \in Files
              /\ Head(sender.left) \in ToSet(sender.left)
              /\ ToSet(sender.left) = {Head(sender.left)} \union ToSet(Tail(sender.left))
              /\ Head(sender.left) \notin ToSet(Tail(sender.left))
              /\ Tail(sender.left) \in Seq(Files) /\ Distinct(Tail(sender.left))
         /\ \E e \in ToSet(outbox.pending) :
              /\ e.key = sender.key /\ ToSet(sender.left) \subseteq ToSet(e.files)
              /\ \A n \in ToSet(outbox.pending) : n.key = sender.key => n = e
<1>1. SenderOK /\ outbox \in Stores /\ OneEach(outbox.pending) /\ sender.left \in Seq(Files)
  BY DEF SpoolInv, SpoolTyped, StoreOK
<1>2. SendsWell
  BY <1>1 DEF SenderOK, Sending
<1>3. sender.key \in DeliveryKeys
  BY <1>1, <1>2, StoreFacts DEF SendsWell
<1>4. sender.left # <<>> =>
        /\ InSend \in DeliveryKeys \X Files /\ Head(sender.left) \in Files
        /\ Head(sender.left) \in ToSet(sender.left)
        /\ ToSet(sender.left) = {Head(sender.left)} \union ToSet(Tail(sender.left))
        /\ Head(sender.left) \notin ToSet(Tail(sender.left))
        /\ Tail(sender.left) \in Seq(Files) /\ Distinct(Tail(sender.left))
  BY <1>1, <1>2, <1>3, ToSetOfTail DEF InSend, SendsWell
<1>5. PICK e \in ToSet(outbox.pending) : e.key = sender.key
  BY <1>1, <1>2, StoreFacts DEF SendsWell
<1>6. /\ ToSet(sender.left) \subseteq ToSet(e.files)
      /\ \A n \in ToSet(outbox.pending) : n.key = sender.key => n = e
  BY <1>1, <1>2, <1>5, StoreFacts DEF SendsWell
<1> QED BY <1>1, <1>2, <1>3, <1>4, <1>5, <1>6

LEMMA FileGoes ==
  ASSUME SpoolAssumed, SpoolInv, SendFile \/ FileRefused
  PROVE  SpoolInv'
<1>1. /\ SpoolTyped /\ UploadsOK /\ NeededIsThere /\ AcceptedIsKept /\ CountsOK /\ SenderOK
      /\ StoreOK(outbox) /\ StoreOK(outboxSaved) /\ SavedIsBehind /\ sends \in Counters
      /\ doubts \in Counters /\ outbox \in Stores /\ outboxSaved \in Stores /\ job \in Jobs
      /\ sender \in Senders
  BY DEF SpoolInv, SpoolTyped, Senders
<1>0. PICK k, h : k = sender.key /\ h = Head(sender.left)
  OBVIOUS
<1>2. /\ Sending /\ sender.left # <<>>
      /\ sender' = [sender EXCEPT !.left = Tail(sender.left)]
      /\ UNCHANGED <<fileVars, outbox, outboxSaved, job, doubts, done, pruned, unleased>>
      /\ \/ sends' = [sends EXCEPT ![InSend] = @ + 1] /\ refused' = refused
         \/ sends' = sends /\ refused' = refused \union {InSend}
  BY DEF SendFile, FileRefused
<1>3. /\ SendsWell /\ k \in DeliveryKeys /\ h \in Files /\ InSend = <<k, h>>
      /\ InSend \in DeliveryKeys \X Files
      /\ ToSet(sender.left) = {h} \union ToSet(Tail(sender.left)) /\ h \notin ToSet(Tail(sender.left))
      /\ Tail(sender.left) \in Seq(Files) /\ Distinct(Tail(sender.left))
      /\ k \in PendingKeys(outbox) /\ k \in PendingKeys(outboxSaved)
  BY <1>0, <1>2, InSendFacts DEF SendsWell, InSend
<1>4. PICK e \in ToSet(outbox.pending) :
        /\ e.key = k /\ ToSet(sender.left) \subseteq ToSet(e.files)
        /\ \A n \in ToSet(outbox.pending) : n.key = k => n = e
  BY <1>0, <1>2, InSendFacts
<1>5. /\ sends' \in Counters
      /\ \A q \in DeliveryKeys \X Files :
           /\ sends[q] \in Nat /\ sends'[q] \in Nat /\ sends[q] <= sends'[q]
           /\ sends'[q] <= sends[q] + 1 /\ (q # InSend => sends'[q] = sends[q])
      /\ SentBy(sends') \subseteq SentBy(sends) \union {k}
      /\ sends'[InSend] > 0 \/ InSend \in refused'
  <2>1. CASE sends' = [sends EXCEPT ![InSend] = @ + 1]
    <3>1. /\ sends' \in Counters /\ sends'[InSend] = sends[InSend] + 1
          /\ \A q \in DeliveryKeys \X Files :
               sends[q] \in Nat /\ sends'[q] \in Nat /\ (q # InSend => sends'[q] = sends[q])
          /\ SentBy(sends') \subseteq SentBy(sends) \union {InSend[1]}
      BY <1>1, <1>3, <2>1, CountOne
    <3>2. InSend[1] = k
      BY <1>3
    <3>3. SentBy(sends') \subseteq SentBy(sends) \union {k}
      BY <3>1, <3>2
    <3>4. sends'[InSend] > 0
      BY <1>3, <3>1
    <3>5. ASSUME NEW q \in DeliveryKeys \X Files
          PROVE  sends[q] <= sends'[q] /\ sends'[q] <= sends[q] + 1
      <4>1. sends[q] \in Nat /\ sends'[q] \in Nat
        BY <3>1
      <4>2. sends'[q] = sends[q] \/ sends'[q] = sends[q] + 1
        BY <3>1
      <4> QED BY <4>1, <4>2
    <3> HIDE DEF SentBy
    <3> QED BY <3>1, <3>3, <3>4, <3>5
  <2>2. CASE sends' = sends /\ refused' = refused \union {InSend}
    BY <1>1, <2>2 DEF Counters
  <2> QED BY <1>2, <2>1, <2>2
<1>6. Handled(k, h)'
  BY <1>3, <1>5 DEF Handled
<1>7. \A l \in DeliveryKeys, f \in Files : Handled(l, f) => Handled(l, f)'
  <2>1. \A l \in DeliveryKeys, f \in Files : sends[<<l, f>>] > 0 => sends'[<<l, f>>] > 0
    BY <1>5
  <2> QED BY <1>2, <2>1 DEF Handled
<1>8. \A s \in {outbox, outboxSaved} : \A n \in ToSet(s.pending) :
        n.key \in DeliveryKeys /\ ToSet(n.files) \subseteq Files
  BY <1>1, StoreFacts DEF Entries, ToSet
<1>9. /\ sender' \in Senders /\ sender'.who = sender.who /\ sender'.key = k
      /\ sender'.step = "send" /\ sender'.left = Tail(sender.left) /\ sender'.rest = sender.rest
  BY <1>0, <1>1, <1>2, <1>3 DEF Senders, Sending
<1>10. StoreOK(outbox)' /\ StoreOK(outboxSaved)'
  <2>1. \A l \in SentKeys' : l \in SentKeys \/ l = k
    BY <1>2, <1>5 DEF SentKeys
  <2> QED BY <1>1, <1>2, <1>3, <2>1 DEF StoreOK, Known, PendingKeys
<1>11. SavedIsBehind'
  BY <1>1, <1>2, <1>7, <1>8 DEF SavedIsBehind, PendingKeys
<1>12. SenderOK'
  <2>1. SendsWell'
    <3>1. \A f \in ToSet(e.files) : f \in ToSet(sender.left) \/ Handled(k, f)
      BY <1>0, <1>3, <1>4 DEF SendsWell
    <3>2. ASSUME NEW f \in ToSet(e.files)
          PROVE  f \in ToSet(Tail(sender.left)) \/ Handled(k, f)'
      <4>1. f \in Files
        BY <1>8
      <4>2. f = h => Handled(k, f)'
        BY <1>6
      <4>3. Handled(k, f) => Handled(k, f)'
        BY <1>3, <1>7, <4>1
      <4> QED BY <1>3, <3>1, <4>2, <4>3
    <3>3. ToSet(Tail(sender.left)) \subseteq ToSet(e.files)
      BY <1>3, <1>4
    <3>4. \A n \in ToSet(outbox'.pending) : n.key = sender'.key => n = e
      BY <1>2, <1>4, <1>9
    <3>5. PendingKeys(outbox)' = PendingKeys(outbox)
          /\ PendingKeys(outboxSaved)' = PendingKeys(outboxSaved)
      BY <1>2 DEF PendingKeys
    <3>6. \A f \in ToSet(e.files) : f \in ToSet(sender.left)' \/ Handled(sender.key, f)'
      BY <1>9, <3>2
    <3> QED BY <1>3, <1>9, <3>3, <3>4, <3>5, <3>6 DEF SendsWell
  <2>2. GoesThrough'
    BY <1>0, <1>1, <1>2, <1>9 DEF SenderOK, GoesThrough, PendingKeys, Sending
  <2>3. sender.who \in Actors => sender.key = KeyOf[sender.who]
    BY <1>1 DEF SenderOK
  <2>4. sender.who = "retry" \/ sender.rest = <<>>
    BY <1>1 DEF SenderOK
  <2> QED BY <1>0, <1>2, <1>9, <2>1, <2>2, <2>3, <2>4 DEF SenderOK, Sending
<1>13. CountsOK'
  <2>1. ~BeingSent(k, h) /\ h \in ToSet(e.files)
    BY <1>0, <1>3, <1>4 DEF BeingSent
  <2>2. sends[InSend] <= doubts[InSend]
    BY <1>1, <1>3, <1>4, <2>1 DEF CountsOK
  <2>3. \A q \in DeliveryKeys \X Files : doubts[q] \in Nat
    BY <1>1 DEF Counters
  <2>4. ASSUME NEW q \in DeliveryKeys \X Files PROVE sends'[q] <= 1 + doubts'[q]
    <3>1. CASE q = InSend
      BY <1>2, <1>3, <1>5, <2>2, <2>3, <3>1
    <3>2. CASE q # InSend
      BY <1>1, <1>2, <1>5, <3>2 DEF CountsOK
    <3> QED BY <3>1, <3>2
  <2>5. ASSUME NEW n \in ToSet(outbox.pending), NEW f \in ToSet(n.files)
        PROVE  sends'[<<n.key, f>>] <= doubts'[<<n.key, f>>] \/ BeingSent(n.key, f)'
    <3>0. <<n.key, f>> \in DeliveryKeys \X Files
      BY <1>8
    <3>1. CASE <<n.key, f>> = InSend
      <4>1. n.key = k /\ f = h
        BY <1>3, <3>1
      <4> QED BY <1>3, <1>9, <4>1 DEF BeingSent
    <3>2. CASE <<n.key, f>> # InSend
      <4>1. sends[<<n.key, f>>] <= doubts[<<n.key, f>>] \/ BeingSent(n.key, f)
        BY <1>1 DEF CountsOK
      <4>2. BeingSent(n.key, f) => BeingSent(n.key, f)'
        BY <1>0, <1>2, <1>3, <1>9 DEF BeingSent
      <4> QED BY <1>2, <1>5, <3>0, <3>2, <4>1, <4>2
    <3> QED BY <3>1, <3>2
  <2> QED BY <1>2, <2>4, <2>5 DEF CountsOK
<1>14. UploadsOK'
  <2>1. ASSUME NEW f \in Files, Untouched(f) PROVE Untouched(f)'
    <3>1. f # h
      BY <1>3, <1>4, <2>1 DEF Untouched
    <3>2. \A l \in DeliveryKeys : <<l, f>> # InSend
      BY <1>3, <3>1
    <3> QED BY <1>2, <1>5, <2>1, <3>2 DEF Untouched
  <2> QED BY <1>1, <1>2, <2>1, UploadsKeep DEF UploadsOK, fileVars
<1>15. NeededIsThere'
  <2>1. \A f \in Files : YetToGo(f)' => YetToGo(f)
    BY <1>2, <1>7, <1>8 DEF YetToGo
  <2> QED BY <1>1, <1>2, <2>1, FewerNeeds DEF fileVars
<1>16. SpoolTyped'
  BY <1>1, <1>2, <1>5, <1>9 DEF SpoolTyped, Senders, fileVars
<1>17. AcceptedIsKept'
  BY <1>1, <1>2 DEF AcceptedIsKept, PendingKeys
<1> QED BY <1>10, <1>11, <1>12, <1>13, <1>14, <1>15, <1>16, <1>17 DEF SpoolInv

LEMMA SendingFails ==
  ASSUME SpoolAssumed, SpoolInv, FileSendFails
  PROVE  SpoolInv'
<1>1. /\ SpoolTyped /\ UploadsOK /\ NeededIsThere /\ AcceptedIsKept /\ CountsOK /\ SenderOK
      /\ StoreOK(outbox) /\ StoreOK(outboxSaved) /\ SavedIsBehind /\ sends \in Counters
      /\ doubts \in Counters /\ outbox \in Stores /\ outboxSaved \in Stores /\ job \in Jobs
      /\ sender \in Senders /\ OneEach(outbox.pending)
  BY DEF SpoolInv, SpoolTyped, Senders, StoreOK
<1>0. PICK k, left, h : k = sender.key /\ left = sender.left /\ h = Head(sender.left)
  OBVIOUS
<1>2. /\ Sending /\ outbox' = Checkpointed(k, left)
      /\ UNCHANGED <<fileVars, refused, done, pruned, unleased>>
      /\ \/ UNCHANGED <<sends, doubts>>
         \/ /\ left # <<>> /\ sends' = [sends EXCEPT ![InSend] = @ + 1]
            /\ doubts' = [doubts EXCEPT ![InSend] = @ + 1]
      /\ \/ /\ sender.who \in Actors /\ LaneEnds("queued")
            /\ outboxSaved' \in {outboxSaved, outbox'}
         \/ /\ sender.who = "retry" /\ UNCHANGED <<outboxSaved, job>>
            /\ sender' = [sender EXCEPT !.step = "next", !.rest = <<>>]
  BY <1>0 DEF FileSendFails
<1>3. /\ SendsWell /\ k \in DeliveryKeys /\ left \in Seq(Files)
      /\ left # <<>> => /\ h \in Files /\ InSend = <<k, h>> /\ h \in ToSet(left)
                        /\ InSend \in DeliveryKeys \X Files
      /\ k \in PendingKeys(outbox) /\ k \in PendingKeys(outboxSaved) /\ Distinct(left)
  BY <1>0, <1>2, InSendFacts DEF SendsWell, InSend
<1>4. PICK e \in ToSet(outbox.pending) :
        /\ e.key = k /\ ToSet(left) \subseteq ToSet(e.files)
        /\ \A n \in ToSet(outbox.pending) : n.key = k => n = e
  BY <1>0, <1>2, InSendFacts
<1>5. \A f \in ToSet(e.files) : f \in ToSet(left) \/ Handled(k, f)
  BY <1>0, <1>3, <1>4 DEF SendsWell
<1>6. /\ sends' \in Counters /\ doubts' \in Counters
      /\ \A q \in DeliveryKeys \X Files :
           /\ sends[q] \in Nat /\ sends'[q] \in Nat /\ sends[q] <= sends'[q]
           /\ doubts[q] \in Nat /\ doubts'[q] \in Nat
           /\ sends'[q] - sends[q] = doubts'[q] - doubts[q]
           /\ sends'[q] # sends[q] => left # <<>> /\ q = <<k, h>>
      /\ SentBy(sends') \subseteq SentBy(sends) \union {k}
  <2>1. CASE UNCHANGED <<sends, doubts>>
    BY <1>1, <2>1 DEF Counters
  <2>2. CASE /\ left # <<>> /\ sends' = [sends EXCEPT ![InSend] = @ + 1]
             /\ doubts' = [doubts EXCEPT ![InSend] = @ + 1]
    <3>1. /\ sends' \in Counters /\ sends'[InSend] = sends[InSend] + 1
          /\ \A q \in DeliveryKeys \X Files :
               sends[q] \in Nat /\ sends'[q] \in Nat /\ (q # InSend => sends'[q] = sends[q])
          /\ SentBy(sends') \subseteq SentBy(sends) \union {InSend[1]}
      BY <1>1, <1>3, <2>2, CountOne
    <3>2. /\ doubts' \in Counters /\ doubts'[InSend] = doubts[InSend] + 1
          /\ \A q \in DeliveryKeys \X Files :
               doubts[q] \in Nat /\ doubts'[q] \in Nat /\ (q # InSend => doubts'[q] = doubts[q])
      BY <1>1, <1>3, <2>2 DEF Counters
    <3>3. InSend[1] = k /\ InSend = <<k, h>>
      BY <1>3, <2>2
    <3>4. ASSUME NEW q \in DeliveryKeys \X Files
          PROVE  /\ sends[q] <= sends'[q] /\ sends'[q] - sends[q] = doubts'[q] - doubts[q]
                 /\ sends'[q] # sends[q] => left # <<>> /\ q = <<k, h>>
      <4>1. CASE q = InSend
        <5>1. sends[q] \in Nat /\ doubts[q] \in Nat
          BY <3>1, <3>2
        <5>2. sends'[q] = sends[q] + 1 /\ doubts'[q] = doubts[q] + 1
          BY <3>1, <3>2, <4>1
        <5> QED BY <2>2, <3>3, <4>1, <5>1, <5>2
      <4>2. CASE q # InSend
        BY <3>1, <3>2, <4>2
      <4> QED BY <4>1, <4>2
    <3> QED BY <3>1, <3>2, <3>3, <3>4
  <2> QED BY <1>2, <2>1, <2>2
<1>7. \A l \in DeliveryKeys, f \in Files : Handled(l, f) => Handled(l, f)'
  <2>1. \A l \in DeliveryKeys, f \in Files : sends[<<l, f>>] > 0 => sends'[<<l, f>>] > 0
    BY <1>6
  <2> QED BY <1>2, <2>1 DEF Handled
<1>8. \A s \in {outbox, outboxSaved} : \A n \in ToSet(s.pending) :
        n.key \in DeliveryKeys /\ ToSet(n.files) \subseteq Files
  BY <1>1, StoreFacts DEF Entries, ToSet
<1> DEFINE new == [key |-> k, files |-> left]
<1>9. /\ outbox' \in Stores /\ outbox'.acks = outbox.acks /\ OneEach(outbox'.pending)
      /\ ToSet(outbox'.pending) = {n \in ToSet(outbox.pending) : n.key # k} \union {new}
      /\ PendingKeys(outbox') = PendingKeys(outbox)
  BY <1>1, <1>2, <1>3, CheckpointedFacts
<1>10. new.key = k /\ new.files = left
  OBVIOUS
<1> HIDE DEF new
<1>11. \A l \in SentKeys' : l \in SentKeys \/ l = k
  BY <1>2, <1>6 DEF SentKeys
<1>12. StoreOK(outbox)'
  <2>1. \A n \in ToSet(outbox'.pending) : Distinct(n.files)
    BY <1>1, <1>3, <1>9, <1>10 DEF StoreOK
  <2> QED BY <1>1, <1>2, <1>3, <1>9, <1>11, <2>1 DEF StoreOK, Known
<1>13. outboxSaved' \in {outboxSaved, outbox'}
  BY <1>2
<1>14. /\ StoreOK(outboxSaved)' /\ outboxSaved' \in Stores
       /\ PendingKeys(outboxSaved) \subseteq PendingKeys(outboxSaved)' \union done
       /\ k \in PendingKeys(outboxSaved)'
  <2>1. CASE outboxSaved' = outboxSaved
    BY <1>1, <1>2, <1>3, <1>11, <2>1 DEF StoreOK, Known, PendingKeys
  <2>2. CASE outboxSaved' = outbox'
    <3>1. PendingKeys(outboxSaved) \subseteq PendingKeys(outbox) \union done
      BY <1>1 DEF SavedIsBehind, PendingKeys
    <3>2. PendingKeys(outboxSaved)' = PendingKeys(outbox)
      BY <1>9, <2>2 DEF PendingKeys
    <3>3. StoreOK(outboxSaved)'
      BY <1>12, <2>2 DEF StoreOK, Known, PendingKeys
    <3> QED BY <1>3, <1>9, <2>2, <3>1, <3>2, <3>3
  <2> QED BY <1>13, <2>1, <2>2
<1>15. SavedIsBehind'
  <2>1. CASE outboxSaved' = outboxSaved
    <3>1. ASSUME NEW n \in ToSet(outboxSaved.pending), NEW f \in ToSet(n.files)
          PROVE  \/ Handled(n.key, f)'
                 \/ \E m \in ToSet(outbox'.pending) : m.key = n.key /\ f \in ToSet(m.files)
      <4>1. n.key \in DeliveryKeys /\ f \in Files
        BY <1>8
      <4>2. CASE Handled(n.key, f)
        BY <1>7, <4>1, <4>2
      <4>3. ASSUME NEW m \in ToSet(outbox.pending), m.key = n.key, f \in ToSet(m.files)
            PROVE  \/ Handled(n.key, f)'
                   \/ \E o \in ToSet(outbox'.pending) : o.key = n.key /\ f \in ToSet(o.files)
        <5>1. CASE m.key # k
          BY <1>9, <4>3, <5>1
        <5>2. CASE m.key = k
          <6>1. m = e
            BY <1>4, <5>2
          <6>2. f \in ToSet(left) \/ Handled(k, f)
            BY <1>5, <4>3, <6>1
          <6>3. Handled(k, f) => Handled(n.key, f)'
            <7>1. Handled(k, f) => Handled(k, f)'
              BY <1>3, <1>7, <4>1
            <7> QED BY <4>3, <5>2, <7>1
          <6>4. new \in ToSet(outbox'.pending)
            BY <1>9
          <6> QED BY <1>10, <4>3, <5>2, <6>2, <6>3, <6>4
        <5> QED BY <5>1, <5>2
      <4> QED BY <1>1, <4>2, <4>3 DEF SavedIsBehind
    <3>2. \A n \in ToSet(outboxSaved.pending) : n.key \in PendingKeys(outbox') \union done
      BY <1>1, <1>9 DEF SavedIsBehind
    <3> QED BY <1>2, <2>1, <3>1, <3>2 DEF SavedIsBehind, PendingKeys
  <2>2. CASE outboxSaved' = outbox'
    BY <2>2 DEF SavedIsBehind, PendingKeys
  <2> QED BY <1>13, <2>1, <2>2
<1>16. /\ SenderOK' /\ sender' \in Senders /\ job' \in Jobs /\ sender'.step # "send"
       /\ \A r \in Deliveries :
            /\ job'[r].at = job[r].at /\ job'[r].staged = job[r].staged
            /\ \/ job'[r].code = job[r].code
               \/ job'[r].code = "queued" /\ KeyOf[r] \in PendingKeys(outboxSaved)'
  <2>1. CASE sender.who \in Actors /\ LaneEnds("queued")
    <3>1. "queued" \in Codes
      BY DEF Codes
    <3>2. /\ sender' = NoLane /\ sender' \in Senders /\ job' \in Jobs
          /\ \A r \in Deliveries :
               /\ job'[r].at = job[r].at /\ job'[r].staged = job[r].staged
               /\ job'[r].code = job[r].code \/ (r = sender.who /\ job'[r].code = "queued")
      BY <1>1, <2>1, <3>1, LaneEndsFacts
    <3>3. SenderOK' /\ sender'.step # "send"
      BY <3>2, NobodySends DEF NoLane
    <3>4. KeyOf[sender.who] = k
      BY <1>0, <1>1, <2>1 DEF SenderOK
    <3> QED BY <1>14, <3>2, <3>3, <3>4
  <2>2. CASE /\ sender.who = "retry" /\ UNCHANGED job
             /\ sender' = [sender EXCEPT !.step = "next", !.rest = <<>>]
    <3>1. /\ sender' \in Senders /\ sender'.who = "retry" /\ sender'.step = "next"
          /\ sender'.rest = <<>>
      <4>1. sender \in Senders /\ <<>> \in Seq(Entries)
        BY <1>1
      <4> QED BY <2>2, <4>1 DEF Senders
    <3>2. SenderOK'
      BY <3>1, NamesDiffer DEF SenderOK, GoesThrough
    <3> QED BY <1>1, <2>2, <3>1, <3>2
  <2> QED BY <1>2, <2>1, <2>2
<1>17. CountsOK'
  <2>1. ASSUME NEW q \in DeliveryKeys \X Files PROVE sends'[q] <= 1 + doubts'[q]
    BY <1>1, <1>6 DEF CountsOK
  <2>2. ASSUME NEW n \in ToSet(outbox'.pending), NEW f \in ToSet(n.files)
        PROVE  sends'[<<n.key, f>>] <= doubts'[<<n.key, f>>]
    <3>1. CASE n.key # k
      <4>1. n \in ToSet(outbox.pending) /\ <<n.key, f>> \in DeliveryKeys \X Files
        BY <1>8, <1>9, <1>10, <3>1
      <4>2. sends[<<n.key, f>>] <= doubts[<<n.key, f>>]
        BY <1>0, <1>1, <3>1, <4>1 DEF CountsOK, BeingSent
      <4> QED BY <1>6, <4>1, <4>2
    <3>2. CASE n.key = k
      <4>1. f \in ToSet(left) /\ f \in ToSet(e.files)
        BY <1>4, <1>9, <1>10, <3>2
      <4>2. <<k, f>> \in DeliveryKeys \X Files
        BY <1>3, <1>8, <4>1
      <4>3. sends[<<k, f>>] <= doubts[<<k, f>>]
        BY <1>0, <1>1, <1>4, <4>1 DEF CountsOK, BeingSent
      <4> QED BY <1>6, <3>2, <4>2, <4>3
    <3> QED BY <3>1, <3>2
  <2> QED BY <2>1, <2>2 DEF CountsOK
<1>18. UploadsOK'
  <2>1. ASSUME NEW f \in Files, Untouched(f) PROVE Untouched(f)'
    <3>1. f \notin ToSet(left)
      BY <1>4, <2>1 DEF Untouched
    <3>2. \A l \in DeliveryKeys : sends'[<<l, f>>] = sends[<<l, f>>]
      BY <1>3, <1>6, <3>1
    <3>3. \A n \in ToSet(outbox'.pending) : f \notin ToSet(n.files)
      BY <1>9, <1>10, <2>1, <3>1 DEF Untouched
    <3> QED BY <1>13, <2>1, <3>2, <3>3 DEF Untouched
  <2> QED BY <1>1, <1>2, <1>16, <2>1, UploadsKeep DEF UploadsOK, fileVars
<1>19. NeededIsThere'
  <2>1. ASSUME NEW f \in Files, NEW n \in ToSet(outbox'.pending), f \in ToSet(n.files),
               ~Handled(n.key, f)'
        PROVE  YetToGo(f)
    <3>1. CASE n.key # k
      <4>1. n \in ToSet(outbox.pending) /\ n.key \in DeliveryKeys
        BY <1>8, <1>9, <1>10, <3>1
      <4> QED BY <1>7, <2>1, <4>1 DEF YetToGo
    <3>2. CASE n.key = k
      <4>1. f \in ToSet(e.files)
        BY <1>4, <1>9, <1>10, <2>1, <3>2
      <4>2. Handled(e.key, f) => Handled(n.key, f)'
        <5>1. Handled(k, f) => Handled(k, f)'
          BY <1>3, <1>7
        <5> QED BY <1>4, <3>2, <5>1
      <4> QED BY <2>1, <4>1, <4>2 DEF YetToGo
    <3> QED BY <3>1, <3>2
  <2>2. \A f \in Files : YetToGo(f)' => YetToGo(f)
    BY <2>1 DEF YetToGo
  <2> QED BY <1>1, <1>2, <2>2, FewerNeeds DEF fileVars
<1>20. SpoolTyped'
  BY <1>1, <1>2, <1>6, <1>9, <1>14, <1>16 DEF SpoolTyped, Senders, fileVars
<1>21. AcceptedIsKept'
  BY <1>1, <1>2, <1>14, <1>16, WordsStay
<1> QED BY <1>12, <1>14, <1>15, <1>16, <1>17, <1>18, <1>19, <1>20, <1>21 DEF SpoolInv

LEMMA MessageIsSent ==
  ASSUME SpoolAssumed, SpoolInv, SentAll
  PROVE  SpoolInv'
<1>1. /\ SpoolTyped /\ UploadsOK /\ NeededIsThere /\ AcceptedIsKept /\ CountsOK /\ SenderOK
      /\ StoreOK(outbox) /\ StoreOK(outboxSaved) /\ SavedIsBehind
      /\ outbox \in Stores /\ outboxSaved \in Stores /\ job \in Jobs
      /\ sender \in Senders /\ OneEach(outbox.pending)
  BY DEF SpoolInv, SpoolTyped, Senders, StoreOK
<1>0. PICK k : k = sender.key
  OBVIOUS
<1>2. /\ Sending /\ sender.left = <<>> /\ outbox' = Completed(k) /\ done' = done \union {k}
      /\ pruned' = pruned \union {l.id : l \in (ToSet(outbox.acks) \ ToSet(outbox'.acks))}
      /\ sender' = [sender EXCEPT !.step = IF sender.who = "retry" THEN "next" ELSE "ack"]
      /\ UNCHANGED <<fileVars, outboxSaved, job, sends, refused, doubts, unleased>>
  BY <1>0 DEF SentAll
<1>3. /\ SendsWell /\ k \in DeliveryKeys /\ k \in PendingKeys(outbox)
      /\ k \in PendingKeys(outboxSaved)
  BY <1>0, <1>2, InSendFacts DEF SendsWell
<1>4. PICK e \in ToSet(outbox.pending) :
        e.key = k /\ \A n \in ToSet(outbox.pending) : n.key = k => n = e
  BY <1>0, <1>2, InSendFacts
<1>5. \A f \in ToSet(e.files) : Handled(k, f)
  <2>1. ToSet(sender.left) = {}
    BY <1>2 DEF ToSet
  <2> QED BY <1>0, <1>3, <1>4, <2>1 DEF SendsWell
<1>6. /\ outbox' \in Stores /\ OneEach(outbox'.pending)
      /\ ToSet(outbox'.pending) = {n \in ToSet(outbox.pending) : n.key # k}
      /\ PendingKeys(outbox)' = PendingKeys(outbox) \ {k}
      /\ k \in ToSet(outbox'.acks) /\ ToSet(outbox'.acks) \subseteq ToSet(outbox.acks) \union {k}
      /\ \A l \in ToSet(outbox.acks) \ ToSet(outbox'.acks) : \E r \in Deliveries : KeyOf[r] = l
  <2>1. AckLimit \in Nat \ {0}
    BY DEF SpoolAssumed
  <2> QED BY <1>1, <1>2, <1>3, <2>1, CompletedFacts DEF PendingKeys
<1>7. Known(outbox)' \subseteq Known(outbox)
  BY <1>3, <1>6 DEF Known
<1>8. SentKeys' \subseteq SentKeys \union {k}
  BY <1>2 DEF SentKeys
<1>9. StoreOK(outbox)'
  <2>1. ASSUME NEW l \in SentKeys' PROVE l \in Known(outbox)' \/ l.id \in pruned'
    <3>1. CASE l = k
      BY <1>6, <3>1 DEF Known
    <3>2. CASE l # k
      <4>1. l \in PendingKeys(outbox) \/ l \in ToSet(outbox.acks) \/ l.id \in pruned
        BY <1>1, <1>8, <3>2 DEF StoreOK, Known
      <4>2. l \in ToSet(outbox.acks) => l \in ToSet(outbox'.acks) \/ l.id \in pruned'
        BY <1>2
      <4> QED BY <1>2, <1>6, <3>2, <4>1, <4>2 DEF Known
    <3> QED BY <3>1, <3>2
  <2>2. \A l, m \in Known(outbox)' : l.id = m.id => l = m
    BY <1>1, <1>7 DEF StoreOK
  <2>3. ToSet(outbox'.acks) \subseteq done'
    BY <1>1, <1>2, <1>6 DEF StoreOK
  <2>4. \A n \in ToSet(outbox'.pending) : Distinct(n.files)
    BY <1>1, <1>6 DEF StoreOK
  <2> QED BY <1>6, <2>1, <2>2, <2>3, <2>4 DEF StoreOK
<1>10. StoreOK(outboxSaved)'
  <2>1. Known(outboxSaved)' = Known(outboxSaved)
    BY <1>2 DEF Known, PendingKeys
  <2>2. \A l \in SentKeys' : l \in Known(outboxSaved) \/ l.id \in pruned'
    BY <1>1, <1>2, <1>3, <1>8 DEF StoreOK, Known
  <2> QED BY <1>1, <1>2, <2>1, <2>2 DEF StoreOK
<1>11. SavedIsBehind'
  <2>1. ASSUME NEW n \in ToSet(outboxSaved.pending)
        PROVE  /\ n.key \in PendingKeys(outbox)' \union done'
               /\ \A f \in ToSet(n.files) :
                    Handled(n.key, f) \/ \E m \in ToSet(outbox'.pending) :
                                           m.key = n.key /\ f \in ToSet(m.files)
    <3>1. n.key \in PendingKeys(outbox)' \union done'
      BY <1>1, <1>2, <1>6 DEF SavedIsBehind
    <3>2. ASSUME NEW f \in ToSet(n.files), NEW m \in ToSet(outbox.pending),
                 m.key = n.key, f \in ToSet(m.files)
          PROVE  Handled(n.key, f) \/ m \in ToSet(outbox'.pending)
      <4>1. CASE m.key = k
        BY <1>4, <1>5, <3>2, <4>1
      <4>2. CASE m.key # k
        BY <1>6, <4>2
      <4> QED BY <4>1, <4>2
    <3> QED BY <1>1, <3>1, <3>2 DEF SavedIsBehind
  <2> QED BY <1>2, <2>1 DEF SavedIsBehind, Handled
<1>12. /\ sender' \in Senders /\ sender'.who = sender.who /\ sender'.key = k
       /\ sender'.left = sender.left /\ sender'.rest = sender.rest
       /\ sender'.step = IF sender.who = "retry" THEN "next" ELSE "ack"
  BY <1>0, <1>1, <1>2 DEF Senders
<1>13. SenderOK'
  <2>1. GoesThrough'
    <3>1. \A i \in DOMAIN sender.rest :
            /\ sender.rest[i] \in ToSet(outbox.pending)
            /\ sender.rest[i].key \in PendingKeys(outboxSaved)
            /\ sender.rest[i].key # k
            /\ \A j \in DOMAIN sender.rest : sender.rest[j].key = sender.rest[i].key => j = i
      BY <1>0, <1>1, <1>2 DEF SenderOK, GoesThrough, Sending
    <3>2. \A i \in DOMAIN sender.rest : sender.rest[i] \in ToSet(outbox'.pending)
      BY <1>6, <3>1
    <3> QED BY <1>2, <1>12, <3>1, <3>2 DEF GoesThrough, PendingKeys
  <2>2. /\ sender.who # NoOne /\ (sender.who \in Actors => sender.key = KeyOf[sender.who])
        /\ sender.rest # <<>> => sender.who = "retry"
    BY <1>1, <1>2 DEF SenderOK, Sending
  <2> QED BY <1>0, <1>2, <1>12, <2>1, <2>2, NamesDiffer DEF SenderOK
<1>14. CountsOK'
  <2>1. ASSUME NEW n \in ToSet(outbox'.pending), NEW f \in ToSet(n.files)
        PROVE  sends[<<n.key, f>>] <= doubts[<<n.key, f>>]
    BY <1>0, <1>1, <1>6 DEF CountsOK, BeingSent
  <2> QED BY <1>1, <1>2, <2>1 DEF CountsOK
<1>15. UploadsOK'
  <2>1. \A f \in Files : Untouched(f) => Untouched(f)'
    BY <1>2, <1>6 DEF Untouched
  <2>2. pruned' \subseteq {KeyOf[r].id : r \in Deliveries}
    BY <1>1, <1>2, <1>6 DEF UploadsOK
  <2> QED BY <1>1, <1>2, <2>1, <2>2, UploadsKeep DEF fileVars
<1>16. NeededIsThere'
  <2>1. \A f \in Files : YetToGo(f)' => YetToGo(f)
    BY <1>2, <1>6 DEF YetToGo, Handled
  <2> QED BY <1>1, <1>2, <2>1, FewerNeeds DEF fileVars
<1>17. SpoolTyped'
  BY <1>1, <1>2, <1>6, <1>12 DEF SpoolTyped, Senders, fileVars, Counters
<1>18. AcceptedIsKept'
  BY <1>1, <1>2, WordsStay DEF PendingKeys
<1> QED BY <1>9, <1>10, <1>11, <1>13, <1>14, <1>15, <1>16, <1>17, <1>18 DEF SpoolInv

(* Whoever is cancelled leaves in doubt what it had sent and not recorded. *)
LEMMA CancelledSteps ==
  ASSUME SpoolAssumed, SpoolInv, LaneCancelled
  PROVE  SpoolInv'
<1>1. /\ SpoolTyped /\ UploadsOK /\ NeededIsThere /\ AcceptedIsKept /\ CountsOK /\ SenderOK
      /\ StoreOK(outbox) /\ StoreOK(outboxSaved) /\ SavedIsBehind /\ sends \in Counters
      /\ doubts \in Counters /\ job \in Jobs /\ outbox \in Stores
  BY DEF SpoolInv, SpoolTyped
<1>2. /\ UNCHANGED <<fileVars, outbox, outboxSaved, sends, refused, done, pruned, unleased>>
      /\ LaneEnds("cancelled")
      /\ doubts' = IF sender.step = "send" THEN Unrecorded(sender.key) ELSE doubts
  BY DEF LaneCancelled
<1>3. /\ sender' = NoLane /\ sender' \in Senders /\ job' \in Jobs
      /\ \A r \in Deliveries :
           /\ job'[r].at = job[r].at /\ job'[r].staged = job[r].staged
           /\ job'[r].code = job[r].code \/ job'[r].code = "cancelled"
  <2>1. "cancelled" \in Codes
    BY DEF Codes
  <2> QED BY <1>1, <1>2, <2>1, LaneEndsFacts
<1>4. /\ doubts' \in Counters
      /\ \A q \in DeliveryKeys \X Files :
           /\ sends[q] \in Nat /\ doubts[q] \in Nat /\ doubts'[q] \in Nat /\ doubts[q] <= doubts'[q]
           /\ (/\ sender.step = "send" /\ q[1] = sender.key /\ sends[q] > 0
               /\ q[2] \notin ToSet(sender.left)
               /\ \E e \in ToSet(outbox.pending) : e.key = sender.key /\ q[2] \in ToSet(e.files))
              => doubts'[q] = doubts[q] + 1
  <2>1. CASE sender.step = "send"
    <3> DEFINE more(q) == IF q[1] = sender.key /\ sends[q] > 0
                             /\ \E e \in ToSet(outbox.pending) :
                                  e.key = sender.key /\ q[2] \in ToSet(e.files)
                             /\ q[2] \notin ToSet(sender.left) THEN 1 ELSE 0
    <3>1. doubts' = [q \in DeliveryKeys \X Files |-> doubts[q] + more(q)]
      BY <1>2, <2>1 DEF Unrecorded
    <3>2. \A q : more(q) \in {0, 1}
      OBVIOUS
    <3>3. \A q : (/\ q[1] = sender.key /\ sends[q] > 0 /\ q[2] \notin ToSet(sender.left)
                  /\ \E e \in ToSet(outbox.pending) : e.key = sender.key /\ q[2] \in ToSet(e.files))
                 => more(q) = 1
      OBVIOUS
    <3> HIDE DEF more
    <3>4. \A q \in DeliveryKeys \X Files : doubts[q] \in Nat /\ sends[q] \in Nat
      BY <1>1 DEF Counters
    <3>5. \A q \in DeliveryKeys \X Files : doubts'[q] = doubts[q] + more(q)
      BY <3>1
    <3>6. doubts' \in Counters
      <4>1. \A q \in DeliveryKeys \X Files : doubts[q] + more(q) \in Nat
        BY <3>2, <3>4
      <4> QED BY <3>1, <4>1 DEF Counters
    <3> QED BY <3>2, <3>3, <3>4, <3>5, <3>6
  <2>2. CASE sender.step # "send"
    BY <1>1, <1>2, <2>2 DEF Counters
  <2> QED BY <2>1, <2>2
<1>5. CountsOK'
  <2>1. ASSUME NEW q \in DeliveryKeys \X Files PROVE sends[q] <= 1 + doubts'[q]
    BY <1>1, <1>4 DEF CountsOK
  <2>2. ASSUME NEW e \in ToSet(outbox.pending), NEW f \in ToSet(e.files)
        PROVE  sends[<<e.key, f>>] <= doubts'[<<e.key, f>>]
    <3>1. <<e.key, f>> \in DeliveryKeys \X Files
      BY <1>1, StoreFacts DEF Entries, ToSet
    <3>2. CASE BeingSent(e.key, f)
      <4>1. sends[<<e.key, f>>] <= 1 + doubts[<<e.key, f>>]
        BY <1>1, <3>1 DEF CountsOK
      <4>2. sends[<<e.key, f>>] > 0 => doubts'[<<e.key, f>>] = doubts[<<e.key, f>>] + 1
        BY <1>4, <3>1, <3>2 DEF BeingSent
      <4> QED BY <1>4, <3>1, <4>1, <4>2
    <3>3. CASE ~BeingSent(e.key, f)
      BY <1>1, <1>4, <3>1, <3>3 DEF CountsOK
    <3> QED BY <3>2, <3>3
  <2> QED BY <1>2, <2>1, <2>2 DEF CountsOK
<1>6. StoreOK(outbox)' /\ StoreOK(outboxSaved)' /\ SavedIsBehind'
  BY <1>1, <1>2, StoresStay
<1>7. SenderOK'
  BY <1>3, NobodySends
<1>8. UploadsOK'
  <2>1. \A f \in Files : Untouched(f) => Untouched(f)'
    BY <1>2 DEF Untouched
  <2> QED BY <1>1, <1>2, <1>3, <2>1, UploadsKeep DEF UploadsOK, fileVars
<1>9. NeededIsThere'
  <2>1. \A f \in Files : YetToGo(f)' => YetToGo(f)
    BY <1>2 DEF YetToGo, Handled
  <2> QED BY <1>1, <1>2, <2>1, FewerNeeds DEF fileVars
<1>10. SpoolTyped'
  BY <1>1, <1>2, <1>3, <1>4 DEF SpoolTyped, Senders, fileVars
<1>11. AcceptedIsKept'
  BY <1>1, <1>2, <1>3, WordsStay DEF PendingKeys
<1> QED BY <1>5, <1>6, <1>7, <1>8, <1>9, <1>10, <1>11 DEF SpoolInv

-----------------------------------------------------------------------------
(* A message comes into the outbox, unless it is there. *)
LEMMA ComesIn ==
  ASSUME SpoolAssumed, SpoolInv, NEW x \in Actors, NEW files \in Seq(Files), Distinct(files),
         LaneFree, UNCHANGED <<outboxSaved, histVars>>,
         \/ UNCHANGED <<outbox, sender>>
         \/ /\ Delivers(x, KeyOf[x], files) /\ KeyOf[x] \notin ToSet(outbox.acks)
            /\ \A l \in Known(outbox) : l.id = KeyOf[x].id => l = KeyOf[x]
            /\ KeyOf[x] \notin Known(outbox) => \A f \in ToSet(files) : sends[<<KeyOf[x], f>>] = 0
  PROVE  /\ outbox' \in Stores /\ sender' \in Senders
         /\ StoreOK(outbox)' /\ StoreOK(outboxSaved)' /\ SavedIsBehind' /\ SenderOK' /\ CountsOK'
         /\ \A f \in Files : YetToGo(f)' => YetToGo(f) \/ f \in ToSet(files)
         /\ \A f \in Files : Untouched(f) /\ f \notin ToSet(files) => Untouched(f)'
<1>1. /\ CountsOK /\ SenderOK /\ StoreOK(outbox) /\ StoreOK(outboxSaved) /\ SavedIsBehind
      /\ sends \in Counters /\ doubts \in Counters /\ outbox \in Stores /\ outboxSaved \in Stores
      /\ sender \in Senders /\ OneEach(outbox.pending) /\ NoLane \in Senders
  BY DEF SpoolInv, SpoolTyped, Senders, StoreOK, NoLane
<1>2. sender = NoLane /\ sender.step # "send"
  BY <1>1 DEF SenderOK, LaneFree, NoLane
<1>3. CASE UNCHANGED <<outbox, sender>>
  <2>1. StoreOK(outbox)' /\ StoreOK(outboxSaved)' /\ SavedIsBehind'
    BY <1>1, <1>3, StoresStay DEF histVars
  <2>2. SenderOK' /\ CountsOK'
    BY <1>1, <1>3, SenderStays, CountsStay DEF histVars
  <2>3. \A f : (YetToGo(f)' => YetToGo(f)) /\ (Untouched(f) => Untouched(f)')
    BY <1>3 DEF YetToGo, Untouched, Handled, histVars
  <2> QED BY <1>1, <1>3, <2>1, <2>2, <2>3
<1>4. CASE /\ Delivers(x, KeyOf[x], files) /\ KeyOf[x] \notin ToSet(outbox.acks)
           /\ \A l \in Known(outbox) : l.id = KeyOf[x].id => l = KeyOf[x]
           /\ KeyOf[x] \notin Known(outbox) => \A f \in ToSet(files) : sends[<<KeyOf[x], f>>] = 0
  <2> DEFINE k == KeyOf[x]
             new == [key |-> k, files |-> files]
  <2>1. /\ outbox' = Enqueued(k, files) /\ k \in DeliveryKeys /\ x # NoOne /\ x # "retry"
        /\ sender' = [NoLane EXCEPT !.who = x, !.step = "release", !.key = k]
    BY <1>4, NamesDiffer DEF Delivers
  <2>2. /\ sender' \in Senders /\ sender'.who = x /\ sender'.key = k /\ sender'.step = "release"
        /\ sender'.rest = <<>>
    BY <1>1, <2>1 DEF Senders, NoLane
  <2>3. /\ outbox' \in Stores /\ OneEach(outbox'.pending) /\ outbox'.acks = outbox.acks
        /\ PendingKeys(outbox)' = PendingKeys(outbox) \union {k}
        /\ ToSet(outbox.pending) \subseteq ToSet(outbox'.pending)
        /\ \A n \in ToSet(outbox'.pending) :
             n \in ToSet(outbox.pending) \/ (n = new /\ k \notin PendingKeys(outbox))
    <3>1. CASE k \in PendingKeys(outbox)
      <4>1. outbox' = outbox
        BY <2>1, <3>1 DEF Enqueued
      <4> QED BY <1>1, <3>1, <4>1 DEF PendingKeys
    <3>2. CASE k \notin PendingKeys(outbox)
      <4>1. /\ Enqueued(k, files) \in Stores /\ Enqueued(k, files).acks = outbox.acks
            /\ OneEach(Enqueued(k, files).pending)
            /\ ToSet(Enqueued(k, files).pending)
                 = ToSet(outbox.pending) \union {[key |-> k, files |-> files]}
            /\ PendingKeys(Enqueued(k, files)) = PendingKeys(outbox) \union {k}
        BY <1>1, <2>1, <3>2, EnqueuedFacts
      <4>2. PendingKeys(outbox)' = PendingKeys(outbox')
        BY DEF PendingKeys
      <4> HIDE DEF k
      <4> QED BY <2>1, <3>2, <4>1, <4>2
    <3> QED BY <3>1, <3>2
  <2>4. new.key = k /\ new.files = files
    OBVIOUS
  <2> HIDE DEF new
  <2>5. Known(outbox)' = Known(outbox) \union {k} /\ SentKeys' = SentKeys
    BY <2>3 DEF Known, SentKeys, histVars
  <2>6. StoreOK(outbox)'
    <3>1. \A n \in ToSet(outbox'.pending) : Distinct(n.files)
      BY <1>1, <2>3, <2>4 DEF StoreOK
    <3>2. \A l, m \in Known(outbox)' : l.id = m.id => l = m
      BY <1>1, <1>4, <2>5 DEF StoreOK
    <3> QED BY <1>1, <2>3, <2>5, <3>1, <3>2 DEF StoreOK, histVars
  <2>7. StoreOK(outboxSaved)'
    BY <1>1, <2>5 DEF StoreOK, Known, PendingKeys, histVars
  <2>8. SavedIsBehind'
    <3>1. PendingKeys(outbox) \subseteq PendingKeys(outbox)'
      BY <2>3
    <3> QED BY <1>1, <2>3, <3>1 DEF SavedIsBehind, Handled, histVars
  <2>9. SenderOK'
    BY <2>1, <2>2, <2>3 DEF SenderOK, GoesThrough
  <2>10. CountsOK'
    <3>1. ASSUME NEW n \in ToSet(outbox'.pending), NEW f \in ToSet(n.files)
          PROVE  sends[<<n.key, f>>] <= doubts[<<n.key, f>>]
      <4>1. CASE n \in ToSet(outbox.pending)
        BY <1>1, <1>2, <4>1 DEF CountsOK, BeingSent
      <4>2. CASE n = new /\ k \notin PendingKeys(outbox)
        <5>1. k \notin Known(outbox)
          BY <1>4, <4>2 DEF Known
        <5>2. sends[<<n.key, f>>] = 0 /\ f \in Files
          BY <1>4, <2>4, <4>2, <5>1 DEF ToSet
        <5>3. doubts[<<n.key, f>>] \in Nat
          BY <1>1, <2>1, <2>4, <4>2, <5>2 DEF Counters
        <5> QED BY <5>2, <5>3
      <4> QED BY <2>3, <4>1, <4>2
    <3> QED BY <1>1, <3>1 DEF CountsOK, histVars
  <2>11. \A f \in Files : YetToGo(f)' => YetToGo(f) \/ f \in ToSet(files)
    BY <2>3, <2>4 DEF YetToGo, Handled, histVars
  <2>12. \A f \in Files : Untouched(f) /\ f \notin ToSet(files) => Untouched(f)'
    BY <2>3, <2>4 DEF Untouched, histVars
  <2> QED BY <2>2, <2>3, <2>6, <2>7, <2>8, <2>9, <2>10, <2>11, <2>12
<1> QED BY <1>3, <1>4

LEMMA SubmitStep ==
  ASSUME SpoolAssumed, SpoolInv, NEW r \in Deliveries, Submit(r)
  PROVE  SpoolInv'
<1>1. /\ SpoolTyped /\ UploadsOK /\ NeededIsThere /\ AcceptedIsKept /\ StoreOK(outbox)
      /\ job \in Jobs /\ outboxSaved \in Stores
  BY DEF SpoolInv, SpoolTyped
<1>2. /\ r \in Actors /\ Uploads[r] \in Seq(Files) /\ Distinct(Uploads[r])
      /\ \A q \in Deliveries : q \in Actors
      /\ {"leaving", "submitted"} \subseteq JobPlaces /\ {"conflict", "delivered"} \subseteq Codes
  BY NamesDiffer DEF SpoolAssumed, Distinct, JobPlaces, Codes
<1>3. /\ job[r].at = "staging" /\ job[r].staged = Len(Uploads[r]) /\ LaneFree
      /\ UNCHANGED <<fileVars, outboxSaved, histVars, unleased>>
  BY DEF Submit, Stands
<1>4. ToSet(Uploads[r]) = UploadsOf(r) /\ \A f \in UploadsOf(r) : Untouched(f) /\ f \in uploading
  <2>1. \A i \in DOMAIN Uploads[r] : i <= job[r].staged
    BY <1>2, <1>3
  <2>2. \A i \in DOMAIN Uploads[r] : Uploads[r][i] \in uploading
    BY <1>1, <1>3, <2>1 DEF UploadsOK
  <2>3. \A f \in UploadsOf(r) : Untouched(f)
    BY <1>1, <1>3 DEF UploadsOK, Unsubmitted
  <2> QED BY <2>2, <2>3 DEF UploadsOf, ToSet
<1>5. \/ UNCHANGED <<outbox, sender>>
      \/ /\ Delivers(r, KeyOf[r], Uploads[r]) /\ KeyOf[r] \notin ToSet(outbox.acks)
         /\ \A l \in Known(outbox) : l.id = KeyOf[r].id => l = KeyOf[r]
         /\ KeyOf[r] \notin Known(outbox) =>
              \A f \in ToSet(Uploads[r]) : sends[<<KeyOf[r], f>>] = 0
  <2>1. \A f \in ToSet(Uploads[r]) : sends[<<KeyOf[r], f>>] = 0
    BY <1>2, <1>4, NamesDiffer DEF Untouched
  <2> QED BY <2>1 DEF Submit, Conflicts, KnownKeys, Known
<1>6. /\ outbox' \in Stores /\ sender' \in Senders
      /\ StoreOK(outbox)' /\ StoreOK(outboxSaved)' /\ SavedIsBehind' /\ SenderOK' /\ CountsOK'
      /\ \A f \in Files : YetToGo(f)' => YetToGo(f) \/ f \in ToSet(Uploads[r])
      /\ \A f \in Files : Untouched(f) /\ f \notin ToSet(Uploads[r]) => Untouched(f)'
  BY <1>2, <1>3, <1>5, ComesIn
<1>7. /\ job' \in Jobs /\ job'[r].at \in {"leaving", "submitted"}
      /\ \/ job'[r].code = job[r].code \/ job'[r].code = "conflict"
         \/ job'[r].code = "delivered" /\ KeyOf[r] \in done
      /\ \A y \in Actors \ {r} : job'[y] = job[y]
  <2>1. CASE AnswersWith(r, "leaving", "conflict")
    BY <1>1, <1>2, <2>1, JobAnswers
  <2>2. CASE KeyOf[r] \in ToSet(outbox.acks) /\ AnswersWith(r, "leaving", "delivered")
    <3>1. KeyOf[r] \in done
      BY <1>1, <2>2 DEF StoreOK
    <3> QED BY <1>1, <1>2, <2>2, <3>1, JobAnswers
  <2>3. CASE Moves(r, "submitted")
    <3>1. /\ job' \in Jobs /\ job'[r].at = "submitted" /\ job'[r].code = job[r].code
          /\ \A y \in Actors \ {r} : job'[y] = job[y]
      BY <1>1, <1>2, <2>3, JobMoves
    <3> QED BY <3>1
  <2> QED BY <2>1, <2>2, <2>3 DEF Submit
<1>8. UploadsOK'
  <2>1. ASSUME NEW q \in Deliveries \ {r}
        PROVE  /\ job'[q].at = "new" => job'[q].staged = 0
               /\ job'[q].at = "staging" =>
                    \A i \in DOMAIN Uploads[q] : i <= job'[q].staged => Uploads[q][i] \in uploading'
               /\ job'[q].at \in Unsubmitted => \A f \in UploadsOf(q) : Untouched(f)'
    <3>1. job'[q] = job[q]
      BY <1>2, <1>7
    <3>2. \A f \in UploadsOf(q) : f \in Files /\ f \notin ToSet(Uploads[r])
      BY <1>4, NamesDiffer DEF SpoolAssumed
    <3> QED BY <1>1, <1>3, <1>6, <3>1, <3>2 DEF UploadsOK, fileVars
  <2>2. /\ \A t \in FileTurns : buffers'[t] \subseteq {Image[t]}
        /\ recovering' \subseteq {Image[t] : t \in FileTurns}
        /\ pruned' \subseteq {KeyOf[q].id : q \in Deliveries}
        /\ uploading' \subseteq UNION {UploadsOf(q) : q \in Deliveries}
    BY <1>1, <1>3 DEF UploadsOK, fileVars, histVars
  <2> QED BY <1>7, <2>1, <2>2 DEF UploadsOK, Unsubmitted
<1>9. NeededIsThere'
  <2>1. \A f \in Files : Needed(f)' => Needed(f)
    BY <1>3, <1>4, <1>6 DEF Needed, fileVars
  <2> QED BY <1>1, <1>3, <2>1 DEF NeededIsThere, fileVars
<1>10. AcceptedIsKept'
  <2>1. PendingKeys(outboxSaved)' = PendingKeys(outboxSaved) /\ done' = done
    BY <1>3 DEF PendingKeys, histVars
  <2>2. \A q \in Deliveries : \/ job'[q].code = job[q].code
                              \/ job'[q].code \notin {"delivered", "queued"}
                              \/ job'[q].code = "delivered" /\ KeyOf[q] \in done'
    BY <1>2, <1>7, <2>1
  <2> QED BY <1>1, <2>1, <2>2, WordsStay
<1>11. SpoolTyped'
  BY <1>1, <1>3, <1>6, <1>7 DEF SpoolTyped, Senders, fileVars, histVars, Counters
<1> QED BY <1>6, <1>8, <1>9, <1>10, <1>11 DEF SpoolInv

(* Nothing of a turn that the outbox does not know of has been sent: receipts of
   turns are not pushed out. *)
LEMMA TurnIsUnsent ==
  ASSUME SpoolAssumed, SpoolInv, NEW t \in FileTurns, KeyOf[t] \notin Known(outbox),
         NEW f \in Files
  PROVE  sends[<<KeyOf[t], f>>] = 0
<1>1. /\ UploadsOK /\ StoreOK(outbox) /\ sends \in Counters
  BY DEF SpoolInv, SpoolTyped
<1>2. KeyOf[t] \in DeliveryKeys
  BY NamesDiffer
<1>3. KeyOf[t].id \notin pruned
  <2>1. \A r \in Deliveries : KeyOf[r].id # KeyOf[t].id
    BY NamesDiffer DEF SpoolAssumed
  <2> QED BY <1>1, <2>1 DEF UploadsOK
<1>4. KeyOf[t] \notin SentKeys
  BY <1>1, <1>3 DEF StoreOK
<1>5. ~(sends[<<KeyOf[t], f>>] > 0)
  BY <1>2, <1>4 DEF SentKeys, SentBy
<1>6. sends[<<KeyOf[t], f>>] \in Nat
  BY <1>1, <1>2 DEF Counters
<1> QED BY <1>5, <1>6

LEMMA HandOverSteps ==
  ASSUME SpoolAssumed, SpoolInv, NEW t \in FileTurns, TurnAnswers(t) \/ TurnRecovered(t)
  PROVE  SpoolInv'
<1>1. /\ SpoolTyped /\ UploadsOK /\ NeededIsThere /\ AcceptedIsKept
      /\ job \in Jobs /\ DOMAIN buffers = FileTurns
  BY DEF SpoolInv, SpoolTyped
<1>2. /\ t \in Actors /\ t \notin Deliveries /\ Image[t] \in Files
      /\ \A q \in Deliveries : q \in Actors
      /\ {"answered", "recovering"} \subseteq JobPlaces
  BY NamesDiffer DEF JobPlaces
<1>3. /\ LaneFree /\ UNCHANGED <<outboxSaved, histVars, uploading, cleaner, unleased>>
  BY DEF TurnAnswers, TurnRecovered, fileVars
<1>4. buffers[t] \in SUBSET {Image[t]}
  BY <1>1 DEF UploadsOK
<1>5. PICK files \in Seq(Files) :
        /\ Distinct(files) /\ ToSet(files) \subseteq {Image[t]}
        /\ \/ UNCHANGED <<outbox, sender>>
           \/ KeyOf[t] \notin KnownKeys /\ Delivers(t, KeyOf[t], files)
        /\ \/ TurnAnswers(t) /\ ToSet(files) = buffers[t]
           \/ TurnRecovered(t)
  <2>1. CASE TurnAnswers(t)
    <3>1. /\ SetToSeq(buffers[t]) \in Seq(Files) /\ Distinct(SetToSeq(buffers[t]))
          /\ ToSet(SetToSeq(buffers[t])) = buffers[t]
      BY <1>2, <1>4, BufferedFiles
    <3> QED BY <1>4, <2>1, <3>1 DEF TurnAnswers
  <2>2. CASE TurnRecovered(t)
    <3>1. <<Image[t]>> \in Seq(Files) /\ Distinct(<<Image[t]>>) /\ ToSet(<<Image[t]>>) = {Image[t]}
      BY <1>2 DEF Distinct, ToSet
    <3> QED BY <2>2, <3>1 DEF TurnRecovered
  <2> QED BY <2>1, <2>2
<1>6. /\ outbox' \in Stores /\ sender' \in Senders
      /\ StoreOK(outbox)' /\ StoreOK(outboxSaved)' /\ SavedIsBehind' /\ SenderOK' /\ CountsOK'
      /\ \A f \in Files : YetToGo(f)' => YetToGo(f) \/ f \in ToSet(files)
      /\ \A f \in Files : Untouched(f) /\ f \notin ToSet(files) => Untouched(f)'
  <2>1. \/ UNCHANGED <<outbox, sender>>
        \/ /\ Delivers(t, KeyOf[t], files) /\ KeyOf[t] \notin ToSet(outbox.acks)
           /\ \A l \in Known(outbox) : l.id = KeyOf[t].id => l = KeyOf[t]
           /\ KeyOf[t] \notin Known(outbox) =>
                \A f \in ToSet(files) : sends[<<KeyOf[t], f>>] = 0
    <3>1. CASE UNCHANGED <<outbox, sender>>
      BY <3>1
    <3>2. CASE KeyOf[t] \notin KnownKeys /\ Delivers(t, KeyOf[t], files)
      <4>1. KeyOf[t] \notin Known(outbox) /\ KeyOf[t] \notin ToSet(outbox.acks)
        BY <3>2 DEF KnownKeys, Known
      <4>2. \A f \in ToSet(files) : sends[<<KeyOf[t], f>>] = 0
        BY <1>2, <1>5, <4>1, TurnIsUnsent
      <4>3. \A l \in Known(outbox) : l.id = KeyOf[t].id => l = KeyOf[t]
        <5>1. Known(outbox) \subseteq DeliveryKeys
          <6>1. outbox \in Stores
            BY <1>1 DEF SpoolTyped
          <6> QED BY <6>1, StoreFacts DEF Known
        <5> QED BY <5>1 DEF SpoolAssumed, DeliveryKeys
      <4> QED BY <3>2, <4>1, <4>2, <4>3
    <3> QED BY <1>5, <3>1, <3>2
  <2> QED BY <1>2, <1>3, <1>5, <2>1, ComesIn
<1>7. job' \in Jobs /\ \A q \in Deliveries : job'[q] = job[q]
  <2>1. PICK place \in JobPlaces : Moves(t, place)
    BY <1>2 DEF TurnAnswers, TurnRecovered
  <2>2. job' \in Jobs /\ \A y \in Actors \ {t} : job'[y] = job[y]
    BY <1>1, <1>2, <2>1, JobMoves
  <2> QED BY <1>2, <2>2
<1>8. /\ DOMAIN buffers' = FileTurns
      /\ \A u \in FileTurns : buffers'[u] \subseteq {Image[u]} /\ buffers'[u] \subseteq buffers[u]
      /\ recovering' \subseteq {Image[u] : u \in FileTurns}
  BY <1>1 DEF TurnAnswers, TurnRecovered, fileVars, UploadsOK
<1>9. UploadsOK'
  <2>1. ASSUME NEW q \in Deliveries
        PROVE  job'[q].at \in Unsubmitted => \A f \in UploadsOf(q) : Untouched(f)'
    <3>1. \A f \in UploadsOf(q) : f \in Files /\ f \notin ToSet(files)
      BY <1>5, NamesDiffer DEF SpoolAssumed
    <3> QED BY <1>1, <1>6, <1>7, <3>1 DEF UploadsOK
  <2>2. /\ pruned' \subseteq {KeyOf[q].id : q \in Deliveries}
        /\ uploading' \subseteq UNION {UploadsOf(q) : q \in Deliveries}
    BY <1>1, <1>3 DEF UploadsOK, histVars
  <2> QED BY <1>1, <1>3, <1>7, <1>8, <2>1, <2>2 DEF UploadsOK
<1>10. NeededIsThere'
  <2>1. CASE TurnAnswers(t) /\ ToSet(files) = buffers[t]
    <3>1. UNCHANGED <<spool, leased, recovering, buffers>>
      BY <2>1 DEF TurnAnswers, fileVars
    <3>2. \A f \in Files : Needed(f)' => Needed(f)
      BY <1>3, <1>6, <2>1, <3>1 DEF Needed
    <3> QED BY <1>1, <1>3, <3>1, <3>2 DEF NeededIsThere
  <2>2. CASE TurnRecovered(t)
    <3>1. /\ spool' = spool \union {Image[t]} /\ leased' = leased \union {Image[t]}
          /\ recovering' = recovering \union {Image[t]}
      BY <2>2 DEF TurnRecovered, Stages
    <3>2. \A f \in Files : Needed(f)' => Needed(f) \/ f = Image[t]
      BY <1>3, <1>5, <1>6, <1>8, <3>1 DEF Needed
    <3> QED BY <1>1, <1>3, <3>1, <3>2 DEF NeededIsThere
  <2> QED BY <1>5, <2>1, <2>2
<1>11. AcceptedIsKept'
  BY <1>1, <1>3, <1>7 DEF AcceptedIsKept, PendingKeys, histVars
<1>12. SpoolTyped'
  BY <1>1, <1>3, <1>6, <1>7, <1>8 DEF SpoolTyped, Senders, histVars, Counters
<1> QED BY <1>6, <1>9, <1>10, <1>11, <1>12 DEF SpoolInv

(* The next start has what the file has; whatever of that was sent is in doubt. *)
LEMMA CrashStep ==
  ASSUME SpoolAssumed, SpoolInv, SpoolCrash
  PROVE  SpoolInv'
<1>1. /\ SpoolTyped /\ UploadsOK /\ NeededIsThere /\ AcceptedIsKept /\ CountsOK
      /\ StoreOK(outboxSaved) /\ SavedIsBehind /\ sends \in Counters
      /\ doubts \in Counters /\ job \in Jobs /\ outboxSaved \in Stores
  BY DEF SpoolInv, SpoolTyped
<1>2. /\ outbox' = outboxSaved /\ spool' = spool \intersect FilesIn(outboxSaved)
      /\ uploading' = {} /\ recovering' = {} /\ cleaner' = NoCleaner /\ sender' = NoLane
      /\ buffers' = [t \in FileTurns |-> {}]
      /\ UNCHANGED <<outboxSaved, sends, refused, done, pruned, unleased>>
  BY DEF SpoolCrash
<1>3. /\ job' \in Jobs
      /\ \A r \in Deliveries :
           /\ \/ job'[r].at = job[r].at /\ job'[r].staged = job[r].staged /\ job[r].at = "new"
              \/ job'[r].at = "done"
           /\ job'[r].code = job[r].code \/ job'[r].code = "cancelled"
  <2>1. job' = [x \in Actors |-> Restarted(x)]
    BY DEF SpoolCrash
  <2>2. /\ {"done", "running"} \subseteq JobPlaces /\ {NoOne, "cancelled"} \subseteq Codes
    BY DEF JobPlaces, Codes
  <2>3. ASSUME NEW x \in Actors
        PROVE  /\ Restarted(x) \in [at : JobPlaces, staged : Nat, code : Codes]
               /\ x \in Deliveries =>
                    /\ \/ Restarted(x) = job[x] /\ job[x].at = "new"
                       \/ Restarted(x).at = "done"
                    /\ Restarted(x).code = job[x].code \/ Restarted(x).code = "cancelled"
    <3>0. job[x] \in [at : JobPlaces, staged : Nat, code : Codes]
      BY <1>1 DEF Jobs
    <3>1. CASE job[x].at \in {"new", "done"}
      BY <3>0, <3>1 DEF Restarted
    <3>2. CASE job[x].at \notin {"new", "done"} /\ x \notin FileTurns
      <4>1. Restarted(x) = [job[x] EXCEPT !.at = "done",
                              !.code = IF @ = NoOne THEN "cancelled" ELSE @]
        BY <3>2 DEF Restarted
      <4> QED BY <2>2, <3>0, <4>1
    <3>3. CASE job[x].at \notin {"new", "done"} /\ x \in FileTurns
      <4>1. Restarted(x) = [job[x] EXCEPT !.at = "running"]
        BY <3>3 DEF Restarted
      <4> QED BY <2>2, <3>0, <3>3, <4>1, NamesDiffer
    <3> QED BY <3>1, <3>2, <3>3
  <2>4. \A r \in Deliveries : job'[r] = Restarted(r) /\ r \in Actors
    BY <2>1, NamesDiffer
  <2>5. job' \in Jobs
    BY <2>1, <2>3 DEF Jobs
  <2> QED BY <2>3, <2>4, <2>5
<1>4. /\ doubts' \in Counters
      /\ \A q \in DeliveryKeys \X Files :
           /\ sends[q] \in Nat /\ doubts[q] \in Nat /\ doubts'[q] \in Nat /\ doubts[q] <= doubts'[q]
           /\ sends[q] > 0 /\ (\E e \in ToSet(outboxSaved.pending) :
                                 e.key = q[1] /\ q[2] \in ToSet(e.files))
                => doubts'[q] = doubts[q] + 1
  <2> DEFINE more(q) == IF sends[q] > 0 /\ \E e \in ToSet(outboxSaved.pending) :
                             e.key = q[1] /\ q[2] \in ToSet(e.files) THEN 1 ELSE 0
  <2>1. doubts' = [q \in DeliveryKeys \X Files |-> doubts[q] + more(q)]
    BY DEF SpoolCrash
  <2>2. \A q : more(q) \in {0, 1}
    OBVIOUS
  <2>3. \A q : sends[q] > 0 /\ (\E e \in ToSet(outboxSaved.pending) :
                                  e.key = q[1] /\ q[2] \in ToSet(e.files)) => more(q) = 1
    OBVIOUS
  <2> HIDE DEF more
  <2>4. \A q \in DeliveryKeys \X Files : doubts[q] \in Nat /\ sends[q] \in Nat
    BY <1>1 DEF Counters
  <2>5. \A q \in DeliveryKeys \X Files : doubts'[q] = doubts[q] + more(q)
    BY <2>1
  <2>6. doubts' \in Counters
    <3>1. \A q \in DeliveryKeys \X Files : doubts[q] + more(q) \in Nat
      BY <2>2, <2>4
    <3> QED BY <2>1, <3>1 DEF Counters
  <2> QED BY <2>2, <2>3, <2>4, <2>5, <2>6
<1>5. CountsOK'
  <2>1. ASSUME NEW q \in DeliveryKeys \X Files PROVE sends[q] <= 1 + doubts'[q]
    BY <1>1, <1>4 DEF CountsOK
  <2>2. ASSUME NEW e \in ToSet(outboxSaved.pending), NEW f \in ToSet(e.files)
        PROVE  sends[<<e.key, f>>] <= doubts'[<<e.key, f>>]
    <3>1. <<e.key, f>> \in DeliveryKeys \X Files
      BY <1>1, StoreFacts DEF Entries, ToSet
    <3>2. sends[<<e.key, f>>] <= 1 + doubts[<<e.key, f>>]
      BY <1>1, <3>1 DEF CountsOK
    <3>3. sends[<<e.key, f>>] > 0 => doubts'[<<e.key, f>>] = doubts[<<e.key, f>>] + 1
      BY <1>4, <3>1
    <3> QED BY <1>4, <3>1, <3>2, <3>3
  <2> QED BY <1>2, <2>1, <2>2 DEF CountsOK
<1>6. StoreOK(outbox)' /\ StoreOK(outboxSaved)' /\ SavedIsBehind'
  BY <1>1, <1>2, StoreFacts DEF StoreOK, SavedIsBehind, Known, PendingKeys, SentKeys
<1>7. SenderOK'
  BY <1>2, NobodySends
<1>8. UploadsOK'
  <2>1. \A f : Untouched(f) => Untouched(f)'
    BY <1>2 DEF Untouched
  <2> QED BY <1>1, <1>2, <1>3, <2>1 DEF UploadsOK, Unsubmitted
<1>9. NeededIsThere'
  <2>1. ASSUME NEW f \in Files, Needed(f)'
        PROVE  f \in FilesIn(outboxSaved) /\ YetToGo(f)
    <3>1. YetToGo(f)'
      BY <1>2, <2>1 DEF Needed
    <3>2. PICK e \in ToSet(outboxSaved.pending) : f \in ToSet(e.files) /\ ~Handled(e.key, f)
      BY <1>2, <3>1 DEF YetToGo, Handled
    <3> QED BY <1>1, <3>2 DEF SavedIsBehind, FilesIn, YetToGo
  <2> QED BY <1>1, <1>2, <2>1 DEF NeededIsThere, Needed, NoCleaner
<1>10. SpoolTyped'
  <2>1. NoLane \in Senders
    BY DEF NoLane, Senders
  <2> QED BY <1>1, <1>2, <1>3, <1>4, <2>1 DEF SpoolTyped, Senders
<1>11. AcceptedIsKept'
  BY <1>1, <1>2, <1>3, WordsStay DEF PendingKeys
<1> QED BY <1>5, <1>6, <1>7, <1>8, <1>9, <1>10, <1>11 DEF SpoolInv

-----------------------------------------------------------------------------
LEMMA SpoolInvBegins ==
  ASSUME SpoolAssumed, NEW actors, NEW faults, SpoolInit(actors, faults)
  PROVE  SpoolInv
<1>1. /\ outbox = [pending |-> <<>>, acks |-> <<>>] /\ outboxSaved = outbox
      /\ sends = [p \in DeliveryKeys \X Files |-> 0] /\ doubts = sends
      /\ done = {} /\ pruned = {} /\ sender = NoLane /\ uploading = {} /\ recovering = {}
      /\ buffers = [t \in FileTurns |-> {}] /\ cleaner = NoCleaner
      /\ job = [x \in Actors |-> [at |-> IF x \in actors THEN "new" ELSE "done",
                                   staged |-> 0, code |-> NoOne]]
  BY DEF SpoolInit
<1>2. ToSet(outbox.pending) = {} /\ ToSet(outbox.acks) = {} /\ PendingKeys(outbox) = {}
  BY <1>1 DEF ToSet, PendingKeys
<1>3. SpoolTyped
  <2>1. job \in Jobs
    BY <1>1 DEF Jobs, JobPlaces, Codes
  <2>2. sender \in Senders
    BY <1>1 DEF NoLane, Senders
  <2>3. outbox \in Stores /\ sends \in Counters
    BY <1>1 DEF Stores, Counters
  <2> QED BY <1>1, <2>1, <2>2, <2>3 DEF SpoolTyped, Senders
<1>4. StoreOK(outbox) /\ SavedIsBehind
  <2>1. SentKeys = {}
    BY <1>1 DEF SentKeys, SentBy
  <2> QED BY <1>1, <1>2, <2>1 DEF StoreOK, SavedIsBehind, OneEach, Known
<1>5. SenderOK
  BY <1>1, NamesDiffer DEF SenderOK, NoLane, SendsWell, GoesThrough
<1>6. CountsOK
  BY <1>1, <1>2 DEF CountsOK
<1>7. UploadsOK
  <2>1. \A r \in Deliveries : job[r].staged = 0 /\ job[r].at \in {"new", "done"}
    BY <1>1, NamesDiffer
  <2>2. \A r \in Deliveries : \A f \in UploadsOf(r) : Untouched(f)
    BY <1>1, <1>2, NamesDiffer DEF Untouched
  <2> QED BY <1>1, <2>1, <2>2 DEF UploadsOK
<1>8. NeededIsThere
  BY <1>1, <1>2 DEF NeededIsThere, Needed, YetToGo
<1>9. AcceptedIsKept
  <2>1. \A r \in Deliveries : job[r].code = NoOne
    BY <1>1, NamesDiffer
  <2> QED BY <2>1 DEF AcceptedIsKept, SpoolAssumed
<1> QED BY <1>1, <1>3, <1>4, <1>5, <1>6, <1>7, <1>8, <1>9 DEF SpoolInv

LEMMA SpoolInvStays ==
  ASSUME SpoolAssumed, SpoolInv, [SpoolNext]_spoolVars
  PROVE  SpoolInv'
<1>1. CASE CleanupEnds \/ \E x : CleanupBegins(x)
  BY <1>1, CleanupSteps
<1>2. CASE LaneStep
  BY <1>1, <1>2, FlushSteps, FileGoes, MessageIsSent, ReceiptSteps, RetrySteps DEF LaneStep
<1>3. CASE RetryStep
  BY <1>3, RetrySteps, WriterSteps, OtherQuietSteps DEF RetryStep
<1>4. CASE Faults
  BY <1>4, FlushSteps, FileGoes, SendingFails, ReceiptSteps, RetrySteps, CancelledSteps
  DEF Faults
<1>5. CASE PersistsOutbox \/ SpoolCrash \/ PreflightCleans \/ UNCHANGED spoolVars
  BY <1>5, WriterSteps, CrashStep, OtherQuietSteps
<1>6. ASSUME NEW r \in Deliveries, DeliveryStep(r) \/ DeliveryFault(r) PROVE SpoolInv'
  BY <1>1, <1>6, RequestSteps, SubmitStep DEF DeliveryStep, DeliveryFault
<1>7. ASSUME NEW t \in FileTurns, TurnStep(t) PROVE SpoolInv'
  BY <1>1, <1>7, TurnSteps, HandOverSteps DEF TurnStep
<1> QED BY <1>1, <1>2, <1>3, <1>4, <1>5, <1>6, <1>7 DEF SpoolNext

(* What has been sent under an id is known by its content in the store. *)
LEMMA SpoolInvKeepsItsWord ==
  ASSUME SpoolInv
  PROVE  DeliveryKeepsItsWord
<1>1. SentAgainOnlyInDoubt
  BY DEF SpoolInv, CountsOK, SentAgainOnlyInDoubt
<1>2. OneContentPerId
  BY DEF SpoolInv, StoreOK, OneContentPerId, SentKeys, SentBy
<1> QED BY <1>1, <1>2 DEF SpoolInv, DeliveryKeepsItsWord

LEMMA SpoolInvKeepsFiles ==
  ASSUME SpoolInv
  PROVE  FilesOutlastTheirUse
<1>1. /\ uploading \subseteq Files /\ recovering \subseteq Files
      /\ \A t \in FileTurns : buffers[t] \subseteq Files
  <2>1. \A r \in Deliveries : UploadsOf(r) \subseteq Files
    BY DEF Files, UploadsOf
  <2>2. \A t \in FileTurns : Image[t] \in Files
    BY DEF Files
  <2> QED BY <2>1, <2>2 DEF SpoolInv, UploadsOK
<1>2. ASSUME NEW k \in DeliveryKeys, NEW f \in Files, ~Handled(k, f),
             \/ \E e \in ToSet(outbox.pending) : e.key = k /\ f \in ToSet(e.files)
             \/ \E e \in ToSet(outboxSaved.pending) : e.key = k /\ f \in ToSet(e.files)
      PROVE  YetToGo(f)
  BY <1>2 DEF SpoolInv, SavedIsBehind, YetToGo
<1>3. \A p \in Unsent(outbox) \union Unsent(outboxSaved) : p[2] \in Files /\ YetToGo(p[2])
  <2>1. \A p \in DeliveryKeys \X Files :
          p = <<p[1], p[2]>> /\ p[1] \in DeliveryKeys /\ p[2] \in Files
    OBVIOUS
  <2>2. ASSUME NEW p \in Unsent(outbox) \union Unsent(outboxSaved)
        PROVE  p \in DeliveryKeys \X Files /\ ~Handled(p[1], p[2])
    BY <2>1 DEF Unsent, Handled
  <2> QED BY <1>2, <2>1, <2>2 DEF Unsent
<1>4. \A f \in Files : Needed(f) => f \in spool \union unleased
  BY DEF SpoolInv, NeededIsThere
<1>5. \A f : f \in Buffered(buffers) => \E t \in FileTurns : f \in buffers[t]
  BY DEF Buffered
<1> QED BY <1>1, <1>3, <1>4, <1>5 DEF FilesOutlastTheirUse, Needed

(* Outbound: a client of the delivery API that was told "delivered" or "queued"
   can forget its message, a file is sent again only when in doubt, and an id
   stands for one content (delivery_api.py:318-337, terminal_delivery.py:180-184,
   322-366). *)
THEOREM DeliveryAlwaysKeepsItsWord ==
  ASSUME NEW actors, NEW faults
  PROVE  SpoolInit(actors, faults) /\ [][SpoolNext]_spoolVars => []DeliveryKeepsItsWord
<1>1. SpoolInit(actors, faults) => SpoolInv
  BY SpoolAssumption, SpoolInvBegins
<1>2. SpoolInv /\ [SpoolNext]_spoolVars => SpoolInv'
  BY SpoolAssumption, SpoolInvStays
<1>3. SpoolInv => DeliveryKeepsItsWord
  BY SpoolInvKeepsItsWord
<1> QED BY <1>1, <1>2, <1>3, PTL

(* Files of either direction: what the outbox, in memory or in the state file,
   an upload or a turn still needs is in the spool, through every cleanup and
   crash; the media directory is what its calls returned, within the quota
   (outbound_artifacts.py:319-338, terminal_delivery.py:621-653,
   channels/media.py:214-330, 560-700). *)
THEOREM FilesAlwaysAccountedFor ==
  ASSUME NEW actors, NEW faults, NEW calls, NEW troubles
  PROVE  /\ SpoolInit(actors, faults) /\ [][SpoolNext]_spoolVars
         /\ MediaInit(calls, troubles) /\ [][MediaNext]_mediaVars
         => []FilesAreAccountedFor
<1>1. SpoolInit(actors, faults) => SpoolInv
  BY SpoolAssumption, SpoolInvBegins
<1>2. SpoolInv /\ [SpoolNext]_spoolVars => SpoolInv'
  BY SpoolAssumption, SpoolInvStays
<1>3. SpoolInv /\ SpoolMatchesResults /\ QuotaHolds => FilesAreAccountedFor
  BY SpoolInvKeepsFiles DEF FilesAreAccountedFor
<1>4. MediaInit(calls, troubles) /\ [][MediaNext]_mediaVars
        => [](SpoolMatchesResults /\ QuotaHolds)
  BY MediaIsAccountedFor
<1> QED BY <1>1, <1>2, <1>3, <1>4, PTL

-----------------------------------------------------------------------------
(* Type correctness. *)
Places == {"never", "idle", "waits", "looks", "downloads", "stages", "cleans", "ok", "error"}
States == {"none", "polls", "holds", "writes", "ok", "error", "dead"}

LEMMA NothingElseIsInTheDirectory ==
  ASSUME NEW files, directory \in [SpoolFiles -> {"none", "part", "file"}]
  PROVE  Erase(files) \in [SpoolFiles -> {"none", "part", "file"}]
BY DEF Erase

LEMMA WorkerExitsInType ==
  ASSUME MediaTypeOK, NEW w \in Workers, NEW how \in States, WorkerExits(w, how)
  PROVE  worker' \in [Workers -> States] /\ flock' \in Workers \union {Unheld}
BY DEF WorkerExits, Unlock, MediaTypeOK, States

LEMMA CallReturnsInType ==
  ASSUME MediaTypeOK, NEW c \in Fetches, NEW how \in Places, Returns(c, how)
  PROVE  fetch' \in [Fetches -> Places] /\ mutex' \in [Kinds -> Fetches \union {Unheld}]
BY DEF Returns, MediaTypeOK, Places

LEMMA WorkersKeepTypes ==
  ASSUME MediaTypeOK, NEW w \in Workers,
         WorkerNext(w) \/ Fails(w) \/ WorkerDies(w) \/ Terminates(w)
  PROVE  MediaTypeOK'
<1> USE DEF States
<1>1. CASE Locks(w)
  BY <1>1 DEF Locks, MediaTypeOK
<1>2. CASE LooksOver(w)
  <2>1. /\ directory' = Erase(old)
        /\ WorkerExits(w, IF FullFor(w[1]) THEN "error" ELSE "ok")
        /\ UNCHANGED <<fetch, mutex, old, tainted, stopped, doomed, orphans, setbacks>>
    BY <1>2 DEF LooksOver
  <2>2. worker' \in [Workers -> States] /\ flock' \in Workers \union {Unheld}
    BY <2>1, WorkerExitsInType
  <2> QED BY <2>1, <2>2, NothingElseIsInTheDirectory DEF MediaTypeOK
<1>3. CASE Admits(w)
  <2>1. /\ directory' = Erase(old)
        /\ UNCHANGED <<fetch, mutex, old, tainted, stopped, doomed, orphans, setbacks>>
    BY <1>3 DEF Admits
  <2>2. worker' \in [Workers -> States] /\ flock' \in Workers \union {Unheld}
    <3>1. \/ worker' = [worker EXCEPT ![w] = "writes"] /\ flock' = flock
          \/ WorkerExits(w, "error")
      BY <1>3 DEF Admits
    <3> QED BY <3>1, WorkerExitsInType DEF MediaTypeOK
  <2> QED BY <2>1, <2>2, NothingElseIsInTheDirectory DEF MediaTypeOK
<1>4. CASE Completes(w)
  <2>1. /\ WorkerExits(w, "ok")
        /\ UNCHANGED <<fetch, mutex, directory, old, tainted, stopped, doomed, orphans,
                       setbacks>>
    BY <1>4 DEF Completes
  <2> QED BY <2>1, WorkerExitsInType DEF MediaTypeOK
<1>5. CASE Removes(w)
  <2>1. /\ directory' = Erase(Own(w)) /\ WorkerExits(w, "ok")
        /\ UNCHANGED <<fetch, mutex, old, tainted, stopped, doomed, orphans, setbacks>>
    BY <1>5 DEF Removes
  <2> QED BY <2>1, WorkerExitsInType, NothingElseIsInTheDirectory DEF MediaTypeOK
<1>6. ASSUME NEW f \in SpoolFiles, WritesPart(w, f) \/ PlacesFile(w, f) \/ RejectsFile(w, f)
      PROVE  MediaTypeOK'
  <2>1. CASE WritesPart(w, f) \/ PlacesFile(w, f)
    BY <2>1 DEF WritesPart, PlacesFile, MediaTypeOK
  <2>2. CASE RejectsFile(w, f)
    <3>1. /\ directory' = Erase(Own(w)) /\ WorkerExits(w, "error")
          /\ UNCHANGED <<fetch, mutex, old, tainted, stopped, doomed, orphans, setbacks>>
      BY <2>2 DEF RejectsFile
    <3> QED BY <3>1, WorkerExitsInType, NothingElseIsInTheDirectory DEF MediaTypeOK
  <2> QED BY <1>6, <2>1, <2>2
<1>7. CASE Fails(w)
  <2>1. /\ setbacks > 0 /\ setbacks' = setbacks - 1
        /\ directory' = directory \/ directory' = Erase(Own(w))
        /\ WorkerExits(w, "error")
        /\ UNCHANGED <<fetch, mutex, old, tainted, stopped, doomed, orphans>>
    BY <1>7 DEF Fails
  <2> QED BY <2>1, WorkerExitsInType, NothingElseIsInTheDirectory DEF MediaTypeOK
<1>8. CASE WorkerDies(w)
  <2>1. /\ setbacks > 0 /\ setbacks' = setbacks - 1 /\ WorkerExits(w, "dead")
        /\ UNCHANGED <<fetch, mutex, directory, old, tainted, stopped, doomed, orphans>>
    BY <1>8 DEF WorkerDies
  <2> QED BY <2>1, WorkerExitsInType DEF MediaTypeOK
<1>9. CASE Terminates(w)
  <2>1. /\ doomed' = doomed \ {w}
        /\ UNCHANGED <<fetch, mutex, directory, old, stopped>>
        /\ \/ UNCHANGED <<worker, flock, tainted, orphans, setbacks>>
           \/ /\ WorkerExits(w, "dead")
              /\ UNCHANGED <<tainted, orphans, setbacks>>
           \/ /\ w \notin orphans => setbacks > 0
              /\ setbacks' = IF w \in orphans THEN setbacks ELSE setbacks - 1
              /\ orphans' = orphans \union {w}
              /\ tainted' = tainted \union {Kind[w[1]]}
              /\ UNCHANGED <<worker, flock>>
    BY <1>9 DEF Terminates
  <2>2. Kind[w[1]] \in Kinds
    BY DEF Workers, Kinds
  <2>3. worker' \in [Workers -> States] /\ flock' \in Workers \union {Unheld}
    BY <2>1, WorkerExitsInType DEF MediaTypeOK
  <2>4. /\ setbacks' \in Nat /\ orphans' \subseteq Workers /\ tainted' \subseteq Kinds
    BY <2>1, <2>2 DEF MediaTypeOK
  <2> QED BY <2>1, <2>3, <2>4 DEF MediaTypeOK
<1> QED BY <1>1, <1>2, <1>3, <1>4, <1>5, <1>6, <1>7, <1>8, <1>9 DEF WorkerNext

LEMMA CallsKeepTypes ==
  ASSUME MediaTypeOK, NEW c \in Fetches, CallNext(c) \/ CallGivesUp(c)
  PROVE  MediaTypeOK'
<1> USE DEF Places, States
<1>1. Kind[c] \in Kinds /\ \A what \in {"look", "stage", "clean"} : <<c, what>> \in Workers
  BY DEF Kinds, Workers
<1>2. CASE Calls(c) \/ CallRefused(c)
  BY <1>2 DEF Calls, CallRefused, MediaTypeOK
<1>3. CASE Enters(c)
  BY <1>1, <1>3 DEF Enters, Starts, MediaTypeOK
<1>4. CASE Looked(c)
  <2>1. /\ worker' = [worker EXCEPT ![<<c, "look">>] = "none"]
        /\ UNCHANGED <<flock, directory, old, tainted, stopped, doomed, orphans, setbacks>>
        /\ \/ fetch' = [fetch EXCEPT ![c] = "downloads"] /\ mutex' = mutex
           \/ Returns(c, Pause(c))
    BY <1>4 DEF Looked
  <2>2. fetch' \in [Fetches -> Places] /\ mutex' \in [Kinds -> Fetches \union {Unheld}]
    <3>1. Pause(c) \in Places
      BY DEF Pause
    <3> QED BY <2>1, <3>1, CallReturnsInType DEF MediaTypeOK
  <2> QED BY <1>1, <2>1, <2>2 DEF MediaTypeOK
<1>5. CASE Downloads(c) \/ NotStaged(c)
  BY <1>1, <1>5 DEF Downloads, NotStaged, Starts, MediaTypeOK
<1>6. CASE DownloadFails(c)
  <2>1. /\ Returns(c, "error")
        /\ UNCHANGED <<worker, flock, directory, old, tainted, stopped, doomed, orphans,
                       setbacks>>
    BY <1>6 DEF DownloadFails
  <2> QED BY <2>1, CallReturnsInType DEF MediaTypeOK
<1>7. CASE Staged(c)
  <2>1. /\ Returns(c, "ok") /\ worker' = [worker EXCEPT ![<<c, "stage">>] = "none"]
        /\ UNCHANGED <<flock, directory, old, tainted, stopped, doomed, orphans, setbacks>>
    BY <1>7 DEF Staged
  <2> QED BY <1>1, <2>1, CallReturnsInType DEF MediaTypeOK
<1>8. CASE Cleaned(c)
  <2>1. /\ Returns(c, "error") /\ worker' = [worker EXCEPT ![<<c, "clean">>] = "none"]
        /\ tainted' = tainted \/ tainted' = tainted \union {Kind[c]}
        /\ UNCHANGED <<flock, directory, old, stopped, doomed, orphans, setbacks>>
    BY <1>8 DEF Cleaned
  <2> QED BY <1>1, <2>1, CallReturnsInType DEF MediaTypeOK
<1>9. CASE CallGivesUp(c)
  <2>1. PICK killed \in BOOLEAN :
          LET lasts == Task(c) \cap Living  ends == fetch[c] # "stages"
          IN  /\ setbacks' \in Nat
              /\ orphans' = IF killed THEN orphans ELSE orphans \union lasts
              /\ tainted' = IF killed /\ fetch[c] # "cleans" THEN tainted
                            ELSE tainted \union {Kind[c]}
              /\ IF ends THEN Returns(c, Pause(c))
                 ELSE fetch' = [fetch EXCEPT ![c] = "cleans"] /\ UNCHANGED mutex
              /\ worker' = [w \in Workers |->
                   IF w = <<c, "clean">> /\ ~ends THEN "polls"
                   ELSE IF w \in Task(c) /\ (killed \/ w \notin Living) THEN "none"
                   ELSE worker[w]]
              /\ flock' = IF killed /\ flock \in Task(c) THEN Unheld ELSE flock
    BY <1>9 DEF CallGivesUp
  <2>2. UNCHANGED <<directory, old, stopped, doomed>>
    BY <1>9 DEF CallGivesUp
  <2>3. fetch' \in [Fetches -> Places] /\ mutex' \in [Kinds -> Fetches \union {Unheld}]
    <3>1. \/ Returns(c, Pause(c))
          \/ fetch' = [fetch EXCEPT ![c] = "cleans"] /\ mutex' = mutex
      BY <2>1
    <3>2. Pause(c) \in Places
      BY DEF Pause
    <3> QED BY <3>1, <3>2, CallReturnsInType DEF MediaTypeOK
  <2>4. Living \subseteq Workers
    BY DEF Living
  <2>5. worker' \in [Workers -> States] /\ flock' \in Workers \union {Unheld}
    BY <2>1 DEF MediaTypeOK
  <2>6. orphans' \subseteq Workers /\ tainted' \subseteq Kinds /\ setbacks' \in Nat
    BY <1>1, <2>1, <2>4 DEF MediaTypeOK
  <2> QED BY <2>2, <2>3, <2>5, <2>6 DEF MediaTypeOK
<1> QED BY <1>2, <1>3, <1>4, <1>5, <1>6, <1>7, <1>8, <1>9 DEF CallNext, CallRuns

(* Inbound, whatever the calls and the child processes do: every variable of the
   media directory has its type; a stop ends only processes there are
   (channels/media.py:214-330, 560-700). *)
THEOREM MediaKeepsItsTypes ==
  ASSUME NEW calls, NEW faults \in Nat
  PROVE  MediaInit(calls, faults) /\ [][MediaNext]_mediaVars => []MediaTypeOK
<1>1. MediaInit(calls, faults) => MediaTypeOK
  BY DEF MediaInit, MediaTypeOK
<1>2. MediaTypeOK /\ [MediaNext]_mediaVars => MediaTypeOK'
  <2> SUFFICES ASSUME MediaTypeOK, [MediaNext]_mediaVars PROVE MediaTypeOK'
    OBVIOUS
  <2>1. ASSUME NEW k \in Kinds, StopsMedia(k) PROVE MediaTypeOK'
    BY <2>1 DEF StopsMedia, MediaTypeOK, Living
  <2>2. ASSUME NEW f \in SpoolFiles, Ages(f) PROVE MediaTypeOK'
    BY <2>2 DEF Ages, MediaTypeOK
  <2>3. CASE UNCHANGED mediaVars
    BY <2>3 DEF mediaVars, MediaTypeOK
  <2> QED BY <2>1, <2>2, <2>3, WorkersKeepTypes, CallsKeepTypes DEF MediaNext
<1> QED BY <1>1, <1>2, PTL

(* What is in the spool, and what a cleanup spares, are files of requests or of
   turns. *)
Pictures == [FileTurns -> SUBSET Files]
Cleanups == [who : Actors \union {NoOne, "retry"}, keeps : SUBSET Files]
FilesKnown ==
  /\ spool \subseteq Files /\ leased \subseteq Files /\ uploading \subseteq Files
  /\ recovering \subseteq Files /\ unleased \subseteq Files
  /\ buffers \in Pictures /\ cleaner \in Cleanups

LEMMA ReferencesAreFiles ==
  ASSUME SpoolInv, FilesKnown
  PROVE  /\ FilesIn(outbox) \subseteq Files /\ FilesIn(outboxSaved) \subseteq Files
         /\ Buffered(buffers) \subseteq Files /\ Referenced \subseteq Files
<1>1. ASSUME NEW store \in Stores PROVE FilesIn(store) \subseteq Files
  <2>1. \A e \in ToSet(store.pending) : e.files \in Seq(Files)
    BY StoreFacts DEF Entries
  <2>2. \A e \in ToSet(store.pending) : ToSet(e.files) \subseteq Files
    BY <2>1 DEF ToSet
  <2> QED BY <2>2 DEF FilesIn
<1>2. Buffered(buffers) \subseteq Files
  BY DEF Buffered, FilesKnown, Pictures
<1> QED BY <1>1, <1>2 DEF Referenced, FilesKnown, SpoolInv, SpoolTyped

(* Most steps change no file. *)
LEMMA FilesStayKnown ==
  ASSUME FilesKnown, UNCHANGED <<fileVars, unleased>>
  PROVE  FilesKnown'
BY DEF FilesKnown, fileVars

LEMMA CleanupsKeepKnown ==
  ASSUME SpoolAssumed, SpoolInv, FilesKnown,
         CleanupEnds \/ RetryReceipts \/ Release \/ PreflightCleans \/ SpoolCrash
         \/ (sender.who # NoOne /\ CleanupBegins(sender.who))
  PROVE  FilesKnown'
<1> USE DEF FilesKnown, Pictures, Cleanups
<1>1. CASE CleanupEnds
  <2>1. /\ spool' = Kept /\ cleaner' = NoCleaner
        /\ UNCHANGED <<leased, uploading, recovering, buffers, unleased>>
    BY <1>1 DEF CleanupEnds
  <2> QED BY <2>1 DEF Kept, NoCleaner
<1>2. CASE RetryReceipts
  <2>1. /\ cleaner' = [who |-> "retry", keeps |-> Referenced]
        /\ UNCHANGED <<spool, leased, uploading, recovering, buffers, unleased>>
    BY <1>2 DEF RetryReceipts
  <2> QED BY <2>1, ReferencesAreFiles
<1>3. CASE Release
  <2>1. /\ leased' \subseteq leased
        /\ UNCHANGED <<spool, uploading, recovering, buffers, cleaner, unleased>>
    BY <1>3 DEF Release
  <2> QED BY <2>1
<1>4. CASE PreflightCleans
  <2>1. /\ spool' \subseteq spool /\ unleased' \subseteq unleased \union spool
        /\ UNCHANGED <<leased, uploading, recovering, buffers, cleaner>>
    BY <1>4 DEF PreflightCleans
  <2> QED BY <2>1
<1>5. CASE SpoolCrash
  <2>1. /\ spool' \subseteq spool
        /\ leased' = {} /\ uploading' = {} /\ recovering' = {} /\ cleaner' = NoCleaner
        /\ buffers' = [t \in FileTurns |-> {}] /\ unleased' = unleased
    BY <1>5 DEF SpoolCrash
  <2> QED BY <2>1 DEF NoCleaner
<1>6. CASE sender.who # NoOne /\ CleanupBegins(sender.who)
  <2>1. /\ cleaner' = [who |-> sender.who, keeps |-> Referenced]
        /\ UNCHANGED <<spool, leased, uploading, recovering, buffers, unleased>>
    BY <1>6 DEF CleanupBegins
  <2>2. sender.who \in Actors \union {NoOne, "retry"}
    BY DEF SpoolInv, SpoolTyped
  <2> QED BY <2>1, <2>2, ReferencesAreFiles
<1> QED BY <1>1, <1>2, <1>3, <1>4, <1>5, <1>6

LEMMA RequestsKeepKnown ==
  ASSUME SpoolAssumed, SpoolInv, FilesKnown, NEW r \in Deliveries,
         DeliveryStep(r) \/ DeliveryFault(r)
  PROVE  FilesKnown'
<1>1. CASE PostFiles(r) \/ Submit(r) \/ Reject(r) \/ StageRefused(r)
  BY <1>1, FilesStayKnown DEF PostFiles, Submit, Reject, StageRefused
<1> USE DEF FilesKnown, Pictures, Cleanups
<1>2. ASSUME StillStaging(r) PROVE NextUpload(r) \in Files
  <2>1. /\ job[r].staged \in Nat /\ job[r].staged < Len(Uploads[r])
        /\ Uploads[r] \in Seq(Files)
    BY <1>2, NamesDiffer DEF StillStaging, SpoolInv, SpoolTyped, Jobs, SpoolAssumed
  <2> QED BY <2>1 DEF NextUpload
<1>3. CASE StageUpload(r)
  <2>1. /\ spool' = spool \union {NextUpload(r)}
        /\ uploading' = uploading \union {NextUpload(r)}
        /\ UNCHANGED <<leased, recovering, buffers, cleaner, unleased>>
    BY <1>3 DEF StageUpload
  <2> QED BY <1>2, <1>3, <2>1 DEF StageUpload
<1>4. CASE StageCancelled(r)
  <2>1. /\ spool' = spool \union {NextUpload(r)}
        /\ cleaner' = [who |-> r, keeps |-> Referenced]
        /\ UNCHANGED <<leased, uploading, recovering, buffers, unleased>>
    BY <1>4 DEF StageCancelled
  <2> QED BY <1>2, <1>4, <2>1, NamesDiffer, ReferencesAreFiles DEF StageCancelled
<1>5. CASE Leave(r)
  <2>1. /\ uploading' \subseteq uploading
        /\ UNCHANGED <<spool, leased, recovering, buffers, cleaner, unleased>>
    BY <1>5 DEF Leave
  <2> QED BY <2>1
<1>6. CASE CleanupBegins(r)
  <2>1. /\ cleaner' = [who |-> r, keeps |-> Referenced]
        /\ UNCHANGED <<spool, leased, uploading, recovering, buffers, unleased>>
    BY <1>6 DEF CleanupBegins
  <2> QED BY <2>1, NamesDiffer, ReferencesAreFiles
<1> QED BY <1>1, <1>3, <1>4, <1>5, <1>6 DEF DeliveryStep, DeliveryFault

LEMMA TurnsKeepKnown ==
  ASSUME SpoolAssumed, SpoolInv, FilesKnown, NEW t \in FileTurns, TurnStep(t)
  PROVE  FilesKnown'
<1>1. CASE TurnBegins(t) \/ TurnAnswers(t)
  BY <1>1, FilesStayKnown DEF TurnBegins, TurnAnswers
<1> USE DEF FilesKnown, Pictures, Cleanups
<1>2. Image[t] \in Files
  BY NamesDiffer
<1>3. CASE TurnItem(t)
  <2>1. /\ spool' = spool \union {Image[t]} /\ leased' = leased \union {Image[t]}
        /\ buffers' = [buffers EXCEPT ![t] = {Image[t]}]
        /\ UNCHANGED <<uploading, recovering, cleaner, unleased>>
    BY <1>3 DEF TurnItem, Stages
  <2> QED BY <1>2, <2>1
<1>4. CASE TurnItemFails(t)
  <2>1. /\ spool' = spool \union {Image[t]}
        /\ UNCHANGED <<leased, buffers, uploading, recovering, cleaner, unleased>>
    BY <1>4 DEF TurnItemFails
  <2> QED BY <1>2, <2>1
<1>5. CASE TurnContinues(t) \/ TurnDiscarded(t)
  <2>1. /\ buffers' = [buffers EXCEPT ![t] = {}] /\ leased' \subseteq leased
        /\ unleased' \subseteq unleased \union buffers[t]
        /\ UNCHANGED <<spool, uploading, recovering, cleaner>>
    BY <1>5 DEF TurnContinues, TurnDiscarded, ClearsBuffer
  <2> QED BY <2>1
<1>6. CASE TurnCompletes(t)
  <2>1. /\ buffers' = [buffers EXCEPT ![t] = {}]
        /\ UNCHANGED <<spool, leased, uploading, recovering, cleaner, unleased>>
    BY <1>6 DEF TurnCompletes
  <2> QED BY <2>1
<1>7. CASE TurnRecovered(t)
  <2>1. /\ spool' = spool \union {Image[t]} /\ leased' = leased \union {Image[t]}
        /\ recovering' = recovering \union {Image[t]}
        /\ buffers' = [buffers EXCEPT ![t] = {}]
        /\ UNCHANGED <<uploading, cleaner, unleased>>
    BY <1>7 DEF TurnRecovered, Stages
  <2> QED BY <1>2, <2>1
<1>8. CASE RecoveryEnds(t)
  <2>1. /\ recovering' \subseteq recovering /\ leased' \subseteq leased
        /\ UNCHANGED <<spool, uploading, buffers, cleaner, unleased>>
    BY <1>8 DEF RecoveryEnds
  <2> QED BY <2>1
<1>9. CASE CleanupBegins(t)
  <2>1. /\ cleaner' = [who |-> t, keeps |-> Referenced]
        /\ UNCHANGED <<spool, leased, uploading, recovering, buffers, unleased>>
    BY <1>9 DEF CleanupBegins
  <2> QED BY <2>1, NamesDiffer, ReferencesAreFiles
<1> QED BY <1>1, <1>3, <1>4, <1>5, <1>6, <1>7, <1>8, <1>9 DEF TurnStep

LEMMA FilesKnownStays ==
  ASSUME SpoolAssumed, SpoolInv, FilesKnown, [SpoolNext]_spoolVars
  PROVE  FilesKnown'
<1>1. CASE \/ FlushOk \/ SendFile \/ SentAll \/ AckFlushed \/ RetryFlushed \/ RetryNext
           \/ RetrySaves \/ RetryBegins \/ RetryEnds \/ PersistsOutbox \/ Faults
  <2>1. UNCHANGED <<fileVars, unleased>>
    BY <1>1 DEF FlushOk, SendFile, SentAll, AckFlushed, RetryFlushed, RetryNext, RetrySaves,
       RetryBegins, RetryEnds, PersistsOutbox, Faults, FlushFails, FileRefused,
       FileSendFails, AckNotFlushed, RetryNotFlushed, LaneCancelled, histVars
  <2> QED BY <2>1, FilesStayKnown
<1>2. CASE LaneStep \/ RetryStep \/ CleanupEnds \/ SpoolCrash \/ PreflightCleans
  BY <1>1, <1>2, CleanupsKeepKnown DEF LaneStep, RetryStep
<1>3. CASE UNCHANGED spoolVars
  BY <1>3 DEF spoolVars, FilesKnown
<1> QED BY <1>1, <1>2, <1>3, RequestsKeepKnown, TurnsKeepKnown DEF SpoolNext

(* Outbound, whatever requests, turns and faults there are: everything in the
   spool, leased, active or kept by a cleanup is a file of a request or of a turn
   (outbound_artifacts.py:255-338, delivery_api.py:318-337). *)
THEOREM SpoolKeepsItsTypes ==
  ASSUME NEW actors, NEW faults
  PROVE  SpoolInit(actors, faults) /\ [][SpoolNext]_spoolVars => []SpoolTypeOK
<1>1. SpoolInit(actors, faults) => SpoolInv
  BY SpoolAssumption, SpoolInvBegins
<1>2. SpoolInit(actors, faults) => FilesKnown
  BY DEF SpoolInit, FilesKnown, Pictures, Cleanups, NoCleaner
<1>3. SpoolInv /\ [SpoolNext]_spoolVars => SpoolInv'
  BY SpoolAssumption, SpoolInvStays
<1>4. SpoolInv /\ FilesKnown /\ [SpoolNext]_spoolVars => FilesKnown'
  BY SpoolAssumption, FilesKnownStays
<1>5. SpoolInv /\ FilesKnown => SpoolTypeOK
  BY DEF SpoolInv, SpoolTyped, Jobs, JobPlaces, FilesKnown, Pictures, Cleanups, SpoolTypeOK
<1> QED BY <1>1, <1>2, <1>3, <1>4, <1>5, PTL
=============================================================================
