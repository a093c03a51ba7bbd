----------------------- MODULE StatePersistenceProofs -----------------------
(***************************************************************************)
(* For any number of messages and callers and any bounds: what is reported *)
(* as written stays on disk over crashes, the file never goes back, and    *)
(* the store implements DurableStore.                                      *)
(***************************************************************************)
EXTENDS StatePersistence, TLAPS

LEMMA VersionsTyped ==
  ASSUME TypeOK
  PROVE  Versions \subseteq Snapshot
BY DEF TypeOK, Versions, Snapshot, Job

(* The store's variables have their types (store.py, __init__ and every    *)
(* operation).                                                             *)
THEOREM TypeCorrect == Spec => []TypeOK
<1>1. Init => TypeOK
  BY DEF Init, TypeOK, Snapshot
<1>2. TypeOK /\ [Next]_vars => TypeOK'
  <2> SUFFICES ASSUME TypeOK, [Next]_vars PROVE TypeOK'
    OBVIOUS
  <2> USE DEF TypeOK, Snapshot
  <2>1. CASE Save
    BY <2>1 DEF Save
  <2>2. ASSUME NEW others \in SUBSET Job, WriterRuns(others)
        PROVE  queued' \in SUBSET Snapshot /\ task' \in {"none", "ready", "writing"}
               /\ jobs' \in SUBSET Job
    BY <2>2 DEF WriterRuns, WriterStarts, WriterEnds, NewJob, Job, Writers
  <2>3. CASE WriterBegins
    BY <2>2, <2>3 DEF WriterBegins
  <2>4. CASE WriterResumes
    <3>1. PICK j \in JobsOf(Background) :
            /\ failures' = Outstanding(
                 failures \cup (IF j.result = "failed" THEN {j.rev} ELSE {}))
            /\ WriterRuns(jobs \ {j})
      BY <2>4 DEF WriterResumes
    <3>2. jobs \ {j} \in SUBSET Job /\ j \in Job
      BY <3>1 DEF JobsOf
    <3>3. failures' \in SUBSET Nat
      BY <3>1, <3>2 DEF Outstanding, Job
    <3> QED BY <2>2, <2>4, <3>1, <3>2, <3>3 DEF WriterResumes
  <2>5. CASE WriteLands
    BY <2>5 DEF WriteLands, Finish, Job
  <2>6. CASE WriteFails
    BY <2>6 DEF WriteFails, Finish, Job
  <2>7. ASSUME NEW m \in Messages, Commit(m) PROVE TypeOK'
    <3>1. CASE CommitBegins(m)
      BY <3>1 DEF CommitBegins, NewJob, Job, Writers
    <3>2. CASE EnsureBegins(m)
      BY <3>2 DEF EnsureBegins, NewJob, Job, Writers
    <3>3. CASE CommitEnds(m)
      BY <3>3 DEF CommitEnds, JobsOf, Job, Later
    <3>4. CASE CommitCancelled(m)
      BY <3>4 DEF CommitCancelled, JobsOf, Job
    <3> QED BY <2>7, <3>1, <3>2, <3>3, <3>4 DEF Commit
  <2>8. ASSUME NEW c \in Callers, FlushBegins(c) \/ FlushReturns(c)
        PROVE  TypeOK'
    BY <2>8 DEF FlushBegins, FlushReturns, Outstanding, Later
  <2>9. CASE Crash
    BY <2>9 DEF Crash
  <2>10. CASE UNCHANGED vars
    BY <2>10 DEF vars
  <2> QED
    BY <2>1, <2>3, <2>4, <2>5, <2>6, <2>7, <2>8, <2>9, <2>10 DEF Next
<1> QED
  BY <1>1, <1>2, PTL DEF Spec

(* The background writer only moves snapshots (_run_background_writer):    *)
(* from the queue to a worker thread or, when a newer one is in the file,  *)
(* out of the system.  It never makes up a new one.                        *)
LEMMA WriterRunsShrinksVersions ==
  ASSUME TypeOK, NEW others \in SUBSET jobs, WriterRuns(others),
         UNCHANGED <<mem, disk, revision, persisted, saved>>
  PROVE  Versions' \subseteq Versions
BY DEF TypeOK, Versions, WriterRuns, WriterStarts, WriterEnds, NewJob, Snapshot, Job

LEMMA WriterRunsKeepsConsistent ==
  ASSUME TypeOK, NEW others \in SUBSET jobs, WriterRuns(others),
         WriterConsistent, \A j \in others : Background \notin j.by,
         UNCHANGED <<persisted>>
  PROVE  WriterConsistent'
<1> USE DEF TypeOK, WriterConsistent, JobsOf
<1>1. CASE WriterStarts(others)
  <2>1. PICK q \in queued : jobs' = others \cup {NewJob(Background, q.rev, q.stamp)}
    BY <1>1 DEF WriterStarts
  <2>2. NewJob(Background, q.rev, q.stamp).result = "pending"
    BY DEF NewJob
  <2>3. JobsOf(Background)' = {NewJob(Background, q.rev, q.stamp)}
    BY <2>1 DEF NewJob
  <2>4. \A j \in jobs' : j.result = "ok" => j.rev <= persisted'
    BY <2>1, <2>2
  <2>5. task' = "writing" /\ queued' = {}
    BY <1>1 DEF WriterStarts
  <2> QED BY <2>3, <2>4, <2>5
<1>2. CASE WriterEnds(others)
  BY <1>2 DEF WriterEnds
<1> QED BY <1>1, <1>2 DEF WriterRuns

(* A thread that ends leaves its job to the task that awaits it. *)
LEMMA FinishKeepsRevisions ==
  ASSUME TypeOK, NEW j \in jobs, NEW result, Finish(j, result),
         NEW w, NEW i \in JobsOf(w)
  PROVE  \E k \in JobsOf(w)' : k.rev = i.rev
<1>1. j \in Job
  BY DEF TypeOK
<1>2. CASE i = j
  <2> DEFINE k == [j EXCEPT !.result = result]
  <2>1. k.rev = j.rev /\ k.by = j.by
    BY <1>1 DEF Job
  <2>2. k \in jobs'
    BY <1>2 DEF Finish, JobsOf
  <2> HIDE DEF k
  <2> QED BY <1>2, <2>1, <2>2 DEF JobsOf
<1>3. CASE i # j
  BY <1>3 DEF Finish, JobsOf
<1> QED BY <1>2, <1>3

LEMMA WriterRunsKeepsSave ==
  ASSUME TypeOK, NEW others \in SUBSET jobs, WriterRuns(others),
         UNCHANGED <<persisted, saved>>, WriterConsistent,
         \/ saved.rev <= persisted
         \/ saved \in queued
         \/ saved.rev \in failures'
  PROVE  SaveAccounted'
<1>1. CASE saved \in queued /\ WriterStarts(others)
  <2>1. PICK q \in queued : /\ q.rev > persisted
                           /\ jobs' = others \cup {NewJob(Background, q.rev, q.stamp)}
    BY <1>1 DEF WriterStarts
  <2>2. q = saved
    BY <1>1, <2>1 DEF WriterConsistent
  <2>3. NewJob(Background, q.rev, q.stamp) \in JobsOf(Background)'
    BY <2>1 DEF NewJob, JobsOf
  <2> QED BY <2>2, <2>3 DEF NewJob, SaveAccounted
<1>2. CASE saved \in queued /\ WriterEnds(others)
  BY <1>2 DEF WriterEnds, SaveAccounted
<1> QED BY <1>1, <1>2 DEF WriterRuns, SaveAccounted

(* Every version is at most the one in memory. *)
LEMMA MemoryIsNewest ==
  ASSUME TypeOK, VersionsOrdered, VersionsBounded, NEW a \in Versions
  PROVE  a \in Snapshot /\ a.rev <= revision /\ a.stamp <= mem
<1> DEFINE top == [rev |-> revision, stamp |-> mem]
<1>1. top \in Versions
  BY DEF Versions
<1>2. a.rev <= top.rev
  BY DEF VersionsBounded
<1>3. a.stamp <= top.stamp
  BY <1>1, <1>2 DEF VersionsOrdered
<1> QED BY <1>2, <1>3, VersionsTyped

(* A step that only drops versions, or adds the state now in memory under  *)
(* a revision of its own, keeps them ordered and bounded.                  *)
LEMMA VersionsStep ==
  ASSUME TypeOK, TypeOK', VersionsOrdered, VersionsBounded,
         NEW top \in Snapshot, top = [rev |-> revision', stamp |-> mem'],
         \/ revision' = revision /\ mem' = mem
         \/ revision' = revision + 1 /\ mem' \in {mem, mem + 1},
         Versions' \subseteq Versions \cup {top}
  PROVE  VersionsOrdered' /\ VersionsBounded'
<1>1. \A a \in Versions : a \in Snapshot /\ a.rev <= revision /\ a.stamp <= mem
  BY MemoryIsNewest
<1>2. top.rev = revision' /\ top.stamp = mem'
  OBVIOUS
<1>3. VersionsBounded'
  BY <1>1, <1>2 DEF VersionsBounded, TypeOK, Snapshot
<1>4. VersionsOrdered'
  <2> SUFFICES ASSUME NEW a \in Versions', NEW b \in Versions', a.rev <= b.rev
               PROVE  a.stamp <= b.stamp
    BY DEF VersionsOrdered
  <2>1. CASE b = top
    BY <1>1, <1>2, <2>1 DEF TypeOK, Snapshot
  <2>2. CASE b # top /\ a # top
    BY <2>2 DEF VersionsOrdered
  <2>3. CASE b # top /\ a = top
    <3>1. b \in Versions /\ b.rev <= revision /\ b \in Snapshot
      BY <1>1, <2>3
    <3>2. revision' = revision /\ mem' = mem
      BY <1>2, <2>3, <3>1 DEF TypeOK, Snapshot
    <3>3. a \in Versions
      BY <2>3, <3>2 DEF Versions
    <3> QED BY <3>1, <3>3 DEF VersionsOrdered
  <2> QED BY <2>1, <2>2, <2>3
<1> QED BY <1>3, <1>4

(* No step of the store loses a save, mixes up the order of snapshots or   *)
(* lets a reported state out of the file (store.py, every operation).      *)
THEOREM DurabilityStep == DurabilityInv /\ TypeOK' /\ [Next]_vars => DurabilityInv'
<1> SUFFICES ASSUME DurabilityInv, TypeOK', [Next]_vars PROVE DurabilityInv'
  OBVIOUS
<1> USE DEF DurabilityInv
<1> DEFINE top == [rev |-> revision', stamp |-> mem']
<1>0. top \in Snapshot
  BY DEF TypeOK, Snapshot
<1>1. CASE Save
  <2>1. Versions' \subseteq Versions \cup {top}
    BY <1>1 DEF Save, Versions, TypeOK
  <2>2. VersionsOrdered' /\ VersionsBounded'
    BY <1>0, <1>1, <2>1, VersionsStep DEF Save
  <2>3. SaveAccounted'
    BY <1>1 DEF Save, SaveAccounted
  <2>4. WriterConsistent'
    BY <1>1 DEF Save, WriterConsistent, JobsOf, TypeOK
  <2>5. ReportedIsDurable'
    BY <1>1 DEF Save, ReportedIsDurable
  <2> QED BY <2>2, <2>3, <2>4, <2>5
<1>2. CASE WriterBegins
  <2>1. WriterRuns(jobs) /\ task = "ready"
        /\ UNCHANGED <<mem, disk, revision, persisted, failures, saved, reported>>
    BY <1>2 DEF WriterBegins
  <2>2. Versions' \subseteq Versions
    BY <2>1, WriterRunsShrinksVersions
  <2>3. VersionsOrdered' /\ VersionsBounded'
    BY <1>0, <2>1, <2>2, VersionsStep
  <2>4. WriterConsistent'
    BY <2>1, WriterRunsKeepsConsistent DEF WriterConsistent, JobsOf
  <2>5. SaveAccounted'
    BY <2>1, WriterRunsKeepsSave DEF SaveAccounted, WriterConsistent
  <2>6. ReportedIsDurable'
    BY <2>1 DEF ReportedIsDurable
  <2> QED BY <2>3, <2>4, <2>5, <2>6
<1>3. CASE WriterResumes
  <2>1. PICK j \in JobsOf(Background) :
          /\ j.result # "pending"
          /\ failures' = Outstanding(
               failures \cup (IF j.result = "failed" THEN {j.rev} ELSE {}))
          /\ WriterRuns(jobs \ {j})
          /\ UNCHANGED <<mem, disk, revision, persisted, saved, reported>>
    BY <1>3 DEF WriterResumes
  <2>2. j \in Job /\ jobs \ {j} \in SUBSET jobs
    BY <2>1 DEF TypeOK, JobsOf
  <2>3. Versions' \subseteq Versions
    BY <2>1, <2>2, WriterRunsShrinksVersions
  <2>4. VersionsOrdered' /\ VersionsBounded'
    BY <1>0, <2>1, <2>3, VersionsStep
  <2>5. \A i \in jobs \ {j} : Background \notin i.by
    BY <2>1 DEF WriterConsistent, JobsOf
  <2>6. WriterConsistent'
    BY <2>1, <2>2, <2>5, WriterRunsKeepsConsistent
  <2>7. \/ saved.rev <= persisted
        \/ saved \in queued
        \/ saved.rev \in failures'
    <3>1. CASE saved.rev \in failures
      BY <2>1, <3>1 DEF Outstanding, TypeOK, Snapshot
    <3>2. CASE \E i \in JobsOf(Background) : i.rev = saved.rev
      <4>1. j.rev = saved.rev
        BY <2>1, <3>2 DEF WriterConsistent
      <4>2. CASE j.result = "failed"
        BY <2>1, <4>1, <4>2 DEF Outstanding, TypeOK, Snapshot
      <4>3. CASE j.result = "ok"
        BY <4>1, <4>3 DEF WriterConsistent, JobsOf
      <4> QED BY <2>1, <2>2, <4>2, <4>3 DEF Job
    <3> QED BY <3>1, <3>2 DEF SaveAccounted
  <2>8. SaveAccounted'
    BY <2>1, <2>2, <2>7, WriterRunsKeepsSave
  <2>9. ReportedIsDurable'
    BY <2>1 DEF ReportedIsDurable
  <2> QED BY <2>4, <2>6, <2>8, <2>9
<1>4. CASE WriteLands
  <2>1. PICK j \in jobs :
          /\ j.result = "pending"
          /\ IF j.rev > persisted
               THEN persisted' = j.rev /\ disk' = j.stamp
               ELSE UNCHANGED <<persisted, disk>>
          /\ Finish(j, "ok")
    BY <1>4 DEF WriteLands
  <2>2. UNCHANGED <<mem, revision, queued, task, failures, saved, reported>>
    BY <1>4 DEF WriteLands
  <2>3. j \in Job
    BY DEF TypeOK
  <2>4. Versions' \subseteq Versions
    BY <2>1, <2>2, <2>3 DEF Versions, Finish, Job
  <2>5. VersionsOrdered' /\ VersionsBounded'
    BY <1>0, <2>2, <2>4, VersionsStep
  <2>6. persisted <= persisted' /\ j.rev <= persisted' /\ persisted' \in Nat
    BY <2>1, <2>3 DEF TypeOK, Job
  <2>7. disk <= disk'
    <3>1. CASE j.rev > persisted
      <4>1. /\ [rev |-> j.rev, stamp |-> j.stamp] \in Versions
            /\ [rev |-> persisted, stamp |-> disk] \in Versions
        BY DEF Versions
      <4> QED BY <2>1, <2>3, <3>1, <4>1 DEF VersionsOrdered, Job, TypeOK
    <3> QED BY <2>1, <3>1 DEF TypeOK
  <2>8. \A w \in Writers : \A i \in JobsOf(w) : \E k \in JobsOf(w)' : k.rev = i.rev
    BY <2>1, FinishKeepsRevisions
  <2>9. SaveAccounted'
    BY <2>2, <2>6, <2>8 DEF SaveAccounted, TypeOK, Snapshot, Writers
  <2>10. WriterConsistent'
    <3>1. \A i \in jobs' : i.result = "ok" => i.rev <= persisted'
      BY <2>1, <2>3, <2>6 DEF Finish, WriterConsistent, TypeOK, Job
    <3>2. /\ task # "writing" => JobsOf(Background)' = {}
          /\ \A i, k \in JobsOf(Background)' : i = k
      BY <2>1, <2>3 DEF Finish, WriterConsistent, JobsOf, Job
    <3> QED BY <2>2, <3>1, <3>2 DEF WriterConsistent
  <2>11. ReportedIsDurable'
    BY <2>2, <2>7 DEF ReportedIsDurable, TypeOK
  <2> QED BY <2>5, <2>9, <2>10, <2>11
<1>5. CASE WriteFails
  <2>1. PICK j \in jobs :
          /\ j.result = "pending"
          /\ Finish(j, IF j.rev <= persisted THEN "ok" ELSE "failed")
    BY <1>5 DEF WriteFails
  <2>2. UNCHANGED <<mem, disk, revision, persisted, queued, task, failures, saved, reported>>
    BY <1>5 DEF WriteFails
  <2>3. j \in Job
    BY DEF TypeOK
  <2>4. Versions' \subseteq Versions
    BY <2>1, <2>2, <2>3 DEF Versions, Finish, Job
  <2>5. VersionsOrdered' /\ VersionsBounded'
    BY <1>0, <2>2, <2>4, VersionsStep
  <2>6. \A w \in Writers : \A i \in JobsOf(w) : \E k \in JobsOf(w)' : k.rev = i.rev
    BY <2>1, FinishKeepsRevisions
  <2>7. SaveAccounted'
    BY <2>2, <2>6 DEF SaveAccounted, Writers
  <2>8. WriterConsistent'
    <3>1. \A i \in jobs' : i.result = "ok" => i.rev <= persisted'
      BY <2>1, <2>2, <2>3 DEF Finish, WriterConsistent, TypeOK, Job
    <3>2. /\ task # "writing" => JobsOf(Background)' = {}
          /\ \A i, k \in JobsOf(Background)' : i = k
      BY <2>1, <2>3 DEF Finish, WriterConsistent, JobsOf, Job
    <3> QED BY <2>2, <3>1, <3>2 DEF WriterConsistent
  <2>9. ReportedIsDurable'
    BY <2>2 DEF ReportedIsDurable
  <2> QED BY <2>5, <2>7, <2>8, <2>9
<1>6. ASSUME NEW m \in Messages, Commit(m) PROVE DurabilityInv'
  <2> USE BackgroundAssumption
  <2>1. CASE CommitBegins(m) \/ EnsureBegins(m)
    <3>1. /\ revision' = revision + 1
          /\ jobs' = jobs \cup {NewJob(m, revision', mem')}
          /\ mem' \in {mem, mem + 1}
          /\ UNCHANGED <<disk, persisted, queued, task, failures, saved, reported>>
      BY <2>1 DEF CommitBegins, EnsureBegins
    <3>2. Versions' \subseteq Versions \cup {top}
      BY <3>1 DEF Versions, NewJob
    <3>3. VersionsOrdered' /\ VersionsBounded'
      BY <1>0, <3>1, <3>2, VersionsStep
    <3>4. JobsOf(Background)' = JobsOf(Background)
      BY <3>1 DEF JobsOf, NewJob
    <3>5. SaveAccounted' /\ ReportedIsDurable'
      BY <3>1, <3>4 DEF SaveAccounted, ReportedIsDurable
    <3>6. WriterConsistent'
      BY <3>1, <3>4 DEF WriterConsistent, NewJob
    <3> QED BY <3>3, <3>5, <3>6
  <2>2. CASE CommitEnds(m)
    <3>1. PICK j \in JobsOf(m) :
            /\ j.result # "pending"
            /\ jobs' = jobs \ {j}
            /\ reported' = IF j.result = "ok" THEN Later(reported, j.stamp) ELSE reported
      BY <2>2 DEF CommitEnds
    <3>2. UNCHANGED <<mem, disk, revision, persisted, queued, task, failures, saved>>
      BY <2>2 DEF CommitEnds
    <3>3. Versions' \subseteq Versions
      BY <3>1, <3>2 DEF Versions
    <3>4. VersionsOrdered' /\ VersionsBounded'
      BY <1>0, <3>2, <3>3, VersionsStep
    <3>5. j \in jobs /\ j \in Job
      BY DEF JobsOf, TypeOK
    <3>6. JobsOf(Background)' = JobsOf(Background)
      BY <3>1, <3>5 DEF JobsOf, Job
    <3>7. SaveAccounted' /\ WriterConsistent'
      BY <3>1, <3>2, <3>6 DEF SaveAccounted, WriterConsistent
    <3>8. ReportedIsDurable'
      <4>1. CASE j.result = "ok"
        <5>1. j.rev <= persisted
          BY <3>5, <4>1 DEF WriterConsistent
        <5>2. /\ [rev |-> j.rev, stamp |-> j.stamp] \in Versions
              /\ [rev |-> persisted, stamp |-> disk] \in Versions
          BY <3>5 DEF Versions
        <5>3. j.stamp <= disk
          BY <5>1, <5>2 DEF VersionsOrdered
        <5> QED BY <3>1, <3>2, <3>5, <5>3 DEF ReportedIsDurable, Later, Job, TypeOK
      <4> QED BY <3>1, <3>2, <4>1 DEF ReportedIsDurable
    <3> QED BY <3>4, <3>7, <3>8
  <2>3. CASE CommitCancelled(m)
    <3>1. PICK j \in JobsOf(m) :
            /\ j.result = "pending"
            /\ \/ UNCHANGED jobs
               \/ jobs' = (jobs \ {j}) \cup {[j EXCEPT !.by = {}]}
      BY <2>3 DEF CommitCancelled
    <3>2. UNCHANGED <<mem, disk, revision, persisted, queued, task, failures, saved, reported>>
      BY <2>3 DEF CommitCancelled
    <3>3. j \in jobs /\ j \in Job
      BY DEF JobsOf, TypeOK
    <3>4. Versions' \subseteq Versions
      BY <3>1, <3>2, <3>3 DEF Versions, Job
    <3>5. VersionsOrdered' /\ VersionsBounded'
      BY <1>0, <3>2, <3>4, VersionsStep
    <3>6. JobsOf(Background)' = JobsOf(Background)
      BY <3>1, <3>3 DEF JobsOf, Job
    <3>7. \A i \in jobs' : i.result = "ok" => i \in jobs
      BY <3>1, <3>3 DEF Job
    <3>8. SaveAccounted' /\ WriterConsistent'
      BY <3>2, <3>6, <3>7 DEF SaveAccounted, WriterConsistent
    <3> QED BY <3>2, <3>5, <3>8 DEF ReportedIsDurable
  <2> QED BY <1>6, <2>1, <2>2, <2>3 DEF Commit
<1>7. ASSUME NEW c \in Callers, FlushBegins(c) \/ FlushReturns(c) PROVE DurabilityInv'
  <2>1. UNCHANGED <<mem, disk, revision, persisted, queued, task, jobs, saved>>
    BY <1>7 DEF FlushBegins, FlushReturns
  <2>2. Versions' \subseteq Versions
    BY <2>1 DEF Versions
  <2>3. VersionsOrdered' /\ VersionsBounded'
    BY <1>0, <2>1, <2>2, VersionsStep
  <2>4. WriterConsistent'
    BY <2>1 DEF WriterConsistent, JobsOf
  <2>5. CASE FlushBegins(c)
    BY <2>1, <2>3, <2>4, <2>5 DEF FlushBegins, SaveAccounted, JobsOf, ReportedIsDurable
  <2>6. CASE FlushReturns(c)
    <3>1. SaveAccounted'
      BY <2>1, <2>6 DEF FlushReturns, SaveAccounted, JobsOf, Outstanding, TypeOK, Snapshot
    <3>2. CASE failures' = {}
      \* With no writer and no failure left, the last save is in the file.
      <4>1. saved.rev <= persisted
        BY <2>6, <3>2 DEF FlushReturns, SaveAccounted, WriterConsistent, Outstanding, TypeOK, Snapshot
      <4>2. /\ saved \in Versions
            /\ [rev |-> persisted, stamp |-> disk] \in Versions
        BY DEF Versions
      <4>3. saved.stamp <= disk
        BY <4>1, <4>2 DEF VersionsOrdered
      <4> QED BY <2>1, <2>3, <2>4, <2>6, <3>1, <3>2, <4>3
              DEF FlushReturns, Later, ReportedIsDurable
    <3>3. CASE failures' # {}
      BY <2>1, <2>3, <2>4, <2>6, <3>1, <3>3 DEF FlushReturns, ReportedIsDurable
    <3> QED BY <3>2, <3>3
  <2> QED BY <1>7, <2>5, <2>6
<1>8. CASE Crash
  <2>1. Versions' \subseteq {[rev |-> 0, stamp |-> disk]}
    BY <1>8 DEF Crash, Versions
  <2>2. VersionsOrdered' /\ VersionsBounded'
    BY <1>8, <2>1 DEF Crash, VersionsOrdered, VersionsBounded, TypeOK
  <2>3. SaveAccounted' /\ WriterConsistent' /\ ReportedIsDurable'
    BY <1>8 DEF Crash, SaveAccounted, WriterConsistent, JobsOf, ReportedIsDurable
  <2> QED BY <2>2, <2>3
<1>9. CASE UNCHANGED vars
  <2>1. Versions' = Versions
    BY <1>9 DEF vars, Versions
  <2> QED BY <1>9, <2>1 DEF vars, VersionsOrdered, VersionsBounded, SaveAccounted,
          WriterConsistent, JobsOf, ReportedIsDurable
<1> QED
  BY <1>1, <1>2, <1>3, <1>4, <1>5, <1>6, <1>7, <1>8, <1>9 DEF Next

(* The bookkeeping of the store holds in every reachable state.            *)
THEOREM DurabilityCorrect == Spec => []DurabilityInv
<1>1. Init => DurabilityInv
  BY DEF Init, DurabilityInv, TypeOK, Snapshot, Versions, VersionsOrdered,
         VersionsBounded, SaveAccounted, WriterConsistent, JobsOf, ReportedIsDurable
<1> QED
  BY <1>1, TypeCorrect, DurabilityStep, PTL DEF Spec

(* A state that flush_pending_writes or a commit reported as written is in *)
(* the state file from then on, over every crash.                          *)
THEOREM ReportedIsAlwaysDurable == Spec => []ReportedIsDurable
<1>1. DurabilityInv => ReportedIsDurable
  BY DEF DurabilityInv
<1> QED BY <1>1, DurabilityCorrect, PTL

-----------------------------------------------------------------------------
(* A thread puts a snapshot between the file's state and the memory's. *)
LEMMA LandsForward ==
  ASSUME DurabilityInv, WriteLands
  PROVE  disk' \in disk..mem
<1>1. PICK j \in jobs :
        IF j.rev > persisted THEN disk' = j.stamp ELSE disk' = disk
  BY DEF WriteLands
<1>2. j \in Job /\ disk \in Nat /\ mem \in Nat /\ persisted \in Nat
  BY DEF DurabilityInv, TypeOK
<1> DEFINE v == [rev |-> j.rev, stamp |-> j.stamp]
           f == [rev |-> persisted, stamp |-> disk]
<1>3. v \in Versions /\ f \in Versions
  BY DEF Versions
<1>4. j.stamp <= mem /\ disk <= mem
  BY <1>3, MemoryIsNewest DEF DurabilityInv
<1>5. j.rev > persisted => disk <= j.stamp
  BY <1>2, <1>3 DEF DurabilityInv, VersionsOrdered, Job
<1> QED BY <1>1, <1>2, <1>4, <1>5 DEF Job

(* Two threads may replace the file in any order; it never gets older.     *)
THEOREM DiskIsMonotone == Spec => DiskNeverRegresses
<1>1. DurabilityInv /\ [Next]_vars => [disk' >= disk]_vars
  <2> SUFFICES ASSUME DurabilityInv, Next PROVE disk' >= disk
    OBVIOUS
  <2>1. CASE WriteLands
    BY <2>1, LandsForward DEF DurabilityInv, TypeOK
  <2>2. CASE UNCHANGED disk
    BY <2>2 DEF DurabilityInv, TypeOK
  <2> QED
    BY <2>1, <2>2 DEF Next, Save, WriterBegins, WriterResumes, WriteFails, Commit,
       CommitBegins, EnsureBegins, CommitEnds, CommitCancelled, FlushBegins,
       FlushReturns, Crash
<1> QED
  BY <1>1, DurabilityCorrect, PTL DEF Spec, DiskNeverRegresses

(* The store implements the contract the rest of the bridge relies on.     *)
THEOREM ImplementsDurableStore == Spec => RefinesDurableStore
<1> USE DEF Contract!Next, Contract!Change, Contract!Persist, Contract!Report,
            Contract!Restart, Contract!vars
<1>1. Init => Contract!Init
  BY DEF Init, Contract!Init
<1>2. DurabilityInv /\ DurabilityInv' /\ [Next]_vars => [Contract!Next]_(Contract!vars)
  <2> SUFFICES ASSUME DurabilityInv, DurabilityInv', [Next]_vars
               PROVE  [Contract!Next]_(Contract!vars)
    OBVIOUS
  <2>0. /\ {mem, disk, reported} \subseteq Nat
        /\ reported' \in Nat /\ reported' <= disk'
    BY DEF DurabilityInv, TypeOK, ReportedIsDurable
  <2>1. CASE Save
    BY <2>1 DEF Save
  <2>2. CASE WriterBegins \/ WriterResumes \/ WriteFails
    BY <2>2 DEF WriterBegins, WriterResumes, WriteFails
  <2>3. CASE WriteLands
    <3>1. UNCHANGED <<mem, reported>>
      BY <2>3 DEF WriteLands
    <3> QED BY <2>0, <2>3, <3>1, LandsForward
  <2>4. ASSUME NEW m \in Messages, Commit(m)
        PROVE  [Contract!Next]_(Contract!vars)
    <3>1. CASE CommitBegins(m)
      BY <3>1 DEF CommitBegins
    <3>2. CASE EnsureBegins(m) \/ CommitCancelled(m)
      BY <3>2 DEF EnsureBegins, CommitCancelled
    <3>3. CASE CommitEnds(m)
      <4>1. UNCHANGED <<mem, disk>> /\ reported <= reported'
        BY <2>0, <3>3 DEF CommitEnds, JobsOf, Later, Job, DurabilityInv, TypeOK
      <4> QED BY <2>0, <4>1
    <3> QED BY <2>4, <3>1, <3>2, <3>3 DEF Commit
  <2>5. ASSUME NEW c \in Callers, FlushBegins(c) \/ FlushReturns(c)
        PROVE  [Contract!Next]_(Contract!vars)
    <3>1. UNCHANGED <<mem, disk>> /\ reported <= reported'
      BY <2>0, <2>5 DEF FlushBegins, FlushReturns, Later, DurabilityInv, TypeOK, Snapshot
    <3> QED BY <2>0, <3>1
  <2>6. CASE Crash
    BY <2>6 DEF Crash
  <2>7. CASE UNCHANGED vars
    BY <2>7 DEF vars
  <2> QED
    BY <2>1, <2>2, <2>3, <2>4, <2>5, <2>6, <2>7 DEF Next
<1> QED
  BY <1>1, <1>2, DurabilityCorrect, PTL DEF Spec, RefinesDurableStore, Contract!Spec

-----------------------------------------------------------------------------
MarkerInv == MarkersFollowed /\ CleanMarkersAreDurable

(* As long as the task of a message is cancelled at most once, the store   *)
(* never calls a marker clean that a crash would lose                      *)
(* (commit_inbound_message_processed, ensure_inbound_message_durable).     *)
THEOREM MarkersAreDurable ==
  ASSUME MaxCancels <= 1
  PROVE  Spec => []CleanMarkersAreDurable
<1>1. Init => MarkerInv
  BY DEF Init, MarkerInv, MarkersFollowed, CleanMarkersAreDurable, JobsOf
<1>2. MarkerInv /\ DurabilityInv /\ TypeOK' /\ [Next]_vars => MarkerInv'
  <2> SUFFICES ASSUME MarkerInv, DurabilityInv, TypeOK', [Next]_vars
               PROVE  MarkerInv'
    OBVIOUS
  <2> USE DEF MarkerInv, MarkersFollowed, CleanMarkersAreDurable
  <2>0. TypeOK /\ mem \in Nat /\ disk \in Nat /\ recorded \in [Messages -> Nat]
    BY DEF DurabilityInv, TypeOK
  <2>1. CASE Save
    BY <2>0, <2>1 DEF Save, JobsOf
  <2>2. CASE WriterBegins \/ WriterResumes
    <3>1. \A i \in jobs' : i \in jobs \/ i.by = {Background}
      <4>1. PICK others \in SUBSET jobs : WriterRuns(others)
        BY <2>2 DEF WriterBegins, WriterResumes
      <4>2. CASE WriterStarts(others)
        <5>1. PICK q \in queued : jobs' = others \cup {NewJob(Background, q.rev, q.stamp)}
          BY <4>2 DEF WriterStarts
        <5>2. NewJob(Background, q.rev, q.stamp).by = {Background}
          BY DEF NewJob
        <5> QED BY <5>1, <5>2
      <4>3. CASE WriterEnds(others)
        BY <4>3 DEF WriterEnds
      <4> QED BY <4>1, <4>2, <4>3 DEF WriterRuns
    <3>2. \A m \in Messages : JobsOf(m)' \subseteq JobsOf(m)
      BY <3>1, BackgroundAssumption DEF JobsOf
    <3> QED BY <2>2, <3>2 DEF WriterBegins, WriterResumes
  <2>3. CASE WriteLands \/ WriteFails
    <3>1. PICK j \in jobs, r \in {"ok", "failed"} : Finish(j, r)
      BY <2>3 DEF WriteLands, WriteFails
    <3>2. UNCHANGED <<mem, recorded, dirty>> /\ disk' \in Nat /\ disk <= disk'
      BY <2>0, <2>3, LandsForward DEF WriteLands, WriteFails
    <3>3. ASSUME NEW m \in Messages, NEW i \in JobsOf(m)'
          PROVE  \E k \in JobsOf(m) : k.stamp = i.stamp
      BY <2>0, <3>1 DEF Finish, JobsOf, Job, TypeOK
    <3> QED BY <2>0, <3>2, <3>3
  <2>4. ASSUME NEW m \in Messages, Commit(m) PROVE MarkerInv'
    <3>1. CASE CommitBegins(m)
      <4>1. \A n \in Messages \ {m} : JobsOf(n)' = JobsOf(n) /\ recorded'[n] = recorded[n]
        BY <2>0, <3>1 DEF CommitBegins, JobsOf, NewJob
      <4>2. \A i \in JobsOf(m)' : i.stamp = mem + 1
        BY <3>1 DEF CommitBegins, LockFree, JobsOf, NewJob
      <4>3. recorded'[m] = mem + 1 /\ m \in dirty'
        BY <2>0, <3>1 DEF CommitBegins
      <4> QED BY <2>0, <3>1, <4>1, <4>2, <4>3 DEF CommitBegins
    <3>2. CASE EnsureBegins(m)
      <4>1. \A n \in Messages : \A i \in JobsOf(n)' : i \in JobsOf(n) \/ i.stamp = mem
        BY <3>2 DEF EnsureBegins, JobsOf, NewJob
      <4> QED BY <2>0, <3>2, <4>1 DEF EnsureBegins
    <3>3. CASE CommitEnds(m)
      <4>1. PICK j \in JobsOf(m) :
              /\ j.result # "pending"
              /\ jobs' = jobs \ {j}
              /\ dirty' = IF j.result = "ok" THEN dirty \ {m} ELSE dirty
        BY <3>3 DEF CommitEnds
      <4>2. UNCHANGED <<mem, disk, recorded>>
        BY <3>3 DEF CommitEnds
      <4>3. j \in jobs /\ j \in Job
        BY <2>0 DEF JobsOf, TypeOK
      <4>4. ASSUME j.result = "ok" PROVE recorded[m] <= disk
        <5>1. j.rev <= persisted
          BY <4>3, <4>4 DEF DurabilityInv, WriterConsistent
        <5>2. /\ [rev |-> j.rev, stamp |-> j.stamp] \in Versions
              /\ [rev |-> persisted, stamp |-> disk] \in Versions
          BY <4>3 DEF Versions
        <5>3. j.stamp <= disk
          BY <5>1, <5>2 DEF DurabilityInv, VersionsOrdered
        <5> QED BY <2>0, <4>3, <5>3 DEF Job
      <4>5. \A n \in Messages : JobsOf(n)' \subseteq JobsOf(n)
        BY <4>1 DEF JobsOf
      <4> QED BY <4>1, <4>2, <4>4, <4>5
    <3>4. CASE CommitCancelled(m)
      <4>1. cancels[m] = 0
        BY <2>0, <3>4, BoundsAssumption DEF CommitCancelled, TypeOK
      <4> QED BY <3>4, <4>1 DEF CommitCancelled, JobsOf
    <3> QED BY <2>4, <3>1, <3>2, <3>3, <3>4 DEF Commit
  <2>5. ASSUME NEW c \in Callers, FlushBegins(c) \/ FlushReturns(c) PROVE MarkerInv'
    BY <2>5 DEF FlushBegins, FlushReturns, JobsOf
  <2>6. CASE Crash
    BY <2>0, <2>6 DEF Crash, JobsOf
  <2>7. CASE UNCHANGED vars
    BY <2>7 DEF vars, JobsOf
  <2> QED
    BY <2>1, <2>2, <2>3, <2>4, <2>5, <2>6, <2>7 DEF Next
<1>3. MarkerInv => CleanMarkersAreDurable
  BY DEF MarkerInv
<1> QED
  BY <1>1, <1>2, <1>3, TypeCorrect, DurabilityCorrect, PTL DEF Spec
=============================================================================
