-------------------------- MODULE StatePersistence --------------------------
(***************************************************************************)
(* How ConversationStore puts its JSON snapshot on disk (store.py).  Every *)
(* mutation on the event loop snapshots the whole state under a fresh      *)
(* revision and leaves it in a one-place queue for a background writer     *)
(* task; a processed inbound message is written at once by its own task;   *)
(* both hand the bytes to worker threads, which race to replace the file.  *)
(*                                                                         *)
(* A snapshot is a revision, which is local to one life of the process,    *)
(* and a stamp, the number of mutations it contains over all lives.        *)
(***************************************************************************)
EXTENDS Integers, FiniteSets

CONSTANTS
  Messages,     \* inbound messages whose processing is committed
  Callers,      \* tasks that call flush_pending_writes
  Background,   \* the name of the background writer among the writers
  MaxStamp,     \* bound on mutations
  MaxRevision,  \* bound on snapshots in one life of the process
  MaxCrashes,   \* bound on process crashes
  MaxCancels    \* how often the task that handles one message is cancelled

ASSUME BackgroundAssumption == Background \notin Messages
ASSUME BoundsAssumption ==
  {MaxStamp, MaxRevision, MaxCrashes, MaxCancels} \subseteq Nat

VARIABLES
  mem,        \* stamp of the state in memory
  disk,       \* stamp of the state in the file
  revision,   \* _next_state_revision
  persisted,  \* _persisted_state_revision
  queued,     \* _queued_state_write: at most one snapshot
  task,       \* _background_writer_task: "none", "ready" or "writing"
  jobs,       \* snapshots handed to worker threads, each with its result
  failures,   \* keys of _background_write_failures
  recorded,   \* stamp of the processed marker of a message, 0 if none
  dirty,      \* _dirty_inbound_commits
  cancels,    \* cancellations delivered to the task of each message
  flushing,   \* callers inside flush_pending_writes
  saved,      \* history: the last snapshot taken by _save in this life
  reported,   \* history: newest stamp a caller was told is on disk
  crashes     \* crashes so far

vars == <<mem, disk, revision, persisted, queued, task, jobs, failures,
          recorded, dirty, cancels, flushing, saved, reported, crashes>>

Writers == Messages \cup {Background}
Snapshot == [rev : Nat, stamp : Nat]
(* by = {} marks a thread whose awaiting task was cancelled away. *)
Job == [by : {{}} \cup {{w} : w \in Writers}, rev : Nat, stamp : Nat,
        result : {"pending", "ok", "failed"}]

TypeOK ==
  /\ mem \in Nat /\ disk \in Nat
  /\ revision \in Nat /\ persisted \in Nat
  /\ queued \in SUBSET Snapshot
  /\ task \in {"none", "ready", "writing"}
  /\ jobs \in SUBSET Job
  /\ failures \in SUBSET Nat
  /\ recorded \in [Messages -> Nat]
  /\ dirty \in SUBSET Messages
  /\ cancels \in [Messages -> Nat]
  /\ flushing \in SUBSET Callers
  /\ saved \in Snapshot
  /\ reported \in Nat
  /\ crashes \in Nat

Init ==
  /\ mem = 0 /\ disk = 0
  /\ revision = 0 /\ persisted = 0
  /\ queued = {} /\ task = "none" /\ jobs = {}
  /\ failures = {}
  /\ recorded = [m \in Messages |-> 0]
  /\ dirty = {}
  /\ cancels = [m \in Messages |-> 0]
  /\ flushing = {}
  /\ saved = [rev |-> 0, stamp |-> 0]
  /\ reported = 0 /\ crashes = 0

JobsOf(w) == {j \in jobs : w \in j.by}

NewJob(w, rev, stamp) ==
  [by |-> {w}, rev |-> rev, stamp |-> stamp, result |-> "pending"]

(* _discard_superseded_write_failures *)
Outstanding(revs) == {r \in revs : r > persisted}

Later(a, b) == IF a >= b THEN a ELSE b

-----------------------------------------------------------------------------
(* The event loop: mutations and the background writer. *)

(* Mutant: _save believes that a known writer task is always alive. *)
SaveWithoutRestart ==
  /\ mem < MaxStamp /\ revision < MaxRevision
  /\ mem' = mem + 1
  /\ revision' = revision + 1
  /\ saved' = [rev |-> revision + 1, stamp |-> mem + 1]
  /\ queued' = {saved'}
  /\ task' = IF revision = 0 THEN "ready" ELSE task
  /\ UNCHANGED <<disk, persisted, jobs, failures, recorded, dirty, cancels,
                 flushing, reported, crashes>>

(* A mutation of the store followed by _save: the newest snapshot takes    *)
(* the only place in the queue.                                            *)
Save ==
  /\ mem < MaxStamp /\ revision < MaxRevision
  /\ mem' = mem + 1
  /\ revision' = revision + 1
  /\ saved' = [rev |-> revision + 1, stamp |-> mem + 1]
  /\ queued' = {saved'}
  /\ task' = IF task = "none" THEN "ready" ELSE task
  /\ UNCHANGED <<disk, persisted, jobs, failures, recorded, dirty, cancels,
                 flushing, reported, crashes>>

(* The writer takes the queued snapshot unless a newer revision is in the  *)
(* file.  others are the jobs it leaves to their owners.                   *)
WriterStarts(others) ==
  \E q \in queued :
    /\ q.rev > persisted
    /\ jobs' = others \cup {NewJob(Background, q.rev, q.stamp)}
    /\ queued' = {}
    /\ task' = "writing"

(* Mutant: the writer waits for more work instead of ending. *)
WriterIdles(others) ==
  /\ \A q \in queued : q.rev <= persisted
  /\ queued' = {}
  /\ jobs' = others
  /\ task' = "ready"

WriterEnds(others) ==
  /\ \A q \in queued : q.rev <= persisted
  /\ queued' = {}
  /\ jobs' = others
  /\ task' = "none"

WriterRuns(others) == WriterStarts(others) \/ WriterEnds(others)

WriterBegins ==
  /\ task = "ready"
  /\ WriterRuns(jobs)
  /\ UNCHANGED <<mem, disk, revision, persisted, failures, recorded, dirty,
                 cancels, flushing, saved, reported, crashes>>

(* The awaited thread finished: a failure is kept for the next flush, and  *)
(* the loop goes on with whatever was queued meanwhile.                    *)
WriterResumes ==
  \E j \in JobsOf(Background) :
    /\ j.result # "pending"
    /\ failures' = Outstanding(
         failures \cup (IF j.result = "failed" THEN {j.rev} ELSE {}))
    /\ WriterRuns(jobs \ {j})
    /\ UNCHANGED <<mem, disk, revision, persisted, recorded, dirty, cancels,
                   flushing, saved, reported, crashes>>

-----------------------------------------------------------------------------
(* Worker threads: _write_serialized_state. *)

Finish(j, result) ==
  jobs' = (jobs \ {j}) \cup
          (IF j.by = {} THEN {} ELSE {[j EXCEPT !.result = result]})

(* Mutant: the file is replaced in the order in which the threads finish. *)
WriteLandsInAnyOrder ==
  \E j \in jobs :
    /\ j.result = "pending"
    /\ persisted' = j.rev /\ disk' = j.stamp
    /\ Finish(j, "ok")
    /\ UNCHANGED <<mem, revision, queued, task, failures, recorded, dirty,
                   cancels, flushing, saved, reported, crashes>>

(* Under _save_lock the newest revision wins and an older one is dropped. *)
WriteLands ==
  \E j \in jobs :
    /\ j.result = "pending"
    /\ IF j.rev > persisted
         THEN persisted' = j.rev /\ disk' = j.stamp
         ELSE UNCHANGED <<persisted, disk>>
    /\ Finish(j, "ok")
    /\ UNCHANGED <<mem, revision, queued, task, failures, recorded, dirty,
                   cancels, flushing, saved, reported, crashes>>

(* The I/O fails: an error only if no newer revision is in the file. *)
WriteFails ==
  \E j \in jobs :
    /\ j.result = "pending"
    /\ Finish(j, IF j.rev <= persisted THEN "ok" ELSE "failed")
    /\ UNCHANGED <<mem, disk, revision, persisted, queued, task, failures,
                   recorded, dirty, cancels, flushing, saved, reported,
                   crashes>>

-----------------------------------------------------------------------------
(* Processed inbound messages, serialized by _async_persistence_lock. *)

LockFree == \A m \in Messages : JobsOf(m) = {}

(* commit_inbound_message_processed up to the await of the write. *)
CommitBegins(m) ==
  /\ LockFree
  /\ recorded[m] = 0
  /\ mem < MaxStamp /\ revision < MaxRevision
  /\ mem' = mem + 1
  /\ revision' = revision + 1
  /\ recorded' = [recorded EXCEPT ![m] = mem + 1]
  /\ dirty' = dirty \cup {m}
  /\ jobs' = jobs \cup {NewJob(m, revision + 1, mem + 1)}
  /\ UNCHANGED <<disk, persisted, queued, task, failures, cancels, flushing,
                 saved, reported, crashes>>

(* ensure_inbound_message_durable: a duplicate of a message whose commit   *)
(* failed writes the current state again.                                  *)
EnsureBegins(m) ==
  /\ LockFree
  /\ m \in dirty
  /\ revision < MaxRevision
  /\ revision' = revision + 1
  /\ jobs' = jobs \cup {NewJob(m, revision + 1, mem)}
  /\ UNCHANGED <<mem, disk, persisted, queued, task, failures, recorded,
                 dirty, cancels, flushing, saved, reported, crashes>>

(* Mutant: the marker is clean whatever became of the write. *)
CommitEndsClean(m) ==
  \E j \in JobsOf(m) :
    /\ j.result # "pending"
    /\ jobs' = jobs \ {j}
    /\ dirty' = dirty \ {m}
    /\ reported' = IF j.result = "ok" THEN Later(reported, j.stamp) ELSE reported
    /\ UNCHANGED <<mem, disk, revision, persisted, queued, task, failures,
                   recorded, cancels, flushing, saved, crashes>>

(* The write is over: the marker is clean, or stays dirty for a retry. *)
CommitEnds(m) ==
  \E j \in JobsOf(m) :
    /\ j.result # "pending"
    /\ jobs' = jobs \ {j}
    /\ IF j.result = "ok"
         THEN /\ dirty' = dirty \ {m}
              /\ reported' = Later(reported, j.stamp)
         ELSE UNCHANGED <<dirty, reported>>
    /\ UNCHANGED <<mem, disk, revision, persisted, queued, task, failures,
                   recorded, cancels, flushing, saved, crashes>>

(* The task handling the message is cancelled while it awaits the shielded *)
(* write: _write_state_async awaits the write again and CommitEnds follows *)
(* as before.  A second cancellation hits that unshielded await: the task  *)
(* leaves at once, the marker counts as clean, the thread runs on alone.   *)
CommitCancelled(m) ==
  \E j \in JobsOf(m) :
    /\ j.result = "pending"
    /\ cancels[m] < MaxCancels
    /\ cancels' = [cancels EXCEPT ![m] = @ + 1]
    /\ IF cancels[m] = 0
         THEN UNCHANGED <<jobs, dirty>>
         ELSE /\ jobs' = (jobs \ {j}) \cup {[j EXCEPT !.by = {}]}
              /\ dirty' = dirty \ {m}
    /\ UNCHANGED <<mem, disk, revision, persisted, queued, task, failures,
                   recorded, flushing, saved, reported, crashes>>

-----------------------------------------------------------------------------
(* flush_pending_writes *)

FlushBegins(c) ==
  /\ c \notin flushing
  /\ flushing' = flushing \cup {c}
  /\ UNCHANGED <<mem, disk, revision, persisted, queued, task, jobs, failures,
                 recorded, dirty, cancels, saved, reported, crashes>>

(* Mutant: the flush answers without looking at the failed revisions. *)
FlushReturnsBlindly(c) ==
  /\ c \in flushing
  /\ task = "none"
  /\ flushing' = flushing \ {c}
  /\ failures' = Outstanding(failures)
  /\ reported' = Later(reported, saved.stamp)
  /\ UNCHANGED <<mem, disk, revision, persisted, queued, task, jobs, recorded,
                 dirty, cancels, saved, crashes>>

(* Returns once it sees no writer task; raises if a failed revision has    *)
(* not been superseded, otherwise tells the caller all saves are on disk.  *)
FlushReturns(c) ==
  /\ c \in flushing
  /\ task = "none"
  /\ flushing' = flushing \ {c}
  /\ failures' = Outstanding(failures)
  /\ reported' = IF failures' = {} THEN Later(reported, saved.stamp)
                                   ELSE reported
  /\ UNCHANGED <<mem, disk, revision, persisted, queued, task, jobs, recorded,
                 dirty, cancels, saved, crashes>>

-----------------------------------------------------------------------------
(* The process dies and the next one loads the file (_load). *)
Crash ==
  /\ crashes < MaxCrashes
  /\ crashes' = crashes + 1
  /\ mem' = disk
  /\ revision' = 0 /\ persisted' = 0
  /\ queued' = {} /\ task' = "none" /\ jobs' = {}
  /\ failures' = {}
  /\ recorded' = [m \in Messages |->
                    IF recorded[m] <= disk THEN recorded[m] ELSE 0]
  /\ dirty' = {}
  /\ cancels' = [m \in Messages |-> 0]
  /\ flushing' = {}
  /\ saved' = [rev |-> 0, stamp |-> disk]
  /\ UNCHANGED <<disk, reported>>

Commit(m) ==
  CommitBegins(m) \/ EnsureBegins(m) \/ CommitEnds(m) \/ CommitCancelled(m)

Next ==
  \/ Save \/ WriterBegins \/ WriterResumes
  \/ WriteLands \/ WriteFails
  \/ \E m \in Messages : Commit(m)
  \/ \E c \in Callers : FlushBegins(c) \/ FlushReturns(c)
  \/ Crash

(* The event loop runs every task that is ready, and a disk operation ends *)
(* one way or the other.                                                   *)
Fairness ==
  /\ WF_vars(WriterBegins) /\ WF_vars(WriterResumes)
  /\ WF_vars(WriteLands \/ WriteFails)
  /\ \A m \in Messages : WF_vars(CommitEnds(m))
  /\ \A c \in Callers : WF_vars(FlushReturns(c))

Spec == Init /\ [][Next]_vars /\ Fairness

-----------------------------------------------------------------------------
(* The state file never goes back to an older state, although two threads  *)
(* replace it in any order (_write_serialized_state).                      *)
DiskNeverRegresses == [][disk' >= disk]_vars

(* Whatever flush_pending_writes or a commit reported as written is in the *)
(* file, now and after any crash.                                          *)
ReportedIsDurable == reported <= disk

(* A processed marker that is not dirty is on disk: the duplicate of such  *)
(* a message skips ensure_inbound_message_durable and is acknowledged.     *)
CleanMarkersAreDurable ==
  \A m \in Messages : m \notin dirty => recorded[m] <= disk

(* A saved state reaches the disk or is remembered as a failure that the   *)
(* next flush reports; it is never forgotten in the queue.                 *)
SaveSettles ==
  saved.rev > persisted ~> \/ saved.rev <= persisted
                           \/ saved.rev \in failures

(* A caller that flushes gets an answer. *)
FlushAnswers == \A c \in Callers : c \in flushing ~> c \notin flushing

(* The file behaves as the store promises. *)
Contract == INSTANCE DurableStore WITH live <- mem, file <- disk
RefinesDurableStore == Contract!Spec

-----------------------------------------------------------------------------
(* Strengthenings that make ReportedIsDurable inductive. *)

Versions ==
  {saved, [rev |-> persisted, stamp |-> disk], [rev |-> revision, stamp |-> mem]}
    \cup queued \cup {[rev |-> j.rev, stamp |-> j.stamp] : j \in jobs}

(* Revisions and stamps order all the snapshots alike. *)
VersionsOrdered ==
  \A a, b \in Versions : a.rev <= b.rev => a.stamp <= b.stamp

VersionsBounded == \A a \in Versions : a.rev <= revision

(* Nobody loses the last save: it is on disk, queued, being written by the *)
(* background writer, or remembered as failed.                             *)
SaveAccounted ==
  \/ saved.rev <= persisted
  \/ saved \in queued
  \/ \E j \in JobsOf(Background) : j.rev = saved.rev
  \/ saved.rev \in failures

WriterConsistent ==
  /\ task = "none" => queued = {}
  /\ \A a, b \in queued : a = b
  /\ task # "writing" => JobsOf(Background) = {}
  /\ \A i, j \in JobsOf(Background) : i = j
  /\ \A j \in jobs : j.result = "ok" => j.rev <= persisted

(* The job of a message writes a state that contains its marker. *)
MarkersFollowed ==
  \A m \in Messages :
    /\ recorded[m] <= mem
    /\ \A j \in JobsOf(m) : recorded[m] <= j.stamp

DurabilityInv ==
  /\ TypeOK
  /\ VersionsOrdered
  /\ VersionsBounded
  /\ SaveAccounted
  /\ WriterConsistent
  /\ ReportedIsDurable
=============================================================================
