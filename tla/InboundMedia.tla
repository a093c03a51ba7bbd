------------------------------ MODULE InboundMedia ------------------------------
(***************************************************************************)
(* Pictures and files users send.  A channel has one materializer for      *)
(* images and one for files; both keep what they downloaded in the same    *)
(* directory until it is a day old.  Everything that touches the directory *)
(* is done by a child process under a file lock, one process for a look    *)
(* (sweep, quota), one to stage a batch, one to clean up after a batch that *)
(* failed.  The event loop waits for the child, takes its answer, and      *)
(* terminates it when the deadline passes or the handler is cancelled.  A  *)
(* materializer that is not sure of the directory any more refuses all.    *)
(***************************************************************************)
EXTENDS Naturals, Sequences, FiniteSetsExt, SequencesExt

CONSTANTS
  Fetches,     \* calls of materialize, and the periodic sweeps
  Kind,        \* [Fetches -> materializer]
  Batch,       \* [Fetches -> Seq of files], empty for a sweep
  BatchLimit,  \* MAX_IMAGE_COUNT, MAX_FILE_COUNT
  Corrupt,     \* files the verification rejects
  Unavailable, \* files the download rejects
  Quota,       \* MEDIA_QUOTA_BYTES, every file counting one
  Unheld

VARIABLES
  fetch,       \* [Fetches -> where the call is, and how it ended]
  mutex,       \* _spool_lock of each materializer
  worker,      \* [Workers -> state of the child process]
  flock,       \* the worker that holds the file lock
  directory,   \* [SpoolFiles -> "none", "part" or "file"]
  old,         \* files older than MEDIA_RETENTION_S, kept or swept
  tainted,     \* materializers with _tainted
  stopped,     \* materializers with _closed
  doomed,      \* workers stop() is about to terminate
  orphans,     \* workers a termination could not end
  setbacks     \* how many faults may still happen

mediaVars ==
  <<fetch, mutex, worker, flock, directory, old, tainted, stopped, doomed, orphans,
    setbacks>>

Kinds == {Kind[c] : c \in Fetches}
Sweeps == {c \in Fetches : Batch[c] = <<>>}
SpoolFiles == UNION {ToSet(Batch[c]) : c \in Fetches}
Workers == Fetches \X {"look", "stage", "clean"}
(* A stored file has a name of its own, with a token of 16 bytes
   (media.py:289, 625); two calls never share one. *)
MediaAssumed ==
  /\ IsFiniteSet(SpoolFiles)
  /\ \A c \in Fetches : Batch[c] \in Seq(SpoolFiles)
  /\ \A c, d \in Fetches : c # d => ToSet(Batch[c]) \intersect ToSet(Batch[d]) = {}
  /\ Unheld \notin Workers
  /\ Quota \in Nat
ASSUME MediaAssumption == MediaAssumed

Living == {w \in Workers : worker[w] \in {"polls", "holds", "writes"}}
Stuck == orphans \cap Living

MediaInit(calls, faults) ==
  /\ fetch = [c \in Fetches |-> IF c \in calls THEN "idle" ELSE "never"]
  /\ mutex = [k \in Kinds |-> Unheld]
  /\ worker = [w \in Workers |-> "none"] /\ flock = Unheld
  /\ directory = [f \in SpoolFiles |-> "none"]
  /\ old = {} /\ tainted = {} /\ stopped = {} /\ doomed = {}
  /\ orphans = {}
  /\ setbacks = faults

-----------------------------------------------------------------------------
(* The child processes. *)

Unlock(w) == flock' = IF flock = w THEN Unheld ELSE flock
WorkerExits(w, how) == worker' = [worker EXCEPT ![w] = how] /\ Unlock(w)
Erase(files) == [f \in SpoolFiles |-> IF f \in files THEN "none" ELSE directory[f]]
Usage == Cardinality({f \in SpoolFiles : directory[f] # "none"})
Young == Cardinality({f \in SpoolFiles : directory[f] # "none" /\ f \notin old})
Own(w) == ToSet(Batch[w[1]])

\* _try_process_lock_path, polled.
Locks(w) ==
  /\ worker[w] = "polls" /\ flock = Unheld
  /\ flock' = w
  /\ worker' = [worker EXCEPT ![w] = "holds"]
  /\ UNCHANGED <<fetch, mutex, directory, old, tainted, stopped, doomed, orphans,
                 setbacks>>

\* What is old goes before the quota is looked at.
FullFor(c) == c \notin Sweeps /\ Young >= Quota
HasRoom(c) == Young + Len(Batch[c]) <= Quota
LooksOver(w) ==
  /\ w[2] = "look" /\ worker[w] = "holds"
  /\ directory' = Erase(old)
  /\ WorkerExits(w, IF FullFor(w[1]) THEN "error" ELSE "ok")
  /\ UNCHANGED <<fetch, mutex, old, tainted, stopped, doomed, orphans, setbacks>>

Admits(w) ==
  /\ w[2] = "stage" /\ worker[w] = "holds"
  /\ directory' = Erase(old)
  /\ IF HasRoom(w[1])
       THEN worker' = [worker EXCEPT ![w] = "writes"] /\ UNCHANGED flock
       ELSE WorkerExits(w, "error")
  /\ UNCHANGED <<fetch, mutex, old, tainted, stopped, doomed, orphans, setbacks>>

\* A file is written under another name, verified, and renamed.
NextFile(w, f) ==
  /\ w[2] = "stage" /\ worker[w] = "writes"
  /\ \E i \in DOMAIN Batch[w[1]] :
       /\ f = Batch[w[1]][i] /\ directory[f] # "file"
       /\ \A j \in 1..(i - 1) : directory[Batch[w[1]][j]] = "file"
WritesPart(w, f) ==
  /\ NextFile(w, f) /\ directory[f] = "none"
  /\ directory' = [directory EXCEPT ![f] = "part"]
  /\ UNCHANGED <<fetch, mutex, worker, flock, old, tainted, stopped, doomed,
                 orphans, setbacks>>
PlacesFile(w, f) ==
  /\ NextFile(w, f) /\ directory[f] = "part" /\ f \notin Corrupt
  /\ directory' = [directory EXCEPT ![f] = "file"]
  /\ UNCHANGED <<fetch, mutex, worker, flock, old, tainted, stopped, doomed,
                 orphans, setbacks>>
RejectsFile(w, f) ==
  /\ NextFile(w, f) /\ directory[f] = "part" /\ f \in Corrupt
  /\ directory' = Erase(Own(w)) /\ WorkerExits(w, "error")
  /\ UNCHANGED <<fetch, mutex, old, tainted, stopped, doomed, orphans, setbacks>>
Completes(w) ==
  /\ w[2] = "stage" /\ worker[w] = "writes"
  /\ \A f \in Own(w) : directory[f] = "file"
  /\ WorkerExits(w, "ok")
  /\ UNCHANGED <<fetch, mutex, directory, old, tainted, stopped, doomed, orphans,
                 setbacks>>

Removes(w) ==
  /\ w[2] = "clean" /\ worker[w] = "holds"
  /\ directory' = Erase(Own(w)) /\ WorkerExits(w, "ok")
  /\ UNCHANGED <<fetch, mutex, old, tainted, stopped, doomed, orphans, setbacks>>

\* The file system fails; the worker that stages removes its files as far as
\* it can.
Fails(w) ==
  /\ worker[w] \in {"holds", "writes"}
  /\ setbacks > 0 /\ setbacks' = setbacks - 1
  /\ directory' \in {directory} \union (IF w[2] = "stage" THEN {Erase(Own(w))} ELSE {})
  /\ WorkerExits(w, "error")
  /\ UNCHANGED <<fetch, mutex, old, tainted, stopped, doomed, orphans>>

\* Somebody else kills the process.
WorkerDies(w) ==
  /\ w \in Living
  /\ setbacks > 0 /\ setbacks' = setbacks - 1
  /\ WorkerExits(w, "dead")
  /\ UNCHANGED <<fetch, mutex, directory, old, tainted, stopped, doomed, orphans>>

-----------------------------------------------------------------------------
(* The event loop. *)

Pause(c) == IF c \in Sweeps THEN "idle" ELSE "error"
Returns(c, how) ==
  /\ fetch' = [fetch EXCEPT ![c] = how]
  /\ mutex' = [mutex EXCEPT ![Kind[c]] = IF @ = c THEN Unheld ELSE @]
Starts(c, what) == worker' = [worker EXCEPT ![<<c, what>>] = "polls"]
\* _run_process returns or raises.
Answer(c, what) == worker[<<c, what>>]
HasAnswered(c, what) == Answer(c, what) \in {"ok", "error", "dead"}

\* The checks come before the wait for the lock.  A sweep that would find
\* nothing is left out.
Calls(c) ==
  /\ fetch[c] = "idle"
  /\ Kind[c] \notin tainted /\ Len(Batch[c]) <= BatchLimit
  /\ c \in Sweeps => Kind[c] \notin stopped /\ \E f \in old : directory[f] # "none"
  /\ fetch' = [fetch EXCEPT ![c] = "waits"]
  /\ UNCHANGED <<mutex, worker, flock, directory, old, tainted, stopped, doomed,
                 orphans, setbacks>>
CallRefused(c) ==
  /\ fetch[c] = "idle" /\ c \notin Sweeps
  /\ Kind[c] \in tainted \/ Len(Batch[c]) > BatchLimit
  /\ fetch' = [fetch EXCEPT ![c] = "error"]
  /\ UNCHANGED <<mutex, worker, flock, directory, old, tainted, stopped, doomed,
                 orphans, setbacks>>

Enters(c) ==
  /\ fetch[c] = "waits" /\ mutex[Kind[c]] = Unheld
  /\ mutex' = [mutex EXCEPT ![Kind[c]] = c]
  /\ fetch' = [fetch EXCEPT ![c] = "looks"]
  /\ Starts(c, "look")
  /\ UNCHANGED <<flock, directory, old, tainted, stopped, doomed, orphans, setbacks>>

Looked(c) ==
  /\ fetch[c] = "looks" /\ HasAnswered(c, "look")
  /\ IF Answer(c, "look") = "ok" /\ c \notin Sweeps
       THEN fetch' = [fetch EXCEPT ![c] = "downloads"] /\ UNCHANGED mutex
       ELSE Returns(c, Pause(c))
  /\ worker' = [worker EXCEPT ![<<c, "look">>] = "none"]
  /\ UNCHANGED <<flock, directory, old, tainted, stopped, doomed, orphans, setbacks>>

\* _download_image of the platform, for every reference.
Retrieved(c) == ToSet(Batch[c]) \cap Unavailable = {}
Downloads(c) ==
  /\ fetch[c] = "downloads" /\ Retrieved(c)
  /\ fetch' = [fetch EXCEPT ![c] = "stages"]
  /\ Starts(c, "stage")
  /\ UNCHANGED <<mutex, flock, directory, old, tainted, stopped, doomed, orphans,
                 setbacks>>
DownloadFails(c) ==
  /\ fetch[c] = "downloads" /\ ~Retrieved(c)
  /\ Returns(c, "error")
  /\ UNCHANGED <<worker, flock, directory, old, tainted, stopped, doomed, orphans,
                 setbacks>>

Staged(c) ==
  /\ fetch[c] = "stages" /\ Answer(c, "stage") = "ok"
  /\ Returns(c, "ok")
  /\ worker' = [worker EXCEPT ![<<c, "stage">>] = "none"]
  /\ UNCHANGED <<flock, directory, old, tainted, stopped, doomed, orphans, setbacks>>
NotStaged(c) ==
  /\ fetch[c] = "stages" /\ Answer(c, "stage") \in {"error", "dead"}
  /\ fetch' = [fetch EXCEPT ![c] = "cleans"]
  /\ worker' = [worker EXCEPT ![<<c, "stage">>] = "none", ![<<c, "clean">>] = "polls"]
  /\ UNCHANGED <<mutex, flock, directory, old, tainted, stopped, doomed, orphans,
                 setbacks>>

\* A cleanup that failed leaves the directory in doubt.
Cleaned(c) ==
  /\ fetch[c] = "cleans" /\ HasAnswered(c, "clean")
  /\ Returns(c, "error")
  /\ tainted' = IF Answer(c, "clean") = "ok" THEN tainted ELSE tainted \union {Kind[c]}
  /\ worker' = [worker EXCEPT ![<<c, "clean">>] = "none"]
  /\ UNCHANGED <<flock, directory, old, stopped, doomed, orphans, setbacks>>

\* The deadline of the call or of its cleanup, or a cancelled handler.  It
\* finds a worker that is stuck, or counts as a fault.
Phases == [looks |-> "look", stages |-> "stage", cleans |-> "clean"]
Task(c) == IF fetch[c] \in DOMAIN Phases THEN {<<c, Phases[fetch[c]]>>} ELSE {}
\* Not the code: no deadline.
NeverHangs(c) == FALSE
Hangs(c) == (Stuck \cap Task(c) # {}) \/ flock \in Stuck
CallGivesUp(c) ==
  /\ fetch[c] \in {"waits", "looks", "downloads", "stages", "cleans"}
  /\ \E killed \in BOOLEAN :
       LET lasts == Task(c) \cap Living  ends == fetch[c] # "stages"
       IN  /\ setbacks' = setbacks - (IF Hangs(c) THEN 0 ELSE 1)
                                 - (IF killed \/ lasts \subseteq orphans THEN 0 ELSE 1)
           /\ setbacks' \in Nat
           /\ killed => lasts \cap orphans = {}
           /\ lasts = {} => killed
           /\ orphans' = IF killed THEN orphans ELSE orphans \union lasts
           /\ tainted' = IF killed /\ fetch[c] # "cleans" THEN tainted
                         ELSE tainted \union {Kind[c]}
           /\ IF ends THEN Returns(c, Pause(c))
              ELSE fetch' = [fetch EXCEPT ![c] = "cleans"] /\ UNCHANGED mutex
           /\ worker' = [w \in Workers |->
                IF w = <<c, "clean">> /\ ~ends THEN "polls"
                ELSE IF w \in Task(c) /\ (killed \/ w \notin Living) THEN "none"
                ELSE worker[w]]
           /\ flock' = IF killed /\ flock \in Task(c) THEN Unheld ELSE flock
  /\ UNCHANGED <<directory, old, stopped, doomed>>

\* stop() ends the sweep (one that is under way gives up first) and then
\* terminates the workers it finds, one after the other; the calls that own
\* them learn it from the exit code and go on.
StopsMedia(k) ==
  /\ k \notin stopped /\ \A c \in Sweeps : Kind[c] = k => fetch[c] \in {"idle", "never"}
  /\ setbacks > 0 /\ setbacks' = setbacks - 1
  /\ stopped' = stopped \union {k}
  /\ doomed' = doomed \union {w \in Living : Kind[w[1]] = k}
  /\ UNCHANGED <<fetch, mutex, worker, flock, directory, old, tainted, orphans>>
Terminates(w) ==
  /\ w \in doomed /\ doomed' = doomed \ {w}
  /\ \/ w \notin Living /\ UNCHANGED <<worker, flock, tainted, orphans, setbacks>>
     \/ /\ w \in Living \ orphans /\ WorkerExits(w, "dead")
        /\ UNCHANGED <<tainted, orphans, setbacks>>
     \/ /\ w \in Living /\ (w \notin orphans => setbacks > 0)
        /\ setbacks' = IF w \in orphans THEN setbacks ELSE setbacks - 1
        /\ orphans' = orphans \union {w}
        /\ tainted' = tainted \union {Kind[w[1]]}
        /\ UNCHANGED <<worker, flock>>
  /\ UNCHANGED <<fetch, mutex, directory, old, stopped>>

\* A day is much longer than a call.
Ages(f) ==
  /\ f \notin old /\ directory[f] # "none"
  /\ \A c \in Fetches : f \in ToSet(Batch[c]) => fetch[c] \in {"ok", "error"}
  /\ old' = old \union {f}
  /\ UNCHANGED <<fetch, mutex, worker, flock, directory, tainted, stopped, doomed,
                 orphans, setbacks>>

WorkerNext(w) ==
  \/ Locks(w) \/ LooksOver(w) \/ Admits(w) \/ Completes(w) \/ Removes(w)
  \/ \E f \in SpoolFiles : WritesPart(w, f) \/ PlacesFile(w, f) \/ RejectsFile(w, f)
CallNext(c) ==
  \/ Calls(c) \/ CallRefused(c) \/ Enters(c) \/ Looked(c) \/ Downloads(c)
  \/ DownloadFails(c) \/ Staged(c) \/ NotStaged(c) \/ Cleaned(c)
MediaNext ==
  \/ \E w \in Workers : WorkerNext(w) \/ Fails(w) \/ WorkerDies(w) \/ Terminates(w)
  \/ \E c \in Fetches : CallNext(c) \/ CallGivesUp(c)
  \/ \E k \in Kinds : StopsMedia(k)
  \/ \E f \in SpoolFiles : Ages(f)

\* What goes on by itself.  Processes that can be killed make progress, calls
\* take the answers they wait for, deadlines fire, time passes.  A process nobody
\* could terminate need not do anything any more.
ProcessesRun == \E w \in Workers \ orphans : WorkerNext(w) \/ Terminates(w)
CallRuns(c) == CallNext(c) \/ (Hangs(c) /\ CallGivesUp(c))
TimePasses == \E f \in SpoolFiles : Ages(f)

-----------------------------------------------------------------------------
(* Properties. *)

MediaTypeOK ==
  /\ fetch \in [Fetches -> {"never", "idle", "waits", "looks", "downloads", "stages",
                            "cleans", "ok", "error"}]
  /\ mutex \in [Kinds -> Fetches \union {Unheld}]
  /\ worker \in [Workers -> {"none", "polls", "holds", "writes", "ok", "error", "dead"}]
  /\ flock \in Workers \union {Unheld}
  /\ directory \in [SpoolFiles -> {"none", "part", "file"}]
  /\ old \subseteq SpoolFiles /\ orphans \subseteq Workers /\ doomed \subseteq Workers
  /\ tainted \subseteq Kinds /\ stopped \subseteq Kinds
  /\ setbacks \in Nat

\* The handler is told what the directory holds: the files of a batch that
\* succeeded are all there for a day, and of a batch that failed none is left,
\* not even a half written one, unless the materializer refuses all further
\* work (_cleanup_known_paths, _tainted).
SpoolMatchesResults ==
  \A c \in Fetches : \A f \in ToSet(Batch[c]) :
    /\ fetch[c] = "ok" => directory[f] = "file" \/ f \in old
    /\ fetch[c] = "error" => directory[f] = "none" \/ Kind[c] \in tainted

\* Two materializers that both found room when they looked, downloaded, and
\* staged never put more into the directory than the quota, not even when a
\* worker outlives its call (the check is repeated under the file lock).
QuotaHolds == Usage <= Quota

\* Every call returns to its channel, even while a process that cannot be
\* killed keeps the file lock.
FetchesReturn ==
  /\ []<>(\A c \in Fetches \ Sweeps : fetch[c] \in {"never", "idle", "ok", "error"})
  /\ \A c \in Sweeps : []<>(fetch[c] \in {"never", "idle"})

\* What is old leaves the directory, also what a failed cleanup left there,
\* as long as one of the materializers still sweeps and no process that
\* cannot be killed is left.
OldIsSwept ==
  []<>(\/ \A f \in old : directory[f] = "none"
       \/ Stuck # {}
       \/ \A c \in Sweeps : fetch[c] = "never" \/ Kind[c] \in tainted \union stopped)
=============================================================================
