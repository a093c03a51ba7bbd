----------------------------- MODULE OutboundSpool -----------------------------
(***************************************************************************)
(* Files on their way to an IM conversation.  A client of the delivery API *)
(* uploads files under a delivery id of its own; native turns produce      *)
(* pictures.  Both are copied into a spool directory and handed to the     *)
(* outbox, which sends a message file by file, remembers what is left, and *)
(* tries again.  A cleanup in a worker thread removes from the spool what  *)
(* nothing refers to any more, while everything else goes on.              *)
(*                                                                         *)
(* All messages go to one conversation: TerminalOutbox has several.        *)
(***************************************************************************)
EXTENDS Naturals, Sequences, FiniteSetsExt, SequencesExt

CONSTANTS
  Deliveries,  \* calls of the delivery API
  KeyOf,       \* [Deliveries \union FileTurns -> [id, content]]
  Uploads,     \* [Deliveries -> Seq of file names], unique to the request
  FileTurns,   \* native turns
  Image,       \* [FileTurns -> file], named by its content
  AckLimit,    \* _STANDALONE_DELIVERY_ACK_LIMIT
  SpoolLimit,  \* how many files the spool holds (_MAX_SPOOL_BYTES)
  NoOne

VARIABLES
  spool,       \* the files in the directory
  leased,      \* _leased_paths of the stager
  uploading,   \* _active_standalone_artifact_paths
  recovering,  \* _active_recovery_artifact_paths
  buffers,     \* [FileTurns -> artifacts in the buffer of the turn]
  cleaner,     \* who holds _outbound_artifact_stage_lock, what a cleanup keeps
  sender,      \* who holds _terminal_projection_lock
  outbox,      \* the store in memory: pending messages in order, receipts
  outboxSaved, \* the same in the state file
  retry,       \* the retry task, and the receipts it still has to save
  job,         \* where a request or a turn is, how its request was answered
  mishaps,     \* how many faults may still happen
  (* History. *)
  sends,       \* how often a file of a message was sent
  refused,     \* files a notice has taken the place of
  doubts,      \* how often such a sending was not confirmed or not recorded
  done,        \* messages sent completely
  pruned,      \* ids whose receipts the limit has removed
  unleased     \* files whose lease was given up, or disregarded, while in use

spoolVars ==
  <<spool, leased, uploading, recovering, buffers, cleaner, sender, outbox, outboxSaved,
    retry, job, mishaps, sends, refused, doubts, done, pruned, unleased>>
fileVars == <<spool, leased, uploading, recovering, buffers, cleaner>>
histVars == <<sends, refused, doubts, done, pruned>>

Actors == Deliveries \union FileTurns
UploadsOf(r) == ToSet(Uploads[r])
DeliveryKeys == {KeyOf[x] : x \in Actors}
Files == (UNION {ToSet(Uploads[r]) : r \in Deliveries}) \union {Image[t] : t \in FileTurns}
(* An upload is stored under a name of its own (outbound_artifacts.py:255-270), a
   client posts every file of a request once, and the delivery id of a turn names
   that turn only (terminal_identity.py). *)
SpoolAssumed ==
  /\ NoOne \notin Actors /\ "retry" \notin Actors /\ NoOne \notin {"retry", "delivered", "queued"}
  /\ Deliveries \intersect FileTurns = {}
  /\ \A r \in Deliveries :
       /\ Uploads[r] \in Seq(Files)
       /\ \A i, j \in DOMAIN Uploads[r] : Uploads[r][i] = Uploads[r][j] => i = j
       /\ \A q \in Deliveries : UploadsOf(q) \intersect UploadsOf(r) # {} => q = r
       /\ \A t \in FileTurns : Image[t] \notin UploadsOf(r)
  /\ \A t \in FileTurns, x \in Actors : KeyOf[x].id = KeyOf[t].id => x = t
  /\ AckLimit \in Nat \ {0}
ASSUME SpoolAssumption == SpoolAssumed

NoLane == [who |-> NoOne, step |-> "none", key |-> NoOne, left |-> <<>>,
           rest |-> <<>>]
NoCleaner == [who |-> NoOne, keeps |-> {}]

SpoolInit(actors, faults) ==
  /\ spool = {} /\ leased = {} /\ uploading = {} /\ recovering = {}
  /\ buffers = [t \in FileTurns |-> {}]
  /\ cleaner = NoCleaner /\ sender = NoLane
  /\ outbox = [pending |-> <<>>, acks |-> <<>>] /\ outboxSaved = outbox
  /\ retry = [on |-> FALSE, receipts |-> FALSE]
  /\ job = [x \in Actors |-> [at |-> IF x \in actors THEN "new" ELSE "done",
                               staged |-> 0, code |-> NoOne]]
  /\ mishaps = faults
  /\ sends = [p \in DeliveryKeys \X Files |-> 0] /\ doubts = sends /\ refused = {}
  /\ done = {} /\ pruned = {} /\ unleased = {}

Mishap == mishaps > 0 /\ mishaps' = mishaps - 1
NoMishap == UNCHANGED mishaps
Stands(x, place) == job[x].at = place
Moves(x, place) == job' = [job EXCEPT ![x].at = place]
AnswersWith(x, place, code) ==
  job' = [job EXCEPT ![x].at = place, ![x].code = code]
StageLockFree == cleaner.who = NoOne
LaneFree == sender.who = NoOne
EntryOf(store, k) == CHOOSE e \in ToSet(store.pending) : e.key = k
PendingKeys(store) == {e.key : e \in ToSet(store.pending)}
FilesIn(store) == UNION {ToSet(e.files) : e \in ToSet(store.pending)}
Buffered(b) == UNION {b[t] : t \in FileTurns}
(* Not the code: uploads in progress are not referenced. *)
ReferencedWithoutActive == FilesIn(outbox) \union Buffered(buffers) \union recovering
(* What _cleanup_outbound_artifact_spool_locked collects. *)
Referenced == FilesIn(outbox) \union Buffered(buffers) \union recovering \union uploading
-----------------------------------------------------------------------------
(* A cleanup: references are collected on the loop, files removed in a
   thread; the stager's own lock makes it see the leases of that moment. *)
CleanupBegins(x) ==
  /\ \/ x \in Actors /\ Stands(x, "tidying")
     \/ sender.who = x /\ sender.step = "tidy"
  /\ StageLockFree /\ cleaner' = [who |-> x, keeps |-> Referenced]
  /\ UNCHANGED <<spool, leased, uploading, recovering, buffers, sender, outbox,
                 outboxSaved,
                 retry, job, mishaps, histVars, unleased>>
Kept == spool \intersect (cleaner.keeps \union leased)
CleanupEnds ==
  LET x == cleaner.who
  IN /\ ~StageLockFree
     /\ spool' = Kept /\ cleaner' = NoCleaner
     /\ job' = IF x \in Actors /\ Stands(x, "tidying")
                  THEN [job EXCEPT ![x].at = "done"] ELSE job
     /\ sender' = IF sender.who = x /\ sender.step = "tidy" THEN NoLane ELSE sender
     /\ UNCHANGED <<leased, uploading, recovering, buffers, outbox, outboxSaved,
                    retry,
                    mishaps, histVars, unleased>>
-----------------------------------------------------------------------------
(* The delivery API. *)
PostFiles(r) ==
  /\ Stands(r, "new") /\ Moves(r, "staging")
  /\ UNCHANGED <<fileVars, sender, outbox, outboxSaved, retry, mishaps, histVars,
                 unleased>>
(* No route, no channel, a malformed form: nothing has happened yet. *)
Reject(r) ==
  /\ Stands(r, "new") /\ Mishap /\ AnswersWith(r, "done", "rejected")
  /\ UNCHANGED <<fileVars, sender, outbox, outboxSaved, retry, histVars, unleased>>

StillStaging(r) ==
  Stands(r, "staging") /\ job[r].staged < Len(Uploads[r]) /\ StageLockFree
NextUpload(r) == Uploads[r][job[r].staged + 1]
Room == Cardinality(spool) < SpoolLimit
(* stage_outbound_upload: the file is there, and active instead of leased,
   before anybody else gets the lock. *)
StageUpload(r) ==
  /\ StillStaging(r) /\ Room
  /\ spool' = spool \union {NextUpload(r)}
  /\ uploading' = uploading \union {NextUpload(r)}
  /\ job' = [job EXCEPT ![r].staged = @ + 1]
  /\ UNCHANGED <<leased, recovering, buffers, cleaner, sender, outbox,
                 outboxSaved, retry,
                 mishaps, histVars, unleased>>
(* The stager refuses the file or the spool is full: ValueError. *)
StageRefused(r) ==
  /\ StillStaging(r)
  /\ \/ ~Room /\ NoMishap
     \/ Room /\ Mishap
  /\ AnswersWith(r, "leaving", "rejected")
  /\ UNCHANGED <<fileVars, sender, outbox, outboxSaved, retry, histVars, unleased>>
(* The request is cancelled: its thread still ends, its lease is given up and
   a cleanup runs before the lock is. *)
StageCancelled(r) ==
  /\ StillStaging(r) /\ Room /\ Mishap
  /\ spool' = spool \union {NextUpload(r)}
  /\ cleaner' = [who |-> r, keeps |-> Referenced]
  /\ AnswersWith(r, "leaving", "cancelled")
  /\ UNCHANGED <<leased, uploading, recovering, buffers, sender, outbox,
                 outboxSaved, retry,
                 histVars, unleased>>
(* The end of every request: its files are no longer active, and a cleanup. *)
Leave(r) ==
  /\ Stands(r, "leaving") \/ (Stands(r, "submitted") /\ sender.who # r)
  /\ StageLockFree
  /\ uploading' = uploading \ UploadsOf(r) /\ Moves(r, "tidying")
  /\ UNCHANGED <<spool, leased, recovering, buffers, cleaner, sender, outbox,
                 outboxSaved,
                 retry, mishaps, histVars, unleased>>
-----------------------------------------------------------------------------
(* The outbox. *)
Enqueued(k, files) ==
  IF k \in PendingKeys(outbox) THEN outbox
  ELSE [outbox EXCEPT !.pending = Append(@, [key |-> k, files |-> files])]
(* Not the code: what was sent is not recorded before the end. *)
NotCheckpointed(k, left) == outbox
Checkpointed(k, left) ==
  [outbox EXCEPT !.pending =
     [i \in DOMAIN @ |-> IF @[i].key = k THEN [@[i] EXCEPT !.files = left] ELSE @[i]]]
(* Only the receipts of the API are limited, those of a turn go with it. *)
NewestAcks(acks) ==
  LET ofApi == {i \in DOMAIN acks : \E r \in Deliveries : KeyOf[r] = acks[i]}
  IN IF Cardinality(ofApi) > AckLimit THEN RemoveAt(acks, Min(ofApi)) ELSE acks
Completed(k) ==
  LET place == {i \in DOMAIN outbox.pending : outbox.pending[i].key = k}
  IN IF place = {} THEN outbox
     ELSE [pending |-> RemoveAt(outbox.pending, Min(place)),
           acks |-> NewestAcks(Append(outbox.acks, k))]
IsHead(k) == Head(outbox.pending).key = k
Schedules == retry' = [retry EXCEPT !.on = TRUE]
Delivers(x, k, files) ==
  /\ outbox' = Enqueued(k, files)
  /\ sender' = [NoLane EXCEPT !.who = x, !.step = "release", !.key = k]

(* deliver_outbound_message, with the projection lock. *)
KnownKeys == PendingKeys(outbox) \union ToSet(outbox.acks)
Conflicts(k) == \E other \in KnownKeys : other.id = k.id /\ other # k
Submit(r) ==
  LET k == KeyOf[r]
  IN /\ Stands(r, "staging") /\ job[r].staged = Len(Uploads[r]) /\ LaneFree
     /\ \/ Conflicts(k) /\ AnswersWith(r, "leaving", "conflict")
           /\ UNCHANGED <<outbox, sender>>
        \/ ~Conflicts(k) /\ k \in ToSet(outbox.acks)
           /\ AnswersWith(r, "leaving", "delivered") /\ UNCHANGED <<outbox, sender>>
        \/ ~Conflicts(k) /\ k \notin ToSet(outbox.acks)
           /\ Delivers(r, k, Uploads[r]) /\ Moves(r, "submitted")
     /\ UNCHANGED <<fileVars, outboxSaved, retry, mishaps, histVars, unleased>>

(* _deliver_terminal_message: what is in the outbox needs no lease. *)
InLane(step) == sender.who \in Actors /\ sender.step = step
Release ==
  /\ InLane("release") /\ StageLockFree
  /\ leased' = leased \ (IF sender.who \in FileTurns THEN {Image[sender.who]} ELSE {})
  /\ sender' = [sender EXCEPT !.step = "flush"]
  /\ UNCHANGED <<spool, uploading, recovering, buffers, cleaner, outbox,
                 outboxSaved, retry,
                 job, mishaps, histVars, unleased>>
LaneEnds(code) ==
  /\ sender' = NoLane
  /\ job' = IF sender.who \in Deliveries THEN [job EXCEPT ![sender.who].code = code]
             ELSE job
FlushOk ==
  /\ InLane("flush") /\ outboxSaved' = outbox
  /\ IF IsHead(sender.key)
       THEN /\ sender' = [sender EXCEPT !.step = "send",
                                    !.left = EntryOf(outbox, sender.key).files]
            /\ UNCHANGED <<job, retry>>
       ELSE LaneEnds("queued") /\ Schedules
  /\ UNCHANGED <<fileVars, outbox, mishaps, histVars, unleased>>
FlushFails ==
  /\ InLane("flush") /\ Mishap /\ Schedules
  /\ \/ outboxSaved' = outbox /\ LaneEnds("queued")
     \/ UNCHANGED outboxSaved /\ LaneEnds("failed")
  /\ UNCHANGED <<fileVars, outbox, histVars, unleased>>

(* deliver_artifact_batch: one file after the other. *)
Sending == sender.who # NoOne /\ sender.step = "send"
InSend == <<sender.key, Head(sender.left)>>
SendFile ==
  /\ Sending /\ sender.left # <<>> /\ Head(sender.left) \in spool
  /\ sends' = [sends EXCEPT ![InSend] = @ + 1]
  /\ sender' = [sender EXCEPT !.left = Tail(@)]
  /\ UNCHANGED <<fileVars, outbox, outboxSaved, retry, job, mishaps, refused,
                 doubts,
                 done, pruned, unleased>>
(* read_managed_artifact fails, or the platform refuses the file for good:
   a notice takes its place. *)
FileRefused ==
  /\ Sending /\ sender.left # <<>>
  /\ \/ Head(sender.left) \notin spool /\ NoMishap
     \/ Head(sender.left) \in spool /\ Mishap
  /\ refused' = refused \union {InSend}
  /\ sender' = [sender EXCEPT !.left = Tail(@)]
  /\ UNCHANGED <<fileVars, outbox, outboxSaved, retry, job, sends, doubts, done,
                 pruned,
                 unleased>>
(* The platform fails, after it may have taken the file: what is left goes
   into the outbox, and the retry task comes for it. *)
FileSendFails ==
  /\ Sending /\ Mishap
  /\ outbox' = Checkpointed(sender.key, sender.left)
  /\ \/ UNCHANGED <<sends, doubts>>
     \/ /\ sender.left # <<>> /\ Head(sender.left) \in spool
        /\ sends' = [sends EXCEPT ![InSend] = @ + 1]
        /\ doubts' = [doubts EXCEPT ![InSend] = @ + 1]
  /\ \/ /\ sender.who \in Actors /\ Schedules /\ LaneEnds("queued")
        /\ outboxSaved' \in {outboxSaved, outbox'}
     \/ /\ sender.who = "retry" /\ UNCHANGED <<outboxSaved, retry, job>>
        /\ sender' = [sender EXCEPT !.step = "next", !.rest = <<>>]
  /\ UNCHANGED <<fileVars, refused, done, pruned, unleased>>
(* complete_terminal_delivery *)
SentAll ==
  /\ Sending /\ sender.left = <<>>
  /\ outbox' = Completed(sender.key)
  /\ done' = done \union {sender.key}
  /\ pruned' = pruned \union {k.id : k \in (ToSet(outbox.acks) \ ToSet(outbox'.acks))}
  /\ sender' = [sender EXCEPT !.step = IF sender.who = "retry" THEN "next" ELSE "ack"]
  /\ UNCHANGED <<fileVars, outboxSaved, retry, job, mishaps, sends, refused, doubts,
                 unleased>>
AckFlushed ==
  /\ InLane("ack") /\ outboxSaved' = outbox
  /\ sender' = [sender EXCEPT !.step = "tidy"]
  /\ job' = IF sender.who \in Deliveries
               THEN [job EXCEPT ![sender.who].code = "delivered"] ELSE job
  /\ UNCHANGED <<fileVars, outbox, retry, mishaps, histVars, unleased>>
AckNotFlushed ==
  /\ InLane("ack") /\ Mishap /\ LaneEnds("delivered")
  /\ retry' = [on |-> TRUE, receipts |-> TRUE]
  /\ UNCHANGED <<fileVars, outbox, outboxSaved, histVars, unleased>>
(* The request is cancelled, the recovery of a turn runs out of time. *)
Unrecorded(k) ==
  [p \in DeliveryKeys \X Files |->
     doubts[p] + (IF p[1] = k /\ sends[p] > 0
                    /\ \E e \in ToSet(outbox.pending) : e.key = k /\ p[2] \in ToSet(e.files)
                    /\ p[2] \notin ToSet(sender.left) THEN 1 ELSE 0)]
LaneCancelled ==
  /\ sender.who \in Actors /\ sender.step # "tidy" /\ Mishap
  /\ sender.who \in Deliveries \/ Stands(sender.who, "recovering")
  /\ LaneEnds("cancelled")
  /\ doubts' = IF sender.step = "send" THEN Unrecorded(sender.key) ELSE doubts
  /\ UNCHANGED <<fileVars, outbox, outboxSaved, retry, sends, refused, done,
                 pruned, unleased>>
-----------------------------------------------------------------------------
(* The retry task. *)
NotCleaning == cleaner.who # "retry"
RetryBegins ==
  /\ retry.on /\ LaneFree /\ NotCleaning /\ outbox.pending # <<>>
  /\ sender' = [NoLane EXCEPT !.who = "retry", !.step = "flush"]
  /\ UNCHANGED <<fileVars, outbox, outboxSaved, retry, job, mishaps, histVars,
                 unleased>>
RetryEnds ==
  /\ retry.on /\ LaneFree /\ NotCleaning
  /\ outbox.pending = <<>> /\ ~retry.receipts
  /\ retry' = [retry EXCEPT !.on = FALSE]
  /\ UNCHANGED <<fileVars, sender, outbox, outboxSaved, job, mishaps, histVars,
                 unleased>>
Retrying(step) == sender.who = "retry" /\ sender.step = step
RetryFlushed ==
  /\ Retrying("flush") /\ outboxSaved' = outbox
  /\ sender' = [sender EXCEPT !.step = "next", !.rest = outbox.pending]
  /\ UNCHANGED <<fileVars, outbox, retry, job, mishaps, histVars, unleased>>
RetryNotFlushed ==
  /\ Retrying("flush") /\ Mishap /\ sender' = NoLane
  /\ UNCHANGED <<fileVars, outbox, outboxSaved, retry, job, histVars, unleased>>
RetryNext ==
  /\ Retrying("next") /\ sender.rest # <<>>
  /\ sender' = [sender EXCEPT !.step = "send", !.key = Head(sender.rest).key,
                          !.left = Head(sender.rest).files, !.rest = Tail(@)]
  /\ UNCHANGED <<fileVars, outbox, outboxSaved, retry, job, mishaps, histVars,
                 unleased>>
RetrySaves ==
  /\ Retrying("next") /\ sender.rest = <<>>
  /\ \/ /\ NoMishap /\ outboxSaved' = outbox /\ UNCHANGED retry
        /\ sender' = [sender EXCEPT !.step = "tidy"]
     \/ /\ Mishap /\ UNCHANGED outboxSaved /\ sender' = NoLane
        /\ retry' = [retry EXCEPT !.receipts = TRUE]
  /\ UNCHANGED <<fileVars, outbox, job, histVars, unleased>>
(* _retry_terminal_delivery_ack_persistence; it cleans up afterwards. *)
RetryReceipts ==
  /\ retry.on /\ retry.receipts /\ LaneFree /\ StageLockFree
  /\ outboxSaved' = outbox /\ retry' = [retry EXCEPT !.receipts = FALSE]
  /\ cleaner' = [who |-> "retry", keeps |-> Referenced]
  /\ UNCHANGED <<spool, leased, uploading, recovering, buffers, sender, outbox, job,
                 mishaps, histVars, unleased>>
-----------------------------------------------------------------------------
(* Native turns: MessageProjector and MessagePump under the same lock. *)
Stages(t) ==
  /\ spool' = spool \union {Image[t]} /\ leased' = leased \union {Image[t]}
(* The buffer of a turn is cleared and its leases are released; leases are
   not counted, so another user of the same picture loses its own. *)
ClearsBuffer(t) ==
  LET others == FilesIn(outbox) \union Buffered(buffers') \union recovering
  IN /\ buffers' = [buffers EXCEPT ![t] = {}]
     /\ leased' = leased \ buffers[t]
     /\ unleased' = unleased \union (buffers[t] \intersect others)
TurnBegins(t) ==
  /\ Stands(t, "new") /\ Moves(t, "running")
  /\ UNCHANGED <<fileVars, sender, outbox, outboxSaved, retry, mishaps, histVars,
                 unleased>>
TurnItem(t) ==
  /\ Stands(t, "running") /\ LaneFree /\ Stages(t)
  /\ buffers' = [buffers EXCEPT ![t] = {Image[t]}]
  /\ UNCHANGED <<uploading, recovering, cleaner, sender, outbox, outboxSaved,
                 retry, job,
                 mishaps, histVars, unleased>>
(* A later picture of the same item is bad: the copy stays, leases are as
   they were before (_serialized_stage). *)
TurnItemFails(t) ==
  /\ Stands(t, "running") /\ LaneFree /\ Mishap
  /\ spool' = spool \union {Image[t]}
  /\ UNCHANGED <<leased, buffers, uploading, recovering, cleaner, sender, outbox,
                 outboxSaved,
                 retry, job, histVars, unleased>>
(* The final answer is handed over; the buffer lives until the turn ends. *)
TurnAnswers(t) ==
  /\ Stands(t, "running") /\ LaneFree /\ Moves(t, "answered")
  /\ IF KeyOf[t] \in KnownKeys THEN UNCHANGED <<outbox, sender>>
       ELSE Delivers(t, KeyOf[t], SetToSeq(buffers[t]))
  /\ UNCHANGED <<fileVars, outboxSaved, retry, mishaps, histVars, unleased>>
(* Work goes on after the answer: resume_turn_output clears the buffer. *)
TurnContinues(t) ==
  /\ Stands(t, "answered") /\ LaneFree /\ Mishap
  /\ ClearsBuffer(t)
  /\ UNCHANGED <<spool, uploading, recovering, cleaner, sender, outbox,
                 outboxSaved, retry,
                 job, histVars>>
TurnCompletes(t) ==
  /\ Stands(t, "answered") /\ LaneFree /\ Moves(t, "done")
  /\ buffers' = [buffers EXCEPT ![t] = {}]
  /\ UNCHANGED <<spool, leased, uploading, recovering, cleaner, sender, outbox,
                 outboxSaved,
                 retry, mishaps, histVars, unleased>>
(* The user has stopped the turn: _discard_turn_buffer. *)
TurnDiscarded(t) ==
  /\ Stands(t, "running") /\ LaneFree /\ Moves(t, "done")
  /\ ClearsBuffer(t)
  /\ UNCHANGED <<spool, uploading, recovering, cleaner, sender, outbox,
                 outboxSaved, retry,
                 mishaps, histVars>>
(* The turn ended unheard: its items are staged again. *)
TurnRecovered(t) ==
  /\ Stands(t, "running") /\ LaneFree /\ Stages(t)
  /\ recovering' = recovering \union {Image[t]}
  /\ buffers' = [buffers EXCEPT ![t] = {}]
  /\ IF KeyOf[t] \in KnownKeys THEN UNCHANGED <<outbox, sender>>
       ELSE Delivers(t, KeyOf[t], <<Image[t]>>)
  /\ Moves(t, "recovering")
  /\ UNCHANGED <<uploading, cleaner, outboxSaved, retry, mishaps, histVars,
                 unleased>>
RecoveryEnds(t) ==
  /\ Stands(t, "recovering") /\ sender.who # t /\ StageLockFree
  /\ recovering' = recovering \ {Image[t]} /\ leased' = leased \ {Image[t]}
  /\ Moves(t, "tidying")
  /\ UNCHANGED <<spool, uploading, buffers, cleaner, sender, outbox, outboxSaved,
                 retry,
                 mishaps, histVars, unleased>>
-----------------------------------------------------------------------------
(* The background writer, and the end of the process with the next start:
   what the state file does not refer to is removed. *)
PersistsOutbox ==
  /\ outboxSaved # outbox /\ outboxSaved' = outbox
  /\ UNCHANGED <<fileVars, sender, outbox, retry, job, mishaps, histVars, unleased>>
Restarted(x) ==
  IF job[x].at \in {"new", "done"} THEN job[x]
  ELSE IF x \in FileTurns THEN [job[x] EXCEPT !.at = "running"]
  ELSE [job[x] EXCEPT !.at = "done", !.code = IF @ = NoOne THEN "cancelled" ELSE @]
SpoolCrash ==
  /\ Mishap /\ outbox' = outboxSaved
  /\ spool' = spool \intersect FilesIn(outboxSaved)
  /\ leased' = {} /\ uploading' = {} /\ recovering' = {} /\ cleaner' = NoCleaner
  /\ buffers' = [t \in FileTurns |-> {}] /\ sender' = NoLane
  /\ retry' = [on |-> outboxSaved.pending # <<>>, receipts |-> FALSE]
  /\ job' = [x \in Actors |-> Restarted(x)]
  /\ doubts' = [p \in DeliveryKeys \X Files |-> doubts[p] + (IF sends[p] > 0
                  /\ \E e \in ToSet(outboxSaved.pending) :
                       e.key = p[1] /\ p[2] \in ToSet(e.files)
                  THEN 1 ELSE 0)]
  /\ UNCHANGED <<outboxSaved, sends, refused, done, pruned, unleased>>

(* A restart command checks the configuration by building a runtime of its
   own: that one reads the state file and cleans the spool accordingly, while
   the bridge whose spool it is runs on. *)
PreflightCleans ==
  LET gone == spool \ FilesIn(outboxSaved)
  IN /\ gone # {} /\ Mishap
     /\ spool' = spool \ gone /\ unleased' = unleased \union gone
     /\ UNCHANGED <<leased, uploading, recovering, buffers, cleaner, sender,
                    outbox, outboxSaved,
                    retry, job, histVars>>

LaneStep ==
  \/ Release \/ FlushOk \/ SendFile \/ SentAll \/ AckFlushed
  \/ RetryFlushed \/ RetryNext
  \/ sender.step = "next" /\ RetrySaves
  \/ sender.who # NoOne /\ CleanupBegins(sender.who)
DeliveryStep(r) ==
  \/ PostFiles(r) \/ StageUpload(r) \/ Submit(r) \/ Leave(r) \/ CleanupBegins(r)
DeliveryFault(r) == Reject(r) \/ StageRefused(r) \/ StageCancelled(r)
TurnStep(t) ==
  \/ TurnBegins(t) \/ TurnItem(t) \/ TurnItemFails(t) \/ TurnAnswers(t)
  \/ TurnContinues(t) \/ TurnCompletes(t) \/ TurnDiscarded(t)
  \/ TurnRecovered(t) \/ RecoveryEnds(t) \/ CleanupBegins(t)
RetryStep == RetryBegins \/ RetryReceipts \/ RetryEnds
Faults == FlushFails \/ FileRefused \/ FileSendFails \/ AckNotFlushed
            \/ RetryNotFlushed \/ LaneCancelled
SpoolNext ==
  \/ CleanupEnds \/ LaneStep \/ RetryStep \/ PersistsOutbox \/ Faults \/ SpoolCrash
  \/ PreflightCleans
  \/ \E r \in Deliveries : DeliveryStep(r) \/ DeliveryFault(r)
  \/ \E t \in FileTurns : TurnStep(t)

(* What the loop and the thread go on with once they have begun it: CleanupEnds,
   LaneStep, this, and RetryStep, which others may get ahead of. *)
NoticeReplacesMissingFile == FileRefused /\ NoMishap
-----------------------------------------------------------------------------
SpoolTypeOK ==
  /\ spool \subseteq Files /\ leased \subseteq Files /\ uploading \subseteq Files
  /\ recovering \subseteq Files /\ unleased \subseteq Files
  /\ buffers \in [FileTurns -> SUBSET Files]
  /\ cleaner \in [who : Actors \union {NoOne, "retry"}, keeps : SUBSET Files]
  /\ sender.step \in {"none", "release", "flush", "send", "ack", "next", "tidy"}
  /\ \A x \in Actors : job[x].at \in {"new", "staging", "submitted", "leaving",
       "tidying", "running", "answered", "recovering", "done"}

(* A file stays in the spool until the platform has it: whatever the outbox,
   in memory or on disk, an upload in progress or the buffer of a turn refers
   to and has not sent is there, however cleanups, requests, turns and crashes
   interleave.  The code makes two exceptions: a picture whose lease was
   released on behalf of another output with the same content, and what a
   restart command removes before it knows whether there will be a restart
   (outbound_artifacts.py:319-338, terminal_delivery.py:621-653,
   composition.py:105). *)
Unsent(store) ==
  {p \in (DeliveryKeys \X Files) \ refused : sends[p] = 0 /\ \E e \in ToSet(store.pending) :
                           e.key = p[1] /\ p[2] \in ToSet(e.files)}
FilesOutlastTheirUse ==
  \A f \in uploading \union Buffered(buffers) \union recovering
           \union {p[2] : p \in Unsent(outbox) \union Unsent(outboxSaved)} :
    f \in spool \/ f \in unleased

(* A file is sent a second time only when its first sending was not confirmed,
   or a cancellation or a crash came before what was left was recorded
   (artifacts.py:23-62, terminal_delivery.py:322-366). *)
SentAgainOnlyInDoubt ==
  \A p \in DeliveryKeys \X Files : sends[p] <= 1 + doubts[p]

(* A client that was told "delivered" or "queued" can forget its message: it
   has been sent, or it is in the state file (delivery_api.py:318-337). *)
AcceptedIsKept ==
  \A r \in Deliveries :
    /\ job[r].code = "delivered" => KeyOf[r] \in done
    /\ job[r].code = "queued" => KeyOf[r] \in done \union PendingKeys(outboxSaved)

(* Under one delivery id only one content is ever sent, as long as the receipt
   of the id has not been pushed out (terminal_delivery.py:180-184). *)
OneContentPerId ==
  \A k, other \in {p[1] : p \in {q \in DeliveryKeys \X Files : sends[q] > 0}} \union done :
    k.id = other.id => k = other \/ k.id \in pruned

(* Outbound: what a client of the delivery API was told is true
   (delivery_api.py, terminal_delivery.py). *)
DeliveryKeepsItsWord == SentAgainOnlyInDoubt /\ AcceptedIsKept /\ OneContentPerId

(* What was queued is sent in the end. *)
QueuedIsDelivered ==
  []<>(\A r \in Deliveries : job[r].code = "queued" => KeyOf[r] \in done)
=============================================================================
