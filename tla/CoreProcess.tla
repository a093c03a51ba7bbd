------------------------------ MODULE CoreProcess ------------------------------
(***************************************************************************)
(* The dedicated Codex core: a process of its own that outlives bridges,   *)
(* found again through a manifest, core.json.  Launcher scripts start or   *)
(* reuse it before they become a bridge; a stop command ends it.  Scripts  *)
(* and commands run at the same time as they like; processes die, and the  *)
(* system gives their ids to strangers.                                    *)
(***************************************************************************)
EXTENDS Naturals, FiniteSets

CONSTANTS
  Pids,        \* process ids of cores, 1 .. n
  Scripts,     \* runs of scripts/start.sh
  StopCommands,       \* runs of "imcodex core stop"
  NoPid,       \* nobody
  Foreign      \* a program that listens and is no core of ours

VARIABLES
  core,        \* [Pids -> "none", "launched", "listening", "ended", "stranger"]
  listener,    \* who listens on the port of the core
  manifest,    \* core.json
  script,      \* [Scripts -> step and the core it launched]
  stop,        \* [StopCommands -> step and the manifest it read]
  coreFaults          \* how many faults may still happen

coreVars == <<core, listener, manifest, script, stop, coreFaults>>

(* Process ids are numbers that are given out in order. *)
PidsInOrder ==
  \A some \in SUBSET Pids : some # {} => \E p \in some : \A q \in some : p <= q
ASSUME PidsAssumption == PidsInOrder /\ {NoPid, Foreign} \intersect Pids = {}

NoManifest == [pid |-> NoPid, status |-> "none"]
CoreInit(scripts, stops, faults) ==
  /\ core = [p \in Pids |-> "none"]
  /\ listener = NoPid
  /\ manifest = NoManifest
  /\ script = [s \in Scripts |-> [at |-> IF s \in scripts THEN "new" ELSE "done",
                                  pid |-> NoPid]]
  /\ stop = [c \in StopCommands |-> [at |-> IF c \in stops THEN "new" ELSE "done",
                              read |-> NoManifest]]
  /\ coreFaults = faults

CoreFault == coreFaults > 0 /\ coreFaults' = coreFaults - 1
NoCoreFault == UNCHANGED coreFaults
Unlaunched == {p \in Pids : core[p] = "none"}
Exists(p) == p \in Pids /\ core[p] \notin {"none", "ended"}
ScriptAt(s, step) == script[s].at = step
ScriptGoes(s, step) == script' = [script EXCEPT ![s].at = step]
StopAt(c, step) == stop[c].at = step
StopGoes(c, step) == stop' = [stop EXCEPT ![c].at = step]
-----------------------------------------------------------------------------
(* scripts/start.sh: whoever listens is verified, else a core is started. *)
Looks(s) ==
  /\ ScriptAt(s, "new")
  /\ ScriptGoes(s, IF listener = NoPid THEN "start" ELSE "verify")
  /\ UNCHANGED <<core, listener, manifest, stop, coreFaults>>
(* DedicatedCoreManager.start: the process first, then the manifest, without
   a look at the one that is there. *)
LaunchesCore(s) ==
  LET p == CHOOSE p \in Unlaunched : \A q \in Unlaunched : p <= q
  IN /\ ScriptAt(s, "start") /\ Unlaunched # {}
     /\ core' = [core EXCEPT ![p] = "launched"]
     /\ script' = [script EXCEPT ![s] = [at |-> "record", pid |-> p]]
     /\ UNCHANGED <<listener, manifest, stop, coreFaults>>
RecordsCore(s) ==
  /\ ScriptAt(s, "record")
  /\ \/ /\ NoCoreFault /\ ScriptGoes(s, "wait")
        /\ manifest' = [pid |-> script[s].pid, status |-> "running"]
     \/ CoreFault /\ ScriptGoes(s, "done") /\ UNCHANGED manifest
  /\ UNCHANGED <<core, listener, stop>>
(* wait_for_core: the port is open, whoever has opened it. *)
AwaitsCore(s) ==
  /\ ScriptAt(s, "wait")
  /\ \/ listener # NoPid /\ NoCoreFault /\ ScriptGoes(s, "verify")
     \/ listener = NoPid /\ CoreFault /\ ScriptGoes(s, "done")
  /\ UNCHANGED <<core, listener, manifest, stop>>
(* Not the code: somebody listens, and the recorded process is there. *)
SomebodyListens(m) == m.status = "running" /\ Exists(m.pid) /\ listener # NoPid
(* The owner of the socket is looked up, or one of its ancestors. *)
ListenedBy(p) == listener = p
(* _validate_manifest, _verify_listener_identity; /readyz may not answer.
   Bound: the three looks of a script are one step. *)
OwnsListener(m) == m.status = "running" /\ Exists(m.pid) /\ ListenedBy(m.pid)
VerifiesCore(s) ==
  /\ ScriptAt(s, "verify")
  /\ \/ OwnsListener(manifest) /\ NoCoreFault /\ ScriptGoes(s, "bridge")
     \/ (IF OwnsListener(manifest) THEN CoreFault ELSE NoCoreFault) /\ ScriptGoes(s, "done")
  /\ UNCHANGED <<core, listener, manifest, stop>>
-----------------------------------------------------------------------------
(* The core binds its port or gives up. *)
CoreBinds(p) ==
  /\ core[p] = "launched"
  /\ IF listener = NoPid THEN core' = [core EXCEPT ![p] = "listening"] /\ listener' = p
       ELSE core' = [core EXCEPT ![p] = "ended"] /\ UNCHANGED listener
  /\ UNCHANGED <<manifest, script, stop, coreFaults>>
CoreEnds(p) ==
  /\ core' = [core EXCEPT ![p] = "ended"]
  /\ listener' = IF listener = p THEN NoPid ELSE listener
CoreDies(p) ==
  /\ core[p] \in {"launched", "listening"} /\ CoreFault /\ CoreEnds(p)
  /\ UNCHANGED <<manifest, script, stop>>
PidIsReused(p) ==
  /\ core[p] = "ended" /\ CoreFault
  /\ core' = [core EXCEPT ![p] = "stranger"]
  /\ UNCHANGED <<listener, manifest, script, stop>>
ForeignBinds ==
  /\ listener = NoPid /\ CoreFault /\ listener' = Foreign
  /\ UNCHANGED <<core, manifest, script, stop>>
-----------------------------------------------------------------------------
(* DedicatedCoreManager.stop, from a process that did not launch the core. *)
StopReads(c) ==
  /\ StopAt(c, "new") /\ manifest # NoManifest
  /\ stop' = [stop EXCEPT ![c] =
       [at |-> IF manifest.status = "running" THEN "look" ELSE "done", read |-> manifest]]
  /\ UNCHANGED <<core, listener, manifest, script, coreFaults>>
(* Nobody has the id: the manifest is marked.  Somebody else has the port: an
   error, as when a process does not end in time.  Bound: nobody dies and no id
   is reused between the last look and the signal, a few milliseconds. *)
StopLooks(c) ==
  LET m == stop[c].read
  IN /\ StopAt(c, "look")
     /\ \/ ~Exists(m.pid) /\ NoCoreFault
           /\ StopGoes(c, "mark") /\ UNCHANGED <<core, listener>>
        \/ OwnsListener(m) /\ NoCoreFault /\ CoreEnds(m.pid) /\ StopGoes(c, "mark")
        \/ /\ Exists(m.pid) /\ IF OwnsListener(m) THEN CoreFault ELSE NoCoreFault
           /\ StopGoes(c, "done") /\ UNCHANGED <<core, listener>>
     /\ UNCHANGED <<manifest, script>>
(* _mark_stopped writes what was read, whatever is there now. *)
StopMarks(c) ==
  /\ StopAt(c, "mark") /\ StopGoes(c, "done")
  /\ manifest' = [stop[c].read EXCEPT !.status = "stopped"]
  /\ UNCHANGED <<core, listener, script, coreFaults>>

ScriptStep(s) ==
  \/ Looks(s) \/ LaunchesCore(s) \/ RecordsCore(s) \/ AwaitsCore(s) \/ VerifiesCore(s)
StopStep(c) == StopReads(c) \/ StopLooks(c) \/ StopMarks(c)
CoreNext ==
  \/ ForeignBinds
  \/ \E s \in Scripts : ScriptStep(s)
  \/ \E c \in StopCommands : StopStep(c)
  \/ \E p \in Pids : CoreBinds(p) \/ CoreDies(p) \/ PidIsReused(p)
-----------------------------------------------------------------------------
CoreTypeOK ==
  /\ core \in [Pids -> {"none", "launched", "listening", "ended", "stranger"}]
  /\ listener \in Pids \union {NoPid, Foreign}
  /\ manifest.pid \in Pids \union {NoPid}
  /\ \A s \in Scripts : script[s].at \in {"new", "start", "record", "wait", "verify",
                                          "bridge", "done"}
  /\ \A c \in StopCommands : stop[c].at \in {"new", "look", "mark", "done"}

(* A script becomes a bridge only on a core that listens and is the one the
   manifest names, so that it can be found and stopped again; and a stop ends
   nothing but a core of ours, although manifests outlive their processes and
   are written over each other (core_manager.py:109-148, 166-210). *)
CoresAreIdentified ==
  [][/\ \A s \in Scripts : script'[s].at = "bridge" /\ script[s].at # "bridge" =>
          /\ listener \in Pids /\ core[listener] = "listening"
          /\ manifest = [pid |-> listener, status |-> "running"]
     /\ \A p \in Pids : core[p] = "stranger" => core'[p] = "stranger"]_coreVars
=============================================================================
