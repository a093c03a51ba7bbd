---------------------------- MODULE BridgeProcesses ----------------------------
(***************************************************************************)
(* The bridge as a process.  It checks its configuration and its port,     *)
(* brings its parts up in order, binds the port, serves, and takes its     *)
(* parts down again, whatever fails on the way.  It shares a run directory *)
(* with every other bridge.  A restart command replaces the serving bridge *)
(* by another: it checks, identifies, stops, launches and waits until the  *)
(* new one answers for itself.  Nothing keeps an operator from starting a  *)
(* bridge beside another one, or from running two restarts at once.        *)
(*                                                                         *)
(* Process ids are given out in order and not used again here.             *)
(***************************************************************************)
EXTENDS Naturals, Sequences, FiniteSets, SequencesExt

CONSTANTS
  Bridges,          \* process ids, 1 .. n
  RestartCommands,  \* restarts somebody may ask for, each once
  Nobody,           \* no process
  Stranger          \* another program

VARIABLES
  process,     \* [Bridges -> what each process does and has to undo]
  port,        \* who listens: a bridge, Stranger or Nobody
  current,     \* run/current: whose launch.json, whose delivery token
  restart,     \* [RestartCommands -> step, the old and the new process, what it printed]
  incidents,   \* how many faults may still happen
  crossed,     \* history: bridges that found the port free beside another one
  overlap      \* history: was a bridge started, or a restart asked for, beside others?

historyVars == <<crossed, overlap>>
processVars == <<process, port, current, restart, incidents, historyVars>>

(* Process ids are numbers. *)
IdsAreNumbers == Bridges \subseteq Nat /\ IsFiniteSet(Bridges)
ASSUME BridgesAssumption ==
  /\ IdsAreNumbers /\ {Nobody, Stranger} \intersect Bridges = {}
  /\ IsFiniteSet(RestartCommands)

(* lifespan, AppRuntime.start, uvicorn: the port comes last ... *)
StartOrder == <<"media", "files", "observability", "channels", "client",
                "credential", "port">>
(* Not the code: the store is flushed before the connection is closed. *)
FlushBeforeClose == <<"port", "channels", "service", "flush", "client", "observability",
                      "credential", "files", "media">>
(* ... and goes first; then AppRuntime.stop, then the rest of lifespan. *)
StopOrder == <<"port", "channels", "service", "client", "flush", "observability",
               "credential", "files", "media">>
OfRuntime == {"channels", "service", "client", "flush", "observability"}

NotStarted == [at |-> "none", n |-> 1, undo |-> {}, failed |-> {}, dirty |-> FALSE,
               term |-> FALSE]
AskedFor(step) == [at |-> step, old |-> Nobody, new |-> Nobody, said |-> "nothing"]

ProcessInit(commands, ids, faults) ==
  /\ process = [b \in Bridges |->
                  [NotStarted EXCEPT !.at = IF b \in ids THEN "none" ELSE "exited"]]
  /\ port = Nobody
  /\ current = [snapshot |-> Nobody, credential |-> Nobody]
  /\ restart = [k \in RestartCommands |-> AskedFor(IF k \in commands THEN "wanted" ELSE "done")]
  /\ incidents = faults
  /\ crossed = {} /\ overlap = FALSE

Incident == incidents > 0 /\ incidents' = incidents - 1
NoIncident == UNCHANGED incidents
Is(b, place) == process[b].at = place
Ended(b) == process[b].at \in {"exited", "crashed"}
Alive == {b \in Bridges : ~Is(b, "none") /\ ~Ended(b)}
Unused == {b \in Bridges : Is(b, "none")}
NextPid == CHOOSE b \in Unused : \A other \in Unused : b <= other
Launched(b) == [process EXCEPT ![b].at = "launched"]
Undoes(b, parts) == [process EXCEPT ![b].n = @ + 1, ![b].undo = @ \union parts]
GivesUp(b, parts) == [process EXCEPT ![b].at = "stopping", ![b].undo = @ \union parts]
-----------------------------------------------------------------------------
(* The commands that are running, and those that have yet to launch. *)
UnderWay == {k \in RestartCommands : restart[k].at \notin {"wanted", "done"}}
Reserving == {k \in RestartCommands : restart[k].at \notin {"health", "done"}}

(* The operator may start a bridge, and stop one, at any time.  Bound: the ids
   the restarts to come may need are kept for them. *)
OperatorStarts ==
  /\ Cardinality(Unused) > Cardinality(Reserving)
  /\ process' = Launched(NextPid)
  /\ overlap' = (overlap \/ Alive # {} \/ UnderWay # {})
  /\ UNCHANGED <<port, current, restart, incidents, crossed>>
(* Before uvicorn listens to signals this is the end of the process. *)
OperatorStops(b) ==
  /\ b \in Alive /\ ~process[b].term /\ Incident
  /\ process' = IF Is(b, "launched") THEN [process EXCEPT ![b].at = "crashed"]
                ELSE [process EXCEPT ![b].term = TRUE]
  /\ UNCHANGED <<port, current, restart, historyVars>>

PortIsFree == port = Nobody
(* Bridges that use the directories and do not serve: they have found the port
   free and not bound it yet, or are on their way down. *)
OffPort == {b \in Bridges : process[b].at \in {"starting", "stopping"}}
Crossing(b) == IF OffPort = {} THEN crossed ELSE crossed \union OffPort \union {b}
(* preflight_runtime_configuration: nothing is touched unless the port is free.
   The probe gives the port back, so that it may be free for two. *)
Checks(b) ==
  /\ Is(b, "launched")
  /\ \/ /\ PortIsFree /\ NoIncident
        /\ process' = [process EXCEPT ![b].at = "starting"] /\ crossed' = Crossing(b)
     \/ /\ IF PortIsFree THEN Incident ELSE NoIncident
        /\ process' = [process EXCEPT ![b].at = "exited"] /\ UNCHANGED crossed
  /\ UNCHANGED <<port, current, restart, overlap>>

NextPart(b, part) ==
  Is(b, "starting") /\ StartOrder[process[b].n] = part
(* The two materializers of the webhook. *)
StartsMaterializer(b) ==
  \E part \in {"media", "files"} :
    /\ NextPart(b, part)
    /\ \/ NoIncident /\ process' = Undoes(b, {part})
       \/ Incident /\ process' = GivesUp(b, {})
    /\ UNCHANGED <<port, current, restart, historyVars>>
(* ObservabilityRuntime.start makes run/current anew and writes launch.json
   into it.  From here on all of the runtime is taken down, started or not. *)
StartsObservability(b) ==
  LET fresh == [snapshot |-> b, credential |-> Nobody]
  IN /\ NextPart(b, "observability")
     /\ \/ NoIncident /\ current' = fresh /\ process' = Undoes(b, OfRuntime)
        \/ /\ Incident /\ process' = GivesUp(b, OfRuntime)
           /\ current' \in {current, [fresh EXCEPT !.snapshot = Nobody], fresh}
     /\ UNCHANGED <<port, restart, historyVars>>
StartsTransport(b) ==
  \E part \in {"channels", "client"} :
    /\ NextPart(b, part)
    /\ \/ NoIncident /\ process' = Undoes(b, {})
       \/ Incident /\ process' = GivesUp(b, {})
    /\ UNCHANGED <<port, current, restart, historyVars>>
(* LocalDeliveryCredential.publish: the file must not be there (O_EXCL). *)
PublishesCredential(b) ==
  /\ NextPart(b, "credential")
  /\ \/ /\ NoIncident /\ current.credential = Nobody
        /\ current' = [current EXCEPT !.credential = b]
        /\ process' = Undoes(b, {"credential"})
     \/ /\ IF current.credential = Nobody THEN Incident ELSE NoIncident
        /\ process' = GivesUp(b, {}) /\ UNCHANGED current
  /\ UNCHANGED <<port, restart, historyVars>>
(* uvicorn binds when the lifespan has started; a signal that came before
   is heeded now. *)
BindsPort(b) ==
  /\ NextPart(b, "port")
  /\ \/ /\ port = Nobody /\ ~process[b].term
        /\ port' = b /\ NoIncident
        /\ process' = [Undoes(b, {"port"}) EXCEPT ![b].at = "serving"]
     \/ /\ port # Nobody \/ process[b].term
        /\ process' = GivesUp(b, {}) /\ NoIncident /\ UNCHANGED port
  /\ UNCHANGED <<current, restart, historyVars>>

(* Messages and turns change the store while channels or client run. *)
ChangesStore(b) ==
  /\ process[b].n >= 4 /\ ~Ended(b) /\ ~process[b].dirty
  /\ Is(b, "stopping") => process[b].undo \intersect {"channels", "service", "client"} # {}
  /\ process' = [process EXCEPT ![b].dirty = TRUE]
  /\ UNCHANGED <<port, current, restart, incidents, historyVars>>
-----------------------------------------------------------------------------
StopsServing(b) ==
  /\ Is(b, "serving") /\ process[b].term
  /\ process' = GivesUp(b, {})
  /\ UNCHANGED <<port, current, restart, incidents, historyVars>>

NextDown(b) ==
  StopOrder[Min({i \in 1..Len(StopOrder) : StopOrder[i] \in process[b].undo})]
(* One part is taken down.  What fails is remembered and the rest goes on;
   repeated cancellation does not interrupt it (_wait_for_cleanup). *)
StopsPart(b) ==
  /\ Is(b, "stopping") /\ process[b].undo # {}
  /\ LET part == NextDown(b)
         down == [process[b] EXCEPT !.undo = @ \ {part}]
     IN /\ \/ /\ NoIncident
              /\ process' = [process EXCEPT ![b] =
                               [down EXCEPT !.dirty = @ /\ part # "flush"]]
           \/ /\ part \notin {"port", "credential"} /\ Incident
              /\ process' = [process EXCEPT ![b] = [down EXCEPT !.failed = @ \union {part}]]
        /\ port' = IF part = "port" THEN Nobody ELSE port
        /\ current' = IF part = "credential" /\ current.credential = b
                        THEN [current EXCEPT !.credential = Nobody] ELSE current
  /\ UNCHANGED <<restart, historyVars>>
Exits(b) ==
  /\ Is(b, "stopping") /\ process[b].undo = {}
  /\ process' = [process EXCEPT ![b].at = "exited"]
  /\ UNCHANGED <<port, current, restart, incidents, historyVars>>
Dies(b) ==
  /\ b \in Alive /\ Incident
  /\ process' = [process EXCEPT ![b].at = "crashed"]
  /\ port' = IF port = b THEN Nobody ELSE port
  /\ UNCHANGED <<current, restart, historyVars>>
(* Another program takes the port. *)
StrangerBinds ==
  /\ port = Nobody /\ Incident /\ port' = Stranger
  /\ UNCHANGED <<process, current, restart, historyVars>>
-----------------------------------------------------------------------------
(* BridgeRestartExecutor.restart.  Commands do not know of each other. *)
Restarting(k, step) == restart[k].at = step
MovesOn(k, step) == restart' = [restart EXCEPT ![k].at = step]
Says(k, answer) == restart' = [restart EXCEPT ![k].at = "done", ![k].said = answer]
ReadsSnapshot(k) ==
  /\ Restarting(k, "wanted") /\ current.snapshot # Nobody
  /\ restart' = [restart EXCEPT ![k].at = "preflight", ![k].old = current.snapshot]
  /\ overlap' = (overlap \/ UnderWay # {})
  /\ UNCHANGED <<process, port, current, incidents, crossed>>
(* The port of the running bridge is not tested, the rest is. *)
Preflights(k) ==
  /\ Restarting(k, "preflight")
  /\ \/ NoIncident /\ MovesOn(k, "verify")
     \/ Incident /\ Says(k, "failed")
  /\ UNCHANGED <<process, port, current, historyVars>>
(* /healthz answers with the process id and the instance of the listener. *)
Verifies(k) ==
  /\ Restarting(k, "verify")
  /\ IF port = restart[k].old THEN MovesOn(k, "signal") ELSE Says(k, "failed")
  /\ UNCHANGED <<process, port, current, incidents, historyVars>>
Signals(k) ==
  /\ Restarting(k, "signal")
  /\ \/ Ended(restart[k].old) /\ MovesOn(k, "launch") /\ UNCHANGED process
     \/ /\ ~Ended(restart[k].old) /\ MovesOn(k, "wait")
        /\ process' = [process EXCEPT ![restart[k].old].term = TRUE]
  /\ UNCHANGED <<port, current, incidents, historyVars>>
Waits(k) ==
  /\ Restarting(k, "wait")
  /\ \/ Ended(restart[k].old) /\ NoIncident /\ MovesOn(k, "launch")
     \/ ~Ended(restart[k].old) /\ Incident /\ Says(k, "failed")
  /\ UNCHANGED <<process, port, current, historyVars>>
Launches(k) ==
  /\ Restarting(k, "launch")
  /\ process' = Launched(NextPid)
  /\ restart' = [restart EXCEPT ![k].at = "health", ![k].new = NextPid]
  /\ UNCHANGED <<port, current, incidents, historyVars>>
(* The replacement has exited, answers with its own id, or is too slow. *)
AwaitsHealth(k) ==
  /\ Restarting(k, "health")
  /\ \/ Ended(restart[k].new) /\ NoIncident /\ Says(k, "failed")
     \/ ~Ended(restart[k].new) /\ port = restart[k].new /\ NoIncident /\ Says(k, "healthy")
     \/ ~Ended(restart[k].new) /\ port # restart[k].new /\ Incident /\ Says(k, "failed")
  /\ UNCHANGED <<process, port, current, historyVars>>
RestartKilled(k) ==
  /\ k \in UnderWay /\ Incident /\ Says(k, "nothing")
  /\ UNCHANGED <<process, port, current, historyVars>>
-----------------------------------------------------------------------------
BridgeStep(b) ==
  \/ Checks(b) \/ StartsMaterializer(b) \/ StartsObservability(b)
  \/ StartsTransport(b) \/ PublishesCredential(b) \/ BindsPort(b)
  \/ StopsServing(b) \/ StopsPart(b) \/ Exits(b)
RestartStep(k) ==
  \/ Preflights(k) \/ Verifies(k) \/ Signals(k) \/ Waits(k) \/ Launches(k)
  \/ AwaitsHealth(k)
ProcessNext ==
  \/ OperatorStarts \/ StrangerBinds
  \/ \E k \in RestartCommands : ReadsSnapshot(k) \/ RestartStep(k) \/ RestartKilled(k)
  \/ \E b \in Bridges : BridgeStep(b) \/ OperatorStops(b) \/ ChangesStore(b) \/ Dies(b)

-----------------------------------------------------------------------------
ProcessTypeOK ==
  /\ \A b \in Bridges :
       /\ process[b].at \in {"none", "launched", "starting", "serving", "stopping",
                             "exited", "crashed"}
       /\ process[b].n \in 1 .. Len(StartOrder) + 1
       /\ process[b].undo \union process[b].failed \subseteq ToSet(StopOrder)
  /\ port \in Bridges \union {Nobody, Stranger}
  /\ current \in [snapshot : Bridges \union {Nobody}, credential : Bridges \union {Nobody}]
  /\ \A k \in RestartCommands :
       /\ restart[k].at \in {"wanted", "preflight", "verify", "signal", "wait", "launch",
                             "health", "done"}
       /\ {restart[k].old, restart[k].new} \subseteq Bridges \union {Nobody}
       /\ restart[k].said \in {"nothing", "failed", "healthy"}
  /\ crossed \subseteq Bridges /\ overlap \in BOOLEAN

(* A restart never has its replacement beside the bridge it replaces, whatever
   else is started or restarted meanwhile.  And as long as starts and restarts
   wait for each other, a data directory has one owner, and none but that one
   has touched the run directory, however stops hang and processes die (ops.py:91-112,
   260-322; docs/system-constraints-spec.md:495). *)
OneOwner ==
  /\ \A k \in RestartCommands : restart[k].new # Nobody => Ended(restart[k].old)
  /\ overlap \/ (Cardinality(Alive) <= 1 /\ crossed = {})

(* Who serves is the listener, and what is in run/current is its own: the next
   restart finds it, and the delivery client has its token, although a second
   bridge may be started at any time, the directory is made anew at every start
   and the token is left behind by a crash.  The exception are bridges that had
   found the port free while another one that did not hold it was there
   (observability/runtime.py:149-157, delivery_api.py:52-89, composition.py:254-285). *)
RunDirectoryIsOurs ==
  \A b \in Bridges :
    Is(b, "serving") =>
      /\ port = b
      /\ b \in crossed \/ current = [snapshot |-> b, credential |-> b]

(* A process that ends by itself has undone what it did, at whichever part its
   start had failed: nothing is left to take down, its token is gone, and no
   change of the store is unsaved unless the save, or what makes changes, could
   not be stopped (runtime.py:89-148, application.py:59-90). *)
LeavesNothingBehind ==
  \A b \in Bridges :
    Is(b, "exited") =>
      /\ process[b].undo = {} /\ port # b /\ current.credential # b
      /\ process[b].dirty =>
           process[b].failed \intersect {"channels", "service", "client", "flush"} # {}

(* Bridges started and restarted one after another own the data in turn, a
   second start leaves a serving bridge alone, and who ends leaves things in
   order (ops.py, composition.py, runtime.py, application.py). *)
BridgesTakeTurns == OneOwner /\ RunDirectoryIsOurs /\ LeavesNothingBehind

(* "healthy" is said of the replacement only: it has the port, and the run
   directory unless it has crossed another bridge, and the old bridge has ended
   (ops.py:532-571). *)
HealthyIsTheNewOne ==
  [][\A k \in RestartCommands :
       restart'[k].said = "healthy" /\ restart[k].said # "healthy" =>
         /\ port' = restart[k].new /\ Ended(restart[k].old)
         /\ restart[k].new \in crossed \/ current'.snapshot = restart[k].new]_processVars

(* Whoever was told to stop ends, whatever fails while it stops, and a restart
   command returns (runtime.py:83-102, 199-222). *)
StopsAndReturns ==
  []<>(UnderWay = {} /\ \A b \in Bridges : process[b].term => Ended(b))
=============================================================================
