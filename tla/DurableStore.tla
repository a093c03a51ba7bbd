---------------------------- MODULE DurableStore ----------------------------
(***************************************************************************)
(* What the conversation store promises about its state file, and nothing  *)
(* of how it keeps the promise.  A stamp numbers the mutations of the      *)
(* bridge state over all lives of the process: live is the state in memory *)
(* and file the state a restart would load.  reported is the newest stamp  *)
(* that some caller was told is on disk.                                   *)
(***************************************************************************)
EXTENDS Integers

VARIABLES live, file, reported

vars == <<live, file, reported>>

Init ==
  /\ live = 0
  /\ file = 0
  /\ reported = 0

(* The bridge changes its state in memory. *)
Change ==
  /\ live' = live + 1
  /\ UNCHANGED <<file, reported>>

(* Some newer state than the one in the file reaches the file. *)
Persist ==
  /\ file' \in (file + 1)..live
  /\ UNCHANGED <<live, reported>>

(* A caller learns that a state is durable: only if the file holds it. *)
Report ==
  /\ reported' \in (reported + 1)..file
  /\ UNCHANGED <<live, file>>

(* The process dies; the next one resumes from the file. *)
Restart ==
  /\ live' = file
  /\ UNCHANGED <<file, reported>>

Next == Change \/ Persist \/ Report \/ Restart

Spec == Init /\ [][Next]_vars
=============================================================================
