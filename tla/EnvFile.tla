-------------------------------- MODULE EnvFile --------------------------------
(***************************************************************************)
(* The .env file of the bridge.  Browser tabs edit it through the admin    *)
(* console of a bridge process, and during a restart there may be two of   *)
(* these; a person edits it with an editor that knows no lock.  A save     *)
(* names the revision its tab has seen, is validated against the file as   *)
(* it is, and replaces it in one step.                                     *)
(*                                                                         *)
(* Of the file two settings that depend on each other are kept, the switch *)
(* of a channel and its secret, and one that stands for all others.        *)
(***************************************************************************)
EXTENDS Naturals

CONSTANTS
  Tabs,        \* pages of the admin console
  ProcessOf,   \* [Tabs -> the bridge process that serves the page]
  Wishes,      \* changes a page may ask for: functions from some settings to values
  Overridden,  \* settings the environment of the process fixes, none of the channel's
  Free         \* nobody

ASSUME TabsAssumption == Free \notin Tabs

VARIABLES
  file,        \* the contents of .env
  seen,        \* [open pages -> the contents whose revision the page holds]
  save,        \* [Tabs -> step of a save, the changes it makes and the file it read]
  threads,     \* [processes -> which save holds ConfigStore._lock]
  flocked,     \* which save holds the lock file
  slipped,     \* history: somebody wrote between the last look and the replacement
  hands        \* how many edits the person, and how many faults there may still be

envVars == <<file, seen, save, threads, flocked, slipped, hands>>

Contents == [enabled : BOOLEAN, secret : BOOLEAN, other : {0, 1}]
Empty == [enabled |-> FALSE, secret |-> FALSE, other |-> 0]
Processes == {ProcessOf[t] : t \in Tabs}
(* A page asks for values its settings can have. *)
IsWish(w) ==
  /\ "enabled" \in DOMAIN w => w["enabled"] \in BOOLEAN
  /\ "secret" \in DOMAIN w => w["secret"] \in BOOLEAN
  /\ "other" \in DOMAIN w => w["other"] \in {0, 1}
ASSUME WishesAssumption == \A w \in Wishes : IsWish(w)
NoEdits == [s \in {} |-> 0]
NoSave == [at |-> "none", edits |-> NoEdits, base |-> Empty]
Usable(c) == c.enabled => c.secret

EnvInit(start, pages, trouble) ==
  /\ file = start
  /\ seen = [t \in pages |-> start]
  /\ save = [t \in Tabs |-> NoSave]
  /\ threads = [p \in Processes |-> Free]
  /\ flocked = Free
  /\ slipped = FALSE
  /\ hands = trouble

SaveAt(t, step) == save[t].at = step
Holds(t) == threads[ProcessOf[t]] = t
(* The end of ConfigStore.update: both locks are given back. *)
SaveOver(t) ==
  /\ save' = [save EXCEPT ![t] = NoSave]
  /\ threads' = [threads EXCEPT ![ProcessOf[t]] = Free]
  /\ flocked' = IF flocked = t THEN Free ELSE flocked
-----------------------------------------------------------------------------
(* GET /admin/api/config *)
Opens(t) ==
  /\ SaveAt(t, "none") /\ seen[t] # file
  /\ seen' = [seen EXCEPT ![t] = file]
  /\ UNCHANGED <<file, save, threads, flocked, slipped, hands>>
(* PUT /admin/api/config *)
Submits(t) ==
  /\ SaveAt(t, "none")
  /\ \E edits \in Wishes :
       /\ \E s \in DOMAIN edits : edits[s] # seen[t][s]
       /\ save' = [save EXCEPT ![t] = [NoSave EXCEPT !.at = "submitted", !.edits = edits]]
  /\ UNCHANGED <<file, seen, threads, flocked, slipped, hands>>
TakesThreadLock(t) ==
  /\ SaveAt(t, "submitted") /\ threads[ProcessOf[t]] = Free
  /\ threads' = [threads EXCEPT ![ProcessOf[t]] = t]
  /\ save' = [save EXCEPT ![t].at = "locking"]
  /\ UNCHANGED <<file, seen, flocked, slipped, hands>>
TakesFileLock(t) ==
  /\ SaveAt(t, "locking") /\ flocked = Free /\ flocked' = t
  /\ save' = [save EXCEPT ![t].at = "locked"]
  /\ UNCHANGED <<file, seen, threads, slipped, hands>>

(* _validate_updates: nothing fixed by the environment is changed, and who
   touches the channel leaves it usable, with what is in the file. *)
Touched(t) == DOMAIN save[t].edits
Merged(t, c) == [s \in DOMAIN Empty |-> IF s \in Touched(t) THEN save[t].edits[s] ELSE c[s]]
(* Not the code: only who switches the channel on is asked for its secret. *)
AcceptableUnlessSwitchedOn(t) ==
  /\ Touched(t) \intersect Overridden = {}
  /\ "enabled" \in Touched(t) => Usable(Merged(t, file))
Acceptable(t) ==
  /\ Touched(t) \intersect Overridden = {}
  /\ Touched(t) \intersect {"enabled", "secret"} # {} => Usable(Merged(t, file))
(* Another revision is a conflict; invalid updates are refused. *)
Rejects(t) ==
  /\ SaveAt(t, "locked") /\ (seen[t] # file \/ ~Acceptable(t))
  /\ SaveOver(t)
  /\ UNCHANGED <<file, seen, slipped, hands>>
Prepares(t) ==
  /\ SaveAt(t, "locked") /\ seen[t] = file /\ Acceptable(t)
  /\ save' = [save EXCEPT ![t].at = "prepared", ![t].base = file]
  /\ UNCHANGED <<file, seen, threads, flocked, slipped, hands>>
LooksAgain(t) ==
  /\ SaveAt(t, "prepared")
  /\ IF file = save[t].base
       THEN save' = [save EXCEPT ![t].at = "writing"] /\ UNCHANGED <<threads, flocked>>
       ELSE SaveOver(t)
  /\ UNCHANGED <<file, seen, slipped, hands>>
(* _write_atomic: the temporary file takes the place of the old one, or an
   error leaves the old one. *)
Replaces(t) ==
  /\ SaveAt(t, "writing")
  /\ \/ file' = Merged(t, save[t].base) /\ seen' = [seen EXCEPT ![t] = file'] /\ UNCHANGED hands
     \/ hands > 0 /\ hands' = hands - 1 /\ UNCHANGED <<file, seen>>
  /\ SaveOver(t)
  /\ UNCHANGED slipped
-----------------------------------------------------------------------------
PersonEdits ==
  /\ hands > 0 /\ hands' = hands - 1
  /\ \E new \in {c \in Contents \ {file} : Usable(c)} : file' = new
  /\ slipped' = (slipped \/ \E t \in Tabs : SaveAt(t, "writing"))
  /\ UNCHANGED <<seen, save, threads, flocked>>
(* A bridge process ends, with its pages and its locks. *)
ProcessEnds(p) ==
  LET its == {t \in Tabs : ProcessOf[t] = p}
  IN /\ hands > 0 /\ hands' = hands - 1
     /\ save' = [t \in Tabs |-> IF t \in its THEN NoSave ELSE save[t]]
     /\ threads' = [threads EXCEPT ![p] = Free]
     /\ flocked' = IF flocked \in its THEN Free ELSE flocked
     /\ UNCHANGED <<file, seen, slipped>>

TabStep(t) ==
  \/ Opens(t) \/ Submits(t) \/ TakesThreadLock(t) \/ TakesFileLock(t)
  \/ Rejects(t) \/ Prepares(t) \/ LooksAgain(t) \/ Replaces(t)
EnvNext ==
  \/ PersonEdits
  \/ \E p \in Processes : ProcessEnds(p)
  \/ \E t \in DOMAIN seen : TabStep(t)
-----------------------------------------------------------------------------
EnvTypeOK ==
  /\ file \in Contents /\ seen \in [DOMAIN seen -> Contents] /\ DOMAIN seen \subseteq Tabs
  /\ \A t \in Tabs : save[t].at \in {"none", "submitted", "locking", "locked",
                                     "prepared", "writing"}
  /\ threads \in [Processes -> Tabs \union {Free}] /\ flocked \in Tabs \union {Free}

(* The file never asks for a channel without its secret: two pages that each
   make a change that is sound by itself cannot undo each other's ground, in
   one process or in two (admin/config_store.py:135-171, 377-495). *)
ChannelStaysUsable == Usable(file)

(* A save replaces what its page has shown and nothing else: no edit made
   meanwhile is lost, but for one that falls between the last look and the
   replacement (admin/config_store.py:141-171). *)
NoEditIsLost ==
  [][\A t \in Tabs :
       SaveAt(t, "writing") /\ save'[t].at = "none" /\ file' # file
         => file = seen[t] \/ slipped]_envVars
=============================================================================
