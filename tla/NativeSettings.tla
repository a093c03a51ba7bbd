---------------------------- MODULE NativeSettings ----------------------------
(***************************************************************************)
(* The user's Codex configuration, kept by the App Server and edited       *)
(* through the bridge: by chat commands, by the admin console, and once    *)
(* per connection by the bridge itself, which sets a permission default    *)
(* where there is none.  Other Codex clients edit it too.  Every edit      *)
(* reads, checks what it read against the catalog of models, and writes;   *)
(* some writes name the version they have read, others do not.             *)
(***************************************************************************)
EXTENDS Naturals

CONSTANTS
  Edits,       \* edits made through the bridge
  By,          \* [Edits -> {"chat", "console", "bridge"}]
  Updates,     \* [Edits -> [some keys -> values]]
  Managed,     \* keys that requirements fix; their value is in the configuration
  Efforts,     \* [models -> reasoning efforts], the catalog
  FastModels,  \* models with a fast tier
  Personable,  \* models that support a personality
  DefaultModel,  \* the model of the catalog that is used when none is set
  Unset        \* the value of a key that is not set

VARIABLES
  config,      \* [Keys -> values]
  version,     \* of the user layer
  edit,        \* [Edits -> step and what was read]
  overtaken,   \* history: a write without version met a configuration it had not read
  others       \* how many edits other clients may still make

settingsVars == <<config, version, edit, overtaken, others>>

Keys == {"model", "effort", "personality", "fast", "permission"}
Values == DOMAIN Efforts \union (UNION {Efforts[m] : m \in DOMAIN Efforts})
            \union {"friendly", "priority", "full", "asks", Unset}
Fresh == [k \in Keys |-> IF k = "model" THEN CHOOSE m \in FastModels : TRUE ELSE Unset]

(* Edits name keys there are, and may unset them. *)
EditsAreSettings == \A e \in Edits : DOMAIN Updates[e] \subseteq Keys
ASSUME EditsAssumption == EditsAreSettings /\ "priority" # Unset
(* The catalog has a model with a fast tier to begin with, and edits set what
   their keys can be set to. *)
CatalogIsKnown ==
  /\ FastModels # {} /\ FastModels \subseteq DOMAIN Efforts
  /\ DefaultModel \in DOMAIN Efforts
  /\ \A e \in Edits : \A k \in DOMAIN Updates[e] : Updates[e][k] \in Values
ASSUME CatalogAssumption == CatalogIsKnown

SettingsInit(edits, foreign) ==
  /\ config = Fresh
  /\ version = 0
  /\ edit = [e \in Edits |-> [at |-> IF e \in edits THEN "new" ELSE "done",
                              saw |-> Fresh, version |-> 0]]
  /\ overtaken = FALSE
  /\ others = foreign

(* _select_reasoning_model *)
ModelOf(c) == IF c["model"] = Unset THEN DefaultModel ELSE c["model"]
EffortFits(c) == c["effort"] \in Efforts[ModelOf(c)] \union {Unset}
FastFits(c) == c["fast"] = "priority" => ModelOf(c) \in FastModels
PersonalityFits(c) == c["personality"] # Unset => ModelOf(c) \in Personable
Fits(c) == EffortFits(c) /\ FastFits(c) /\ PersonalityFits(c)

With(c, e) ==
  [k \in Keys |-> IF k \in DOMAIN Updates[e] THEN Updates[e][k] ELSE c[k]]
OnlySets(e, k) == DOMAIN Updates[e] = {k}
(* _user_config_write_target: what was read with layers has a version, since
   the App Server always reports the layer of the user.  The chat commands for
   model, effort, personality and speed read without. *)
Versioned(e) == By[e] # "chat" \/ OnlySets(e, "permission")
-----------------------------------------------------------------------------
Reads(e) ==
  /\ edit[e].at = "new"
  /\ edit' = [edit EXCEPT ![e] = [at |-> "read", saw |-> config, version |-> version]]
  /\ UNCHANGED <<config, version, overtaken, others>>

(* One key is checked against the model that was read, a model, also when it is
   unset, and several keys at once against each other; to unset others needs no
   check. *)
Allowed(e) ==
  LET asked == With(edit[e].saw, e)
      sets(k) == k \in DOMAIN Updates[e] /\ Updates[e][k] # Unset
  IN /\ DOMAIN Updates[e] \intersect Managed = {}
     /\ CASE OnlySets(e, "effort") -> EffortFits(asked)
          [] OnlySets(e, "personality") -> PersonalityFits(asked)
          [] OnlySets(e, "fast") -> FastFits(asked)
          [] OnlySets(e, "permission") -> TRUE
          [] OTHER -> (\E k \in Keys : sets(k)) \/ "model" \in DOMAIN Updates[e] => Fits(asked)
(* ensure_default_permission_mode leaves alone what is there. *)
Wanted(e) == By[e] = "bridge" => edit[e].saw["permission"] = Unset
Refused(e) ==
  /\ edit[e].at = "read" /\ ~(Allowed(e) /\ Wanted(e))
  /\ edit' = [edit EXCEPT ![e].at = "done"]
  /\ UNCHANGED <<config, version, overtaken, others>>
(* config/batchWrite: all keys or none, and none over another version. *)
UpToDate(e) == Versioned(e) => edit[e].version = version
Writes(e) ==
  /\ edit[e].at = "read" /\ Allowed(e) /\ Wanted(e)
  /\ edit' = [edit EXCEPT ![e].at = "done"]
  /\ IF UpToDate(e)
       THEN /\ config' = With(config, e) /\ version' = version + 1
            /\ overtaken' = (overtaken \/ edit[e].saw # config)
       ELSE UNCHANGED <<config, version, overtaken>>
  /\ UNCHANGED others

(* Another client sets what fits together. *)
OtherClientWrites ==
  /\ others > 0 /\ others' = others - 1
  /\ \E k \in Keys \ Managed, v \in Values :
       /\ v # config[k]
       /\ k = "model" => v \in DOMAIN Efforts \union {Unset}
       /\ k = "permission" => v \in {"asks", Unset}
       /\ k = "effort" => v # "friendly" /\ v # "priority"
       /\ k = "fast" => v \in {"priority", Unset}
       /\ k = "personality" => v \in {"friendly", Unset}
       /\ config' = [config EXCEPT ![k] = v] /\ Fits(config')
  /\ version' = version + 1
  /\ UNCHANGED <<edit, overtaken>>

SettingsNext ==
  \/ OtherClientWrites
  \/ \E e \in Edits : Reads(e) \/ Refused(e) \/ Writes(e)
-----------------------------------------------------------------------------
SettingsTypeOK ==
  /\ config \in [Keys -> Values] /\ version \in Nat /\ others \in Nat
  /\ \A e \in Edits : edit[e].at \in {"new", "read", "done"}

(* Effort, speed and personality stay what the catalog offers for the model,
   whatever edits interleave, unless a chat command wrote over a configuration
   it had not checked (settings_backend.py:545-586, 668-834, 1051-1107). *)
ModelSupportsSettings == overtaken \/ Fits(config)

(* The permission default never takes the place of a choice, not even of one
   made after the bridge had looked (settings_backend.py:434-499;
   docs/product-behavior-spec.md:778). *)
ChoiceIsNeverOverridden ==
  [][\A e \in Edits : By[e] = "bridge" /\ edit[e].at = "read" /\ config' # config
        /\ edit'[e].at = "done" => config["permission"] = Unset]_settingsVars
=============================================================================
