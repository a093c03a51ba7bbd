--------------------------------- MODULE Host ---------------------------------
(***************************************************************************)
(* What the bridges of one host share without talking to each other: the   *)
(* bridge and its restarts, the dedicated core, the user configuration of  *)
(* native, and .env.                                                       *)
(***************************************************************************)
EXTENDS BridgeProcesses, CoreProcess, NativeSettings, EnvFile

(* Native and local settings stay consistent under concurrent edits
   (settings_backend.py, admin/config_store.py). *)
SettingsStayUsable == ModelSupportsSettings /\ ChannelStaysUsable

(* Nobody mistakes a process, or an edit, of another for its own: restarts,
   core commands, the permission default and saves of .env (ops.py:532-571,
   core_manager.py, settings_backend.py:434-499, admin/config_store.py). *)
OthersAreRespected ==
  /\ HealthyIsTheNewOne /\ CoresAreIdentified
  /\ ChoiceIsNeverOverridden /\ NoEditIsLost
=============================================================================
