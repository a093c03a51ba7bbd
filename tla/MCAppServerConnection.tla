----------------------- MODULE MCAppServerConnection -----------------------
(* Small instances of AppServerConnection for TLC. *)
EXTENDS AppServerConnection

CONSTANTS c1, c2
=============================================================================
