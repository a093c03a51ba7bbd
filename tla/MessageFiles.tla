------------------------------ MODULE MessageFiles ------------------------------
(***************************************************************************)
(* The files of messages in either direction, in two directories: those a  *)
(* turn or a client sends, and those users send.                           *)
(***************************************************************************)
EXTENDS OutboundSpool, InboundMedia

(* Files: what the outbox, an upload or a turn still needs is in the spool, and
   the media directory is what its calls returned, within the quota
   (outbound_artifacts.py, terminal_delivery.py, channels/media.py). *)
FilesAreAccountedFor == FilesOutlastTheirUse /\ SpoolMatchesResults /\ QuotaHolds
=============================================================================
