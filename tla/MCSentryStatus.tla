--------------------------- MODULE MCSentryStatus ---------------------------
(* The model-checking instance of SentryStatus: every combination of flags. *)
EXTENDS SentryStatus
=============================================================================
