--------------------------- MODULE MCSentryClient ---------------------------
(* The model-checking instance of SentryClient. *)
EXTENDS SentryClient
=============================================================================
