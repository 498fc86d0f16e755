-------------------------- MODULE MCKvSeekCallback --------------------------
(* The model-checking instance of KvSeekCallback. *)
EXTENDS KvSeekCallback
=============================================================================
