--------------------------- MODULE MCKvSeekTools ---------------------------
(* The model-checking instance of KvSeekTools: one tool, each of the three. *)
EXTENDS KvSeekTools

EveryTool == {"sync", "queue", "corked"}
=============================================================================
