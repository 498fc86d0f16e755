------------------------- MODULE MCRemoteTransaction -------------------------
(* The model-checking instance of RemoteTransaction. *)
EXTENDS RemoteTransaction, TLC

Symmetry == Permutations(Tables) \cup Permutations(Cursors)
=============================================================================
