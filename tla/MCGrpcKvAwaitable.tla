-------------------------- MODULE MCGrpcKvAwaitable --------------------------
(* The model-checking instance of GrpcKvAwaitable. *)
EXTENDS GrpcKvAwaitable, TLC

Symmetry == Permutations(Txs)
=============================================================================
