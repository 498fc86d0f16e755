---------------------------- MODULE MCProtoMessage ----------------------------
EXTENDS ProtoMessage

(* A number whose varint takes one byte and one whose varint takes two. *)
MCNumbers == {1, 300}
MCTexts == {<<1>>}
Symmetry == Permutations(Objects)
===============================================================================
