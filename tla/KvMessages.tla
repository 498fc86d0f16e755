------------------------------ MODULE KvMessages ------------------------------
(***************************************************************************)
(* The messages of the KV service (kv.pb.h, kv.pb.cc): for each class, what *)
(* its generated functions do to which field, one table for each function.  *)
(* ProtoFields says how a table is read, ProtoMessage what is done with it. *)
(***************************************************************************)
EXTENDS ProtoFields

Cursor_members == <<"bucketname", "k", "v", "op", "cursor">>
Cursor_accessors ==
    [op |-> "enum", bucketname |-> "string", cursor |-> "uint32", k |-> "bytes", v |-> "bytes"]
Cursor_copied == {"bucketname", "k", "v"} \cup Span(Cursor_members, "op", "cursor")
Cursor_Clear == {"bucketname", "k", "v"} \cup Span(Cursor_members, "op", "cursor")
Cursor_Parse ==
    [op |-> {8}, bucketname |-> {18}, cursor |-> {24}, k |-> {34}, v |-> {42}]
Cursor_Serialize == <<<<1, "op">>, <<2, "bucketname">>, <<3, "cursor">>, <<4, "k">>, <<5, "v">>>>
\* Mutant: the operation is not counted.
Cursor_ByteSizeLong_NoOp == <<"bucketname", "k", "v", "cursor">>
Cursor_ByteSizeLong == <<"bucketname", "k", "v", "op", "cursor">>
Cursor_MergeFrom == {"bucketname", "k", "v", "op", "cursor"}
Cursor_InternalSwap == {"bucketname", "k", "v"} \cup Span(Cursor_members, "op", "cursor")
Cursor ==
    MessageClass(Cursor_accessors, Cursor_copied, Cursor_Clear,
        Cursor_Parse, Cursor_Serialize, Cursor_ByteSizeLong,
        Cursor_MergeFrom, Cursor_InternalSwap)

Pair_accessors ==
    [k |-> "bytes", v |-> "bytes", cursorid |-> "uint32"]
Pair_copied == {"k", "v", "cursorid"}
Pair_Clear == {"k", "v", "cursorid"}
Pair_Parse ==
    [k |-> {10}, v |-> {18}, cursorid |-> {24}]
Pair_Serialize == <<<<1, "k">>, <<2, "v">>, <<3, "cursorid">>>>
Pair_ByteSizeLong == <<"k", "v", "cursorid">>
Pair_MergeFrom == {"k", "v", "cursorid"}
Pair_InternalSwap == {"k", "v", "cursorid"}
Pair ==
    MessageClass(Pair_accessors, Pair_copied, Pair_Clear,
        Pair_Parse, Pair_Serialize, Pair_ByteSizeLong,
        Pair_MergeFrom, Pair_InternalSwap)
==============================================================================
