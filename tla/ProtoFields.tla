----------------------------- MODULE ProtoFields -----------------------------
(***************************************************************************)
(* How the tables of KvMessages and SentryMessages are written.  A message  *)
(* class is a record of what its generated functions do:                    *)
(*   accessors  the kind of each field, as its setters and getters take it; *)
(*   copied     the fields the copy constructor takes over;                 *)
(*   clear      the fields Clear resets;                                    *)
(*   parse      the tags each field is read from;                           *)
(*   serialize  the fields in the order they are written, with their number;*)
(*   sized      the fields ByteSizeLong counts, one after the other;        *)
(*   merged     the fields MergeFrom takes over;                            *)
(*   swapped    the fields InternalSwap exchanges.                          *)
(* Layouts matter: some functions treat a run of members as one block of    *)
(* memory (memset, memcpy, memswap), whatever the declaration has there.    *)
(***************************************************************************)
EXTENDS Naturals, Sequences

(* The members declared from first to last, both included. *)
Span(members, first, last) ==
    {members[k] : k \in {k \in DOMAIN members :
                            /\ \E i \in 1 .. k : members[i] = first
                            /\ \E j \in k .. Len(members) : members[j] = last}}

MessageClass(accessors, copied, clear, parse, serialize, sized, merged, swapped) ==
    [accessors |-> accessors, copied |-> copied, clear |-> clear, parse |-> parse,
     serialize |-> serialize, sized |-> sized, merged |-> merged, swapped |-> swapped]

Varints == {"enum", "uint32", "uint64"}
Strings == {"string", "bytes"}
Repeated == {"repeated_bytes", "repeated_uint64"}

(* The value of a field nothing was set in.  A submessage is the sequence of *)
(* at most one object that its pointer points to.                           *)
DefaultOf(kind) == IF kind \in Varints THEN 0 ELSE <<>>
==============================================================================
