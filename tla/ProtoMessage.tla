----------------------------- MODULE ProtoMessage -----------------------------
(***************************************************************************)
(* Two objects of one of the generated message classes, and everything the  *)
(* program and gRPC do to them: accessors, Clear, copies, merges, swaps, and *)
(* sending one to the other, by a peer that may know more fields than we do. *)
(* The functions are read from the tables of the class; arenas, reflection  *)
(* and the chars of the wire are left out.                                  *)
(*                                                                          *)
(* An object is a record of its fields and of the fields it did not know    *)
(* (_internal_metadata_).  The wire is a sequence of tokens: a tag, the      *)
(* shape of the value and the value, a submessage's being tokens again.      *)
(***************************************************************************)
EXTENDS KvMessages, SentryMessages, Integers, FiniteSets, SequencesExt

CONSTANTS
    Objects,        \* two objects
    Numbers,        \* the numbers a varint field is set to
    Texts,          \* the bytes a string field is set to
    MaxElements,    \* bound: elements of a repeated field
    MaxUnknown      \* bound: fields kept that the class does not know

ASSUME NumbersAreNatural == Numbers \subseteq Nat
ASSUME TextsAreBytes == Texts \subseteq Seq(Nat)

VARIABLES class,    \* the name of the class of both objects
          msg       \* the two objects

vars == <<class, msg>>

Classes ==
    [Cursor |-> Cursor, Pair |-> Pair, OutboundMessageData |-> OutboundMessageData,
     SendMessageByMinBlockRequest |-> SendMessageByMinBlockRequest,
     SendMessageByIdRequest |-> SendMessageByIdRequest,
     SendMessageToRandomPeersRequest |-> SendMessageToRandomPeersRequest,
     SentPeers |-> SentPeers, PenalizePeerRequest |-> PenalizePeerRequest,
     PeerMinBlockRequest |-> PeerMinBlockRequest, InboundMessage |-> InboundMessage,
     Forks |-> Forks, StatusData |-> StatusData]

Fields(C) == DOMAIN C.accessors

(* A new object (SharedCtor). *)
New(C) == [fields |-> [f \in Fields(C) |-> DefaultOf(C.accessors[f])], unknown |-> <<>>]

(* A submessage has no submessages of its own: what is done to one is the    *)
(* operator "...Flat", which the operator for any class is given.            *)

Submessages == {"Forks", "OutboundMessageData"}

(* What a submessage pointer points to, made on demand (mutable_f). *)
Mutable(kind, value) == IF value = <<>> THEN New(Classes[kind]) ELSE value[1]

-----------------------------------------------------------------------------
(* Clear, MergeFrom, CopyFrom, the copy constructor and InternalSwap.       *)

Clear(C, o) ==
    [fields |-> [f \in Fields(C) |->
                    IF f \in C.clear THEN DefaultOf(C.accessors[f]) ELSE o.fields[f]],
     unknown |-> <<>>]

Merged(Sub(_, _, _), kind, mine, theirs) ==
    IF kind \in Repeated THEN mine \o theirs
    ELSE IF theirs = DefaultOf(kind) THEN mine
    ELSE IF kind \in Submessages
    THEN <<Sub(Classes[kind], Mutable(kind, mine), theirs[1])>>
    ELSE theirs

MergeBy(Sub(_, _, _), C, o, from) ==
    [fields |-> [f \in Fields(C) |->
                    IF f \in C.merged
                    THEN Merged(Sub, C.accessors[f], o.fields[f], from.fields[f])
                    ELSE o.fields[f]],
     unknown |-> o.unknown \o from.unknown]

Same(C, o, other) == o
MergeFlat(C, o, from) == MergeBy(Same, C, o, from)
MergeFrom(C, o, from) == MergeBy(MergeFlat, C, o, from)

CopyFrom(C, o, from) == MergeFrom(C, Clear(C, o), from)

CopyConstructed(C, from) ==
    [from EXCEPT !.fields = [f \in Fields(C) |->
        IF f \in C.copied THEN from.fields[f] ELSE DefaultOf(C.accessors[f])]]

(* What o holds after it was swapped with other. *)
Swapped(C, o, other) ==
    [fields |-> [f \in Fields(C) |-> IF f \in C.swapped THEN other.fields[f] ELSE o.fields[f]],
     unknown |-> other.unknown]

-----------------------------------------------------------------------------
(* Writing: proto3 leaves out what has its default, except that a submessage *)
(* that exists is written even if it is empty.                              *)

Token(tag, shape, value) == [tag |-> tag, shape |-> shape, value |-> value]

(* A field of this kind and number. *)
Written(Sub(_, _), kind, number, value) ==
    IF value = DefaultOf(kind) THEN <<>>
    ELSE IF kind \in Varints THEN <<Token(8 * number, "varint", value)>>
    ELSE IF kind = "repeated_bytes"
    THEN [i \in DOMAIN value |-> Token(8 * number + 2, "bytes", value[i])]
    ELSE IF kind = "repeated_uint64" THEN <<Token(8 * number + 2, "packed", value)>>
    ELSE IF kind \in Submessages
    THEN <<Token(8 * number + 2, "message", Sub(Classes[kind], value[1]))>>
    ELSE <<Token(8 * number + 2, "bytes", value)>>

(* The fields of o, each as Field writes it. *)
Pieces(Field(_, _, _), C, o) ==
    [i \in DOMAIN C.serialize |->
        Field(C.accessors[C.serialize[i][2]], C.serialize[i][1], o.fields[C.serialize[i][2]])]

Nothing(C, o) == <<>>
WrittenFlat(kind, number, value) == Written(Nothing, kind, number, value)
SerializeFlat(C, o) == FlattenSeq(Pieces(WrittenFlat, C, o)) \o o.unknown
WrittenField(kind, number, value) == Written(SerializeFlat, kind, number, value)
Serialize(C, o) == FlattenSeq(Pieces(WrittenField, C, o)) \o o.unknown

-----------------------------------------------------------------------------
(* Reading: a token whose tag the class does not know is kept as it is.      *)

Knows(C, tag) == \E f \in Fields(C) : tag \in C.parse[f]
FieldOf(C, tag) == CHOOSE f \in Fields(C) : tag \in C.parse[f]

Read(Sub(_, _, _), kind, old, token) ==
    IF kind \in Submessages THEN <<Sub(Classes[kind], Mutable(kind, old), token.value)>>
    ELSE IF kind \in Repeated
    THEN IF token.shape = "packed" THEN old \o token.value ELSE Append(old, token.value)
    ELSE token.value

StepBy(Sub(_, _, _), C, o, token) ==
    IF Knows(C, token.tag)
    THEN LET f == FieldOf(C, token.tag)
         IN [o EXCEPT !.fields[f] = Read(Sub, C.accessors[f], @, token)]
    ELSE [o EXCEPT !.unknown = Append(@, token)]

StepFlat(C, o, token) == StepBy(Same, C, o, token)
ParseFlat(C, o, wire) ==
    LET after[k \in 0 .. Len(wire)] ==
            IF k = 0 THEN o ELSE StepFlat(C, after[k - 1], wire[k])
    IN after[Len(wire)]

Step(C, o, token) == StepBy(ParseFlat, C, o, token)
Parse(C, o, wire) ==
    LET after[k \in 0 .. Len(wire)] ==
            IF k = 0 THEN o ELSE Step(C, after[k - 1], wire[k])
    IN after[Len(wire)]

-----------------------------------------------------------------------------
(* Sizes, in bytes.  Every tag of these classes takes one.                   *)

VarintSize(n) == 1 + Cardinality({j \in 1 .. 9 : \A i \in 1 .. j : n >= 128 ^ i})
WithLength(n) == VarintSize(n) + n

SumOf(sizes) ==
    LET upTo[k \in 0 .. Len(sizes)] == IF k = 0 THEN 0 ELSE upTo[k - 1] + sizes[k]
    IN upTo[Len(sizes)]
VarintSizes(numbers) == [i \in DOMAIN numbers |-> VarintSize(numbers[i])]

TokenSizeBy(Sub(_), token) ==
    1 + IF token.shape = "varint" THEN VarintSize(token.value)
        ELSE IF token.shape = "bytes" THEN WithLength(Len(token.value))
        ELSE IF token.shape = "packed" THEN WithLength(SumOf(VarintSizes(token.value)))
        ELSE WithLength(Sub(token.value))

Zero(wire) == 0
TokenSizeFlat(token) == TokenSizeBy(Zero, token)
WireSizeFlat(wire) == SumOf([i \in DOMAIN wire |-> TokenSizeFlat(wire[i])])
TokenSize(token) == TokenSizeBy(WireSizeFlat, token)
WireSize(wire) == SumOf([i \in DOMAIN wire |-> TokenSize(wire[i])])

FieldSize(Sub(_, _), kind, value) ==
    IF value = DefaultOf(kind) THEN 0
    ELSE IF kind \in Varints THEN 1 + VarintSize(value)
    ELSE IF kind = "repeated_bytes"
    THEN Len(value) + SumOf([i \in DOMAIN value |-> WithLength(Len(value[i]))])
    ELSE IF kind = "repeated_uint64" THEN 1 + WithLength(SumOf(VarintSizes(value)))
    ELSE IF kind \in Submessages THEN 1 + WithLength(Sub(Classes[kind], value[1]))
    ELSE 1 + WithLength(Len(value))

SizeBy(Sub(_, _), C, o) ==
    SumOf([i \in DOMAIN C.sized |->
              FieldSize(Sub, C.accessors[C.sized[i]], o.fields[C.sized[i]])])
    + WireSize(o.unknown)

None(C, o) == 0
SizeFlat(C, o) == SizeBy(None, C, o)
ByteSizeLong(C, o) == SizeBy(SizeFlat, C, o)

-----------------------------------------------------------------------------
(* The accessors: the objects one call away from o.                         *)

Edits(Sub(_, _), kind, value) ==
    {DefaultOf(kind)}                                                 \* clear_f, release_f
    \cup (IF kind \in Varints THEN Numbers ELSE {})                    \* set_f
    \cup (IF kind \in Strings THEN Texts ELSE {})                      \* set_f
    \cup (IF kind = "repeated_bytes" /\ Len(value) < MaxElements
          THEN {Append(value, t) : t \in Texts} ELSE {})               \* add_f
    \cup (IF kind = "repeated_uint64" /\ Len(value) < MaxElements
          THEN {Append(value, n) : n \in Numbers} ELSE {})             \* add_f
    \cup (IF kind \in Submessages                                      \* mutable_f
          THEN {<<m>> : m \in {Mutable(kind, value)} \cup Sub(Classes[kind], Mutable(kind, value))}
          ELSE {})

AccessedBy(Sub(_, _), C, o) ==
    UNION {{[o EXCEPT !.fields[f] = v] : v \in Edits(Sub, C.accessors[f], o.fields[f])} :
           f \in Fields(C)}

NoObject(C, o) == {}
AccessedFlat(C, o) == AccessedBy(NoObject, C, o)
Accessed(C, o) == AccessedBy(AccessedFlat, C, o)

(* Bound: objects no larger than the constants allow.                       *)
SmallBy(Sub(_, _), C, o) ==
    /\ Len(o.unknown) <= MaxUnknown
    /\ \A f \in Fields(C) :
          LET kind == C.accessors[f]
              value == o.fields[f]
          IN /\ kind \in Repeated => Len(value) <= MaxElements
             /\ kind \in Submessages /\ value # <<>> => Sub(Classes[kind], value[1])

AnyObject(C, o) == TRUE
SmallFlat(C, o) == SmallBy(AnyObject, C, o)
Small(C, o) == SmallBy(SmallFlat, C, o)

-----------------------------------------------------------------------------
TheClass == Classes[class]

Init == /\ class \in DOMAIN Classes
        /\ msg = [i \in Objects |-> New(TheClass)]

Become(i, o) == /\ Small(TheClass, o)
                /\ msg' = [msg EXCEPT ![i] = o]
                /\ UNCHANGED class

CallAccessor(i) == \E o \in Accessed(TheClass, msg[i]) : Become(i, o)

CallClear(i) == Become(i, Clear(TheClass, msg[i]))

(* An object copied to itself is left alone. *)
CallCopyFrom(i, j) == Become(i, IF i = j THEN msg[i] ELSE CopyFrom(TheClass, msg[i], msg[j]))

CallMergeFrom(i, j) == i # j /\ Become(i, MergeFrom(TheClass, msg[i], msg[j]))

CallSwap(i, j) == /\ msg' = [msg EXCEPT ![i] = Swapped(TheClass, msg[i], msg[j]),
                                       ![j] = Swapped(TheClass, msg[j], msg[i])]
                  /\ UNCHANGED class

(* A field of a later version of the protocol. *)
NewField == Token(8 * 15, "varint", 1)

(* gRPC parses what a peer sent into an object that may have been used      *)
(* before, which it clears first.                                           *)
Receive(i, j) ==
    \E tail \in {<<>>, <<NewField>>} :
        Become(i, Parse(TheClass, Clear(TheClass, msg[i]), Serialize(TheClass, msg[j]) \o tail))

Next == \/ \E i \in Objects : CallAccessor(i) \/ CallClear(i)
        \/ \E i, j \in Objects : \/ CallCopyFrom(i, j) \/ CallMergeFrom(i, j)
                               \/ CallSwap(i, j) \/ Receive(i, j)

Spec == Init /\ [][Next]_vars

-----------------------------------------------------------------------------
(* Other ways a peer may write the same message, all of them legal.  It may  *)
(* write an older value before each single one, repeated numbers one by one, *)
(* and a submessage in as many pieces as it has tokens.                      *)
OddlyWritten(Sub(_, _), kind, number, value) ==
    IF value = DefaultOf(kind) \/ kind = "repeated_bytes" THEN WrittenField(kind, number, value)
    ELSE IF kind \in Varints
    THEN <<Token(8 * number, "varint", 7), Token(8 * number, "varint", value)>>
    ELSE IF kind = "repeated_uint64"
    THEN [k \in DOMAIN value |-> Token(8 * number, "varint", value[k])]
    ELSE IF kind \in Submessages
    THEN LET inner == Sub(Classes[kind], value[1])
         IN IF inner = <<>> THEN <<Token(8 * number + 2, "message", <<>>)>>
            ELSE [k \in DOMAIN inner |-> Token(8 * number + 2, "message", <<inner[k]>>)]
    ELSE <<Token(8 * number + 2, "bytes", <<7>>), Token(8 * number + 2, "bytes", value)>>

OddFlat(kind, number, value) == OddlyWritten(Nothing, kind, number, value)
OddMessage(C, o) == FlattenSeq(Pieces(OddFlat, C, o)) \o o.unknown
OddField(kind, number, value) == OddlyWritten(OddMessage, kind, number, value)

(* Either way, in the order of the field numbers or the other way round.     *)
Spellings(C, o) ==
    LET plain == Pieces(WrittenField, C, o)
        odd == Pieces(OddField, C, o)
    IN <<FlattenSeq(plain) \o o.unknown, o.unknown \o FlattenSeq(Reverse(plain)),
         FlattenSeq(odd) \o o.unknown, o.unknown \o FlattenSeq(Reverse(odd))>>

-----------------------------------------------------------------------------
(* What is received is what was sent, however the peer wrote it and         *)
(* whatever the receiving object held before: a reply object used for every *)
(* reply of a stream never mixes two of them, a fork list that comes        *)
(* unpacked is not lost, and a field of a newer peer is handed on.          *)
Delivered ==
    \A i, j \in Objects :
        LET wires == Spellings(TheClass, msg[j])
        IN i # j => \A k \in DOMAIN wires :
                Parse(TheClass, Clear(TheClass, msg[i]), wires[k]) = msg[j]

(* Merging an object into another is reading both, one after the other, from *)
(* the wire: MergeFrom and _InternalParse agree on what replaces, what is    *)
(* appended and what is merged in turn.                                      *)
MergeIsConcatenation ==
    \A i, j \in Objects :
        LET both == Serialize(TheClass, msg[i]) \o Serialize(TheClass, msg[j])
        IN i # j => MergeFrom(TheClass, msg[i], msg[j]) = Parse(TheClass, New(TheClass), both)

(* Clear, CopyFrom, the copy constructor and Swap treat the object as a     *)
(* whole, though some of them handle runs of members as blocks of memory:   *)
(* nothing of what was there before remains, nothing of the other is lost.  *)
WholeObjects ==
    \A i, j \in Objects :
        /\ Clear(TheClass, msg[i]) = New(TheClass)
        /\ i # j => CopyFrom(TheClass, msg[i], msg[j]) = msg[j]
        /\ CopyConstructed(TheClass, msg[i]) = msg[i]
        /\ Swapped(TheClass, msg[i], msg[j]) = msg[j]

(* ByteSizeLong, which sizes the buffer, gives the size of what              *)
(* _InternalSerialize then writes into it without looking.                  *)
SizesExact ==
    \A i \in Objects : ByteSizeLong(TheClass, msg[i]) = WireSize(Serialize(TheClass, msg[i]))
==============================================================================
