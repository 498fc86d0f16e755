------------------------- MODULE ProtoMessage_proofs -------------------------
(***************************************************************************)
(* What ProtoMessage promises of the generated classes, proved for objects  *)
(* of any size and for any numbers and texts set in their fields.           *)
(*                                                                          *)
(* The tables of a class are looked at once, to see that it is Sound and    *)
(* Counted; the rest knows no class.  The piece of the wire a field is      *)
(* written as reads back as a merge of the field (WrittenReads), pieces one *)
(* after the other as a merge of every field (PiecesRead), which is what    *)
(* MergeFrom does (EitherWayReads).  All of it is proved of a class without *)
(* submessages first and of every class from that (EverySubmessageReads).   *)
(* Sizes go the same way: a field, its piece of the wire, the message, its  *)
(* submessages (EverySubmessageSized).                                      *)
(***************************************************************************)
EXTENDS ProtoMessage, FiniteSetTheorems, WellFoundedInduction, TLAPS

(* Induction over the numbers up to n.                                      *)

(* The order of the numbers, as a set of pairs.                             *)
Less == {p \in Nat \X Nat : p[1] < p[2]}

(* Induction up to n, for a set in place of a predicate.                    *)
LEMMA Induction ==
    ASSUME NEW n \in Nat, NEW Good, 0 \in Good,
           \A k \in 1 .. n : k - 1 \in Good => k \in Good
    PROVE  \A k \in 0 .. n : k \in Good
  <1> DEFINE Bad == {k \in 0 .. n : k \notin Good}
  <1>1. SUFFICES ASSUME Bad # {} PROVE FALSE
    OBVIOUS
  <1>2. PICK k \in Bad : \A j \in Bad : ~ (<<j, k>> \in Less)
    <2>1. Bad \subseteq Nat
      OBVIOUS
    <2>2. IsWellFoundedOn(Less, Nat)
      BY NatLessThanWellFounded DEF OpToRel, Less
    <2> HIDE DEF Bad
    <2> QED BY <1>1, <2>1, <2>2, WFMin
  <1>3. k \in 1 .. n /\ k \notin Good
    OBVIOUS
  <1>4. k - 1 \in Bad /\ k \in Nat /\ k - 1 \in Nat
    BY <1>3
  <1>5. <<k - 1, k>> \in Less
    BY <1>4 DEF Less
  <1> QED BY <1>2, <1>4, <1>5

-----------------------------------------------------------------------------
(* The functions behind the operators that run over a sequence.             *)


(* SumOf adds the numbers one after the other.                              *)
LEMMA SumSteps ==
    ASSUME NEW S, NEW s \in Seq(S)
    PROVE  \E g : /\ g[0] = 0
                  /\ \A k \in 1 .. Len(s) : g[k] = g[k - 1] + s[k]
                  /\ SumOf(s) = g[Len(s)]
  <1> DEFINE Good == {m \in 0 .. Len(s) : \E g :
                         g = [k \in 0 .. m |-> IF k = 0 THEN 0 ELSE g[k - 1] + s[k]]}
  <1>0. Len(s) \in Nat
    OBVIOUS
  <1>1. 0 \in Good
    <2> DEFINE start == [k \in 0 .. 0 |-> 0]
    <2>1. start = [k \in 0 .. 0 |-> IF k = 0 THEN 0 ELSE start[k - 1] + s[k]]
      OBVIOUS
    <2> HIDE DEF start
    <2> QED BY <1>0, <2>1
  <1>2. ASSUME NEW m \in 1 .. Len(s), m - 1 \in Good PROVE m \in Good
    <2>1. PICK g : g = [k \in 0 .. m - 1 |-> IF k = 0 THEN 0 ELSE g[k - 1] + s[k]]
      BY <1>2
    <2> DEFINE h == [k \in 0 .. m |-> IF k = m THEN g[m - 1] + s[m] ELSE g[k]]
    <2>2. ASSUME NEW k \in 0 .. m
          PROVE  h[k] = IF k = 0 THEN 0 ELSE h[k - 1] + s[k]
      <3>1. CASE k = m
        BY <3>1
      <3>2. CASE k # m
        <4>1. k \in 0 .. m - 1 /\ (k # 0 => k - 1 \in 0 .. m - 1 /\ k - 1 # m)
          BY <3>2
        <4>2. g[k] = IF k = 0 THEN 0 ELSE g[k - 1] + s[k]
          BY <2>1, <4>1
        <4> QED BY <4>1, <4>2, <3>2
      <3> QED BY <3>1, <3>2
    <2>3. h = [k \in 0 .. m |-> IF k = 0 THEN 0 ELSE h[k - 1] + s[k]]
      BY <2>2
    <2>4. m \in 0 .. Len(s)
      BY <1>0
    <2> HIDE DEF h
    <2> QED BY <2>3, <2>4
  <1>3. Len(s) \in Good
    <2> HIDE DEF Good
    <2>1. \A m \in 0 .. Len(s) : m \in Good
      BY <1>0, <1>1, <1>2, Induction
    <2> QED BY <1>0, <2>1
  <1>4. PICK g : g = [k \in 0 .. Len(s) |-> IF k = 0 THEN 0 ELSE g[k - 1] + s[k]]
    BY <1>3
  <1> DEFINE u == CHOOSE f :
                    f = [k \in 0 .. Len(s) |-> IF k = 0 THEN 0 ELSE f[k - 1] + s[k]]
  <1>5. u = [k \in 0 .. Len(s) |-> IF k = 0 THEN 0 ELSE u[k - 1] + s[k]]
    BY <1>4
  <1>6. SumOf(s) = u[Len(s)]
    BY DEF SumOf
  <1> HIDE DEF u
  <1>7. u[0] = 0
    BY <1>0, <1>5
  <1>8. ASSUME NEW k \in 1 .. Len(s) PROVE u[k] = u[k - 1] + s[k]
    <2>1. k \in 0 .. Len(s) /\ k # 0
      BY <1>0
    <2> QED BY <1>5, <2>1
  <1> QED BY <1>6, <1>7, <1>8

(* ParseFlat reads the tokens one after the other.                          *)
LEMMA ParseFlatSteps ==
    ASSUME NEW C, NEW o, NEW S, NEW wire \in Seq(S)
    PROVE  \E g : /\ g[0] = o
                  /\ \A k \in 1 .. Len(wire) : g[k] = StepFlat(C, g[k - 1], wire[k])
                  /\ ParseFlat(C, o, wire) = g[Len(wire)]
  <1> DEFINE Good == {m \in 0 .. Len(wire) : \E g :
                         g = [k \in 0 .. m |-> IF k = 0 THEN o ELSE StepFlat(C, g[k - 1], wire[k])]}
  <1>0. Len(wire) \in Nat
    OBVIOUS
  <1>1. 0 \in Good
    <2> DEFINE start == [k \in 0 .. 0 |-> o]
    <2>1. start = [k \in 0 .. 0 |-> IF k = 0 THEN o ELSE StepFlat(C, start[k - 1], wire[k])]
      OBVIOUS
    <2> HIDE DEF start
    <2> QED BY <1>0, <2>1
  <1>2. ASSUME NEW m \in 1 .. Len(wire), m - 1 \in Good PROVE m \in Good
    <2>1. PICK g : g = [k \in 0 .. m - 1 |-> IF k = 0 THEN o ELSE StepFlat(C, g[k - 1], wire[k])]
      BY <1>2
    <2> DEFINE h == [k \in 0 .. m |-> IF k = m THEN StepFlat(C, g[m - 1], wire[m]) ELSE g[k]]
    <2>2. ASSUME NEW k \in 0 .. m
          PROVE  h[k] = IF k = 0 THEN o ELSE StepFlat(C, h[k - 1], wire[k])
      <3>1. CASE k = m
        BY <3>1
      <3>2. CASE k # m
        <4>1. k \in 0 .. m - 1 /\ (k # 0 => k - 1 \in 0 .. m - 1 /\ k - 1 # m)
          BY <3>2
        <4>2. g[k] = IF k = 0 THEN o ELSE StepFlat(C, g[k - 1], wire[k])
          BY <2>1, <4>1
        <4> QED BY <4>1, <4>2, <3>2
      <3> QED BY <3>1, <3>2
    <2>3. h = [k \in 0 .. m |-> IF k = 0 THEN o ELSE StepFlat(C, h[k - 1], wire[k])]
      BY <2>2
    <2>4. m \in 0 .. Len(wire)
      BY <1>0
    <2> HIDE DEF h
    <2> QED BY <2>3, <2>4
  <1>3. Len(wire) \in Good
    <2> HIDE DEF Good
    <2>1. \A m \in 0 .. Len(wire) : m \in Good
      BY <1>0, <1>1, <1>2, Induction
    <2> QED BY <1>0, <2>1
  <1>4. PICK g : g = [k \in 0 .. Len(wire) |-> IF k = 0 THEN o ELSE StepFlat(C, g[k - 1], wire[k])]
    BY <1>3
  <1> DEFINE u == CHOOSE f :
                    f = [k \in 0 .. Len(wire) |-> IF k = 0 THEN o ELSE StepFlat(C, f[k - 1], wire[k])]
  <1>5. u = [k \in 0 .. Len(wire) |-> IF k = 0 THEN o ELSE StepFlat(C, u[k - 1], wire[k])]
    BY <1>4
  <1>6. ParseFlat(C, o, wire) = u[Len(wire)]
    BY DEF ParseFlat
  <1> HIDE DEF u
  <1>7. u[0] = o
    BY <1>0, <1>5
  <1>8. ASSUME NEW k \in 1 .. Len(wire) PROVE u[k] = StepFlat(C, u[k - 1], wire[k])
    <2>1. k \in 0 .. Len(wire) /\ k # 0
      BY <1>0
    <2> QED BY <1>5, <2>1
  <1> QED BY <1>6, <1>7, <1>8

(* Parse reads the tokens one after the other.                              *)
LEMMA ParseSteps ==
    ASSUME NEW C, NEW o, NEW S, NEW wire \in Seq(S)
    PROVE  \E g : /\ g[0] = o
                  /\ \A k \in 1 .. Len(wire) : g[k] = Step(C, g[k - 1], wire[k])
                  /\ Parse(C, o, wire) = g[Len(wire)]
  <1> DEFINE Good == {m \in 0 .. Len(wire) : \E g :
                         g = [k \in 0 .. m |-> IF k = 0 THEN o ELSE Step(C, g[k - 1], wire[k])]}
  <1>0. Len(wire) \in Nat
    OBVIOUS
  <1>1. 0 \in Good
    <2> DEFINE start == [k \in 0 .. 0 |-> o]
    <2>1. start = [k \in 0 .. 0 |-> IF k = 0 THEN o ELSE Step(C, start[k - 1], wire[k])]
      OBVIOUS
    <2> HIDE DEF start
    <2> QED BY <1>0, <2>1
  <1>2. ASSUME NEW m \in 1 .. Len(wire), m - 1 \in Good PROVE m \in Good
    <2>1. PICK g : g = [k \in 0 .. m - 1 |-> IF k = 0 THEN o ELSE Step(C, g[k - 1], wire[k])]
      BY <1>2
    <2> DEFINE h == [k \in 0 .. m |-> IF k = m THEN Step(C, g[m - 1], wire[m]) ELSE g[k]]
    <2>2. ASSUME NEW k \in 0 .. m
          PROVE  h[k] = IF k = 0 THEN o ELSE Step(C, h[k - 1], wire[k])
      <3>1. CASE k = m
        BY <3>1
      <3>2. CASE k # m
        <4>1. k \in 0 .. m - 1 /\ (k # 0 => k - 1 \in 0 .. m - 1 /\ k - 1 # m)
          BY <3>2
        <4>2. g[k] = IF k = 0 THEN o ELSE Step(C, g[k - 1], wire[k])
          BY <2>1, <4>1
        <4> QED BY <4>1, <4>2, <3>2
      <3> QED BY <3>1, <3>2
    <2>3. h = [k \in 0 .. m |-> IF k = 0 THEN o ELSE Step(C, h[k - 1], wire[k])]
      BY <2>2
    <2>4. m \in 0 .. Len(wire)
      BY <1>0
    <2> HIDE DEF h
    <2> QED BY <2>3, <2>4
  <1>3. Len(wire) \in Good
    <2> HIDE DEF Good
    <2>1. \A m \in 0 .. Len(wire) : m \in Good
      BY <1>0, <1>1, <1>2, Induction
    <2> QED BY <1>0, <2>1
  <1>4. PICK g : g = [k \in 0 .. Len(wire) |-> IF k = 0 THEN o ELSE Step(C, g[k - 1], wire[k])]
    BY <1>3
  <1> DEFINE u == CHOOSE f :
                    f = [k \in 0 .. Len(wire) |-> IF k = 0 THEN o ELSE Step(C, f[k - 1], wire[k])]
  <1>5. u = [k \in 0 .. Len(wire) |-> IF k = 0 THEN o ELSE Step(C, u[k - 1], wire[k])]
    BY <1>4
  <1>6. Parse(C, o, wire) = u[Len(wire)]
    BY DEF Parse
  <1> HIDE DEF u
  <1>7. u[0] = o
    BY <1>0, <1>5
  <1>8. ASSUME NEW k \in 1 .. Len(wire) PROVE u[k] = Step(C, u[k - 1], wire[k])
    <2>1. k \in 0 .. Len(wire) /\ k # 0
      BY <1>0
    <2> QED BY <1>5, <2>1
  <1> QED BY <1>6, <1>7, <1>8

(* The function FlattenSeq chooses exists.                                  *)
LEMMA FlattenExists ==
    ASSUME NEW S, NEW p \in Seq(S), p # <<>>
    PROVE  \E g : /\ g = [i \in 1 .. Len(p) |-> IF i = 1 THEN p[i] ELSE g[i - 1] \o p[i]]
                  /\ FlattenSeq(p) = g[Len(p)]
  <1> DEFINE Has(m) == \E g : g = [i \in 1 .. m |-> IF i = 1 THEN p[i] ELSE g[i - 1] \o p[i]]
             Good == {m \in 0 .. Len(p) : Has(m)}
  <1>0. Len(p) \in Nat /\ Len(p) # 0
    OBVIOUS
  <1>1. 0 \in Good
    <2> DEFINE none == [i \in 1 .. 0 |-> <<>>]
    <2>1. none = [i \in 1 .. 0 |-> IF i = 1 THEN p[i] ELSE none[i - 1] \o p[i]]
      OBVIOUS
    <2> HIDE DEF none
    <2>2. Has(0)
      BY <2>1
    <2> HIDE DEF Has
    <2> QED BY <1>0, <2>2
  <1>2. ASSUME NEW m \in 1 .. Len(p), m - 1 \in Good PROVE m \in Good
    <2>1. PICK g : g = [i \in 1 .. m - 1 |-> IF i = 1 THEN p[i] ELSE g[i - 1] \o p[i]]
      BY <1>2
    <2> DEFINE h == [i \in 1 .. m |-> IF i = m THEN IF m = 1 THEN p[m] ELSE g[m - 1] \o p[m] ELSE g[i]]
    <2>2. ASSUME NEW i \in 1 .. m
          PROVE  h[i] = IF i = 1 THEN p[i] ELSE h[i - 1] \o p[i]
      <3>1. CASE i = m
        BY <3>1
      <3>2. CASE i # m
        <4>1. i \in 1 .. m - 1 /\ (i # 1 => i - 1 \in 1 .. m - 1 /\ i - 1 # m)
          BY <3>2
        <4>2. g[i] = IF i = 1 THEN p[i] ELSE g[i - 1] \o p[i]
          BY <2>1, <4>1
        <4> QED BY <4>1, <4>2, <3>2
      <3> QED BY <3>1, <3>2
    <2>3. h = [i \in 1 .. m |-> IF i = 1 THEN p[i] ELSE h[i - 1] \o p[i]]
      BY <2>2
    <2>4. m \in 0 .. Len(p)
      BY <1>0
    <2> HIDE DEF h
    <2> QED BY <2>3, <2>4
  <1>3. Len(p) \in Good
    <2> HIDE DEF Good
    <2>1. \A m \in 0 .. Len(p) : m \in Good
      BY <1>0, <1>1, <1>2, Induction
    <2> QED BY <1>0, <2>1
  <1>4. PICK g : g = [i \in 1 .. Len(p) |-> IF i = 1 THEN p[i] ELSE g[i - 1] \o p[i]]
    BY <1>3
  <1> DEFINE u == CHOOSE f : f = [i \in 1 .. Len(p) |-> IF i = 1 THEN p[i] ELSE f[i - 1] \o p[i]]
  <1>5. u = [i \in 1 .. Len(p) |-> IF i = 1 THEN p[i] ELSE u[i - 1] \o p[i]]
    BY <1>4
  <1>6. FlattenSeq(p) = u[Len(p)]
    BY <1>0 DEF FlattenSeq
  <1> HIDE DEF u
  <1> QED BY <1>5, <1>6

(* FlattenSeq puts the sequences one after the other.                       *)
LEMMA FlattenSteps ==
    ASSUME NEW S, NEW p \in Seq(Seq(S)), p # <<>>
    PROVE  \E g \in [0 .. Len(p) -> Seq(S)] :
              /\ g[0] = <<>>
              /\ \A k \in 1 .. Len(p) : g[k] = g[k - 1] \o p[k]
              /\ FlattenSeq(p) = g[Len(p)]
  <1>0. Len(p) \in Nat /\ Len(p) # 0
    OBVIOUS
  <1>1. PICK h : /\ h = [i \in 1 .. Len(p) |-> IF i = 1 THEN p[i] ELSE h[i - 1] \o p[i]]
                 /\ FlattenSeq(p) = h[Len(p)]
    BY FlattenExists
  <1> DEFINE Good == {k \in 0 .. Len(p) : k # 0 => h[k] \in Seq(S)}
  <1>2. \A k \in 0 .. Len(p) : k \in Good
    <2>1. 0 \in Good
      BY <1>0
    <2>2. ASSUME NEW k \in 1 .. Len(p), k - 1 \in Good PROVE k \in Good
      <3>1. p[k] \in Seq(S) /\ k \in 0 .. Len(p)
        BY <1>0
      <3>2. h[k] = IF k = 1 THEN p[k] ELSE h[k - 1] \o p[k]
        BY <1>1
      <3>3. CASE k = 1
        BY <3>1, <3>2, <3>3
      <3>4. CASE k # 1
        <4>1. k - 1 # 0 /\ h[k - 1] \in Seq(S)
          BY <2>2, <3>4
        <4>2. h[k - 1] \o p[k] \in Seq(S)
          BY <3>1, <4>1
        <4> QED BY <3>1, <3>2, <3>4, <4>2
      <3> QED BY <3>3, <3>4
    <2> HIDE DEF Good
    <2> QED BY <1>0, <2>1, <2>2, Induction
  <1> DEFINE g == [k \in 0 .. Len(p) |-> IF k = 0 THEN <<>> ELSE h[k]]
  <1>3. g \in [0 .. Len(p) -> Seq(S)]
    BY <1>2
  <1>4. ASSUME NEW k \in 1 .. Len(p) PROVE g[k] = g[k - 1] \o p[k]
    <2>1. h[k] = IF k = 1 THEN p[k] ELSE h[k - 1] \o p[k]
      BY <1>1
    <2>2. k \in 0 .. Len(p) /\ k - 1 \in 0 .. Len(p) /\ p[k] \in Seq(S)
      BY <1>0
    <2>3. CASE k = 1
      BY <2>1, <2>2, <2>3
    <2>4. CASE k # 1
      <3>1. g[k] = h[k] /\ g[k - 1] = h[k - 1]
        BY <2>2, <2>4
      <3> QED BY <2>1, <2>4, <3>1
    <2> QED BY <2>3, <2>4
  <1>5. FlattenSeq(p) = g[Len(p)]
    BY <1>0, <1>1
  <1>6. g[0] = <<>>
    BY <1>0
  <1> HIDE DEF g
  <1> QED BY <1>3, <1>4, <1>5, <1>6

(* Reading nothing leaves the object as it is.                              *)
LEMMA ParseNone == ASSUME NEW C, NEW o PROVE Parse(C, o, <<>>) = o
  <1> DEFINE w == <<>>
  <1>1. w \in Seq({}) /\ Len(w) = 0
    OBVIOUS
  <1> HIDE DEF w
  <1>2. PICK g : /\ g[0] = o
                 /\ \A k \in 1 .. Len(w) : g[k] = Step(C, g[k - 1], w[k])
                 /\ Parse(C, o, w) = g[Len(w)]
    <2>1. w \in Seq({})
      BY <1>1
    <2> QED BY <2>1, ParseSteps
  <1> QED BY <1>1, <1>2 DEF w

(* Reading one token is one step.                                           *)
LEMMA ParseOne == ASSUME NEW C, NEW o, NEW t PROVE Parse(C, o, <<t>>) = Step(C, o, t)
  <1> DEFINE w == <<t>>
  <1>1. w \in Seq({t}) /\ Len(w) = 1 /\ w[1] = t
    OBVIOUS
  <1>2. PICK g : /\ g[0] = o
                 /\ \A k \in 1 .. Len(w) : g[k] = Step(C, g[k - 1], w[k])
                 /\ Parse(C, o, w) = g[Len(w)]
    <2> HIDE DEF w
    <2> QED BY <1>1, ParseSteps
  <1> HIDE DEF w
  <1>3. g[0] = o /\ g[1] = Step(C, g[0], t)
    BY <1>1, <1>2
  <1> QED BY <1>1, <1>2, <1>3 DEF w

(* Reading two wires written one after the other is reading the first and   *)
(* then, into what it gave, the second.                                     *)
LEMMA ParseConcat ==
    ASSUME NEW C, NEW o, NEW S, NEW a \in Seq(S), NEW b \in Seq(S)
    PROVE  Parse(C, o, a \o b) = Parse(C, Parse(C, o, a), b)
  <1> DEFINE w == a \o b
  <1>1. /\ w \in Seq(S)
        /\ Len(a) \in Nat /\ Len(b) \in Nat
        /\ Len(w) = Len(a) + Len(b)
        /\ \A k \in 1 .. Len(a) : w[k] = a[k]
        /\ \A k \in 1 .. Len(b) : w[Len(a) + k] = b[k]
    OBVIOUS
  <1> HIDE DEF w
  <1>2. PICK g : /\ g[0] = o
                 /\ \A k \in 1 .. Len(w) : g[k] = Step(C, g[k - 1], w[k])
                 /\ Parse(C, o, w) = g[Len(w)]
    <2>1. w \in Seq(S)
      BY <1>1
    <2> QED BY SMTT(40), <2>1, ParseSteps
  <1>3. PICK h : /\ h[0] = o
                 /\ \A k \in 1 .. Len(a) : h[k] = Step(C, h[k - 1], a[k])
                 /\ Parse(C, o, a) = h[Len(a)]
    BY ParseSteps
  <1> DEFINE m == Parse(C, o, a)
  <1> HIDE DEF m
  <1>4. PICK e : /\ e[0] = m
                 /\ \A k \in 1 .. Len(b) : e[k] = Step(C, e[k - 1], b[k])
                 /\ Parse(C, m, b) = e[Len(b)]
    BY ParseSteps
  <1> DEFINE GoodA == {k \in 0 .. Len(a) : g[k] = h[k]}
             GoodB == {k \in 0 .. Len(b) : g[Len(a) + k] = e[k]}
  <1>5. \A k \in 0 .. Len(a) : k \in GoodA
    <2>1. 0 \in GoodA
      BY <1>1, <1>2, <1>3
    <2>2. ASSUME NEW k \in 1 .. Len(a), k - 1 \in GoodA PROVE k \in GoodA
      <3>1. /\ k \in 0 .. Len(w) /\ k \in 0 .. Len(a) /\ k # 0
        BY <1>1
      <3>2. g[k] = Step(C, g[k - 1], w[k]) /\ h[k] = Step(C, h[k - 1], a[k])
        BY <3>1, <1>2, <1>3
      <3> QED BY <1>1, <2>2, <3>1, <3>2
    <2> HIDE DEF GoodA
    <2> QED BY <1>1, <2>1, <2>2, Induction
  <1>6. \A k \in 0 .. Len(b) : k \in GoodB
    <2>1. 0 \in GoodB
      <3>1. g[Len(a)] = h[Len(a)]
        BY <1>1, <1>5
      <3>2. e[0] = m
        BY <1>1, <1>4
      <3> QED BY <1>1, <1>3, <3>1, <3>2 DEF m
    <2>2. ASSUME NEW k \in 1 .. Len(b), k - 1 \in GoodB PROVE k \in GoodB
      <3>1. /\ Len(a) + k \in 0 .. Len(w) /\ k \in 0 .. Len(b) /\ k # 0 /\ Len(a) + k # 0
            /\ (Len(a) + k) - 1 = Len(a) + (k - 1)
        BY <1>1
      <3>2. g[Len(a) + k] = Step(C, g[(Len(a) + k) - 1], w[Len(a) + k])
        BY <3>1, <1>2
      <3>3. e[k] = Step(C, e[k - 1], b[k])
        BY <3>1, <1>4
      <3>4. w[Len(a) + k] = b[k]
        BY <1>1
      <3>5. g[Len(a) + (k - 1)] = e[k - 1]
        BY <2>2
      <3> QED BY <3>1, <3>2, <3>3, <3>4, <3>5
    <2> HIDE DEF GoodB
    <2> QED BY <1>1, <2>1, <2>2, Induction
  <1>7. g[Len(w)] = e[Len(b)]
    BY <1>1, <1>6
  <1> QED BY <1>2, <1>4, <1>7 DEF m, w

(* Reading two tokens is two steps.                                         *)
LEMMA ParseTwo ==
    ASSUME NEW C, NEW o, NEW s, NEW t
    PROVE  Parse(C, o, <<s, t>>) = Step(C, Step(C, o, s), t)
  <1> DEFINE w == <<s, t>>
  <1>1. w \in Seq({s, t}) /\ Len(w) = 2 /\ w[1] = s /\ w[2] = t
    OBVIOUS
  <1> HIDE DEF w
  <1>2. PICK g : /\ g[0] = o
                 /\ \A k \in 1 .. Len(w) : g[k] = Step(C, g[k - 1], w[k])
                 /\ Parse(C, o, w) = g[Len(w)]
    BY <1>1, ParseSteps
  <1>3. g[1] = Step(C, o, s) /\ g[2] = Step(C, g[1], t)
    BY <1>1, <1>2
  <1> QED BY <1>1, <1>2, <1>3 DEF w

-----------------------------------------------------------------------------
(* The tables of the twelve classes.                                        *)


(* The kinds a field can have.                                              *)
Kinds == Varints \cup Strings \cup Repeated \cup Submessages

(* The wire type of the token a field of this kind is written as.           *)
WireType(kind) == IF kind \in Varints THEN 0 ELSE 2

(* The tag is the field's, and no other field's.                            *)
ReadFrom(C, tag, f) == \A g \in Fields(C) : tag \in C.parse[g] <=> g = f

(* _InternalParse reads the field where _InternalSerialize writes it, and   *)
(* repeated numbers also where another peer may write them one by one.      *)
EntryRead(C, number, f) ==
    /\ ReadFrom(C, 8 * number + WireType(C.accessors[f]), f)
    /\ C.accessors[f] = "repeated_uint64" => ReadFrom(C, 8 * number, f)

(* What the tables of a class must agree on: no function forgets a field,   *)
(* every field is written once and read where it is written, and the tag of *)
(* NewField is no field's.                                                  *)
Sound(C) ==
    /\ C.copied = Fields(C)
    /\ C.clear = Fields(C)
    /\ C.merged = Fields(C)
    /\ C.swapped = Fields(C)
    /\ \A f \in Fields(C) : C.accessors[f] \in Kinds
    /\ C.serialize \in Seq((1 .. 14) \X Fields(C)) /\ C.serialize # <<>>
    /\ \A i, j \in DOMAIN C.serialize : C.serialize[i][2] = C.serialize[j][2] => i = j
    /\ \A f \in Fields(C) : \E i \in DOMAIN C.serialize : C.serialize[i][2] = f
    /\ \A i \in DOMAIN C.serialize : EntryRead(C, C.serialize[i][1], C.serialize[i][2])
    /\ \A f \in Fields(C) : 120 \notin C.parse[f]

(* The tables of Cursor agree.                                              *)
LEMMA CursorSound == Sound(Cursor)
  <1> DEFINE C == Cursor
  <1> USE DEF Cursor, MessageClass, Cursor_accessors, Cursor_Serialize, Fields
  <1>1. Span(Cursor_members, "op", "cursor") = {"op", "cursor"}
    <2>1. DOMAIN Cursor_members = 1 .. 5 /\ Len(Cursor_members) = 5
      BY DEF Cursor_members
    <2>2. {k \in 1 .. 5 : /\ \E i \in 1 .. k : Cursor_members[i] = "op"
                          /\ \E j \in k .. 5 : Cursor_members[j] = "cursor"} = {4, 5}
      BY DEF Cursor_members
    <2> QED BY <2>1, <2>2 DEF Span, Cursor_members
  <1>2. Fields(C) = {"op", "bucketname", "cursor", "k", "v"}
    OBVIOUS
  <1>3. /\ C.copied = Fields(C)
        /\ C.clear = Fields(C)
        /\ C.merged = Fields(C)
        /\ C.swapped = Fields(C)
    BY <1>1, <1>2 DEF Cursor_copied, Cursor_Clear,
             Cursor_MergeFrom, Cursor_InternalSwap
  <1>4. \A f \in Fields(C) : C.accessors[f] \in Kinds
    BY <1>2 DEF Kinds, Varints, Strings, Repeated, Submessages
  <1>5. C.serialize \in Seq((1 .. 14) \X Fields(C)) /\ C.serialize # <<>>
    BY <1>2
  <1>6. /\ DOMAIN C.serialize = 1 .. 5
        /\ C.serialize[1] = <<1, "op">>
        /\ C.serialize[2] = <<2, "bucketname">>
        /\ C.serialize[3] = <<3, "cursor">>
        /\ C.serialize[4] = <<4, "k">>
        /\ C.serialize[5] = <<5, "v">>
    OBVIOUS
  <1>7. \A i, j \in DOMAIN C.serialize : C.serialize[i][2] = C.serialize[j][2] => i = j
    BY <1>6
  <1>8. \A f \in Fields(C) : \E i \in DOMAIN C.serialize : C.serialize[i][2] = f
    BY <1>2, <1>6
  <1>9. \A i \in DOMAIN C.serialize : EntryRead(C, C.serialize[i][1], C.serialize[i][2])
    <2>1. EntryRead(C, 1, "op")
      BY <1>2 DEF Cursor_Parse, EntryRead, ReadFrom, WireType, Varints
    <2>2. EntryRead(C, 2, "bucketname")
      BY <1>2 DEF Cursor_Parse, EntryRead, ReadFrom, WireType, Varints
    <2>3. EntryRead(C, 3, "cursor")
      BY <1>2 DEF Cursor_Parse, EntryRead, ReadFrom, WireType, Varints
    <2>4. EntryRead(C, 4, "k")
      BY <1>2 DEF Cursor_Parse, EntryRead, ReadFrom, WireType, Varints
    <2>5. EntryRead(C, 5, "v")
      BY <1>2 DEF Cursor_Parse, EntryRead, ReadFrom, WireType, Varints
    <2> QED BY <1>6, <2>1, <2>2, <2>3, <2>4, <2>5
  <1>10. \A f \in Fields(C) : 120 \notin C.parse[f]
    BY <1>2 DEF Cursor_Parse
  <1> QED BY <1>3, <1>4, <1>5, <1>7, <1>8, <1>9, <1>10 DEF Sound

(* The tables of Pair agree.                                                *)
LEMMA PairSound == Sound(Pair)
  <1> DEFINE C == Pair
  <1> USE DEF Pair, MessageClass, Pair_accessors, Pair_Serialize, Fields
  <1>2. Fields(C) = {"k", "v", "cursorid"}
    OBVIOUS
  <1>3. /\ C.copied = Fields(C)
        /\ C.clear = Fields(C)
        /\ C.merged = Fields(C)
        /\ C.swapped = Fields(C)
    BY <1>2 DEF Pair_copied, Pair_Clear,
             Pair_MergeFrom, Pair_InternalSwap
  <1>4. \A f \in Fields(C) : C.accessors[f] \in Kinds
    BY <1>2 DEF Kinds, Varints, Strings, Repeated, Submessages
  <1>5. C.serialize \in Seq((1 .. 14) \X Fields(C)) /\ C.serialize # <<>>
    BY <1>2
  <1>6. /\ DOMAIN C.serialize = 1 .. 3
        /\ C.serialize[1] = <<1, "k">>
        /\ C.serialize[2] = <<2, "v">>
        /\ C.serialize[3] = <<3, "cursorid">>
    OBVIOUS
  <1>7. \A i, j \in DOMAIN C.serialize : C.serialize[i][2] = C.serialize[j][2] => i = j
    BY <1>6
  <1>8. \A f \in Fields(C) : \E i \in DOMAIN C.serialize : C.serialize[i][2] = f
    BY <1>2, <1>6
  <1>9. \A i \in DOMAIN C.serialize : EntryRead(C, C.serialize[i][1], C.serialize[i][2])
    <2>1. EntryRead(C, 1, "k")
      BY <1>2 DEF Pair_Parse, EntryRead, ReadFrom, WireType, Varints
    <2>2. EntryRead(C, 2, "v")
      BY <1>2 DEF Pair_Parse, EntryRead, ReadFrom, WireType, Varints
    <2>3. EntryRead(C, 3, "cursorid")
      BY <1>2 DEF Pair_Parse, EntryRead, ReadFrom, WireType, Varints
    <2> QED BY <1>6, <2>1, <2>2, <2>3
  <1>10. \A f \in Fields(C) : 120 \notin C.parse[f]
    BY <1>2 DEF Pair_Parse
  <1> QED BY <1>3, <1>4, <1>5, <1>7, <1>8, <1>9, <1>10 DEF Sound

(* The tables of OutboundMessageData agree.                                 *)
LEMMA OutboundMessageDataSound == Sound(OutboundMessageData)
  <1> DEFINE C == OutboundMessageData
  <1> USE DEF OutboundMessageData, MessageClass, OutboundMessageData_accessors,
              OutboundMessageData_Serialize,
             Fields
  <1>2. Fields(C) = {"id", "data"}
    OBVIOUS
  <1>3. /\ C.copied = Fields(C)
        /\ C.clear = Fields(C)
        /\ C.merged = Fields(C)
        /\ C.swapped = Fields(C)
    BY <1>2 DEF OutboundMessageData_copied, OutboundMessageData_Clear,
             OutboundMessageData_MergeFrom, OutboundMessageData_InternalSwap
  <1>4. \A f \in Fields(C) : C.accessors[f] \in Kinds
    BY <1>2 DEF Kinds, Varints, Strings, Repeated, Submessages
  <1>5. C.serialize \in Seq((1 .. 14) \X Fields(C)) /\ C.serialize # <<>>
    BY <1>2
  <1>6. /\ DOMAIN C.serialize = 1 .. 2
        /\ C.serialize[1] = <<1, "id">>
        /\ C.serialize[2] = <<2, "data">>
    OBVIOUS
  <1>7. \A i, j \in DOMAIN C.serialize : C.serialize[i][2] = C.serialize[j][2] => i = j
    BY <1>6
  <1>8. \A f \in Fields(C) : \E i \in DOMAIN C.serialize : C.serialize[i][2] = f
    BY <1>2, <1>6
  <1>9. \A i \in DOMAIN C.serialize : EntryRead(C, C.serialize[i][1], C.serialize[i][2])
    <2>1. EntryRead(C, 1, "id")
      BY <1>2 DEF OutboundMessageData_Parse, EntryRead, ReadFrom, WireType, Varints
    <2>2. EntryRead(C, 2, "data")
      BY <1>2 DEF OutboundMessageData_Parse, EntryRead, ReadFrom, WireType, Varints
    <2> QED BY <1>6, <2>1, <2>2
  <1>10. \A f \in Fields(C) : 120 \notin C.parse[f]
    BY <1>2 DEF OutboundMessageData_Parse
  <1> QED BY <1>3, <1>4, <1>5, <1>7, <1>8, <1>9, <1>10 DEF Sound

(* The tables of SendMessageByMinBlockRequest agree.                        *)
LEMMA SendMessageByMinBlockRequestSound == Sound(SendMessageByMinBlockRequest)
  <1> DEFINE C == SendMessageByMinBlockRequest
  <1> USE DEF SendMessageByMinBlockRequest, MessageClass,
              SendMessageByMinBlockRequest_accessors,
              SendMessageByMinBlockRequest_Serialize,
             Fields
  <1>1. Span(SendMessageByMinBlockRequest_members, "data", "min_block") = {"data", "min_block"}
    <2>1. DOMAIN SendMessageByMinBlockRequest_members = 1 .. 2 /\ Len(SendMessageByMinBlockRequest_members) = 2
      BY DEF SendMessageByMinBlockRequest_members
    <2>2. {k \in 1 .. 2 : /\ \E i \in 1 .. k : SendMessageByMinBlockRequest_members[i] = "data"
                          /\ \E j \in k .. 2 : SendMessageByMinBlockRequest_members[j] = "min_block"} = {1, 2}
      BY DEF SendMessageByMinBlockRequest_members
    <2> QED BY <2>1, <2>2 DEF Span, SendMessageByMinBlockRequest_members
  <1>2. Fields(C) = {"data", "min_block"}
    OBVIOUS
  <1>3. /\ C.copied = Fields(C)
        /\ C.clear = Fields(C)
        /\ C.merged = Fields(C)
        /\ C.swapped = Fields(C)
    BY <1>1, <1>2 DEF SendMessageByMinBlockRequest_copied,
                      SendMessageByMinBlockRequest_Clear,
             SendMessageByMinBlockRequest_MergeFrom, SendMessageByMinBlockRequest_InternalSwap
  <1>4. \A f \in Fields(C) : C.accessors[f] \in Kinds
    BY <1>2 DEF Kinds, Varints, Strings, Repeated, Submessages
  <1>5. C.serialize \in Seq((1 .. 14) \X Fields(C)) /\ C.serialize # <<>>
    BY <1>2
  <1>6. /\ DOMAIN C.serialize = 1 .. 2
        /\ C.serialize[1] = <<1, "data">>
        /\ C.serialize[2] = <<2, "min_block">>
    OBVIOUS
  <1>7. \A i, j \in DOMAIN C.serialize : C.serialize[i][2] = C.serialize[j][2] => i = j
    BY <1>6
  <1>8. \A f \in Fields(C) : \E i \in DOMAIN C.serialize : C.serialize[i][2] = f
    BY <1>2, <1>6
  <1>9. \A i \in DOMAIN C.serialize : EntryRead(C, C.serialize[i][1], C.serialize[i][2])
    <2>1. EntryRead(C, 1, "data")
      BY <1>2 DEF SendMessageByMinBlockRequest_Parse, EntryRead, ReadFrom, WireType, Varints
    <2>2. EntryRead(C, 2, "min_block")
      BY <1>2 DEF SendMessageByMinBlockRequest_Parse, EntryRead, ReadFrom, WireType, Varints
    <2> QED BY <1>6, <2>1, <2>2
  <1>10. \A f \in Fields(C) : 120 \notin C.parse[f]
    BY <1>2 DEF SendMessageByMinBlockRequest_Parse
  <1> QED BY <1>3, <1>4, <1>5, <1>7, <1>8, <1>9, <1>10 DEF Sound

(* The tables of SendMessageByIdRequest agree.                              *)
LEMMA SendMessageByIdRequestSound == Sound(SendMessageByIdRequest)
  <1> DEFINE C == SendMessageByIdRequest
  <1> USE DEF SendMessageByIdRequest, MessageClass, SendMessageByIdRequest_accessors,
              SendMessageByIdRequest_Serialize,
             Fields
  <1>2. Fields(C) = {"data", "peer_id"}
    OBVIOUS
  <1>3. /\ C.copied = Fields(C)
        /\ C.clear = Fields(C)
        /\ C.merged = Fields(C)
        /\ C.swapped = Fields(C)
    BY <1>2 DEF SendMessageByIdRequest_copied, SendMessageByIdRequest_Clear,
             SendMessageByIdRequest_MergeFrom, SendMessageByIdRequest_InternalSwap
  <1>4. \A f \in Fields(C) : C.accessors[f] \in Kinds
    BY <1>2 DEF Kinds, Varints, Strings, Repeated, Submessages
  <1>5. C.serialize \in Seq((1 .. 14) \X Fields(C)) /\ C.serialize # <<>>
    BY <1>2
  <1>6. /\ DOMAIN C.serialize = 1 .. 2
        /\ C.serialize[1] = <<1, "data">>
        /\ C.serialize[2] = <<2, "peer_id">>
    OBVIOUS
  <1>7. \A i, j \in DOMAIN C.serialize : C.serialize[i][2] = C.serialize[j][2] => i = j
    BY <1>6
  <1>8. \A f \in Fields(C) : \E i \in DOMAIN C.serialize : C.serialize[i][2] = f
    BY <1>2, <1>6
  <1>9. \A i \in DOMAIN C.serialize : EntryRead(C, C.serialize[i][1], C.serialize[i][2])
    <2>1. EntryRead(C, 1, "data")
      BY <1>2 DEF SendMessageByIdRequest_Parse, EntryRead, ReadFrom, WireType, Varints
    <2>2. EntryRead(C, 2, "peer_id")
      BY <1>2 DEF SendMessageByIdRequest_Parse, EntryRead, ReadFrom, WireType, Varints
    <2> QED BY <1>6, <2>1, <2>2
  <1>10. \A f \in Fields(C) : 120 \notin C.parse[f]
    BY <1>2 DEF SendMessageByIdRequest_Parse
  <1> QED BY <1>3, <1>4, <1>5, <1>7, <1>8, <1>9, <1>10 DEF Sound

(* The tables of SendMessageToRandomPeersRequest agree.                     *)
LEMMA SendMessageToRandomPeersRequestSound == Sound(SendMessageToRandomPeersRequest)
  <1> DEFINE C == SendMessageToRandomPeersRequest
  <1> USE DEF SendMessageToRandomPeersRequest, MessageClass,
              SendMessageToRandomPeersRequest_accessors,
              SendMessageToRandomPeersRequest_Serialize,
             Fields
  <1>1. Span(SendMessageToRandomPeersRequest_members, "data", "max_peers") = {"data", "max_peers"}
    <2>1. DOMAIN SendMessageToRandomPeersRequest_members = 1 .. 2 /\ Len(SendMessageToRandomPeersRequest_members) = 2
      BY DEF SendMessageToRandomPeersRequest_members
    <2>2. {k \in 1 .. 2 : /\ \E i \in 1 .. k : SendMessageToRandomPeersRequest_members[i] = "data"
                          /\ \E j \in k .. 2 : SendMessageToRandomPeersRequest_members[j] = "max_peers"} = {1, 2}
      BY DEF SendMessageToRandomPeersRequest_members
    <2> QED BY <2>1, <2>2 DEF Span, SendMessageToRandomPeersRequest_members
  <1>2. Fields(C) = {"data", "max_peers"}
    OBVIOUS
  <1>3. /\ C.copied = Fields(C)
        /\ C.clear = Fields(C)
        /\ C.merged = Fields(C)
        /\ C.swapped = Fields(C)
    BY <1>1, <1>2 DEF SendMessageToRandomPeersRequest_copied,
                      SendMessageToRandomPeersRequest_Clear,
             SendMessageToRandomPeersRequest_MergeFrom, SendMessageToRandomPeersRequest_InternalSwap
  <1>4. \A f \in Fields(C) : C.accessors[f] \in Kinds
    BY <1>2 DEF Kinds, Varints, Strings, Repeated, Submessages
  <1>5. C.serialize \in Seq((1 .. 14) \X Fields(C)) /\ C.serialize # <<>>
    BY <1>2
  <1>6. /\ DOMAIN C.serialize = 1 .. 2
        /\ C.serialize[1] = <<1, "data">>
        /\ C.serialize[2] = <<2, "max_peers">>
    OBVIOUS
  <1>7. \A i, j \in DOMAIN C.serialize : C.serialize[i][2] = C.serialize[j][2] => i = j
    BY <1>6
  <1>8. \A f \in Fields(C) : \E i \in DOMAIN C.serialize : C.serialize[i][2] = f
    BY <1>2, <1>6
  <1>9. \A i \in DOMAIN C.serialize : EntryRead(C, C.serialize[i][1], C.serialize[i][2])
    <2>1. EntryRead(C, 1, "data")
      BY <1>2 DEF SendMessageToRandomPeersRequest_Parse, EntryRead, ReadFrom, WireType,
                  Varints
    <2>2. EntryRead(C, 2, "max_peers")
      BY <1>2 DEF SendMessageToRandomPeersRequest_Parse, EntryRead, ReadFrom, WireType,
                  Varints
    <2> QED BY <1>6, <2>1, <2>2
  <1>10. \A f \in Fields(C) : 120 \notin C.parse[f]
    BY <1>2 DEF SendMessageToRandomPeersRequest_Parse
  <1> QED BY <1>3, <1>4, <1>5, <1>7, <1>8, <1>9, <1>10 DEF Sound

(* The tables of SentPeers agree.                                           *)
LEMMA SentPeersSound == Sound(SentPeers)
  <1> DEFINE C == SentPeers
  <1> USE DEF SentPeers, MessageClass, SentPeers_accessors, SentPeers_Serialize, Fields
  <1>2. Fields(C) = {"peers"}
    OBVIOUS
  <1>3. /\ C.copied = Fields(C)
        /\ C.clear = Fields(C)
        /\ C.merged = Fields(C)
        /\ C.swapped = Fields(C)
    BY <1>2 DEF SentPeers_copied, SentPeers_Clear,
             SentPeers_MergeFrom, SentPeers_InternalSwap
  <1>4. \A f \in Fields(C) : C.accessors[f] \in Kinds
    BY <1>2 DEF Kinds, Varints, Strings, Repeated, Submessages
  <1>5. C.serialize \in Seq((1 .. 14) \X Fields(C)) /\ C.serialize # <<>>
    BY <1>2
  <1>6. /\ DOMAIN C.serialize = 1 .. 1
        /\ C.serialize[1] = <<1, "peers">>
    OBVIOUS
  <1>7. \A i, j \in DOMAIN C.serialize : C.serialize[i][2] = C.serialize[j][2] => i = j
    BY <1>6
  <1>8. \A f \in Fields(C) : \E i \in DOMAIN C.serialize : C.serialize[i][2] = f
    BY <1>2, <1>6
  <1>9. \A i \in DOMAIN C.serialize : EntryRead(C, C.serialize[i][1], C.serialize[i][2])
    <2>1. EntryRead(C, 1, "peers")
      BY <1>2 DEF SentPeers_Parse, EntryRead, ReadFrom, WireType, Varints
    <2> QED BY <1>6, <2>1
  <1>10. \A f \in Fields(C) : 120 \notin C.parse[f]
    BY <1>2 DEF SentPeers_Parse
  <1> QED BY <1>3, <1>4, <1>5, <1>7, <1>8, <1>9, <1>10 DEF Sound

(* The tables of PenalizePeerRequest agree.                                 *)
LEMMA PenalizePeerRequestSound == Sound(PenalizePeerRequest)
  <1> DEFINE C == PenalizePeerRequest
  <1> USE DEF PenalizePeerRequest, MessageClass, PenalizePeerRequest_accessors,
              PenalizePeerRequest_Serialize,
             Fields
  <1>2. Fields(C) = {"peer_id", "penalty"}
    OBVIOUS
  <1>3. /\ C.copied = Fields(C)
        /\ C.clear = Fields(C)
        /\ C.merged = Fields(C)
        /\ C.swapped = Fields(C)
    BY <1>2 DEF PenalizePeerRequest_copied, PenalizePeerRequest_Clear,
             PenalizePeerRequest_MergeFrom, PenalizePeerRequest_InternalSwap
  <1>4. \A f \in Fields(C) : C.accessors[f] \in Kinds
    BY <1>2 DEF Kinds, Varints, Strings, Repeated, Submessages
  <1>5. C.serialize \in Seq((1 .. 14) \X Fields(C)) /\ C.serialize # <<>>
    BY <1>2
  <1>6. /\ DOMAIN C.serialize = 1 .. 2
        /\ C.serialize[1] = <<1, "peer_id">>
        /\ C.serialize[2] = <<2, "penalty">>
    OBVIOUS
  <1>7. \A i, j \in DOMAIN C.serialize : C.serialize[i][2] = C.serialize[j][2] => i = j
    BY <1>6
  <1>8. \A f \in Fields(C) : \E i \in DOMAIN C.serialize : C.serialize[i][2] = f
    BY <1>2, <1>6
  <1>9. \A i \in DOMAIN C.serialize : EntryRead(C, C.serialize[i][1], C.serialize[i][2])
    <2>1. EntryRead(C, 1, "peer_id")
      BY <1>2 DEF PenalizePeerRequest_Parse, EntryRead, ReadFrom, WireType, Varints
    <2>2. EntryRead(C, 2, "penalty")
      BY <1>2 DEF PenalizePeerRequest_Parse, EntryRead, ReadFrom, WireType, Varints
    <2> QED BY <1>6, <2>1, <2>2
  <1>10. \A f \in Fields(C) : 120 \notin C.parse[f]
    BY <1>2 DEF PenalizePeerRequest_Parse
  <1> QED BY <1>3, <1>4, <1>5, <1>7, <1>8, <1>9, <1>10 DEF Sound

(* The tables of PeerMinBlockRequest agree.                                 *)
LEMMA PeerMinBlockRequestSound == Sound(PeerMinBlockRequest)
  <1> DEFINE C == PeerMinBlockRequest
  <1> USE DEF PeerMinBlockRequest, MessageClass, PeerMinBlockRequest_accessors,
              PeerMinBlockRequest_Serialize,
             Fields
  <1>2. Fields(C) = {"peer_id", "min_block"}
    OBVIOUS
  <1>3. /\ C.copied = Fields(C)
        /\ C.clear = Fields(C)
        /\ C.merged = Fields(C)
        /\ C.swapped = Fields(C)
    BY <1>2 DEF PeerMinBlockRequest_copied, PeerMinBlockRequest_Clear,
             PeerMinBlockRequest_MergeFrom, PeerMinBlockRequest_InternalSwap
  <1>4. \A f \in Fields(C) : C.accessors[f] \in Kinds
    BY <1>2 DEF Kinds, Varints, Strings, Repeated, Submessages
  <1>5. C.serialize \in Seq((1 .. 14) \X Fields(C)) /\ C.serialize # <<>>
    BY <1>2
  <1>6. /\ DOMAIN C.serialize = 1 .. 2
        /\ C.serialize[1] = <<1, "peer_id">>
        /\ C.serialize[2] = <<2, "min_block">>
    OBVIOUS
  <1>7. \A i, j \in DOMAIN C.serialize : C.serialize[i][2] = C.serialize[j][2] => i = j
    BY <1>6
  <1>8. \A f \in Fields(C) : \E i \in DOMAIN C.serialize : C.serialize[i][2] = f
    BY <1>2, <1>6
  <1>9. \A i \in DOMAIN C.serialize : EntryRead(C, C.serialize[i][1], C.serialize[i][2])
    <2>1. EntryRead(C, 1, "peer_id")
      BY <1>2 DEF PeerMinBlockRequest_Parse, EntryRead, ReadFrom, WireType, Varints
    <2>2. EntryRead(C, 2, "min_block")
      BY <1>2 DEF PeerMinBlockRequest_Parse, EntryRead, ReadFrom, WireType, Varints
    <2> QED BY <1>6, <2>1, <2>2
  <1>10. \A f \in Fields(C) : 120 \notin C.parse[f]
    BY <1>2 DEF PeerMinBlockRequest_Parse
  <1> QED BY <1>3, <1>4, <1>5, <1>7, <1>8, <1>9, <1>10 DEF Sound

(* The tables of InboundMessage agree.                                      *)
LEMMA InboundMessageSound == Sound(InboundMessage)
  <1> DEFINE C == InboundMessage
  <1> USE DEF InboundMessage, MessageClass, InboundMessage_accessors,
              InboundMessage_Serialize, Fields
  <1>2. Fields(C) = {"id", "data", "peer_id"}
    OBVIOUS
  <1>3. /\ C.copied = Fields(C)
        /\ C.clear = Fields(C)
        /\ C.merged = Fields(C)
        /\ C.swapped = Fields(C)
    BY <1>2 DEF InboundMessage_copied, InboundMessage_Clear,
             InboundMessage_MergeFrom, InboundMessage_InternalSwap
  <1>4. \A f \in Fields(C) : C.accessors[f] \in Kinds
    BY <1>2 DEF Kinds, Varints, Strings, Repeated, Submessages
  <1>5. C.serialize \in Seq((1 .. 14) \X Fields(C)) /\ C.serialize # <<>>
    BY <1>2
  <1>6. /\ DOMAIN C.serialize = 1 .. 3
        /\ C.serialize[1] = <<1, "id">>
        /\ C.serialize[2] = <<2, "data">>
        /\ C.serialize[3] = <<3, "peer_id">>
    OBVIOUS
  <1>7. \A i, j \in DOMAIN C.serialize : C.serialize[i][2] = C.serialize[j][2] => i = j
    BY <1>6
  <1>8. \A f \in Fields(C) : \E i \in DOMAIN C.serialize : C.serialize[i][2] = f
    BY <1>2, <1>6
  <1>9. \A i \in DOMAIN C.serialize : EntryRead(C, C.serialize[i][1], C.serialize[i][2])
    <2>1. EntryRead(C, 1, "id")
      BY <1>2 DEF InboundMessage_Parse, EntryRead, ReadFrom, WireType, Varints
    <2>2. EntryRead(C, 2, "data")
      BY <1>2 DEF InboundMessage_Parse, EntryRead, ReadFrom, WireType, Varints
    <2>3. EntryRead(C, 3, "peer_id")
      BY <1>2 DEF InboundMessage_Parse, EntryRead, ReadFrom, WireType, Varints
    <2> QED BY <1>6, <2>1, <2>2, <2>3
  <1>10. \A f \in Fields(C) : 120 \notin C.parse[f]
    BY <1>2 DEF InboundMessage_Parse
  <1> QED BY <1>3, <1>4, <1>5, <1>7, <1>8, <1>9, <1>10 DEF Sound

(* The tables of Forks agree.                                               *)
LEMMA ForksSound == Sound(Forks)
  <1> DEFINE C == Forks
  <1> USE DEF Forks, MessageClass, Forks_accessors, Forks_Serialize, Fields
  <1>2. Fields(C) = {"genesis", "forks"}
    OBVIOUS
  <1>3. /\ C.copied = Fields(C)
        /\ C.clear = Fields(C)
        /\ C.merged = Fields(C)
        /\ C.swapped = Fields(C)
    BY <1>2 DEF Forks_copied, Forks_Clear,
             Forks_MergeFrom, Forks_InternalSwap
  <1>4. \A f \in Fields(C) : C.accessors[f] \in Kinds
    BY <1>2 DEF Kinds, Varints, Strings, Repeated, Submessages
  <1>5. C.serialize \in Seq((1 .. 14) \X Fields(C)) /\ C.serialize # <<>>
    BY <1>2
  <1>6. /\ DOMAIN C.serialize = 1 .. 2
        /\ C.serialize[1] = <<1, "genesis">>
        /\ C.serialize[2] = <<2, "forks">>
    OBVIOUS
  <1>7. \A i, j \in DOMAIN C.serialize : C.serialize[i][2] = C.serialize[j][2] => i = j
    BY <1>6
  <1>8. \A f \in Fields(C) : \E i \in DOMAIN C.serialize : C.serialize[i][2] = f
    BY <1>2, <1>6
  <1>9. \A i \in DOMAIN C.serialize : EntryRead(C, C.serialize[i][1], C.serialize[i][2])
    <2>1. EntryRead(C, 1, "genesis")
      BY <1>2 DEF Forks_Parse, EntryRead, ReadFrom, WireType, Varints
    <2>2. EntryRead(C, 2, "forks")
      BY <1>2 DEF Forks_Parse, EntryRead, ReadFrom, WireType, Varints
    <2> QED BY <1>6, <2>1, <2>2
  <1>10. \A f \in Fields(C) : 120 \notin C.parse[f]
    BY <1>2 DEF Forks_Parse
  <1> QED BY <1>3, <1>4, <1>5, <1>7, <1>8, <1>9, <1>10 DEF Sound

(* The tables of StatusData agree.                                          *)
LEMMA StatusDataSound == Sound(StatusData)
  <1> DEFINE C == StatusData
  <1> USE DEF StatusData, MessageClass, StatusData_accessors, StatusData_Serialize, Fields
  <1>1. Span(StatusData_members, "fork_data", "network_id") = {"fork_data", "network_id"}
    <2>1. DOMAIN StatusData_members = 1 .. 4 /\ Len(StatusData_members) = 4
      BY DEF StatusData_members
    <2>2. {k \in 1 .. 4 : /\ \E i \in 1 .. k : StatusData_members[i] = "fork_data"
                          /\ \E j \in k .. 4 : StatusData_members[j] = "network_id"} = {3, 4}
      BY DEF StatusData_members
    <2> QED BY <2>1, <2>2 DEF Span, StatusData_members
  <1>2. Fields(C) = {"network_id", "total_difficulty", "best_hash", "fork_data"}
    OBVIOUS
  <1>3. /\ C.copied = Fields(C)
        /\ C.clear = Fields(C)
        /\ C.merged = Fields(C)
        /\ C.swapped = Fields(C)
    BY <1>1, <1>2 DEF StatusData_copied, StatusData_Clear,
             StatusData_MergeFrom, StatusData_InternalSwap
  <1>4. \A f \in Fields(C) : C.accessors[f] \in Kinds
    BY <1>2 DEF Kinds, Varints, Strings, Repeated, Submessages
  <1>5. C.serialize \in Seq((1 .. 14) \X Fields(C)) /\ C.serialize # <<>>
    BY <1>2
  <1>6. /\ DOMAIN C.serialize = 1 .. 4
        /\ C.serialize[1] = <<1, "network_id">>
        /\ C.serialize[2] = <<2, "total_difficulty">>
        /\ C.serialize[3] = <<3, "best_hash">>
        /\ C.serialize[4] = <<4, "fork_data">>
    OBVIOUS
  <1>7. \A i, j \in DOMAIN C.serialize : C.serialize[i][2] = C.serialize[j][2] => i = j
    BY <1>6
  <1>8. \A f \in Fields(C) : \E i \in DOMAIN C.serialize : C.serialize[i][2] = f
    BY <1>2, <1>6
  <1>9. \A i \in DOMAIN C.serialize : EntryRead(C, C.serialize[i][1], C.serialize[i][2])
    <2>1. EntryRead(C, 1, "network_id")
      BY <1>2 DEF StatusData_Parse, EntryRead, ReadFrom, WireType, Varints
    <2>2. EntryRead(C, 2, "total_difficulty")
      BY <1>2 DEF StatusData_Parse, EntryRead, ReadFrom, WireType, Varints
    <2>3. EntryRead(C, 3, "best_hash")
      BY <1>2 DEF StatusData_Parse, EntryRead, ReadFrom, WireType, Varints
    <2>4. EntryRead(C, 4, "fork_data")
      BY <1>2 DEF StatusData_Parse, EntryRead, ReadFrom, WireType, Varints
    <2> QED BY <1>6, <2>1, <2>2, <2>3, <2>4
  <1>10. \A f \in Fields(C) : 120 \notin C.parse[f]
    BY <1>2 DEF StatusData_Parse
  <1> QED BY <1>3, <1>4, <1>5, <1>7, <1>8, <1>9, <1>10 DEF Sound

-----------------------------------------------------------------------------
(* Objects whose fields have values of their kinds, and single steps of     *)
(* reading.                                                                 *)


(* The values of a field that is no submessage.                             *)
FlatValues(kind) ==
    IF kind \in Varints THEN Nat ELSE IF kind = "repeated_bytes" THEN Seq(Seq(Nat)) ELSE Seq(Nat)

(* An object has the fields of its class and keeps unknown ones.            *)
IsRecord(C, o) ==
    /\ o = [fields |-> [f \in Fields(C) |-> o.fields[f]], unknown |-> o.unknown]
    /\ o.unknown \in Seq({NewField})

(* An object of a class without submessages.                                *)
FlatObject(C, o) ==
    IsRecord(C, o) /\ \A f \in Fields(C) : o.fields[f] \in FlatValues(C.accessors[f])

(* A value of a field of this kind.                                         *)
HasKind(kind, value) ==
    IF kind \in Submessages
    THEN value = <<>> \/ \E m : FlatObject(Classes[kind], m) /\ value = <<m>>
    ELSE value \in FlatValues(kind)

(* An object of any class.                                                  *)
Object(C, o) ==
    IsRecord(C, o) /\ \A f \in Fields(C) : HasKind(C.accessors[f], o.fields[f])

(* The class has no submessages.                                            *)
Flat(C) == \A f \in Fields(C) : C.accessors[f] \notin Submessages

(* o with v in the field f.                                                 *)
Put(C, o, f, v) ==
    [fields |-> [g \in Fields(C) |-> IF g = f THEN v ELSE o.fields[g]], unknown |-> o.unknown]

(* Merged, of a class without submessages.                                  *)
MergedFlat(kind, mine, theirs) == Merged(Same, kind, mine, theirs)
(* Merged, of any class.                                                    *)
MergedField(kind, mine, theirs) == Merged(MergeFlat, kind, mine, theirs)
(* Read, of any class.                                                      *)
ReadField(kind, old, token) == Read(ParseFlat, kind, old, token)

(* A sequence of whatever it holds.                                         *)
IsSeq(w) == \E S : w \in Seq(S)

(* Two sequences of the same things.                                        *)
SeqsAlike(v, w) == \E S : v \in Seq(S) /\ w \in Seq(S)

(* A sequence whose elements are all in S is a sequence over S.             *)
LEMMA SeqOver ==
    ASSUME NEW w, IsSeq(w), NEW S, \A i \in DOMAIN w : w[i] \in S
    PROVE  w \in Seq(S)
  <1>1. PICK T : w \in Seq(T)
    BY DEF IsSeq
  <1> QED BY <1>1

(* Setting a field is Put; setting it twice keeps the last value.           *)
LEMMA PutRecord ==
    ASSUME NEW C, NEW o, IsRecord(C, o), NEW f \in Fields(C), NEW v
    PROVE  /\ [o EXCEPT !.fields[f] = v] = Put(C, o, f, v)
           /\ IsRecord(C, Put(C, o, f, v))
           /\ Put(C, o, f, v).fields[f] = v
           /\ \A u : Put(C, Put(C, o, f, v), f, u) = Put(C, o, f, u)
           /\ Put(C, o, f, o.fields[f]) = o
  <1> DEFINE old == o.fields
             u == o.unknown
  <1>1. o = [fields |-> [g \in Fields(C) |-> old[g]], unknown |-> u] /\ u \in Seq({NewField})
    BY DEF IsRecord
  <1>2. old = [g \in Fields(C) |-> old[g]]
    BY <1>1
  <1> HIDE DEF old, u
  <1>3. [o EXCEPT !.fields[f] = v] = Put(C, o, f, v)
    BY <1>1, <1>2 DEF Put, old
  <1>4. IsRecord(C, Put(C, o, f, v))
    BY <1>1 DEF IsRecord, Put
  <1>5. Put(C, o, f, v).fields[f] = v
    BY DEF Put
  <1>6. \A x : Put(C, Put(C, o, f, v), f, x) = Put(C, o, f, x)
    BY DEF Put
  <1>7. Put(C, o, f, o.fields[f]) = o
    BY <1>1, <1>2 DEF Put
  <1> QED BY <1>3, <1>4, <1>5, <1>6, <1>7

(* A token with the tag of a field changes that field and no other.         *)
LEMMA StepKnown ==
    ASSUME NEW C, NEW o, IsRecord(C, o), NEW f \in Fields(C), NEW t, ReadFrom(C, t.tag, f)
    PROVE  Step(C, o, t) = Put(C, o, f, ReadField(C.accessors[f], o.fields[f], t))
  <1>1. Knows(C, t.tag)
    BY DEF ReadFrom, Knows
  <1>2. FieldOf(C, t.tag) = f
    BY DEF ReadFrom, FieldOf
  <1>3. o.fields = [g \in Fields(C) |-> o.fields[g]]
    BY DEF IsRecord
  <1>4. Step(C, o, t) = [o EXCEPT !.fields[f] = ReadField(C.accessors[f], o.fields[f], t)]
    BY <1>1, <1>2, <1>3 DEF Step, StepBy, ReadField, IsRecord
  <1> QED BY <1>4, PutRecord

(* A token of a field we do not know is kept, after the earlier ones.       *)
LEMMA StepUnknown ==
    ASSUME NEW C, NEW o, IsRecord(C, o), NEW t, t = NewField, \A f \in Fields(C) : 120 \notin C.parse[f]
    PROVE  Step(C, o, t) = [fields |-> o.fields, unknown |-> Append(o.unknown, t)]
  <1>1. ~ Knows(C, t.tag)
    BY DEF Knows, NewField, Token
  <1>2. Step(C, o, t) = [o EXCEPT !.unknown = Append(o.unknown, t)]
    BY <1>1 DEF Step, StepBy, IsRecord
  <1> QED BY <1>2 DEF IsRecord

(* Appending the elements of a sequence one by one appends the sequence.    *)
LEMMA OneMore ==
    ASSUME NEW V, NEW old \in Seq(V), NEW value \in Seq(V), NEW k \in 1 .. Len(value)
    PROVE  Append(old \o SubSeq(value, 1, k - 1), value[k]) = old \o SubSeq(value, 1, k)
  <1> DEFINE n == Len(old)
             less == SubSeq(value, 1, k - 1)
             more == SubSeq(value, 1, k)
             x == Append(old \o less, value[k])
             y == old \o more
  <1>1. /\ n \in Nat /\ k \in Nat /\ k - 1 \in Nat /\ k - 1 <= Len(value)
        /\ Len(value) \in Nat /\ value[k] \in V
    OBVIOUS
  <1>2. less \in Seq(V) /\ Len(less) = k - 1 /\ \A i \in 1 .. k - 1 : less[i] = value[i]
    BY <1>1
  <1>3. more \in Seq(V) /\ Len(more) = k /\ \A i \in 1 .. k : more[i] = value[i]
    BY <1>1
  <1> HIDE DEF less, more
  <1>4. /\ x \in Seq(V) /\ Len(x) = n + k
        /\ \A i \in 1 .. n : x[i] = old[i]
        /\ \A i \in 1 .. k - 1 : x[n + i] = less[i]
        /\ x[n + k] = value[k]
    <2>1. old \o less \in Seq(V) /\ Len(old \o less) = n + (k - 1)
      BY <1>1, <1>2
    <2> QED BY <1>1, <1>2, <2>1
  <1>5. /\ y \in Seq(V) /\ Len(y) = n + k
        /\ \A i \in 1 .. n : y[i] = old[i]
        /\ \A i \in 1 .. k : y[n + i] = more[i]
    BY <1>1, <1>3
  <1> HIDE DEF x, y, n
  <1>6. ASSUME NEW i \in 1 .. n + k PROVE x[i] = y[i]
    <2>1. CASE i <= n
      BY <1>1, <1>4, <1>5, <2>1
    <2>2. CASE i > n
      <3> DEFINE j == i - n
      <3>1. j \in 1 .. k /\ i = n + j
        BY <1>1, <2>2
      <3> HIDE DEF j
      <3>2. y[i] = value[j]
        BY <1>3, <1>5, <3>1
      <3>3. x[i] = value[j]
        BY <1>1, <1>2, <1>4, <3>1
      <3> QED BY <3>2, <3>3
    <2> QED BY <1>1, <2>1, <2>2
  <1>7. x = y
    BY <1>1, <1>4, <1>5, <1>6
  <1> QED BY <1>7 DEF x, y, less, more

(* w writes the elements of value one by one.                               *)
IsEach(w, tag, shape, value) ==
    /\ IsSeq(w)
    /\ Len(w) = Len(value)
    /\ \A i \in 1 .. Len(value) : w[i] = Token(tag, shape, value[i])

(* A repeated field written element by element has the elements appended.   *)
LEMMA ReadEach ==
    ASSUME NEW C, NEW o, IsRecord(C, o), NEW f \in Fields(C), NEW tag, NEW shape,
           C.accessors[f] \in Repeated, shape # "packed", ReadFrom(C, tag, f),
           NEW value, SeqsAlike(o.fields[f], value),
           NEW w, IsEach(w, tag, shape, value)
    PROVE  Parse(C, o, w) = Put(C, o, f, o.fields[f] \o value)
  <1> DEFINE old == o.fields[f]
             kind == C.accessors[f]
  <1>v. PICK V : value \in Seq(V) /\ o.fields[f] \in Seq(V)
    BY DEF SeqsAlike
  <1>0. Len(value) \in Nat /\ DOMAIN value = 1 .. Len(value)
    BY <1>v
  <1>1. PICK W : /\ w \in Seq(W)
                 /\ Len(w) = Len(value)
                 /\ \A i \in 1 .. Len(value) : w[i] = Token(tag, shape, value[i])
    BY DEF IsEach, IsSeq
  <1> HIDE DEF old, kind
  <1>2. PICK g : /\ g[0] = o
                 /\ \A k \in 1 .. Len(w) : g[k] = Step(C, g[k - 1], w[k])
                 /\ Parse(C, o, w) = g[Len(w)]
    BY <1>1, ParseSteps
  <1> DEFINE Good == {k \in 0 .. Len(value) : g[k] = Put(C, o, f, old \o SubSeq(value, 1, k))}
  <1>3. 0 \in Good
    <2>1. old \o SubSeq(value, 1, 0) = old
      BY <1>v DEF old
    <2>2. g[0] = Put(C, o, f, old)
      BY <1>2, PutRecord DEF old
    <2>3. g[0] = Put(C, o, f, old \o SubSeq(value, 1, 0))
      BY <2>1, <2>2
    <2>4. 0 \in 0 .. Len(value)
      BY <1>0
    <2> QED BY <2>3, <2>4
  <1>4. ASSUME NEW k \in 1 .. Len(value), k - 1 \in Good PROVE k \in Good
    <2> DEFINE so == old \o SubSeq(value, 1, k - 1)
               was == Put(C, o, f, so)
    <2>1. g[k - 1] = was
      BY <1>4
    <2>2. g[k] = Step(C, was, w[k])
      BY <1>1, <1>2, <2>1
    <2> HIDE DEF so
    <2>3. IsRecord(C, was) /\ was.fields[f] = so
      BY PutRecord
    <2>4. w[k] = Token(tag, shape, value[k]) /\ w[k].tag = tag
      BY <1>1 DEF Token
    <2> HIDE DEF was
    <2>5. Step(C, was, w[k]) = Put(C, was, f, ReadField(kind, was.fields[f], w[k]))
      BY <2>3, <2>4, StepKnown DEF kind
    <2>6. ReadField(kind, so, w[k]) = Append(so, value[k])
      BY <2>4 DEF ReadField, Read, Repeated, Submessages, Token, kind
    <2>7. Append(so, value[k]) = old \o SubSeq(value, 1, k)
      BY <1>v, OneMore DEF so, old
    <2>8. Put(C, was, f, Append(so, value[k])) = Put(C, o, f, Append(so, value[k]))
      BY PutRecord DEF was
    <2>9. k \in 0 .. Len(value)
      BY <1>0
    <2> QED BY <2>2, <2>3, <2>5, <2>6, <2>7, <2>8, <2>9
  <1>5. Len(value) \in Good
    <2> HIDE DEF Good
    <2>1. \A k \in 0 .. Len(value) : k \in Good
      BY <1>0, <1>3, <1>4, Induction
    <2> QED BY <1>0, <2>1
  <1>6. SubSeq(value, 1, Len(value)) = value
    BY <1>v
  <1> QED BY <1>1, <1>2, <1>5, <1>6 DEF old

(* Reading one token into a submessage is one step.                         *)
LEMMA ParseFlatOne == ASSUME NEW C, NEW o, NEW t PROVE ParseFlat(C, o, <<t>>) = StepFlat(C, o, t)
  <1> DEFINE w == <<t>>
  <1>1. w \in Seq({t}) /\ Len(w) = 1 /\ w[1] = t
    OBVIOUS
  <1> HIDE DEF w
  <1>2. PICK g : /\ g[0] = o
                 /\ \A k \in 1 .. Len(w) : g[k] = StepFlat(C, g[k - 1], w[k])
                 /\ ParseFlat(C, o, w) = g[Len(w)]
    BY <1>1, ParseFlatSteps
  <1>3. g[1] = StepFlat(C, o, t)
    BY <1>1, <1>2
  <1> QED BY <1>1, <1>2, <1>3 DEF w

(* A submessage written in as many pieces as it has tokens reads as it does *)
(* written at once.                                                         *)
LEMMA ReadInPieces ==
    ASSUME NEW C, NEW o, IsRecord(C, o), NEW f \in Fields(C), NEW tag,
           C.accessors[f] \in Submessages, ReadFrom(C, tag, f),
           NEW T, NEW inner \in Seq(T), inner # <<>>
    PROVE  Parse(C, o, [i \in DOMAIN inner |-> Token(tag, "message", <<inner[i]>>)])
            = Put(C, o, f, <<ParseFlat(Classes[C.accessors[f]],
                                       Mutable(C.accessors[f], o.fields[f]), inner)>>)
  <1> DEFINE w == [i \in DOMAIN inner |-> Token(tag, "message", <<inner[i]>>)]
             kind == C.accessors[f]
             K == Classes[kind]
             start == Mutable(kind, o.fields[f])
             U == {Token(tag, "message", <<t>>) : t \in T}
  <1>0. Len(inner) \in Nat /\ Len(inner) # 0 /\ DOMAIN inner = 1 .. Len(inner)
    OBVIOUS
  <1>1. w \in Seq(U) /\ Len(w) = Len(inner)
        /\ \A i \in 1 .. Len(inner) : w[i] = Token(tag, "message", <<inner[i]>>)
    <2> HIDE DEF U
    <2>1. \A i \in 1 .. Len(inner) : w[i] \in U
      BY <1>0 DEF U
    <2> QED BY <1>0, <2>1
  <1> HIDE DEF w, kind, K, start, U
  <1>2. PICK g : /\ g[0] = o
                 /\ \A k \in 1 .. Len(w) : g[k] = Step(C, g[k - 1], w[k])
                 /\ Parse(C, o, w) = g[Len(w)]
    <2>1. w \in Seq(U)
      BY <1>1
    <2> QED BY <2>1, ParseSteps
  <1>3. PICK h : /\ h[0] = start
                 /\ \A k \in 1 .. Len(inner) : h[k] = StepFlat(K, h[k - 1], inner[k])
                 /\ ParseFlat(K, start, inner) = h[Len(inner)]
    BY ParseFlatSteps
  <1> DEFINE Good == {k \in 0 .. Len(inner) : k # 0 => g[k] = Put(C, o, f, <<h[k]>>)}
  <1>4. 0 \in Good
    BY <1>0
  <1>5. ASSUME NEW k \in 1 .. Len(inner), k - 1 \in Good PROVE k \in Good
    <2> DEFINE was == g[k - 1]
    <2>1. IsRecord(C, was) /\ Mutable(kind, was.fields[f]) = h[k - 1]
          /\ \A v : Put(C, was, f, v) = Put(C, o, f, v)
      <3>1. CASE k = 1
        <4>1. was = o /\ h[k - 1] = start
          BY <1>2, <1>3, <3>1
        <4>2. \A v : Put(C, was, f, v) = Put(C, o, f, v)
          BY <4>1
        <4> QED BY <4>1, <4>2 DEF start
      <3>2. CASE k # 1
        <4> DEFINE x == <<h[k - 1]>>
        <4>1. was = Put(C, o, f, x)
          <5>1. k - 1 # 0
            BY <3>2
          <5> QED BY <1>5, <5>1
        <4>2. x # <<>> /\ x[1] = h[k - 1]
          OBVIOUS
        <4> HIDE DEF x, was
        <4>3. IsRecord(C, was) /\ was.fields[f] = x /\ \A v : Put(C, was, f, v) = Put(C, o, f, v)
          BY <4>1, PutRecord
        <4> QED BY <4>2, <4>3 DEF Mutable
      <3> QED BY <3>1, <3>2
    <2> HIDE DEF was
    <2>2. g[k] = Step(C, was, w[k])
      BY <1>1, <1>2 DEF was
    <2>3. w[k] = Token(tag, "message", <<inner[k]>>) /\ w[k].tag = tag /\ w[k].value = <<inner[k]>>
      BY <1>1 DEF Token
    <2>4. Step(C, was, w[k]) = Put(C, was, f, ReadField(kind, was.fields[f], w[k]))
      BY <2>1, <2>3, StepKnown DEF kind
    <2>5. ReadField(kind, was.fields[f], w[k]) = <<ParseFlat(K, h[k - 1], <<inner[k]>>)>>
      BY <2>1, <2>3 DEF ReadField, Read, kind, K
    <2>6. ParseFlat(K, h[k - 1], <<inner[k]>>) = h[k]
      BY <1>3, ParseFlatOne
    <2>7. g[k] = Put(C, o, f, <<h[k]>>)
      BY <2>1, <2>2, <2>4, <2>5, <2>6
    <2>8. k \in 0 .. Len(inner)
      BY <1>0
    <2> QED BY <2>7, <2>8
  <1>6. Len(inner) \in Good
    <2> HIDE DEF Good
    <2>1. \A k \in 0 .. Len(inner) : k \in Good
      BY <1>0, <1>4, <1>5, Induction
    <2> QED BY <1>0, <2>1
  <1>7. g[Len(inner)] = Put(C, o, f, <<h[Len(inner)]>>)
    BY <1>0, <1>6
  <1> QED BY <1>1, <1>2, <1>3, <1>7 DEF w, K, kind, start

(* The tables of every class are sound.                                     *)
LEMMA AllSound == ASSUME NEW c \in DOMAIN Classes PROVE Sound(Classes[c])
  <1>1. c \in {"Cursor", "Pair", "OutboundMessageData", "SendMessageByMinBlockRequest",
               "SendMessageByIdRequest", "SendMessageToRandomPeersRequest", "SentPeers",
               "PenalizePeerRequest", "PeerMinBlockRequest", "InboundMessage", "Forks", "StatusData"}
    BY DEF Classes
  <1>2. CASE c = "Cursor"
    BY <1>2, CursorSound DEF Classes
  <1>3. CASE c = "Pair"
    BY <1>3, PairSound DEF Classes
  <1>4. CASE c = "OutboundMessageData"
    BY <1>4, OutboundMessageDataSound DEF Classes
  <1>5. CASE c = "SendMessageByMinBlockRequest"
    BY <1>5, SendMessageByMinBlockRequestSound DEF Classes
  <1>6. CASE c = "SendMessageByIdRequest"
    BY <1>6, SendMessageByIdRequestSound DEF Classes
  <1>7. CASE c = "SendMessageToRandomPeersRequest"
    BY <1>7, SendMessageToRandomPeersRequestSound DEF Classes
  <1>8. CASE c = "SentPeers"
    BY <1>8, SentPeersSound DEF Classes
  <1>9. CASE c = "PenalizePeerRequest"
    BY <1>9, PenalizePeerRequestSound DEF Classes
  <1>10. CASE c = "PeerMinBlockRequest"
    BY <1>10, PeerMinBlockRequestSound DEF Classes
  <1>11. CASE c = "InboundMessage"
    BY <1>11, InboundMessageSound DEF Classes
  <1>12. CASE c = "Forks"
    BY <1>12, ForksSound DEF Classes
  <1>13. CASE c = "StatusData"
    BY <1>13, StatusDataSound DEF Classes
  <1> QED BY <1>1, <1>2, <1>3, <1>4, <1>5, <1>6, <1>7, <1>8, <1>9, <1>10, <1>11, <1>12, <1>13

(* The classes submessages are of have no submessages of their own.         *)
LEMMA SubmessagesFlat ==
    ASSUME NEW kind \in Submessages
    PROVE  kind \in DOMAIN Classes /\ Sound(Classes[kind]) /\ Flat(Classes[kind])
  <1>1. CASE kind = "Forks"
    <2>1. Classes[kind] = Forks /\ kind \in DOMAIN Classes
      BY <1>1 DEF Classes
    <2>2. Flat(Forks)
      BY DEF Flat, Forks, MessageClass, Forks_accessors, Fields, Submessages
    <2> QED BY <2>1, <2>2, ForksSound
  <1>2. CASE kind = "OutboundMessageData"
    <2>1. Classes[kind] = OutboundMessageData /\ kind \in DOMAIN Classes
      BY <1>2 DEF Classes
    <2>2. Flat(OutboundMessageData)
      BY DEF Flat, OutboundMessageData, MessageClass, OutboundMessageData_accessors, Fields,
             Submessages
    <2> QED BY <2>1, <2>2, OutboundMessageDataSound
  <1> QED BY <1>1, <1>2 DEF Submessages

(* Of a class without submessages, FlatObject and Object say the same.      *)
LEMMA FlatIsObject ==
    ASSUME NEW C, Flat(C), NEW o
    PROVE  FlatObject(C, o) <=> Object(C, o)
  BY DEF Flat, FlatObject, Object, HasKind

(* The default of a kind is of the kind.                                    *)
LEMMA DefaultTyped ==
    ASSUME NEW kind \in Kinds
    PROVE  /\ HasKind(kind, DefaultOf(kind))
           /\ kind \notin Submessages => DefaultOf(kind) \in FlatValues(kind)
  <1>1. CASE kind \in Varints
    BY <1>1 DEF HasKind, DefaultOf, FlatValues, Varints, Submessages
  <1>2. CASE kind \notin Varints
    BY <1>2 DEF HasKind, DefaultOf, FlatValues
  <1> QED BY <1>1, <1>2

(* A new object's fields are of their kinds.                                *)
LEMMA NewTyped ==
    ASSUME NEW C, Sound(C)
    PROVE  /\ Object(C, New(C))
           /\ Flat(C) => FlatObject(C, New(C))
  <1>1. IsRecord(C, New(C))
    BY DEF IsRecord, New
  <1>2. \A f \in Fields(C) : HasKind(C.accessors[f], New(C).fields[f])
    BY DefaultTyped DEF New, Sound
  <1> QED BY <1>1, <1>2, FlatIsObject DEF Object

(* What mutable_f returns is an object of the submessage's class.           *)
LEMMA MutableTyped ==
    ASSUME NEW kind \in Submessages, NEW value, HasKind(kind, value)
    PROVE  FlatObject(Classes[kind], Mutable(kind, value))
  <1>1. CASE value = <<>>
    BY <1>1, SubmessagesFlat, NewTyped DEF Mutable
  <1>2. CASE value # <<>>
    <2>1. PICK m : FlatObject(Classes[kind], m) /\ value = <<m>>
      BY <1>2 DEF HasKind
    <2>2. Mutable(kind, value) = m
      BY <2>1 DEF Mutable
    <2> QED BY <2>1, <2>2
  <1> QED BY <1>1, <1>2

(* Merging two values of a kind gives one of the kind.                      *)
LEMMA FlatMergedTyped ==
    ASSUME NEW kind \in Kinds, kind \notin Submessages,
           NEW a \in FlatValues(kind), NEW b \in FlatValues(kind)
    PROVE  MergedFlat(kind, a, b) \in FlatValues(kind)
  <1>1. CASE kind \in Repeated
    <2>1. kind \notin Varints
      BY <1>1 DEF Repeated, Varints
    <2>2. MergedFlat(kind, a, b) = a \o b
      BY <1>1 DEF MergedFlat, Merged
    <2> QED BY <2>1, <2>2 DEF FlatValues
  <1>2. CASE kind \notin Repeated
    <2>1. MergedFlat(kind, a, b) \in {a, b}
      BY <1>2 DEF MergedFlat, Merged
    <2> QED BY <2>1
  <1> QED BY <1>1, <1>2

(* Merging two submessages gives one.                                       *)
LEMMA MergeFlatTyped ==
    ASSUME NEW C, Sound(C), Flat(C), NEW o, FlatObject(C, o), NEW p, FlatObject(C, p)
    PROVE  FlatObject(C, MergeFlat(C, o, p))
  <1> DEFINE r == MergeFlat(C, o, p)
  <1>1. r = [fields |-> [f \in Fields(C) |-> MergedFlat(C.accessors[f], o.fields[f], p.fields[f])],
             unknown |-> o.unknown \o p.unknown]
    <2>1. C.merged = Fields(C)
      BY DEF Sound
    <2> QED BY <2>1, Zenon DEF MergeFlat, MergeBy, MergedFlat
  <1> HIDE DEF r
  <1>2. o.unknown \o p.unknown \in Seq({NewField})
    BY DEF FlatObject, IsRecord
  <1>3. IsRecord(C, r)
    BY <1>1, <1>2 DEF IsRecord
  <1>4. ASSUME NEW f \in Fields(C) PROVE r.fields[f] \in FlatValues(C.accessors[f])
    <2>1. r.fields[f] = MergedFlat(C.accessors[f], o.fields[f], p.fields[f])
      BY <1>1
    <2>2. /\ C.accessors[f] \in Kinds /\ C.accessors[f] \notin Submessages
          /\ o.fields[f] \in FlatValues(C.accessors[f])
          /\ p.fields[f] \in FlatValues(C.accessors[f])
      BY DEF FlatObject, Flat, Sound
    <2> QED BY <2>1, <2>2, FlatMergedTyped
  <1> QED BY <1>3, <1>4 DEF FlatObject, r

(* Merging two values of a kind gives one of the kind, submessages too.     *)
LEMMA MergedTyped ==
    ASSUME NEW kind \in Kinds, NEW a, HasKind(kind, a), NEW b, HasKind(kind, b)
    PROVE  HasKind(kind, MergedField(kind, a, b))
  <1>1. CASE kind \in Submessages
    <2>1. kind \notin Repeated /\ DefaultOf(kind) = <<>>
      BY <1>1 DEF Submessages, Repeated, DefaultOf, Varints
    <2>2. CASE b = <<>>
      BY <2>1, <2>2 DEF MergedField, Merged
    <2>3. CASE b # <<>>
      <3> DEFINE m == MergeFlat(Classes[kind], Mutable(kind, a), b[1])
      <3>1. PICK x : FlatObject(Classes[kind], x) /\ b = <<x>>
        BY <1>1, <2>3 DEF HasKind
      <3>2. FlatObject(Classes[kind], m)
        <4>1. b[1] = x
          BY <3>1
        <4> QED BY <1>1, <3>1, <4>1, MutableTyped, SubmessagesFlat, MergeFlatTyped
      <3>3. MergedField(kind, a, b) = <<m>>
        BY <1>1, <2>1, <2>3 DEF MergedField, Merged
      <3> QED BY <1>1, <3>2, <3>3 DEF HasKind
    <2> QED BY <2>2, <2>3
  <1>2. CASE kind \notin Submessages
    <2>1. MergedField(kind, a, b) = MergedFlat(kind, a, b)
      BY <1>2 DEF MergedField, MergedFlat, Merged
    <2> QED BY <1>2, <2>1, FlatMergedTyped DEF HasKind
  <1> QED BY <1>1, <1>2

-----------------------------------------------------------------------------
(* What a field is written as reads back as a merge of the field.           *)


(* Whoever reads the piece merges the value into the field, and no more.    *)
PieceReads(C, f, piece, value) ==
    /\ IsSeq(piece)
    /\ \A o : Object(C, o) => Parse(C, o, piece)
                                = Put(C, o, f, MergedField(C.accessors[f], o.fields[f], value))

(* Whatever submessage reads the wire merges m into itself.                 *)
WireReads(C, wire, m) ==
    /\ IsSeq(wire)
    /\ \A o : FlatObject(C, o) => ParseFlat(C, o, wire) = MergeFlat(C, o, m)

(* The two ways a submessage is written read back as a merge.               *)
SubmessageReads(C, m) ==
    WireReads(C, SerializeFlat(C, m), m) /\ WireReads(C, OddMessage(C, m), m)

(* That holds of every submessage.                                          *)
SubmessagesRead ==
    \A kind \in Submessages : \A m :
        FlatObject(Classes[kind], m) => SubmessageReads(Classes[kind], m)

(* A field that has its default is not written, and merging it is no change.*)
LEMMA DefaultReads ==
    ASSUME NEW C, Sound(C), NEW f \in Fields(C), NEW value, value = DefaultOf(C.accessors[f])
    PROVE  PieceReads(C, f, <<>>, value)
  <1> DEFINE kind == C.accessors[f]
  <1>1. IsSeq(<<>>)
    <2>1. <<>> \in Seq({})
      OBVIOUS
    <2> QED BY <2>1 DEF IsSeq
  <1>2. ASSUME NEW o, Object(C, o)
        PROVE  Parse(C, o, <<>>) = Put(C, o, f, MergedField(kind, o.fields[f], value))
    <2>1. MergedField(kind, o.fields[f], value) = o.fields[f]
      <3>1. CASE kind \in Repeated
        <4>1. value = <<>> /\ kind \notin Submessages /\ kind \notin Varints
          BY <3>1 DEF DefaultOf, Repeated, Varints, Submessages
        <4>2. o.fields[f] \in Seq(Seq(Nat)) \/ o.fields[f] \in Seq(Nat)
          BY <1>2, <4>1 DEF Object, HasKind, FlatValues
        <4>3. MergedField(kind, o.fields[f], value) = o.fields[f] \o value
          BY <3>1 DEF MergedField, Merged
        <4> QED BY <4>1, <4>2, <4>3
      <3>2. CASE kind \notin Repeated
        BY <3>2 DEF MergedField, Merged
      <3> QED BY <3>1, <3>2
    <2>2. Parse(C, o, <<>>) = o
      BY ParseNone
    <2>3. Put(C, o, f, o.fields[f]) = o
      BY <1>2, PutRecord DEF Object
    <2> QED BY <2>1, <2>2, <2>3
  <1> QED BY <1>1, <1>2 DEF PieceReads

(* A field written as one token.                                            *)
LEMMA SingleReads ==
    ASSUME NEW C, Sound(C), NEW f \in Fields(C), NEW t, ReadFrom(C, t.tag, f), NEW value,
           \A o : Object(C, o) => ReadField(C.accessors[f], o.fields[f], t)
                                    = MergedField(C.accessors[f], o.fields[f], value)
    PROVE  PieceReads(C, f, <<t>>, value)
  <1>1. IsSeq(<<t>>)
    <2>1. <<t>> \in Seq({t})
      OBVIOUS
    <2> QED BY <2>1 DEF IsSeq
  <1>2. ASSUME NEW o, Object(C, o)
        PROVE  Parse(C, o, <<t>>) = Put(C, o, f, MergedField(C.accessors[f], o.fields[f], value))
    <2>1. Step(C, o, t) = Put(C, o, f, ReadField(C.accessors[f], o.fields[f], t))
      BY <1>2, StepKnown DEF Object
    <2> QED BY <1>2, <2>1, ParseOne
  <1> QED BY <1>1, <1>2 DEF PieceReads

(* A single field written twice: the later value replaces the earlier.      *)
LEMMA DoubleReads ==
    ASSUME NEW C, Sound(C), NEW f \in Fields(C), NEW s, ReadFrom(C, s.tag, f),
           NEW t, ReadFrom(C, t.tag, f), NEW value, C.accessors[f] \in Varints \cup Strings,
           value # DefaultOf(C.accessors[f]), t.value = value
    PROVE  PieceReads(C, f, <<s, t>>, value)
  <1> DEFINE kind == C.accessors[f]
  <1>1. IsSeq(<<s, t>>)
    <2>1. <<s, t>> \in Seq({s, t})
      OBVIOUS
    <2> QED BY <2>1 DEF IsSeq
  <1>2. ASSUME NEW o, Object(C, o)
        PROVE  Parse(C, o, <<s, t>>) = Put(C, o, f, MergedField(kind, o.fields[f], value))
    <2>1. kind \notin Repeated /\ kind \notin Submessages
      BY DEF Varints, Strings, Repeated, Submessages
    <2>2. MergedField(kind, o.fields[f], value) = value
      BY <2>1 DEF MergedField, Merged
    <2> DEFINE x == ReadField(kind, o.fields[f], s)
               o1 == Put(C, o, f, x)
    <2>3. Step(C, o, s) = o1 /\ IsRecord(C, o1) /\ \A v : Put(C, o1, f, v) = Put(C, o, f, v)
      BY <1>2, StepKnown, PutRecord DEF Object
    <2> HIDE DEF o1
    <2>4. Step(C, o1, t) = Put(C, o1, f, ReadField(kind, o1.fields[f], t))
      BY <2>3, StepKnown
    <2>5. ReadField(kind, o1.fields[f], t) = value
      BY <2>1 DEF ReadField, Read
    <2> QED BY <2>2, <2>3, <2>4, <2>5, ParseTwo
  <1> QED BY <1>1, <1>2 DEF PieceReads

(* A repeated field written element by element.                             *)
LEMMA EachReads ==
    ASSUME NEW C, Sound(C), NEW f \in Fields(C), NEW tag, ReadFrom(C, tag, f),
           NEW shape, shape # "packed", C.accessors[f] \in Repeated,
           NEW value, HasKind(C.accessors[f], value)
    PROVE  PieceReads(C, f, [i \in DOMAIN value |-> Token(tag, shape, value[i])], value)
  <1> DEFINE kind == C.accessors[f]
             piece == [i \in DOMAIN value |-> Token(tag, shape, value[i])]
             V == IF kind = "repeated_bytes" THEN Seq(Nat) ELSE Nat
  <1>1. \A v : HasKind(kind, v) => v \in Seq(V)
    BY DEF HasKind, FlatValues, Repeated, Submessages, Varints
  <1>2. IsSeq(piece)
    <2>1. value \in Seq(V)
      BY <1>1
    <2> HIDE DEF V
    <2> DEFINE T == {Token(tag, shape, v) : v \in V}
    <2>2. Len(value) \in Nat /\ DOMAIN value = 1 .. Len(value)
          /\ \A i \in 1 .. Len(value) : Token(tag, shape, value[i]) \in T
      BY <2>1
    <2> HIDE DEF T
    <2>3. piece \in Seq(T)
      BY <2>2
    <2> QED BY <2>3 DEF IsSeq
  <1>3. ASSUME NEW o, Object(C, o)
        PROVE  Parse(C, o, piece) = Put(C, o, f, MergedField(kind, o.fields[f], value))
    <2>1. value \in Seq(V) /\ o.fields[f] \in Seq(V) /\ IsRecord(C, o)
      BY <1>1, <1>3 DEF Object
    <2>0. SeqsAlike(o.fields[f], value)
      BY <2>1 DEF SeqsAlike
    <2>2. MergedField(kind, o.fields[f], value) = o.fields[f] \o value
      BY DEF MergedField, Merged
    <2>3. IsEach(piece, tag, shape, value)
      <3>1. DOMAIN value = 1 .. Len(value) /\ Len(value) \in Nat
        BY <2>1
      <3> QED BY <1>2, <3>1 DEF IsEach
    <2> HIDE DEF V, piece
    <2>4. Parse(C, o, piece) = Put(C, o, f, o.fields[f] \o value)
      BY <2>0, <2>1, <2>3, ReadEach
    <2> QED BY <2>2, <2>4
  <1> QED BY <1>2, <1>3 DEF PieceReads

(* A submessage written at once.                                            *)
LEMMA SubmessageSingle ==
    ASSUME NEW C, Sound(C), NEW f \in Fields(C), C.accessors[f] \in Submessages,
           NEW m, NEW inner, WireReads(Classes[C.accessors[f]], inner, m),
           NEW tag, ReadFrom(C, tag, f)
    PROVE  PieceReads(C, f, <<Token(tag, "message", inner)>>, <<m>>)
  <1> DEFINE kind == C.accessors[f]
             t == Token(tag, "message", inner)
  <1>1. t.tag = tag /\ t.value = inner
    BY DEF Token
  <1> HIDE DEF t
  <1>2. ASSUME NEW o, Object(C, o)
        PROVE  ReadField(kind, o.fields[f], t) = MergedField(kind, o.fields[f], <<m>>)
    <2>1. kind \notin Repeated /\ DefaultOf(kind) = <<>>
      BY DEF Submessages, Repeated, DefaultOf, Varints
    <2>2. FlatObject(Classes[kind], Mutable(kind, o.fields[f]))
      BY <1>2, MutableTyped DEF Object
    <2>3. ParseFlat(Classes[kind], Mutable(kind, o.fields[f]), inner)
            = MergeFlat(Classes[kind], Mutable(kind, o.fields[f]), m)
      BY <2>2 DEF WireReads
    <2>4. ReadField(kind, o.fields[f], t)
            = <<ParseFlat(Classes[kind], Mutable(kind, o.fields[f]), inner)>>
      BY <1>1 DEF ReadField, Read
    <2>5. MergedField(kind, o.fields[f], <<m>>)
            = <<MergeFlat(Classes[kind], Mutable(kind, o.fields[f]), m)>>
      BY <2>1 DEF MergedField, Merged
    <2> QED BY <2>3, <2>4, <2>5
  <1>3. PieceReads(C, f, <<t>>, <<m>>)
    BY <1>1, <1>2, SingleReads
  <1> QED BY <1>3 DEF t

(* A submessage written in pieces.                                          *)
LEMMA SubmessagePieces ==
    ASSUME NEW C, Sound(C), NEW f \in Fields(C), C.accessors[f] \in Submessages,
           NEW m, NEW inner, WireReads(Classes[C.accessors[f]], inner, m), inner # <<>>,
           NEW tag, ReadFrom(C, tag, f)
    PROVE  PieceReads(C, f, [i \in DOMAIN inner |-> Token(tag, "message", <<inner[i]>>)], <<m>>)
  <1> DEFINE kind == C.accessors[f]
             piece == [i \in DOMAIN inner |-> Token(tag, "message", <<inner[i]>>)]
  <1>1. PICK T : inner \in Seq(T)
    BY DEF WireReads, IsSeq
  <1>2. IsSeq(piece)
    <2> DEFINE U == {Token(tag, "message", <<t>>) : t \in T}
    <2>1. Len(inner) \in Nat /\ DOMAIN inner = 1 .. Len(inner)
          /\ \A i \in 1 .. Len(inner) : Token(tag, "message", <<inner[i]>>) \in U
      BY <1>1
    <2> HIDE DEF U
    <2>2. piece \in Seq(U)
      BY <2>1
    <2> QED BY <2>2 DEF IsSeq
  <1>3. ASSUME NEW o, Object(C, o)
        PROVE  Parse(C, o, piece) = Put(C, o, f, MergedField(kind, o.fields[f], <<m>>))
    <2>1. kind \notin Repeated /\ DefaultOf(kind) = <<>>
      BY DEF Submessages, Repeated, DefaultOf, Varints
    <2>2. FlatObject(Classes[kind], Mutable(kind, o.fields[f]))
      BY <1>3, MutableTyped DEF Object
    <2>3. ParseFlat(Classes[kind], Mutable(kind, o.fields[f]), inner)
            = MergeFlat(Classes[kind], Mutable(kind, o.fields[f]), m)
      BY <2>2 DEF WireReads
    <2>4. Parse(C, o, piece) = Put(C, o, f, <<ParseFlat(Classes[kind], Mutable(kind, o.fields[f]), inner)>>)
      <3>1. IsRecord(C, o)
        BY <1>3 DEF Object
      <3> QED BY <1>1, <3>1, ReadInPieces, Zenon
    <2>5. MergedField(kind, o.fields[f], <<m>>)
            = <<MergeFlat(Classes[kind], Mutable(kind, o.fields[f]), m)>>
      BY <2>1 DEF MergedField, Merged
    <2> QED BY <2>3, <2>4, <2>5
  <1> QED BY <1>2, <1>3 DEF PieceReads

(* What _InternalSerialize writes for a field reads as a merge of the field.*)
LEMMA WrittenReads ==
    ASSUME NEW C, Sound(C), NEW f \in Fields(C), NEW number \in Nat, EntryRead(C, number, f),
           NEW value, HasKind(C.accessors[f], value), Flat(C) \/ SubmessagesRead
    PROVE  PieceReads(C, f, WrittenField(C.accessors[f], number, value), value)
  <1> DEFINE kind == C.accessors[f]
             piece == WrittenField(kind, number, value)
  <1>1. kind \in Kinds
    BY DEF Sound
  <1>2. /\ kind \in Varints => ReadFrom(C, 8 * number, f)
        /\ kind \notin Varints => ReadFrom(C, 8 * number + 2, f)
    BY DEF EntryRead, WireType
  <1>3. CASE value = DefaultOf(kind)
    <2>1. piece = <<>>
      BY <1>3 DEF WrittenField, Written
    <2> QED BY <1>3, <2>1, DefaultReads
  <1>4. CASE value # DefaultOf(kind) /\ kind \in Varints \cup Strings
    <2> DEFINE t == Token(IF kind \in Varints THEN 8 * number ELSE 8 * number + 2,
                          IF kind \in Varints THEN "varint" ELSE "bytes", value)
    <2>1. piece = <<t>>
      BY <1>4 DEF WrittenField, Written, Varints, Strings, Submessages
    <2>2. ReadFrom(C, t.tag, f) /\ t.value = value
      BY <1>2 DEF Token
    <2> HIDE DEF t
    <2>3. kind \notin Repeated /\ kind \notin Submessages
      BY <1>4 DEF Varints, Strings, Repeated, Submessages
    <2>4. \A o : ReadField(kind, o.fields[f], t) = MergedField(kind, o.fields[f], value)
      BY <1>4, <2>2, <2>3 DEF ReadField, Read, MergedField, Merged
    <2> QED BY <2>1, <2>2, <2>4, SingleReads
  <1>5. CASE value # DefaultOf(kind) /\ kind = "repeated_bytes"
    <2>1. piece = [i \in DOMAIN value |-> Token(8 * number + 2, "bytes", value[i])]
      BY <1>5 DEF WrittenField, Written, Varints
    <2>2. kind \in Repeated /\ kind \notin Varints
      BY <1>5 DEF Repeated, Varints
    <2>3. PieceReads(C, f, [i \in DOMAIN value |-> Token(8 * number + 2, "bytes", value[i])], value)
      <3>1. ReadFrom(C, 8 * number + 2, f) /\ "bytes" # "packed"
        BY <1>2, <2>2
      <3> QED BY <2>2, <3>1, EachReads, Zenon
    <2> QED BY <2>1, <2>3
  <1>6. CASE value # DefaultOf(kind) /\ kind = "repeated_uint64"
    <2> DEFINE t == Token(8 * number + 2, "packed", value)
    <2>1. piece = <<t>>
      BY <1>6 DEF WrittenField, Written, Varints
    <2>2. kind \in Repeated /\ kind \notin Varints /\ kind \notin Submessages
      BY <1>6 DEF Repeated, Varints, Submessages
    <2>3. ReadFrom(C, t.tag, f) /\ t.value = value /\ t.shape = "packed"
      BY <1>2, <2>2 DEF Token
    <2> HIDE DEF t
    <2>4. \A o : ReadField(kind, o.fields[f], t) = MergedField(kind, o.fields[f], value)
      BY <2>2, <2>3 DEF ReadField, Read, MergedField, Merged
    <2> QED BY <2>1, <2>3, <2>4, SingleReads
  <1>7. CASE value # DefaultOf(kind) /\ kind \in Submessages
    <2>1. kind \notin Varints /\ DefaultOf(kind) = <<>> /\ kind # "repeated_bytes" /\ kind # "repeated_uint64"
      BY <1>7 DEF Submessages, Varints, DefaultOf
    <2>2. PICK m : FlatObject(Classes[kind], m) /\ value = <<m>>
      BY <1>7, <2>1 DEF HasKind
    <2>3. WireReads(Classes[kind], SerializeFlat(Classes[kind], m), m)
      BY <1>7, <2>2 DEF Flat, SubmessagesRead, SubmessageReads
    <2>4. piece = <<Token(8 * number + 2, "message", SerializeFlat(Classes[kind], m))>>
      <3>1. value[1] = m
        BY <2>2
      <3> QED BY <1>7, <2>1, <3>1 DEF WrittenField, Written
    <2> QED BY <1>2, <1>7, <2>1, <2>2, <2>3, <2>4, SubmessageSingle
  <1> QED BY <1>1, <1>3, <1>4, <1>5, <1>6, <1>7 DEF Kinds, Repeated

(* So does what a peer may write for it instead.                            *)
LEMMA OddlyWrittenReads ==
    ASSUME NEW C, Sound(C), NEW f \in Fields(C), NEW number \in Nat, EntryRead(C, number, f),
           NEW value, HasKind(C.accessors[f], value), Flat(C) \/ SubmessagesRead
    PROVE  PieceReads(C, f, OddField(C.accessors[f], number, value), value)
  <1> DEFINE kind == C.accessors[f]
             piece == OddField(kind, number, value)
  <1>1. kind \in Kinds
    BY DEF Sound
  <1>2. /\ kind \in Varints => ReadFrom(C, 8 * number, f)
        /\ kind \notin Varints => ReadFrom(C, 8 * number + 2, f)
        /\ kind = "repeated_uint64" => ReadFrom(C, 8 * number, f)
    BY DEF EntryRead, WireType
  <1>3. CASE value = DefaultOf(kind) \/ kind = "repeated_bytes"
    <2>1. piece = WrittenField(kind, number, value)
      BY <1>3 DEF OddField, OddlyWritten
    <2> QED BY <2>1, WrittenReads
  <1>4. CASE value # DefaultOf(kind) /\ kind \in Varints \cup Strings
    <2> DEFINE s == Token(IF kind \in Varints THEN 8 * number ELSE 8 * number + 2,
                          IF kind \in Varints THEN "varint" ELSE "bytes",
                          IF kind \in Varints THEN 7 ELSE <<7>>)
               t == Token(IF kind \in Varints THEN 8 * number ELSE 8 * number + 2,
                          IF kind \in Varints THEN "varint" ELSE "bytes", value)
    <2>1. piece = <<s, t>>
      <3>1. CASE kind \in Varints
        BY <1>4, <3>1 DEF OddField, OddlyWritten, Varints
      <3>2. CASE kind \notin Varints
        BY <1>4, <3>2 DEF OddField, OddlyWritten, Strings, Submessages
      <3> QED BY <3>1, <3>2
    <2>2. ReadFrom(C, s.tag, f) /\ ReadFrom(C, t.tag, f) /\ t.value = value
      BY <1>2 DEF Token
    <2> HIDE DEF s, t
    <2> QED BY <1>4, <2>1, <2>2, DoubleReads
  <1>5. CASE value # DefaultOf(kind) /\ kind = "repeated_uint64"
    <2>1. piece = [k \in DOMAIN value |-> Token(8 * number, "varint", value[k])]
      BY <1>5 DEF OddField, OddlyWritten, Varints
    <2>2. kind \in Repeated /\ "varint" # "packed" /\ ReadFrom(C, 8 * number, f)
      BY <1>2, <1>5 DEF Repeated
    <2>3. PieceReads(C, f, [k \in DOMAIN value |-> Token(8 * number, "varint", value[k])], value)
      BY <2>2, EachReads, Zenon
    <2> QED BY <2>1, <2>3
  <1>6. CASE value # DefaultOf(kind) /\ kind \in Submessages
    <2>1. kind \notin Varints /\ DefaultOf(kind) = <<>> /\ kind # "repeated_bytes" /\ kind # "repeated_uint64"
      BY <1>6 DEF Submessages, Varints, DefaultOf
    <2>2. PICK m : FlatObject(Classes[kind], m) /\ value = <<m>>
      BY <1>6, <2>1 DEF HasKind
    <2> DEFINE inner == OddMessage(Classes[kind], m)
    <2>3. WireReads(Classes[kind], inner, m)
      BY <1>6, <2>2 DEF Flat, SubmessagesRead, SubmessageReads
    <2>4. piece = IF inner = <<>> THEN <<Token(8 * number + 2, "message", <<>>)>>
                  ELSE [k \in DOMAIN inner |-> Token(8 * number + 2, "message", <<inner[k]>>)]
      <3>1. value[1] = m
        BY <2>2
      <3> QED BY <1>6, <2>1, <3>1 DEF OddField, OddlyWritten
    <2>5. ReadFrom(C, 8 * number + 2, f)
      BY <1>2, <2>1
    <2> HIDE DEF inner
    <2>6. CASE inner = <<>>
      <3>1. piece = <<Token(8 * number + 2, "message", inner)>>
        BY <2>4, <2>6
      <3>2. PieceReads(C, f, <<Token(8 * number + 2, "message", inner)>>, <<m>>)
        BY <1>6, <2>3, <2>5, SubmessageSingle
      <3> QED BY <2>2, <3>1, <3>2
    <2>7. CASE inner # <<>>
      <3>1. PieceReads(C, f, [k \in DOMAIN inner |-> Token(8 * number + 2, "message", <<inner[k]>>)], <<m>>)
        BY <1>6, <2>3, <2>5, <2>7, SubmessagePieces, Zenon
      <3> QED BY <2>2, <2>4, <2>7, <3>1
    <2> QED BY <2>6, <2>7
  <1> QED BY <1>1, <1>3, <1>4, <1>5, <1>6 DEF Kinds, Repeated

-----------------------------------------------------------------------------
(* What an object is written as reads back as a merge of the object.        *)


(* o after the fields S of p were merged into it.                           *)
Absorbed(C, o, p, S) ==
    [fields |-> [f \in Fields(C) |->
                    IF f \in S THEN MergedField(C.accessors[f], o.fields[f], p.fields[f])
                    ELSE o.fields[f]],
     unknown |-> o.unknown]

(* It is an object still.                                                   *)
LEMMA AbsorbedObject ==
    ASSUME NEW C, Sound(C), NEW o, Object(C, o), NEW p, Object(C, p), NEW S
    PROVE  Object(C, Absorbed(C, o, p, S))
  <1> DEFINE r == Absorbed(C, o, p, S)
  <1>1. /\ r = [fields |-> [f \in Fields(C) |-> r.fields[f]], unknown |-> r.unknown]
        /\ r.unknown = o.unknown
    BY DEF Absorbed
  <1>2. IsRecord(C, r)
    BY <1>1 DEF IsRecord, Object
  <1>3. ASSUME NEW f \in Fields(C) PROVE HasKind(C.accessors[f], r.fields[f])
    <2>1. /\ C.accessors[f] \in Kinds
          /\ HasKind(C.accessors[f], o.fields[f]) /\ HasKind(C.accessors[f], p.fields[f])
      BY DEF Sound, Object
    <2>2. r.fields[f] = IF f \in S THEN MergedField(C.accessors[f], o.fields[f], p.fields[f])
                        ELSE o.fields[f]
      BY DEF Absorbed
    <2> HIDE DEF r
    <2> QED BY <2>1, <2>2, MergedTyped
  <1> QED BY <1>2, <1>3 DEF Object

(* The n pieces, of the fields names[1] .. names[n], are what p is written  *)
(* as.                                                                      *)
Say(C, p, n, names, pieces) ==
    /\ n \in Nat \ {0}
    /\ DOMAIN pieces = 1 .. n /\ Len(pieces) = n /\ IsSeq(pieces)
    /\ names \in [1 .. n -> Fields(C)]
    /\ \A i, j \in 1 .. n : names[i] = names[j] => i = j
    /\ \A f \in Fields(C) : \E i \in 1 .. n : names[i] = f
    /\ \A i \in 1 .. n : PieceReads(C, names[i], pieces[i], p.fields[names[i]])

(* Reading the pieces of p, in any order, merges every field of p.          *)
LEMMA PiecesRead ==
    ASSUME NEW C, Sound(C), NEW o, Object(C, o), NEW p, Object(C, p),
           NEW n, NEW names, NEW pieces, Say(C, p, n, names, pieces)
    PROVE  /\ IsSeq(FlattenSeq(pieces))
           /\ Parse(C, o, FlattenSeq(pieces)) = Absorbed(C, o, p, Fields(C))
  <1>a. /\ n \in Nat \ {0}
        /\ DOMAIN pieces = 1 .. n /\ Len(pieces) = n /\ IsSeq(pieces)
        /\ names \in [1 .. n -> Fields(C)]
        /\ \A i, j \in 1 .. n : names[i] = names[j] => i = j
        /\ \A f \in Fields(C) : \E i \in 1 .. n : names[i] = f
        /\ \A i \in 1 .. n : PieceReads(C, names[i], pieces[i], p.fields[names[i]])
    BY DEF Say
  <1> USE <1>a
  <1> DEFINE T == UNION {{pieces[i][j] : j \in DOMAIN pieces[i]} : i \in 1 .. n}
  <1>1. pieces \in Seq(Seq(T))
    <2>1. ASSUME NEW i \in 1 .. n PROVE pieces[i] \in Seq(T)
      <3>1. IsSeq(pieces[i])
        BY DEF PieceReads
      <3>2. \A j \in DOMAIN pieces[i] : pieces[i][j] \in T
        OBVIOUS
      <3> HIDE DEF T
      <3> QED BY <3>1, <3>2, SeqOver
    <2> HIDE DEF T
    <2> QED BY <2>1, SeqOver
  <1> HIDE DEF T
  <1>2. PICK g \in [0 .. n -> Seq(T)] :
              /\ g[0] = <<>>
              /\ \A k \in 1 .. n : g[k] = g[k - 1] \o pieces[k]
              /\ FlattenSeq(pieces) = g[n]
    <2>1. pieces # <<>>
      BY <1>1
    <2>2. \E g \in [0 .. Len(pieces) -> Seq(T)] :
              /\ g[0] = <<>>
              /\ \A k \in 1 .. Len(pieces) : g[k] = g[k - 1] \o pieces[k]
              /\ FlattenSeq(pieces) = g[Len(pieces)]
      BY <1>1, <2>1, FlattenSteps, Zenon
    <2> QED BY <2>2
  <1> DEFINE Done(k) == {names[i] : i \in 1 .. k}
             Read0(k) == Parse(C, o, g[k]) = Absorbed(C, o, p, Done(k))
             Good == {k \in 0 .. n : Read0(k)}
  <1>3. 0 \in Good
    <2>1. Done(0) = {}
      OBVIOUS
    <2>2. Absorbed(C, o, p, {}) = o
      BY DEF Absorbed, Object, IsRecord
    <2>3. Parse(C, o, g[0]) = o
      BY <1>2, ParseNone
    <2>4. Read0(0)
      BY <2>1, <2>2, <2>3
    <2> HIDE DEF Read0
    <2> QED BY <2>4
  <1>4. ASSUME NEW k \in 1 .. n, k - 1 \in Good PROVE k \in Good
    <2> DEFINE was == Absorbed(C, o, p, Done(k - 1))
               f == names[k]
    <2>1. Object(C, was) /\ f \in Fields(C)
      BY AbsorbedObject
    <2>2. f \notin Done(k - 1) /\ Done(k) = Done(k - 1) \cup {f}
      OBVIOUS
    <2>3. was.fields[f] = o.fields[f]
      BY <2>1, <2>2 DEF Absorbed
    <2>4. Parse(C, was, pieces[k])
            = Put(C, was, f, MergedField(C.accessors[f], was.fields[f], p.fields[f]))
      BY <2>1 DEF PieceReads
    <2>5. Put(C, was, f, MergedField(C.accessors[f], o.fields[f], p.fields[f]))
            = Absorbed(C, o, p, Done(k))
      <3> HIDE DEF Done
      <3>1. \A h \in Fields(C) : h \in Done(k) <=> h \in Done(k - 1) \/ h = f
        BY <2>2
      <3>2. was.unknown = o.unknown
            /\ \A h \in Fields(C) : was.fields[h] =
                  IF h \in Done(k - 1) THEN MergedField(C.accessors[h], o.fields[h], p.fields[h])
                  ELSE o.fields[h]
        BY DEF Absorbed
      <3> HIDE DEF was, f
      <3> QED BY ZenonT(60), <3>1, <3>2 DEF Absorbed, Put
    <2>6. Parse(C, o, g[k - 1] \o pieces[k]) = Parse(C, was, pieces[k])
      <3>1. g[k - 1] \in Seq(T) /\ pieces[k] \in Seq(T)
        <4>1. k - 1 \in 0 .. n
          OBVIOUS
        <4>2. g[k - 1] \in Seq(T)
          BY <4>1
        <4>3. pieces[k] \in Seq(T)
          BY <1>1
        <4> QED BY <4>2, <4>3
      <3>2. Parse(C, o, g[k - 1]) = was
        BY <1>4
      <3> QED BY <3>1, <3>2, ParseConcat
    <2>7. g[k] = g[k - 1] \o pieces[k]
      BY <1>2
    <2>8. Read0(k)
      <3> HIDE DEF was, f, Done
      <3> QED BY <2>3, <2>4, <2>5, <2>6, <2>7
    <2> HIDE DEF Read0
    <2> QED BY <2>8
  <1>5. n \in Good
    <2> HIDE DEF Good
    <2>1. \A k \in 0 .. n : k \in Good
      BY <1>3, <1>4, Induction
    <2> QED BY <2>1
  <1>6. Done(n) = Fields(C)
    OBVIOUS
  <1>7. IsSeq(g[n])
    BY <1>2 DEF IsSeq
  <1> QED BY <1>2, <1>5, <1>6, <1>7

(* Reading fields we do not know appends them to those kept before.         *)
LEMMA UnknownRead ==
    ASSUME NEW C, Sound(C), NEW o, Object(C, o), NEW u \in Seq({NewField})
    PROVE  Parse(C, o, u) = [fields |-> o.fields, unknown |-> o.unknown \o u]
  <1>0. Len(u) \in Nat
    OBVIOUS
  <1>1. PICK g : /\ g[0] = o
                 /\ \A k \in 1 .. Len(u) : g[k] = Step(C, g[k - 1], u[k])
                 /\ Parse(C, o, u) = g[Len(u)]
    BY ParseSteps
  <1> DEFINE old == o.unknown
             With(v) == [fields |-> o.fields, unknown |-> v]
             Good == {k \in 0 .. Len(u) : g[k] = With(old \o SubSeq(u, 1, k))}
  <1>2. old \in Seq({NewField}) /\ o = With(old) /\ o.fields = [f \in Fields(C) |-> o.fields[f]]
    BY DEF Object, IsRecord
  <1> HIDE DEF old
  <1>3. 0 \in Good
    <2>1. old \o SubSeq(u, 1, 0) = old
      BY <1>2
    <2> QED BY <1>0, <1>1, <1>2, <2>1
  <1>4. ASSUME NEW k \in 1 .. Len(u), k - 1 \in Good PROVE k \in Good
    <2> DEFINE so == old \o SubSeq(u, 1, k - 1)
               was == With(so)
    <2>1. so \in Seq({NewField})
      BY <1>2
    <2> HIDE DEF so
    <2>2. IsRecord(C, was)
      BY <1>2, <2>1 DEF IsRecord
    <2>3. u[k] = NewField
      OBVIOUS
    <2>4. \A f \in Fields(C) : 120 \notin C.parse[f]
      BY DEF Sound
    <2>5. was.fields = o.fields /\ was.unknown = so
      OBVIOUS
    <2> HIDE DEF was
    <2>6. Step(C, was, u[k]) = With(Append(so, u[k]))
      BY <2>2, <2>3, <2>4, <2>5, StepUnknown
    <2>7. Append(so, u[k]) = old \o SubSeq(u, 1, k)
      BY <1>2, OneMore DEF so
    <2>8. g[k] = Step(C, g[k - 1], u[k]) /\ g[k - 1] = was
      BY <1>1, <1>4 DEF was, so
    <2>9. k \in 0 .. Len(u)
      BY <1>0
    <2> QED BY <2>6, <2>7, <2>8, <2>9
  <1>5. Len(u) \in Good
    <2> HIDE DEF Good
    <2>1. \A k \in 0 .. Len(u) : k \in Good
      BY <1>0, <1>3, <1>4, Induction
    <2> QED BY <1>0, <2>1
  <1>6. SubSeq(u, 1, Len(u)) = u
    OBVIOUS
  <1> QED BY <1>1, <1>5, <1>6 DEF old

(* MergeFrom merges every field and appends the unknown ones.               *)
LEMMA MergeIs ==
    ASSUME NEW C, Sound(C), NEW o, NEW p
    PROVE  MergeFrom(C, o, p) = [fields |-> Absorbed(C, o, p, Fields(C)).fields,
                                 unknown |-> o.unknown \o p.unknown]
  <1>1. C.merged = Fields(C)
    BY DEF Sound
  <1>2. MergeFrom(C, o, p) =
          [fields |-> [f \in Fields(C) |-> MergedField(C.accessors[f], o.fields[f], p.fields[f])],
           unknown |-> o.unknown \o p.unknown]
    BY <1>1, Zenon DEF MergeFrom, MergeBy, MergedField
  <1>3. Absorbed(C, o, p, Fields(C)).fields
          = [f \in Fields(C) |-> MergedField(C.accessors[f], o.fields[f], p.fields[f])]
    BY DEF Absorbed
  <1> QED BY <1>2, <1>3

(* The pieces of p, in the order _InternalSerialize has the fields in.      *)
OwnPieces(C, p, pieces) ==
    /\ IsSeq(pieces)
    /\ Len(pieces) = Len(C.serialize)
    /\ \A i \in 1 .. Len(C.serialize) :
          PieceReads(C, C.serialize[i][2], pieces[i], p.fields[C.serialize[i][2]])

(* Those pieces, in that order or the other way round, with the unknown     *)
(* fields after or before them, read as MergeFrom.                          *)
LEMMA EitherWayReads ==
    ASSUME NEW C, Sound(C), NEW p, Object(C, p), NEW pieces, OwnPieces(C, p, pieces),
           NEW o, Object(C, o)
    PROVE  /\ IsSeq(FlattenSeq(pieces) \o p.unknown)
           /\ IsSeq(p.unknown \o FlattenSeq(Reverse(pieces)))
           /\ Parse(C, o, FlattenSeq(pieces) \o p.unknown) = MergeFrom(C, o, p)
           /\ Parse(C, o, p.unknown \o FlattenSeq(Reverse(pieces))) = MergeFrom(C, o, p)
  <1> DEFINE n == Len(C.serialize)
             names == [i \in 1 .. n |-> C.serialize[i][2]]
             back == Reverse(pieces)
             namesBack == [i \in 1 .. n |-> C.serialize[n - i + 1][2]]
             u == p.unknown
             all == Fields(C)
  <1>0. /\ n \in Nat \ {0} /\ DOMAIN C.serialize = 1 .. n
        /\ \A i \in 1 .. n : C.serialize[i][2] \in Fields(C)
    <2> DEFINE E == (1 .. 14) \X Fields(C)
    <2>1. C.serialize \in Seq(E) /\ C.serialize # <<>>
      BY Zenon DEF Sound
    <2>2. \A e \in E : e[2] \in Fields(C)
      OBVIOUS
    <2> HIDE DEF E
    <2> QED BY <2>1, <2>2
  <1>1. /\ names \in [1 .. n -> Fields(C)]
        /\ \A i, j \in 1 .. n : names[i] = names[j] => i = j
        /\ \A f \in Fields(C) : \E i \in 1 .. n : names[i] = f
    <2>1. names \in [1 .. n -> Fields(C)]
      BY <1>0
    <2>2. /\ \A i, j \in 1 .. n : C.serialize[i][2] = C.serialize[j][2] => i = j
          /\ \A f \in Fields(C) : \E i \in 1 .. n : C.serialize[i][2] = f
      BY Zenon, <1>0 DEF Sound
    <2> HIDE DEF n
    <2>3. \A i \in 1 .. n : names[i] = C.serialize[i][2]
      OBVIOUS
    <2> HIDE DEF names
    <2>4. ASSUME NEW i \in 1 .. n, NEW j \in 1 .. n, names[i] = names[j] PROVE i = j
      BY <2>2, <2>3, <2>4
    <2>5. ASSUME NEW f \in Fields(C) PROVE \E i \in 1 .. n : names[i] = f
      <3>1. PICK i \in 1 .. n : C.serialize[i][2] = f
        BY Zenon, <2>2
      <3> QED BY <2>3, <3>1
    <2> QED BY <2>1, <2>4, <2>5
  <1>2. /\ namesBack \in [1 .. n -> Fields(C)]
        /\ \A i, j \in 1 .. n : namesBack[i] = namesBack[j] => i = j
        /\ \A f \in Fields(C) : \E i \in 1 .. n : namesBack[i] = f
    <2> HIDE DEF n
    <2>1. \A i \in 1 .. n : n - i + 1 \in 1 .. n /\ namesBack[i] = names[n - i + 1]
      BY <1>0
    <2>2. namesBack \in [1 .. n -> Fields(C)]
      BY <1>1, <2>1
    <2> HIDE DEF names, namesBack
    <2>3. ASSUME NEW i \in 1 .. n, NEW j \in 1 .. n, namesBack[i] = namesBack[j] PROVE i = j
      <3>1. n - i + 1 = n - j + 1
        BY <1>1, <2>1, <2>3
      <3> QED BY <1>0, <3>1
    <2>4. ASSUME NEW f \in Fields(C) PROVE \E i \in 1 .. n : namesBack[i] = f
      <3>1. PICK j \in 1 .. n : names[j] = f
        BY <1>1
      <3>2. n - j + 1 \in 1 .. n /\ n - (n - j + 1) + 1 = j
        BY <1>0
      <3> QED BY <2>1, <3>1, <3>2
    <2> QED BY <2>2, <2>3, <2>4
  <1>3. /\ DOMAIN pieces = 1 .. n /\ Len(pieces) = n /\ IsSeq(pieces)
        /\ \A i \in 1 .. n : PieceReads(C, names[i], pieces[i], p.fields[names[i]])
    BY <1>0 DEF OwnPieces, IsSeq
  <1>4. /\ DOMAIN back = 1 .. n /\ Len(back) = n /\ IsSeq(back)
        /\ \A i \in 1 .. n : PieceReads(C, namesBack[i], back[i], p.fields[namesBack[i]])
    <2> HIDE DEF n
    <2>1. back = [i \in 1 .. n |-> pieces[n - i + 1]]
      BY <1>3 DEF Reverse
    <2>2. PICK T : pieces \in Seq(T)
      BY <1>3 DEF IsSeq
    <2>3. \A i \in 1 .. n : n - i + 1 \in 1 .. n /\ pieces[n - i + 1] \in T
      BY <1>0, <1>3, <2>2
    <2>a. \A i \in 1 .. n : namesBack[i] = names[n - i + 1]
      BY <2>3
    <2> HIDE DEF back, names, namesBack
    <2>4. back \in Seq(T) /\ DOMAIN back = 1 .. n /\ Len(back) = n
      <3>1. n \in Nat
        BY <1>0
      <3>2. back \in [1 .. n -> T]
        BY <2>1, <2>3
      <3> QED BY <3>1, <3>2
    <2>5. \A i \in 1 .. n : back[i] = pieces[n - i + 1] /\ namesBack[i] = names[n - i + 1]
      BY <2>1, <2>a
    <2>6. IsSeq(back)
      BY <2>4 DEF IsSeq
    <2> QED BY <1>3, <2>3, <2>4, <2>5, <2>6
  <1> HIDE DEF n, names, namesBack, back
  <1>5. \A x : Object(C, x) => /\ IsSeq(FlattenSeq(pieces))
                               /\ Parse(C, x, FlattenSeq(pieces)) = Absorbed(C, x, p, all)
    <2>1. Say(C, p, n, names, pieces)
      BY <1>0, <1>1, <1>3 DEF Say
    <2> QED BY <2>1, PiecesRead
  <1>6. \A x : Object(C, x) => /\ IsSeq(FlattenSeq(back))
                               /\ Parse(C, x, FlattenSeq(back)) = Absorbed(C, x, p, all)
    <2>1. Say(C, p, n, namesBack, back)
      BY <1>0, <1>2, <1>4 DEF Say
    <2> QED BY <2>1, PiecesRead
  <1>7. u \in Seq({NewField}) /\ o.unknown \in Seq({NewField})
    BY DEF Object, IsRecord
  <1>8. /\ IsSeq(FlattenSeq(pieces) \o u)
        /\ Parse(C, o, FlattenSeq(pieces) \o u) = Parse(C, Parse(C, o, FlattenSeq(pieces)), u)
    <2>1. PICK S : FlattenSeq(pieces) \in Seq(S)
      BY <1>5 DEF IsSeq
    <2>2. FlattenSeq(pieces) \in Seq(S \cup {NewField}) /\ u \in Seq(S \cup {NewField})
      BY <1>7, <2>1
    <2>3. FlattenSeq(pieces) \o u \in Seq(S \cup {NewField})
      BY <2>2
    <2>4. Parse(C, o, FlattenSeq(pieces) \o u) = Parse(C, Parse(C, o, FlattenSeq(pieces)), u)
      BY <2>2, ParseConcat
    <2> QED BY <2>3, <2>4 DEF IsSeq
  <1>9. /\ IsSeq(u \o FlattenSeq(back))
        /\ Parse(C, o, u \o FlattenSeq(back)) = Parse(C, Parse(C, o, u), FlattenSeq(back))
    <2>1. PICK S : FlattenSeq(back) \in Seq(S)
      BY <1>6 DEF IsSeq
    <2>2. FlattenSeq(back) \in Seq(S \cup {NewField}) /\ u \in Seq(S \cup {NewField})
      BY <1>7, <2>1
    <2>3. u \o FlattenSeq(back) \in Seq(S \cup {NewField})
      BY <2>2
    <2>4. Parse(C, o, u \o FlattenSeq(back)) = Parse(C, Parse(C, o, u), FlattenSeq(back))
      BY <2>2, ParseConcat
    <2> QED BY <2>3, <2>4 DEF IsSeq
  <1>10. Parse(C, o, FlattenSeq(pieces) \o u) = MergeFrom(C, o, p)
    <2> DEFINE r == Absorbed(C, o, p, all)
    <2>1. Object(C, r) /\ r.unknown = o.unknown
      BY AbsorbedObject DEF Absorbed
    <2>2. Parse(C, o, FlattenSeq(pieces)) = r
      BY <1>5
    <2> HIDE DEF r
    <2>3. Parse(C, r, u) = [fields |-> r.fields, unknown |-> r.unknown \o u]
      BY <1>7, <2>1, UnknownRead
    <2> QED BY <1>8, <2>1, <2>2, <2>3, MergeIs DEF r
  <1>11. Parse(C, o, u \o FlattenSeq(back)) = MergeFrom(C, o, p)
    <2> DEFINE r == [fields |-> o.fields, unknown |-> o.unknown \o u]
    <2>1. Parse(C, o, u) = r
      BY <1>7, UnknownRead
    <2>2. Object(C, r)
      <3>1. o.unknown \o u \in Seq({NewField})
        BY <1>7
      <3>2. /\ o.fields = [f \in Fields(C) |-> o.fields[f]]
            /\ \A f \in Fields(C) : HasKind(C.accessors[f], o.fields[f])
        BY DEF Object, IsRecord
      <3>3. r.fields = o.fields /\ r.unknown \in Seq({NewField})
            /\ r = [fields |-> r.fields, unknown |-> r.unknown]
        BY <3>1
      <3> HIDE DEF r
      <3>4. IsRecord(C, r)
        BY <3>2, <3>3 DEF IsRecord
      <3> QED BY <3>2, <3>3, <3>4 DEF Object
    <2>3. Parse(C, r, FlattenSeq(back)) = Absorbed(C, r, p, all)
      BY <1>6, <2>2
    <2>4. Absorbed(C, r, p, all)
            = [fields |-> Absorbed(C, o, p, all).fields, unknown |-> o.unknown \o u]
      BY DEF Absorbed
    <2> HIDE DEF r
    <2> QED BY <1>9, <2>1, <2>3, <2>4, MergeIs
  <1> QED BY <1>8, <1>9, <1>10, <1>11 DEF back

(* The pieces _InternalSerialize writes.                                    *)
PlainPieces(C, p) == Pieces(WrittenField, C, p)
(* The pieces a peer may write instead.                                     *)
OddPieces(C, p) == Pieces(OddField, C, p)

(* The entries of the table of _InternalSerialize.                          *)
LEMMA Entries ==
    ASSUME NEW C, Sound(C)
    PROVE  LET n == Len(C.serialize)
           IN  /\ n \in Nat \ {0} /\ DOMAIN C.serialize = 1 .. n
               /\ \A i \in 1 .. n : /\ C.serialize[i][2] \in Fields(C)
                                    /\ C.serialize[i][1] \in Nat
                                    /\ EntryRead(C, C.serialize[i][1], C.serialize[i][2])
  <1> DEFINE n == Len(C.serialize)
  <1>1. C.serialize \in Seq((1 .. 14) \X Fields(C))
    BY DEF Sound
  <1>2. n \in Nat \ {0} /\ DOMAIN C.serialize = 1 .. n
    BY <1>1 DEF Sound
  <1>3. ASSUME NEW i \in 1 .. n
        PROVE  C.serialize[i][1] \in Nat /\ C.serialize[i][2] \in Fields(C)
    <2>1. C.serialize[i] \in (1 .. 14) \X Fields(C)
      BY <1>1, <1>2
    <2> QED BY <2>1
  <1>4. \A i \in 1 .. n : EntryRead(C, C.serialize[i][1], C.serialize[i][2])
    BY <1>2 DEF Sound
  <1> HIDE DEF n
  <1> QED BY <1>2, <1>3, <1>4

(* The pieces _InternalSerialize writes are pieces of p.                    *)
LEMMA PlainOwn ==
    ASSUME NEW C, Sound(C), NEW p, Object(C, p), Flat(C) \/ SubmessagesRead
    PROVE  OwnPieces(C, p, PlainPieces(C, p))
  <1> DEFINE n == Len(C.serialize)
             f(i) == C.serialize[i][2]
             piece(i) == WrittenField(C.accessors[f(i)], C.serialize[i][1], p.fields[f(i)])
             T == {piece(i) : i \in 1 .. n}
  <1>1. /\ n \in Nat /\ DOMAIN C.serialize = 1 .. n
        /\ \A i \in 1 .. n : /\ f(i) \in Fields(C) /\ C.serialize[i][1] \in Nat
                             /\ EntryRead(C, C.serialize[i][1], f(i))
    BY Entries
  <1>2. PlainPieces(C, p) = [i \in 1 .. n |-> piece(i)]
    BY <1>1 DEF PlainPieces, Pieces
  <1> HIDE DEF n
  <1>3. ASSUME NEW i \in 1 .. n PROVE PieceReads(C, f(i), piece(i), p.fields[f(i)])
    <2> DEFINE g == f(i)
               number == C.serialize[i][1]
    <2>1. g \in Fields(C) /\ number \in Nat /\ EntryRead(C, number, g)
      BY <1>1
    <2>2. HasKind(C.accessors[g], p.fields[g])
      BY <2>1 DEF Object
    <2> HIDE DEF g, number
    <2>3. PieceReads(C, g, WrittenField(C.accessors[g], number, p.fields[g]), p.fields[g])
      BY <2>1, <2>2, WrittenReads
    <2> QED BY <2>3 DEF g, number
  <1> HIDE DEF piece
  <1>4. PlainPieces(C, p) \in [1 .. n -> T]
    BY <1>2
  <1> HIDE DEF T
  <1>5. PlainPieces(C, p) \in Seq(T) /\ Len(PlainPieces(C, p)) = n
    BY <1>1, <1>4
  <1>6. \A i \in 1 .. n : PlainPieces(C, p)[i] = piece(i)
    BY <1>2
  <1> QED BY <1>3, <1>5, <1>6 DEF OwnPieces, IsSeq, n

(* The pieces a peer may write instead are pieces of p.                     *)
LEMMA OddOwn ==
    ASSUME NEW C, Sound(C), NEW p, Object(C, p), Flat(C) \/ SubmessagesRead
    PROVE  OwnPieces(C, p, OddPieces(C, p))
  <1> DEFINE n == Len(C.serialize)
             f(i) == C.serialize[i][2]
             piece(i) == OddField(C.accessors[f(i)], C.serialize[i][1], p.fields[f(i)])
             T == {piece(i) : i \in 1 .. n}
  <1>1. /\ n \in Nat /\ DOMAIN C.serialize = 1 .. n
        /\ \A i \in 1 .. n : /\ f(i) \in Fields(C) /\ C.serialize[i][1] \in Nat
                             /\ EntryRead(C, C.serialize[i][1], f(i))
    BY Entries
  <1>2. OddPieces(C, p) = [i \in 1 .. n |-> piece(i)]
    BY <1>1 DEF OddPieces, Pieces
  <1> HIDE DEF n
  <1>3. ASSUME NEW i \in 1 .. n PROVE PieceReads(C, f(i), piece(i), p.fields[f(i)])
    <2> DEFINE g == f(i)
               number == C.serialize[i][1]
    <2>1. g \in Fields(C) /\ number \in Nat /\ EntryRead(C, number, g)
      BY <1>1
    <2>2. HasKind(C.accessors[g], p.fields[g])
      BY <2>1 DEF Object
    <2> HIDE DEF g, number
    <2>3. PieceReads(C, g, OddField(C.accessors[g], number, p.fields[g]), p.fields[g])
      BY <2>1, <2>2, OddlyWrittenReads
    <2> QED BY <2>3 DEF g, number
  <1> HIDE DEF piece
  <1>4. OddPieces(C, p) \in [1 .. n -> T]
    BY <1>2
  <1> HIDE DEF T
  <1>5. OddPieces(C, p) \in Seq(T) /\ Len(OddPieces(C, p)) = n
    BY <1>1, <1>4
  <1>6. \A i \in 1 .. n : OddPieces(C, p)[i] = piece(i)
    BY <1>2
  <1> QED BY <1>3, <1>5, <1>6 DEF OwnPieces, IsSeq, n

(* Whatever object reads the wire merges p into itself.                     *)
Reads(C, wire, p) ==
    /\ IsSeq(wire)
    /\ \A o : Object(C, o) => Parse(C, o, wire) = MergeFrom(C, o, p)

(* Every way p may be written reads as a merge of p, if submessages do.     *)
LEMMA SpellingsRead ==
    ASSUME NEW C, Sound(C), NEW p, Object(C, p), Flat(C) \/ SubmessagesRead
    PROVE  /\ \A k \in DOMAIN Spellings(C, p) : Reads(C, Spellings(C, p)[k], p)
           /\ Reads(C, Serialize(C, p), p)
           /\ Reads(C, FlattenSeq(OddPieces(C, p)) \o p.unknown, p)
  <1> DEFINE plain == PlainPieces(C, p)
             odd == OddPieces(C, p)
             u == p.unknown
             a == FlattenSeq(plain) \o u
             b == u \o FlattenSeq(Reverse(plain))
             c == FlattenSeq(odd) \o u
             d == u \o FlattenSeq(Reverse(odd))
  <1>1. Spellings(C, p) = <<a, b, c, d>> /\ Serialize(C, p) = a
    BY DEF Spellings, Serialize, PlainPieces, OddPieces
  <1>2. OwnPieces(C, p, plain) /\ OwnPieces(C, p, odd)
    BY PlainOwn, OddOwn
  <1> HIDE DEF plain, odd, u
  <1>0. Object(C, New(C))
    BY NewTyped
  <1>3. Reads(C, a, p) /\ Reads(C, b, p)
    BY <1>0, <1>2, EitherWayReads DEF Reads, u
  <1>4. Reads(C, c, p) /\ Reads(C, d, p)
    BY <1>0, <1>2, EitherWayReads DEF Reads, u
  <1> HIDE DEF a, b, c, d
  <1>5. ASSUME NEW k \in DOMAIN Spellings(C, p) PROVE Reads(C, Spellings(C, p)[k], p)
    BY <1>1, <1>3, <1>4
  <1> QED BY <1>1, <1>3, <1>4, <1>5 DEF c, odd, u

(* Of a class without submessages, ParseFlat is Parse,                      *)
LEMMA FlatParse ==
    ASSUME NEW C, Flat(C), NEW o, NEW w, IsSeq(w)
    PROVE  ParseFlat(C, o, w) = Parse(C, o, w)
  <1>1. \A x, t : StepFlat(C, x, t) = Step(C, x, t)
    <2> TAKE x, t
    <2>1. CASE Knows(C, t.tag)
      <3>1. FieldOf(C, t.tag) \in Fields(C)
        BY <2>1 DEF Knows, FieldOf
      <3>2. C.accessors[FieldOf(C, t.tag)] \notin Submessages
        BY <3>1 DEF Flat
      <3> QED BY <3>2, Zenon DEF StepFlat, Step, StepBy, Read
    <2>2. CASE ~ Knows(C, t.tag)
      BY <2>2 DEF StepFlat, Step, StepBy
    <2> QED BY <2>1, <2>2
  <1>2. PICK S : w \in Seq(S)
    BY DEF IsSeq
  <1>3. PICK g : /\ g[0] = o
                 /\ \A k \in 1 .. Len(w) : g[k] = StepFlat(C, g[k - 1], w[k])
                 /\ ParseFlat(C, o, w) = g[Len(w)]
    BY <1>2, ParseFlatSteps
  <1>4. PICK h : /\ h[0] = o
                 /\ \A k \in 1 .. Len(w) : h[k] = Step(C, h[k - 1], w[k])
                 /\ Parse(C, o, w) = h[Len(w)]
    BY <1>2, ParseSteps
  <1> DEFINE Good == {k \in 0 .. Len(w) : g[k] = h[k]}
  <1>5. Len(w) \in Nat
    BY <1>2
  <1>6. 0 \in Good
    BY <1>3, <1>4, <1>5
  <1>7. ASSUME NEW k \in 1 .. Len(w), k - 1 \in Good PROVE k \in Good
    <2>1. g[k] = Step(C, g[k - 1], w[k])
      BY <1>1, <1>3
    <2>2. h[k] = Step(C, h[k - 1], w[k])
      BY <1>4
    <2>3. k \in 0 .. Len(w)
      BY <1>5
    <2> QED BY <1>7, <2>1, <2>2, <2>3
  <1> HIDE DEF Good
  <1>8. \A k \in 0 .. Len(w) : k \in Good
    BY <1>5, <1>6, <1>7, Induction
  <1> QED BY <1>3, <1>4, <1>5, <1>8 DEF Good

(* SerializeFlat is Serialize, and OddMessage one of the spellings,         *)
LEMMA FlatSerialize ==
    ASSUME NEW C, Sound(C), Flat(C), NEW o
    PROVE  /\ SerializeFlat(C, o) = Serialize(C, o)
           /\ OddMessage(C, o) = FlattenSeq(OddPieces(C, o)) \o o.unknown
  <1> DEFINE n == Len(C.serialize)
             f(i) == C.serialize[i][2]
  <1>1. /\ DOMAIN C.serialize = 1 .. n
        /\ \A i \in 1 .. n : C.accessors[f(i)] \notin Submessages
    <2>1. DOMAIN C.serialize = 1 .. n /\ \A i \in 1 .. n : f(i) \in Fields(C)
      BY Entries
    <2> QED BY <2>1 DEF Flat
  <1> HIDE DEF n
  <1>2. Pieces(WrittenFlat, C, o) = Pieces(WrittenField, C, o)
    <2>1. \A i \in 1 .. n :
              WrittenFlat(C.accessors[f(i)], C.serialize[i][1], o.fields[f(i)])
                = WrittenField(C.accessors[f(i)], C.serialize[i][1], o.fields[f(i)])
      BY <1>1, Zenon DEF WrittenFlat, WrittenField, Written
    <2> QED BY <1>1, <2>1, Zenon DEF Pieces
  <1>3. Pieces(OddFlat, C, o) = OddPieces(C, o)
    <2>1. \A i \in 1 .. n :
              OddFlat(C.accessors[f(i)], C.serialize[i][1], o.fields[f(i)])
                = OddField(C.accessors[f(i)], C.serialize[i][1], o.fields[f(i)])
      BY <1>1, Zenon DEF OddFlat, OddField, OddlyWritten
    <2> QED BY <1>1, <2>1, Zenon DEF Pieces, OddPieces
  <1> QED BY <1>2, <1>3, Zenon DEF SerializeFlat, Serialize, OddMessage

(* and MergeFlat is MergeFrom:                                              *)
LEMMA FlatMerge ==
    ASSUME NEW C, Sound(C), Flat(C), NEW o, NEW p
    PROVE  MergeFlat(C, o, p) = MergeFrom(C, o, p)
  <1>1. \A f \in Fields(C) : MergedFlat(C.accessors[f], o.fields[f], p.fields[f])
                               = MergedField(C.accessors[f], o.fields[f], p.fields[f])
    BY DEF Flat, MergedFlat, MergedField, Merged
  <1>2. C.merged = Fields(C)
    BY DEF Sound
  <1>3. MergeFlat(C, o, p) =
          [fields |-> [f \in Fields(C) |-> MergedFlat(C.accessors[f], o.fields[f], p.fields[f])],
           unknown |-> o.unknown \o p.unknown]
    BY <1>2, Zenon DEF MergeFlat, MergeBy, MergedFlat
  <1>4. MergeFrom(C, o, p) =
          [fields |-> [f \in Fields(C) |-> MergedField(C.accessors[f], o.fields[f], p.fields[f])],
           unknown |-> o.unknown \o p.unknown]
    BY <1>2, Zenon DEF MergeFrom, MergeBy, MergedField
  <1> QED BY <1>1, <1>3, <1>4

(* submessages are read as every object of their class is.                  *)
LEMMA EverySubmessageReads == SubmessagesRead
  <1> SUFFICES ASSUME NEW kind \in Submessages, NEW m, FlatObject(Classes[kind], m)
               PROVE  SubmessageReads(Classes[kind], m)
    BY DEF SubmessagesRead
  <1> DEFINE C == Classes[kind]
  <1>1. Sound(C) /\ Flat(C)
    BY SubmessagesFlat
  <1> HIDE DEF C
  <1>2. Object(C, m)
    BY <1>1, FlatIsObject DEF C
  <1>3. Reads(C, SerializeFlat(C, m), m) /\ Reads(C, OddMessage(C, m), m)
    BY <1>1, <1>2, SpellingsRead, FlatSerialize
  <1>4. ASSUME NEW w, Reads(C, w, m) PROVE WireReads(C, w, m)
    <2>1. IsSeq(w)
      BY <1>4 DEF Reads
    <2>2. ASSUME NEW o, FlatObject(C, o) PROVE ParseFlat(C, o, w) = MergeFlat(C, o, m)
      <3>1. Object(C, o)
        BY <1>1, <2>2, FlatIsObject
      <3>2. Parse(C, o, w) = MergeFrom(C, o, m)
        BY <1>4, <3>1 DEF Reads
      <3> QED BY <1>1, <2>1, <3>2, FlatParse, FlatMerge
    <2> QED BY <2>1, <2>2 DEF WireReads
  <1> QED BY <1>3, <1>4 DEF SubmessageReads, C

(* So every way an object of any class may be written reads as a merge of   *)
(* it.                                                                      *)
LEMMA AllSpellingsRead ==
    ASSUME NEW C, Sound(C), NEW p, Object(C, p)
    PROVE  /\ \A k \in DOMAIN Spellings(C, p) : Reads(C, Spellings(C, p)[k], p)
           /\ Reads(C, Serialize(C, p), p)
  BY EverySubmessageReads, SpellingsRead

(* Merging into a new object gives the object merged, and Clear, CopyFrom,  *)
(* the copy constructor and InternalSwap leave nothing of what was there.   *)
LEMMA MergeIntoNew ==
    ASSUME NEW C, Sound(C), NEW p, Object(C, p)
    PROVE  /\ MergeFrom(C, New(C), p) = p
           /\ \A o : Clear(C, o) = New(C)
           /\ \A o : CopyFrom(C, o, p) = p
           /\ CopyConstructed(C, p) = p
           /\ \A o : Swapped(C, o, p) = p
  <1>0. /\ C.clear = Fields(C) /\ C.copied = Fields(C) /\ C.swapped = Fields(C)
        /\ p = [fields |-> [f \in Fields(C) |-> p.fields[f]], unknown |-> p.unknown]
        /\ p.unknown \in Seq({NewField})
    BY DEF Sound, Object, IsRecord
  <1>1. \A K, x : /\ Sound(K) /\ Flat(K) /\ FlatObject(K, x)
                  => MergeFlat(K, New(K), x) = x
    <2> SUFFICES ASSUME NEW K, NEW x, Sound(K), Flat(K), FlatObject(K, x)
                 PROVE  MergeFlat(K, New(K), x) = x
      OBVIOUS
    <2>1. ASSUME NEW f \in Fields(K)
          PROVE  MergedFlat(K.accessors[f], DefaultOf(K.accessors[f]), x.fields[f]) = x.fields[f]
      <3> DEFINE kind == K.accessors[f]
      <3>1. x.fields[f] \in FlatValues(kind) /\ kind \notin Submessages
        BY DEF FlatObject, Flat
      <3>2. CASE kind \in Repeated
        <4>1. DefaultOf(kind) = <<>> /\ kind \notin Varints
          BY <3>2 DEF DefaultOf, Repeated, Varints
        <4>2. x.fields[f] \in Seq(Seq(Nat)) \/ x.fields[f] \in Seq(Nat)
          BY <3>1, <4>1 DEF FlatValues
        <4>3. MergedFlat(kind, DefaultOf(kind), x.fields[f]) = <<>> \o x.fields[f]
          BY <3>2, <4>1 DEF MergedFlat, Merged
        <4>4. <<>> \o x.fields[f] = x.fields[f]
          BY <4>2
        <4> QED BY <4>3, <4>4
      <3>3. CASE kind \notin Repeated
        BY <3>1, <3>3 DEF MergedFlat, Merged
      <3> QED BY <3>2, <3>3
    <2>2. MergeFlat(K, New(K), x) =
            [fields |-> [f \in Fields(K) |-> MergedFlat(K.accessors[f], New(K).fields[f], x.fields[f])],
             unknown |-> New(K).unknown \o x.unknown]
      <3>1. K.merged = Fields(K)
        BY DEF Sound
      <3> QED BY <3>1, Zenon DEF MergeFlat, MergeBy, MergedFlat
    <2>3. \A f \in Fields(K) : New(K).fields[f] = DefaultOf(K.accessors[f])
      BY DEF New
    <2>4. New(K).unknown \o x.unknown = x.unknown
      <3>1. New(K).unknown = <<>> /\ x.unknown \in Seq({NewField})
        BY DEF New, FlatObject, IsRecord
      <3> QED BY <3>1
    <2>5. x = [fields |-> [f \in Fields(K) |-> x.fields[f]], unknown |-> x.unknown]
      BY DEF FlatObject, IsRecord
    <2> QED BY <2>1, <2>2, <2>3, <2>4, <2>5
  <1>2. ASSUME NEW f \in Fields(C)
        PROVE  MergedField(C.accessors[f], DefaultOf(C.accessors[f]), p.fields[f]) = p.fields[f]
    <2> DEFINE kind == C.accessors[f]
    <2>1. HasKind(kind, p.fields[f])
      BY DEF Object
    <2>2. CASE kind \in Submessages
      <3>1. kind \notin Repeated /\ DefaultOf(kind) = <<>>
        BY <2>2 DEF Submessages, Repeated, DefaultOf, Varints
      <3>2. CASE p.fields[f] = <<>>
        BY <3>1, <3>2 DEF MergedField, Merged
      <3>3. CASE p.fields[f] # <<>>
        <4>1. PICK m : FlatObject(Classes[kind], m) /\ p.fields[f] = <<m>>
          BY <2>1, <2>2, <3>3 DEF HasKind
        <4>2. p.fields[f][1] = m
          BY <4>1
        <4>3. MergedField(kind, DefaultOf(kind), p.fields[f])
                = <<MergeFlat(Classes[kind], New(Classes[kind]), m)>>
          BY <2>2, <3>1, <3>3, <4>2 DEF MergedField, Merged, Mutable
        <4>4. MergeFlat(Classes[kind], New(Classes[kind]), m) = m
          BY <1>1, <2>2, <4>1, SubmessagesFlat
        <4> QED BY <4>1, <4>3, <4>4
      <3> QED BY <3>2, <3>3
    <2>3. CASE kind \notin Submessages
      <3>1. CASE kind \in Repeated
        <4>1. DefaultOf(kind) = <<>> /\ kind \notin Varints
          BY <3>1 DEF DefaultOf, Repeated, Varints
        <4>2. p.fields[f] \in Seq(Seq(Nat)) \/ p.fields[f] \in Seq(Nat)
          BY <2>1, <2>3, <4>1 DEF HasKind, FlatValues
        <4>3. MergedField(kind, DefaultOf(kind), p.fields[f]) = <<>> \o p.fields[f]
          BY <3>1, <4>1 DEF MergedField, Merged
        <4>4. <<>> \o p.fields[f] = p.fields[f]
          BY <4>2
        <4> QED BY <4>3, <4>4
      <3>2. CASE kind \notin Repeated
        BY <2>3, <3>2 DEF MergedField, Merged
      <3> QED BY <3>1, <3>2
    <2> QED BY <2>2, <2>3
  <1>3. MergeFrom(C, New(C), p) = p
    <2>1. MergeFrom(C, New(C), p) =
            [fields |-> [f \in Fields(C) |-> MergedField(C.accessors[f], New(C).fields[f], p.fields[f])],
             unknown |-> New(C).unknown \o p.unknown]
      <3>1. C.merged = Fields(C)
        BY DEF Sound
      <3> QED BY <3>1, Zenon DEF MergeFrom, MergeBy, MergedField
    <2>2. \A f \in Fields(C) : New(C).fields[f] = DefaultOf(C.accessors[f])
      BY DEF New
    <2>3. New(C).unknown \o p.unknown = p.unknown
      <3>1. New(C).unknown = <<>>
        BY DEF New
      <3> QED BY <1>0, <3>1
    <2> QED BY <1>0, <1>2, <2>1, <2>2, <2>3
  <1>4. \A o : Clear(C, o) = New(C)
    BY <1>0 DEF Clear, New
  <1>5. \A o : CopyFrom(C, o, p) = p
    BY <1>3, <1>4 DEF CopyFrom
  <1>6. CopyConstructed(C, p) = p
    <2>1. CopyConstructed(C, p) = [p EXCEPT !.fields = [f \in Fields(C) |-> p.fields[f]]]
      BY <1>0 DEF CopyConstructed
    <2> QED BY <1>0, <2>1
  <1>7. \A o : Swapped(C, o, p) = p
    BY <1>0 DEF Swapped
  <1> QED BY <1>3, <1>4, <1>5, <1>6, <1>7

-----------------------------------------------------------------------------
(* Every call leaves objects whose fields have values of their kinds.       *)


(* The values one call away, of a field of a submessage.                    *)
EditsFlat(kind, value) == Edits(NoObject, kind, value)
(* The values one call away, of a field of any class.                       *)
EditsOf(kind, value) == Edits(AccessedFlat, kind, value)

(* The values one call away from one of a kind are of the kind.             *)
LEMMA EditTyped ==
    ASSUME NEW kind \in Kinds, kind \notin Submessages,
           NEW value \in FlatValues(kind), NEW v \in EditsFlat(kind, value) \cup EditsOf(kind, value)
    PROVE  v \in FlatValues(kind)
  <1>1. \/ v = DefaultOf(kind)
        \/ kind \in Varints /\ v \in Numbers
        \/ kind \in Strings /\ v \in Texts
        \/ kind = "repeated_bytes" /\ \E t \in Texts : v = Append(value, t)
        \/ kind = "repeated_uint64" /\ \E n \in Numbers : v = Append(value, n)
    <2>1. CASE v \in EditsFlat(kind, value)
      BY <2>1, Zenon DEF EditsFlat, Edits
    <2>2. CASE v \in EditsOf(kind, value)
      BY <2>2, Zenon DEF EditsOf, Edits
    <2> QED BY <2>1, <2>2
  <1>2. CASE v = DefaultOf(kind)
    BY <1>2, DefaultTyped
  <1>3. CASE kind \in Varints /\ v \in Numbers
    BY <1>3, NumbersAreNatural DEF FlatValues
  <1>4. CASE kind \in Strings /\ v \in Texts
    BY <1>4, TextsAreBytes DEF FlatValues, Strings, Varints
  <1>5. CASE kind = "repeated_bytes" /\ \E t \in Texts : v = Append(value, t)
    BY <1>5, TextsAreBytes DEF FlatValues, Varints
  <1>6. CASE kind = "repeated_uint64" /\ \E n \in Numbers : v = Append(value, n)
    BY <1>6, NumbersAreNatural DEF FlatValues, Varints
  <1> QED BY <1>1, <1>2, <1>3, <1>4, <1>5, <1>6

(* An object in which a value of its kind is put into a field is an object. *)
LEMMA PutTyped ==
    ASSUME NEW C, NEW o, Object(C, o), NEW f \in Fields(C), NEW v, HasKind(C.accessors[f], v)
    PROVE  Object(C, [o EXCEPT !.fields[f] = v])
  <1>1. [o EXCEPT !.fields[f] = v] = Put(C, o, f, v) /\ IsRecord(C, Put(C, o, f, v))
    BY PutRecord DEF Object
  <1>2. \A g \in Fields(C) : HasKind(C.accessors[g], Put(C, o, f, v).fields[g])
    BY DEF Object, Put
  <1> QED BY <1>1, <1>2 DEF Object

(* The accessors of a submessage keep the kinds.                            *)
LEMMA AccessedFlatTyped ==
    ASSUME NEW C, Sound(C), Flat(C), NEW o, FlatObject(C, o), NEW q \in AccessedFlat(C, o)
    PROVE  FlatObject(C, q)
  <1>a. PICK f \in Fields(C) : \E v \in EditsFlat(C.accessors[f], o.fields[f]) :
            q = [o EXCEPT !.fields[f] = v]
    <2>1. q \in UNION {{[o EXCEPT !.fields[f] = v] : v \in EditsFlat(C.accessors[f], o.fields[f])} :
                       f \in Fields(C)}
      BY Zenon DEF AccessedFlat, AccessedBy, EditsFlat
    <2> QED BY <2>1
  <1>1. PICK v \in EditsFlat(C.accessors[f], o.fields[f]) : q = [o EXCEPT !.fields[f] = v]
    BY <1>a
  <1>2. /\ C.accessors[f] \in Kinds /\ C.accessors[f] \notin Submessages
        /\ o.fields[f] \in FlatValues(C.accessors[f])
    BY DEF Sound, Flat, FlatObject
  <1>3. v \in FlatValues(C.accessors[f])
    BY <1>2, EditTyped
  <1>4. Object(C, o) /\ HasKind(C.accessors[f], v)
    BY <1>2, <1>3, FlatIsObject DEF HasKind
  <1>5. Object(C, q)
    BY <1>1, <1>4, PutTyped
  <1> QED BY <1>5, FlatIsObject

(* The accessors of every class do.                                         *)
LEMMA AccessedTyped ==
    ASSUME NEW C, Sound(C), NEW o, Object(C, o), NEW q \in Accessed(C, o)
    PROVE  Object(C, q)
  <1>a. PICK f \in Fields(C) : \E v \in EditsOf(C.accessors[f], o.fields[f]) :
            q = [o EXCEPT !.fields[f] = v]
    <2>1. q \in UNION {{[o EXCEPT !.fields[f] = v] : v \in EditsOf(C.accessors[f], o.fields[f])} :
                       f \in Fields(C)}
      BY Zenon DEF Accessed, AccessedBy, EditsOf
    <2> QED BY <2>1
  <1>1. PICK v \in EditsOf(C.accessors[f], o.fields[f]) : q = [o EXCEPT !.fields[f] = v]
    BY <1>a
  <1> DEFINE kind == C.accessors[f]
             value == o.fields[f]
  <1>2. kind \in Kinds /\ HasKind(kind, value)
    BY DEF Sound, Object
  <1>3. HasKind(kind, v)
    <2>1. CASE kind \notin Submessages
      <3>1. value \in FlatValues(kind)
        BY <1>2, <2>1 DEF HasKind
      <3>2. v \in FlatValues(kind)
        BY <1>2, <2>1, <3>1, EditTyped
      <3> QED BY <2>1, <3>2 DEF HasKind
    <2>2. CASE kind \in Submessages
      <3> DEFINE start == Mutable(kind, value)
      <3>1. /\ kind \notin Varints /\ kind \notin Strings
            /\ kind # "repeated_bytes" /\ kind # "repeated_uint64"
        BY <2>2 DEF Submessages, Varints, Strings
      <3>2. v = DefaultOf(kind)
            \/ \E m \in {start} \cup AccessedFlat(Classes[kind], start) : v = <<m>>
        <4>1. v \in EditsOf(kind, value)
          OBVIOUS
        <4> HIDE DEF kind, value
        <4> QED BY <3>1, <4>1, Zenon DEF EditsOf, Edits
      <3>3. FlatObject(Classes[kind], start)
        BY <1>2, <2>2, MutableTyped
      <3>4. \A m \in AccessedFlat(Classes[kind], start) : FlatObject(Classes[kind], m)
        BY <2>2, <3>3, AccessedFlatTyped, SubmessagesFlat
      <3>5. CASE v = DefaultOf(kind)
        BY <1>2, <3>5, DefaultTyped
      <3>6. CASE \E m \in {start} \cup AccessedFlat(Classes[kind], start) : v = <<m>>
        BY <2>2, <3>3, <3>4, <3>6 DEF HasKind
      <3> QED BY <3>2, <3>5, <3>6
    <2> QED BY <2>1, <2>2
  <1> QED BY <1>1, <1>3, PutTyped

(* So does MergeFrom,                                                       *)
LEMMA MergeFromTyped ==
    ASSUME NEW C, Sound(C), NEW o, Object(C, o), NEW p, Object(C, p)
    PROVE  Object(C, MergeFrom(C, o, p))
  <1> DEFINE a == Absorbed(C, o, p, Fields(C))
             u == o.unknown \o p.unknown
             r == [fields |-> a.fields, unknown |-> u]
  <1>1. Object(C, a)
    BY AbsorbedObject
  <1>2. u \in Seq({NewField})
    BY DEF Object, IsRecord
  <1>3. MergeFrom(C, o, p) = r
    BY MergeIs
  <1> HIDE DEF a, u
  <1>4. r.fields = a.fields /\ r.unknown = u /\ r = [fields |-> r.fields, unknown |-> r.unknown]
        /\ a.fields = [f \in Fields(C) |-> a.fields[f]]
    BY <1>1 DEF Object, IsRecord
  <1> HIDE DEF r
  <1>5. IsRecord(C, r)
    BY <1>2, <1>4 DEF IsRecord
  <1>6. \A f \in Fields(C) : HasKind(C.accessors[f], r.fields[f])
    BY <1>1, <1>4 DEF Object
  <1> QED BY <1>3, <1>5, <1>6 DEF Object

(* and so does receiving, from a peer that knows more fields too.           *)
LEMMA ReceivedTyped ==
    ASSUME NEW C, Sound(C), NEW o, NEW p, Object(C, p), NEW tail \in {<<>>, <<NewField>>}
    PROVE  Object(C, Parse(C, Clear(C, o), Serialize(C, p) \o tail))
  <1>1. Clear(C, o) = New(C) /\ Object(C, New(C)) /\ MergeFrom(C, New(C), p) = p
    BY MergeIntoNew, NewTyped
  <1>2. IsSeq(Serialize(C, p)) /\ Parse(C, New(C), Serialize(C, p)) = p
    BY <1>1, AllSpellingsRead DEF Reads
  <1>3. tail \in Seq({NewField})
    <2>1. \A x : <<>> \in Seq({x}) /\ <<x>> \in Seq({x})
      OBVIOUS
    <2> QED BY <2>1
  <1>4. Parse(C, New(C), Serialize(C, p) \o tail) = Parse(C, p, tail)
    <2>1. PICK S : Serialize(C, p) \in Seq(S)
      BY <1>2 DEF IsSeq
    <2>2. Serialize(C, p) \in Seq(S \cup {NewField}) /\ tail \in Seq(S \cup {NewField})
      BY <1>3, <2>1
    <2> QED BY <1>2, <2>2, ParseConcat
  <1> DEFINE r == [fields |-> p.fields, unknown |-> p.unknown \o tail]
  <1>5. Parse(C, p, tail) = r
    BY <1>3, UnknownRead
  <1>6. Object(C, r)
    <2>1. p.unknown \o tail \in Seq({NewField})
      BY <1>3 DEF Object, IsRecord
    <2>2. /\ p.fields = [f \in Fields(C) |-> p.fields[f]]
          /\ \A f \in Fields(C) : HasKind(C.accessors[f], p.fields[f])
      BY DEF Object, IsRecord
    <2>3. r.fields = p.fields /\ r.unknown \in Seq({NewField})
          /\ r = [fields |-> r.fields, unknown |-> r.unknown]
      BY <2>1
    <2> HIDE DEF r
    <2>4. IsRecord(C, r)
      BY <2>2, <2>3 DEF IsRecord
    <2> QED BY <2>2, <2>3, <2>4 DEF Object
  <1> QED BY <1>1, <1>4, <1>5, <1>6

(* The inductive invariant: both objects have the fields of their class, of *)
(* the kinds the accessors give them, and keep no unknown field but         *)
(* NewField.                                                                *)
IInv ==
    /\ class \in DOMAIN Classes
    /\ msg = [i \in Objects |-> msg[i]]
    /\ \A i \in Objects : Object(TheClass, msg[i])

(* A call that leaves an object keeps the invariant.                        *)
LEMMA BecomeKeeps ==
    ASSUME IInv, NEW i \in Objects, NEW o, Object(TheClass, o), Become(i, o)
    PROVE  IInv'
  <1>1. class' = class /\ TheClass' = TheClass
    BY DEF Become, TheClass
  <1>2. msg' = [msg EXCEPT ![i] = o]
    BY DEF Become
  <1>3. msg' = [j \in Objects |-> msg'[j]]
    BY <1>2 DEF IInv
  <1>4. \A j \in Objects : Object(TheClass, msg'[j])
    BY <1>2 DEF IInv
  <1> QED BY <1>1, <1>3, <1>4 DEF IInv

(* No call, from either side of the wire, leaves an object that is none of  *)
(* its class: the invariant holds in every state.                           *)
THEOREM ProtoTypeOK == Spec => []IInv
  <1>1. Init => IInv
    <2> SUFFICES ASSUME Init PROVE IInv
      OBVIOUS
    <2>1. class \in DOMAIN Classes /\ msg = [i \in Objects |-> New(TheClass)]
      BY DEF Init
    <2>2. Object(TheClass, New(TheClass))
      BY <2>1, AllSound, NewTyped DEF TheClass
    <2>3. \A i \in Objects : msg[i] = New(TheClass)
      BY <2>1
    <2>4. msg = [i \in Objects |-> msg[i]]
      BY <2>1
    <2> QED BY <2>1, <2>2, <2>3, <2>4 DEF IInv
  <1>2. IInv /\ [Next]_vars => IInv'
    <2> SUFFICES ASSUME IInv, [Next]_vars PROVE IInv'
      OBVIOUS
    <2> DEFINE C == TheClass
    <2>0. Sound(C) /\ \A i \in Objects : Object(C, msg[i])
      BY AllSound DEF IInv, TheClass
    <2> HIDE DEF C
    <2>1. ASSUME NEW i \in Objects, CallAccessor(i) PROVE IInv'
      <3>1. PICK o \in Accessed(C, msg[i]) : Become(i, o)
        BY <2>1 DEF CallAccessor, C
      <3>2. Object(C, o)
        BY <2>0, AccessedTyped
      <3> QED BY <3>1, <3>2, BecomeKeeps DEF C
    <2>2. ASSUME NEW i \in Objects, CallClear(i) PROVE IInv'
      <3>1. Become(i, Clear(C, msg[i]))
        BY <2>2 DEF CallClear, C
      <3>2. Object(C, Clear(C, msg[i]))
        BY <2>0, MergeIntoNew, NewTyped
      <3> QED BY <3>1, <3>2, BecomeKeeps DEF C
    <2>3. ASSUME NEW i \in Objects, NEW j \in Objects, CallCopyFrom(i, j) PROVE IInv'
      <3> DEFINE o == IF i = j THEN msg[i] ELSE CopyFrom(C, msg[i], msg[j])
      <3>1. Become(i, o)
        BY <2>3 DEF CallCopyFrom, C
      <3>2. Object(C, o)
        BY <2>0, MergeIntoNew
      <3> HIDE DEF o
      <3> QED BY <3>1, <3>2, BecomeKeeps DEF C
    <2>4. ASSUME NEW i \in Objects, NEW j \in Objects, CallMergeFrom(i, j) PROVE IInv'
      <3>1. Become(i, MergeFrom(C, msg[i], msg[j]))
        BY <2>4 DEF CallMergeFrom, C
      <3>2. Object(C, MergeFrom(C, msg[i], msg[j]))
        BY <2>0, MergeFromTyped
      <3> QED BY <3>1, <3>2, BecomeKeeps DEF C
    <2>5. ASSUME NEW i \in Objects, NEW j \in Objects, CallSwap(i, j) PROVE IInv'
      <3>1. class' = class /\ TheClass' = TheClass
        BY <2>5 DEF CallSwap, TheClass
      <3>2. msg' = [msg EXCEPT ![i] = msg[j], ![j] = msg[i]]
        <4>1. Swapped(C, msg[i], msg[j]) = msg[j] /\ Swapped(C, msg[j], msg[i]) = msg[i]
          BY <2>0, MergeIntoNew
        <4> QED BY <2>5, <4>1 DEF CallSwap, C
      <3>3. msg' = [k \in Objects |-> msg'[k]] /\ \A k \in Objects : msg'[k] \in {msg[n] : n \in Objects}
        BY <3>2 DEF IInv
      <3>4. \A k \in Objects : Object(C, msg'[k])
        BY <2>0, <3>3
      <3> QED BY <3>1, <3>3, <3>4 DEF IInv, C
    <2>6. ASSUME NEW i \in Objects, NEW j \in Objects, Receive(i, j) PROVE IInv'
      <3>1. PICK tail \in {<<>>, <<NewField>>} :
                Become(i, Parse(C, Clear(C, msg[i]), Serialize(C, msg[j]) \o tail))
        BY <2>6 DEF Receive, C
      <3>2. Object(C, Parse(C, Clear(C, msg[i]), Serialize(C, msg[j]) \o tail))
        BY <2>0, ReceivedTyped
      <3> QED BY <3>1, <3>2, BecomeKeeps DEF C
    <2>7. CASE UNCHANGED vars
      BY <2>7 DEF vars, IInv, TheClass
    <2> QED BY <2>1, <2>2, <2>3, <2>4, <2>5, <2>6, <2>7 DEF Next
  <1> QED BY <1>1, <1>2, PTL DEF Spec

(* What is received is what was sent, however the peer wrote it and whatever*)
(* the receiving object held before: _InternalParse, after Clear, undoes    *)
(* _InternalSerialize and every other legal way to write the message.       *)
THEOREM DeliveredProved == Spec => []Delivered
  <1>1. IInv => Delivered
    <2> SUFFICES ASSUME IInv, NEW i \in Objects, NEW j \in Objects,
                        NEW k \in DOMAIN Spellings(TheClass, msg[j])
                 PROVE  Parse(TheClass, Clear(TheClass, msg[i]), Spellings(TheClass, msg[j])[k]) = msg[j]
      BY DEF Delivered
    <2> DEFINE C == TheClass
    <2>1. Sound(C) /\ Object(C, msg[j])
      BY AllSound DEF IInv, TheClass
    <2> HIDE DEF C
    <2>2. Reads(C, Spellings(C, msg[j])[k], msg[j])
      BY <2>1, AllSpellingsRead DEF C
    <2>3. Clear(C, msg[i]) = New(C) /\ Object(C, New(C)) /\ MergeFrom(C, New(C), msg[j]) = msg[j]
      BY <2>1, MergeIntoNew, NewTyped
    <2> QED BY <2>2, <2>3 DEF Reads, C
  <1> QED BY <1>1, ProtoTypeOK, PTL

(* MergeFrom is what _InternalParse does with one message written after the *)
(* other.                                                                   *)
THEOREM MergeIsConcatenationProved == Spec => []MergeIsConcatenation
  <1>1. IInv => MergeIsConcatenation
    <2> SUFFICES ASSUME IInv, NEW i \in Objects, NEW j \in Objects
                 PROVE  MergeFrom(TheClass, msg[i], msg[j])
                          = Parse(TheClass, New(TheClass),
                                  Serialize(TheClass, msg[i]) \o Serialize(TheClass, msg[j]))
      BY DEF MergeIsConcatenation
    <2> DEFINE C == TheClass
               a == Serialize(C, msg[i])
               b == Serialize(C, msg[j])
    <2>1. Sound(C) /\ Object(C, msg[i]) /\ Object(C, msg[j])
      BY AllSound DEF IInv, TheClass
    <2> HIDE DEF C
    <2>2. Reads(C, a, msg[i]) /\ Reads(C, b, msg[j])
      BY <2>1, AllSpellingsRead
    <2>3. Object(C, New(C)) /\ MergeFrom(C, New(C), msg[i]) = msg[i]
      BY <2>1, MergeIntoNew, NewTyped
    <2> HIDE DEF a, b
    <2>4. Parse(C, New(C), a \o b) = Parse(C, Parse(C, New(C), a), b)
      <3>1. PICK S, T : a \in Seq(S) /\ b \in Seq(T)
        BY <2>2 DEF Reads, IsSeq
      <3>2. a \in Seq(S \cup T) /\ b \in Seq(S \cup T)
        BY <3>1
      <3> QED BY <3>2, ParseConcat
    <2>5. Parse(C, New(C), a) = msg[i] /\ Parse(C, msg[i], b) = MergeFrom(C, msg[i], msg[j])
      BY <2>1, <2>2, <2>3 DEF Reads
    <2> QED BY <2>4, <2>5 DEF a, b, C
  <1> QED BY <1>1, ProtoTypeOK, PTL

(* Clear, CopyFrom, the copy constructor and InternalSwap, block moves and  *)
(* all, treat an object as a whole.                                         *)
THEOREM WholeObjectsProved == Spec => []WholeObjects
  <1>1. IInv => WholeObjects
    <2> SUFFICES ASSUME IInv, NEW i \in Objects, NEW j \in Objects
                 PROVE  /\ Clear(TheClass, msg[i]) = New(TheClass)
                        /\ i # j => CopyFrom(TheClass, msg[i], msg[j]) = msg[j]
                        /\ CopyConstructed(TheClass, msg[i]) = msg[i]
                        /\ Swapped(TheClass, msg[i], msg[j]) = msg[j]
      BY DEF WholeObjects
    <2> DEFINE C == TheClass
    <2>1. Sound(C) /\ Object(C, msg[i]) /\ Object(C, msg[j])
      BY AllSound DEF IInv, TheClass
    <2> HIDE DEF C
    <2>2. Clear(C, msg[i]) = New(C) /\ CopyConstructed(C, msg[i]) = msg[i]
      BY <2>1, MergeIntoNew
    <2>3. CopyFrom(C, msg[i], msg[j]) = msg[j] /\ Swapped(C, msg[i], msg[j]) = msg[j]
      BY <2>1, MergeIntoNew
    <2> QED BY <2>2, <2>3 DEF C
  <1> QED BY <1>1, ProtoTypeOK, PTL

-----------------------------------------------------------------------------
(* Sizes.                                                                   *)


(* A sum of numbers is one; a number appended is added.                     *)
LEMMA SumExtended ==
    ASSUME NEW s \in Seq(Nat)
    PROVE  /\ SumOf(s) \in Nat
           /\ \A x \in Nat : SumOf(Append(s, x)) = SumOf(s) + x
  <1>0. Len(s) \in Nat
    OBVIOUS
  <1>1. PICK g : /\ g[0] = 0
                 /\ \A k \in 1 .. Len(s) : g[k] = g[k - 1] + s[k]
                 /\ SumOf(s) = g[Len(s)]
    BY SumSteps
  <1> DEFINE Good == {k \in 0 .. Len(s) : g[k] \in Nat}
  <1>2. \A k \in 0 .. Len(s) : k \in Good
    <2>1. 0 \in Good
      BY <1>0, <1>1
    <2>2. ASSUME NEW k \in 1 .. Len(s), k - 1 \in Good PROVE k \in Good
      <3>1. g[k] = g[k - 1] + s[k] /\ s[k] \in Nat /\ g[k - 1] \in Nat /\ k \in 0 .. Len(s)
        BY <1>0, <1>1, <2>2
      <3> QED BY <3>1
    <2> HIDE DEF Good
    <2> QED BY <1>0, <2>1, <2>2, Induction
  <1>3. ASSUME NEW x \in Nat PROVE SumOf(Append(s, x)) = SumOf(s) + x
    <2> DEFINE t == Append(s, x)
    <2>1. /\ t \in Seq(Nat) /\ Len(t) = Len(s) + 1 /\ t[Len(s) + 1] = x
          /\ \A k \in 1 .. Len(s) : t[k] = s[k]
      OBVIOUS
    <2> HIDE DEF t
    <2>2. PICK h : /\ h[0] = 0
                   /\ \A k \in 1 .. Len(t) : h[k] = h[k - 1] + t[k]
                   /\ SumOf(t) = h[Len(t)]
      BY <2>1, SumSteps
    <2> DEFINE Same0 == {k \in 0 .. Len(s) : h[k] = g[k]}
    <2>3. \A k \in 0 .. Len(s) : k \in Same0
      <3>1. 0 \in Same0
        BY <1>0, <1>1, <2>2
      <3>2. ASSUME NEW k \in 1 .. Len(s), k - 1 \in Same0 PROVE k \in Same0
        <4>1. k \in 0 .. Len(s) /\ k \in 1 .. Len(t)
          BY <1>0, <2>1
        <4>2. g[k] = g[k - 1] + s[k] /\ h[k] = h[k - 1] + t[k]
          BY <1>1, <2>2, <4>1
        <4> QED BY <2>1, <3>2, <4>1, <4>2
      <3> HIDE DEF Same0
      <3> QED BY <1>0, <3>1, <3>2, Induction
    <2>4. h[Len(s)] = g[Len(s)]
      BY <1>0, <2>3
    <2>5. h[Len(s) + 1] = h[Len(s)] + x
      <3>1. Len(s) + 1 \in 1 .. Len(t) /\ (Len(s) + 1) - 1 = Len(s)
        BY <1>0, <2>1
      <3> QED BY <2>1, <2>2, <3>1
    <2> QED BY <1>1, <2>1, <2>2, <2>4, <2>5 DEF t
  <1>4. SumOf(s) \in Nat
    BY <1>0, <1>1, <1>2
  <1> QED BY <1>3, <1>4

(* The sum of nothing.                                                      *)
LEMMA SumNone == SumOf(<<>>) = 0
  <1> DEFINE s == <<>>
  <1>1. s \in Seq({}) /\ Len(s) = 0
    OBVIOUS
  <1> HIDE DEF s
  <1>2. PICK g : g[0] = 0 /\ SumOf(s) = g[Len(s)]
    BY <1>1, SumSteps
  <1> QED BY <1>1, <1>2 DEF s

(* The sum of one number.                                                   *)
LEMMA SumOne == ASSUME NEW a \in Nat PROVE SumOf(<<a>>) = a
  <1>1. <<>> \in Seq(Nat) /\ Append(<<>>, a) = <<a>>
    OBVIOUS
  <1>2. SumOf(Append(<<>>, a)) = SumOf(<<>>) + a
    BY <1>1, SumExtended
  <1> QED BY <1>1, <1>2, SumNone

(* The sum of two sequences is that of their sums.                          *)
LEMMA SumConcat ==
    ASSUME NEW a \in Seq(Nat), NEW b \in Seq(Nat)
    PROVE  SumOf(a \o b) = SumOf(a) + SumOf(b)
  <1> DEFINE part(k) == SubSeq(b, 1, k)
             Good == {k \in 0 .. Len(b) : SumOf(a \o part(k)) = SumOf(a) + SumOf(part(k))}
  <1>0. Len(b) \in Nat /\ SumOf(a) \in Nat /\ SumOf(b) \in Nat
    BY SumExtended
  <1>1. 0 \in Good
    <2>1. part(0) = <<>> /\ a \o <<>> = a
      OBVIOUS
    <2> HIDE DEF part
    <2>2. SumOf(a \o part(0)) = SumOf(a) + SumOf(part(0))
      <3>1. SumOf(a \o part(0)) = SumOf(a) /\ SumOf(part(0)) = 0
        BY <2>1, SumNone
      <3> QED BY <1>0, <3>1
    <2> QED BY <1>0, <2>2
  <1>2. ASSUME NEW k \in 1 .. Len(b), k - 1 \in Good PROVE k \in Good
    <2>1. part(k - 1) \in Seq(Nat) /\ a \o part(k - 1) \in Seq(Nat) /\ b[k] \in Nat
      BY SMTT(40), <1>0
    <2>2. part(k) = Append(part(k - 1), b[k])
      <3>1. <<>> \in Seq(Nat) /\ \A w \in Seq(Nat) : <<>> \o w = w
        OBVIOUS
      <3>2. Append(<<>> \o part(k - 1), b[k]) = <<>> \o part(k)
        BY <3>1, OneMore
      <3>3. part(k) \in Seq(Nat)
        BY <1>0
      <3> HIDE DEF part
      <3> QED BY <2>1, <3>1, <3>2, <3>3
    <2>3. a \o part(k) = Append(a \o part(k - 1), b[k])
      BY OneMore
    <2>4. SumOf(a \o part(k - 1)) = SumOf(a) + SumOf(part(k - 1))
      BY <1>2
    <2>5. k \in 0 .. Len(b)
      BY <1>0
    <2> HIDE DEF part
    <2>6. /\ SumOf(part(k)) = SumOf(part(k - 1)) + b[k]
          /\ SumOf(a \o part(k)) = SumOf(a \o part(k - 1)) + b[k]
          /\ SumOf(part(k - 1)) \in Nat
      BY <2>1, <2>2, <2>3, SumExtended
    <2> QED BY <1>0, <2>1, <2>4, <2>5, <2>6
  <1>3. Len(b) \in Good
    <2> HIDE DEF Good
    <2>1. \A k \in 0 .. Len(b) : k \in Good
      BY <1>0, <1>1, <1>2, Induction
    <2> QED BY <1>0, <2>1
  <1>4. part(Len(b)) = b
    OBVIOUS
  <1> QED BY <1>3, <1>4

(* Adding one to each number adds the length.                               *)
LEMMA SumOneEach ==
    ASSUME NEW s \in Seq(Nat)
    PROVE  SumOf([i \in DOMAIN s |-> 1 + s[i]]) = Len(s) + SumOf(s)
  <1> DEFINE t == [i \in DOMAIN s |-> 1 + s[i]]
  <1>0. Len(s) \in Nat
    OBVIOUS
  <1>1. t \in Seq(Nat) /\ Len(t) = Len(s) /\ \A i \in 1 .. Len(s) : t[i] = 1 + s[i] /\ s[i] \in Nat
    OBVIOUS
  <1> HIDE DEF t
  <1>2. PICK g : /\ g[0] = 0
                 /\ \A k \in 1 .. Len(s) : g[k] = g[k - 1] + s[k]
                 /\ SumOf(s) = g[Len(s)]
    BY SumSteps
  <1>3. PICK h : /\ h[0] = 0
                 /\ \A k \in 1 .. Len(t) : h[k] = h[k - 1] + t[k]
                 /\ SumOf(t) = h[Len(t)]
    BY <1>1, SumSteps
  <1> DEFINE Good == {k \in 0 .. Len(s) : g[k] \in Nat /\ h[k] = k + g[k]}
  <1>4. 0 \in Good
    BY <1>0, <1>2, <1>3
  <1>5. ASSUME NEW k \in 1 .. Len(s), k - 1 \in Good PROVE k \in Good
    <2>1. g[k] = g[k - 1] + s[k] /\ h[k] = h[k - 1] + t[k] /\ t[k] = 1 + s[k] /\ s[k] \in Nat
      BY <1>1, <1>2, <1>3
    <2>2. k \in 0 .. Len(s) /\ k \in Nat /\ g[k - 1] \in Nat /\ h[k - 1] = (k - 1) + g[k - 1]
      BY <1>0, <1>5
    <2> QED BY SMTT(40), <2>1, <2>2
  <1>6. Len(s) \in Good
    <2> HIDE DEF Good
    <2>1. \A k \in 0 .. Len(s) : k \in Good
      BY <1>0, <1>4, <1>5, Induction
    <2> QED BY <1>0, <2>1
  <1>7. h[Len(s)] = Len(s) + g[Len(s)]
    BY <1>6
  <1> QED BY <1>1, <1>2, <1>3, <1>7 DEF t

(* The size of a varint is a number,                                        *)
LEMMA VarintSizeTyped == ASSUME NEW n PROVE VarintSize(n) \in Nat
  <1> DEFINE more == {j \in 1 .. 9 : \A i \in 1 .. j : n >= 128 ^ i}
  <1>1. IsFiniteSet(1 .. 9)
    <2>1. 1 \in Int /\ 9 \in Int
      OBVIOUS
    <2> QED BY <2>1, FS_Interval, Zenon
  <1>2. more \subseteq 1 .. 9
    OBVIOUS
  <1> HIDE DEF more
  <1>3. Cardinality(more) \in Nat
    BY <1>1, <1>2, FS_Subset, FS_CardinalityType
  <1>4. VarintSize(n) = 1 + Cardinality(more)
    BY Zenon DEF VarintSize, more
  <1> QED BY <1>3, <1>4

(* with what it is the length of too,                                       *)
LEMMA WithLengthTyped == ASSUME NEW n \in Nat PROVE WithLength(n) \in Nat
  <1>1. VarintSize(n) \in Nat
    BY VarintSizeTyped
  <1> QED BY <1>1 DEF WithLength

(* and so is the size of packed numbers.                                    *)
LEMMA VarintSizesTyped ==
    ASSUME NEW v \in Seq(Nat)
    PROVE  /\ SumOf(VarintSizes(v)) \in Nat
           /\ WithLength(SumOf(VarintSizes(v))) \in Nat
  <1>1. Len(v) \in Nat /\ DOMAIN v = 1 .. Len(v)
    OBVIOUS
  <1>2. \A i \in 1 .. Len(v) : VarintSize(v[i]) \in Nat
    BY VarintSizeTyped
  <1>3. VarintSizes(v) = [i \in 1 .. Len(v) |-> VarintSize(v[i])]
    BY <1>1 DEF VarintSizes
  <1>4. VarintSizes(v) \in [1 .. Len(v) -> Nat]
    BY <1>2, <1>3
  <1>5. VarintSizes(v) \in Seq(Nat)
    BY <1>1, <1>4
  <1> QED BY <1>5, SumExtended, WithLengthTyped

(* What a concatenation holds.                                              *)
LEMMA Concatenation ==
    ASSUME NEW S, NEW a \in Seq(S), NEW b \in Seq(S)
    PROVE  /\ a \o b \in Seq(S) /\ Len(a \o b) = Len(a) + Len(b)
           /\ \A k \in 1 .. Len(a) : (a \o b)[k] = a[k]
           /\ \A k \in 1 .. Len(b) : (a \o b)[Len(a) + k] = b[k]
  OBVIOUS

(* The shapes of tokens that are no submessages.                            *)
PlainShapes == {"varint", "bytes", "packed"}

(* Every token of w has a size, and of a class without submessages none is a*)
(* submessage.                                                              *)
Measured(C, w) ==
    /\ IsSeq(w)
    /\ \A i \in 1 .. Len(w) : /\ TokenSize(w[i]) \in Nat
                              /\ Flat(C) => w[i].shape \in PlainShapes

(* The sizes of the tokens of w.                                            *)
TokenSizes(w) == [i \in DOMAIN w |-> TokenSize(w[i])]

(* The size of a wire is the sum of the sizes of its tokens.                *)
LEMMA WireSizeSums ==
    ASSUME NEW C, NEW w, Measured(C, w)
    PROVE  /\ TokenSizes(w) \in Seq(Nat)
           /\ Len(TokenSizes(w)) = Len(w)
           /\ WireSize(w) = SumOf(TokenSizes(w))
           /\ WireSize(w) \in Nat
  <1>1. PICK S : w \in Seq(S)
    BY DEF Measured, IsSeq
  <1>2. Len(w) \in Nat /\ DOMAIN w = 1 .. Len(w)
    BY <1>1
  <1>3. TokenSizes(w) \in [1 .. Len(w) -> Nat]
    BY <1>2 DEF TokenSizes, Measured
  <1>4. TokenSizes(w) \in Seq(Nat) /\ Len(TokenSizes(w)) = Len(w)
    BY <1>2, <1>3
  <1>5. WireSize(w) = SumOf(TokenSizes(w))
    BY Zenon DEF WireSize, TokenSizes
  <1> QED BY <1>4, <1>5, SumExtended

(* The sizes of wires written one after the other add up.                   *)
LEMMA MeasuredConcat ==
    ASSUME NEW C, NEW a, Measured(C, a), NEW b, Measured(C, b)
    PROVE  /\ Measured(C, a \o b)
           /\ WireSize(a \o b) = WireSize(a) + WireSize(b)
           /\ WireSize(a) \in Nat /\ WireSize(b) \in Nat
  <1>1. PICK S, T : a \in Seq(S) /\ b \in Seq(T)
    BY DEF Measured, IsSeq
  <1> DEFINE w == a \o b
  <1>2. a \in Seq(S \cup T) /\ b \in Seq(S \cup T)
    BY <1>1
  <1>3. /\ w \in Seq(S \cup T)
        /\ Len(a) \in Nat /\ Len(b) \in Nat /\ Len(w) = Len(a) + Len(b)
        /\ DOMAIN w = 1 .. Len(a) + Len(b)
        /\ \A k \in 1 .. Len(a) : w[k] = a[k]
        /\ \A k \in 1 .. Len(b) : w[Len(a) + k] = b[k]
    BY <1>2
  <1>4. \A k \in 1 .. Len(w) : \/ k \in 1 .. Len(a)
                               \/ \E j \in 1 .. Len(b) : k = Len(a) + j
    <2> TAKE k \in 1 .. Len(w)
    <2>1. CASE k <= Len(a)
      BY <1>3, <2>1
    <2>2. CASE k > Len(a)
      <3>1. k - Len(a) \in 1 .. Len(b) /\ k = Len(a) + (k - Len(a))
        BY <1>3, <2>2
      <3> QED BY <3>1
    <2> QED BY <1>3, <2>1, <2>2
  <1> HIDE DEF w
  <1>5. Measured(C, w)
    BY <1>3, <1>4 DEF Measured, IsSeq
  <1> DEFINE x == TokenSizes(a)
             y == TokenSizes(b)
             z == TokenSizes(w)
  <1>6. /\ x \in Seq(Nat) /\ Len(x) = Len(a) /\ WireSize(a) = SumOf(x) /\ WireSize(a) \in Nat
        /\ y \in Seq(Nat) /\ Len(y) = Len(b) /\ WireSize(b) = SumOf(y) /\ WireSize(b) \in Nat
        /\ z \in Seq(Nat) /\ Len(z) = Len(w) /\ WireSize(w) = SumOf(z)
    BY <1>5, WireSizeSums
  <1>7. /\ \A k \in 1 .. Len(a) : x[k] = TokenSize(a[k])
        /\ \A k \in 1 .. Len(b) : y[k] = TokenSize(b[k])
        /\ \A k \in 1 .. Len(w) : z[k] = TokenSize(w[k])
    BY <1>2, <1>3 DEF TokenSizes
  <1> HIDE DEF x, y, z
  <1>8. z = x \o y
    <2> DEFINE v == x \o y
    <2>1. /\ v \in Seq(Nat) /\ Len(v) = Len(a) + Len(b)
          /\ \A k \in 1 .. Len(a) : v[k] = x[k]
          /\ \A k \in 1 .. Len(b) : v[Len(a) + k] = y[k]
      <3>1. x \in Seq(Nat) /\ y \in Seq(Nat) /\ Len(x) = Len(a) /\ Len(y) = Len(b)
        BY <1>6
      <3>2. /\ v \in Seq(Nat) /\ Len(v) = Len(x) + Len(y)
            /\ \A k \in 1 .. Len(x) : v[k] = x[k]
            /\ \A k \in 1 .. Len(y) : v[Len(x) + k] = y[k]
        BY SMTT(40), <3>1, Concatenation
      <3> HIDE DEF v
      <3> QED BY <3>1, <3>2
    <2> HIDE DEF v
    <2>2. ASSUME NEW k \in 1 .. Len(w) PROVE z[k] = v[k]
      <3>1. CASE k \in 1 .. Len(a)
        BY <1>3, <1>7, <2>1, <3>1
      <3>2. CASE \E j \in 1 .. Len(b) : k = Len(a) + j
        <4>1. PICK j \in 1 .. Len(b) : k = Len(a) + j
          BY <3>2
        <4>2. z[k] = TokenSize(w[k]) /\ w[k] = b[j]
          BY <1>3, <1>7, <4>1
        <4>3. v[k] = y[j] /\ y[j] = TokenSize(b[j])
          BY <1>7, <2>1, <4>1
        <4> QED BY <4>2, <4>3
      <3> QED BY <1>4, <3>1, <3>2
    <2>3. z = v
      BY <1>3, <1>6, <2>1, <2>2
    <2> QED BY <2>3 DEF v
  <1> QED BY <1>5, <1>6, <1>8, SumConcat DEF w

(* Nothing has no size.                                                     *)
LEMMA MeasuredNone == ASSUME NEW C PROVE Measured(C, <<>>) /\ WireSize(<<>>) = 0
  <1> DEFINE w == <<>>
  <1>1. w \in Seq({}) /\ Len(w) = 0 /\ \A s : s \in Seq(Nat) /\ Len(s) = 0 => s = w
    OBVIOUS
  <1> HIDE DEF w
  <1>2. Measured(C, w)
    BY <1>1 DEF Measured, IsSeq
  <1>3. TokenSizes(w) = w /\ WireSize(w) = SumOf(TokenSizes(w))
    BY <1>1, <1>2, WireSizeSums
  <1> QED BY <1>2, <1>3, SumNone DEF w

(* One token has its own.                                                   *)
LEMMA MeasuredOne ==
    ASSUME NEW C, NEW t, TokenSize(t) \in Nat, Flat(C) => t.shape \in PlainShapes
    PROVE  Measured(C, <<t>>) /\ WireSize(<<t>>) = TokenSize(t)
  <1> DEFINE w == <<t>>
  <1>1. w \in Seq({t}) /\ Len(w) = 1 /\ w[1] = t /\ DOMAIN w = 1 .. 1
    OBVIOUS
  <1> HIDE DEF w
  <1>2. Measured(C, w)
    BY <1>1 DEF Measured, IsSeq
  <1>3. TokenSizes(w) \in Seq(Nat) /\ Len(TokenSizes(w)) = 1 /\ TokenSizes(w)[1] = TokenSize(t)
    BY <1>1, <1>2, WireSizeSums DEF TokenSizes
  <1>4. TokenSizes(w) = <<TokenSize(t)>>
    BY <1>3
  <1>5. WireSize(w) = SumOf(TokenSizes(w))
    BY <1>2, WireSizeSums
  <1> QED BY <1>2, <1>4, <1>5, SumOne DEF w

(* The sizes of the pieces.                                                 *)
PieceSizes(pieces) == [i \in DOMAIN pieces |-> WireSize(pieces[i])]

(* The size of pieces put one after the other is the sum of theirs.         *)
LEMMA FlattenMeasured ==
    ASSUME NEW C, NEW n \in Nat \ {0}, NEW pieces, DOMAIN pieces = 1 .. n, Len(pieces) = n,
           IsSeq(pieces), \A i \in 1 .. n : Measured(C, pieces[i])
    PROVE  /\ Measured(C, FlattenSeq(pieces))
           /\ PieceSizes(pieces) \in [1 .. n -> Nat]
           /\ WireSize(FlattenSeq(pieces)) = SumOf(PieceSizes(pieces))
  <1> DEFINE T == UNION {{pieces[i][j] : j \in DOMAIN pieces[i]} : i \in 1 .. n}
             sizes == PieceSizes(pieces)
  <1>1. pieces \in Seq(Seq(T))
    <2>1. ASSUME NEW i \in 1 .. n PROVE pieces[i] \in Seq(T)
      <3>1. IsSeq(pieces[i])
        BY DEF Measured
      <3>2. \A j \in DOMAIN pieces[i] : pieces[i][j] \in T
        OBVIOUS
      <3> HIDE DEF T
      <3> QED BY <3>1, <3>2, SeqOver
    <2> HIDE DEF T
    <2> QED BY <2>1, SeqOver
  <1> HIDE DEF T
  <1>2. PICK g : /\ g[0] = <<>>
                 /\ \A k \in 1 .. n : g[k] = g[k - 1] \o pieces[k]
                 /\ FlattenSeq(pieces) = g[n]
    <2>1. pieces # <<>>
      BY <1>1
    <2>2. \E g \in [0 .. Len(pieces) -> Seq(T)] :
              /\ g[0] = <<>>
              /\ \A k \in 1 .. Len(pieces) : g[k] = g[k - 1] \o pieces[k]
              /\ FlattenSeq(pieces) = g[Len(pieces)]
      BY <1>1, <2>1, FlattenSteps, Zenon
    <2> QED BY <2>2
  <1>3. sizes \in [1 .. n -> Nat] /\ sizes \in Seq(Nat) /\ Len(sizes) = n
        /\ \A i \in 1 .. n : sizes[i] = WireSize(pieces[i])
    <2>1. \A i \in 1 .. n : WireSize(pieces[i]) \in Nat
      BY WireSizeSums
    <2>2. sizes \in [1 .. n -> Nat] /\ \A i \in 1 .. n : sizes[i] = WireSize(pieces[i])
      BY <2>1 DEF PieceSizes
    <2> HIDE DEF sizes
    <2> QED BY <2>2
  <1> HIDE DEF sizes
  <1>4. PICK h : /\ h[0] = 0
                 /\ \A k \in 1 .. Len(sizes) : h[k] = h[k - 1] + sizes[k]
                 /\ SumOf(sizes) = h[Len(sizes)]
    BY <1>3, SumSteps
  <1> DEFINE Good == {k \in 0 .. n : Measured(C, g[k]) /\ WireSize(g[k]) = h[k]}
  <1>5. 0 \in Good
    <2>1. Measured(C, g[0]) /\ WireSize(g[0]) = h[0]
      BY <1>2, <1>4, MeasuredNone
    <2> QED BY <2>1
  <1>6. ASSUME NEW k \in 1 .. n, k - 1 \in Good PROVE k \in Good
    <2>1. Measured(C, g[k - 1]) /\ WireSize(g[k - 1]) = h[k - 1] /\ Measured(C, pieces[k])
      BY <1>6
    <2>2. g[k] = g[k - 1] \o pieces[k]
      BY <1>2
    <2>3. h[k] = h[k - 1] + WireSize(pieces[k])
      BY <1>3, <1>4
    <2>4. Measured(C, g[k]) /\ WireSize(g[k]) = h[k]
      <3>1. /\ Measured(C, g[k - 1] \o pieces[k])
            /\ WireSize(g[k - 1] \o pieces[k]) = WireSize(g[k - 1]) + WireSize(pieces[k])
        BY <2>1, MeasuredConcat
      <3> QED BY <2>1, <2>2, <2>3, <3>1
    <2> QED BY <2>4
  <1>7. n \in Good
    <2> HIDE DEF Good
    <2>1. \A k \in 0 .. n : k \in Good
      BY <1>5, <1>6, Induction
    <2> QED BY <2>1
  <1> QED BY <1>2, <1>3, <1>4, <1>7 DEF sizes

(* A function over 1 .. n is a sequence.                                    *)
LEMMA FunctionIsSeq ==
    ASSUME NEW n \in Nat, NEW S, NEW f \in [1 .. n -> S]
    PROVE  f \in Seq(S) /\ Len(f) = n /\ DOMAIN f = 1 .. n
  OBVIOUS

(* What ByteSizeLong counts for a field.                                    *)
SizeOf(kind, value) == FieldSize(SizeFlat, kind, value)

(* The size of every submessage is that of what it is written as.           *)
SubmessagesSized ==
    \A kind \in Submessages : \A m : FlatObject(Classes[kind], m) =>
        /\ SizeFlat(Classes[kind], m) \in Nat
        /\ WireSizeFlat(SerializeFlat(Classes[kind], m)) = SizeFlat(Classes[kind], m)

(* The size of a token of each shape.                                       *)
LEMMA TokenSizeIs ==
    ASSUME NEW tag, NEW value
    PROVE  /\ TokenSize(Token(tag, "varint", value)) = 1 + VarintSize(value)
           /\ TokenSize(Token(tag, "bytes", value)) = 1 + WithLength(Len(value))
           /\ TokenSize(Token(tag, "packed", value)) = 1 + WithLength(SumOf(VarintSizes(value)))
           /\ TokenSize(Token(tag, "message", value)) = 1 + WithLength(WireSizeFlat(value))
           /\ \A shape : Token(tag, shape, value).shape = shape
           /\ "varint" \in PlainShapes /\ "bytes" \in PlainShapes /\ "packed" \in PlainShapes
  <1>1. \A shape : LET t == Token(tag, shape, value) IN t.shape = shape /\ t.value = value
    BY DEF Token
  <1>2. \A t : TokenSize(t) =
            1 + IF t.shape = "varint" THEN VarintSize(t.value)
                ELSE IF t.shape = "bytes" THEN WithLength(Len(t.value))
                ELSE IF t.shape = "packed" THEN WithLength(SumOf(VarintSizes(t.value)))
                ELSE WithLength(WireSizeFlat(t.value))
    BY Zenon DEF TokenSize, TokenSizeBy
  <1>3. "varint" \in PlainShapes /\ "bytes" \in PlainShapes /\ "packed" \in PlainShapes
    BY DEF PlainShapes
  <1> QED BY <1>1, <1>2, <1>3

(* The size of a repeated field of bytes: for each, a tag, a length and the *)
(* bytes.                                                                   *)
LEMMA EachSize ==
    ASSUME NEW C, NEW tag, NEW value \in Seq(Seq(Nat))
    PROVE  /\ Measured(C, [i \in DOMAIN value |-> Token(tag, "bytes", value[i])])
           /\ WireSize([i \in DOMAIN value |-> Token(tag, "bytes", value[i])])
                = Len(value) + SumOf([i \in DOMAIN value |-> WithLength(Len(value[i]))])
  <1> DEFINE piece == [i \in DOMAIN value |-> Token(tag, "bytes", value[i])]
             lengths == [i \in DOMAIN value |-> WithLength(Len(value[i]))]
             T == {Token(tag, "bytes", v) : v \in Seq(Nat)}
  <1>0. Len(value) \in Nat /\ DOMAIN value = 1 .. Len(value)
        /\ \A i \in 1 .. Len(value) : value[i] \in Seq(Nat) /\ Len(value[i]) \in Nat
    OBVIOUS
  <1>n. Len(value) \in Nat
    BY <1>0
  <1>1. lengths \in Seq(Nat) /\ Len(lengths) = Len(value) /\ DOMAIN lengths = 1 .. Len(value)
        /\ \A i \in 1 .. Len(value) : lengths[i] \in Nat
    <2>1. \A i \in 1 .. Len(value) : WithLength(Len(value[i])) \in Nat
      BY <1>0, WithLengthTyped
    <2>2. lengths \in [1 .. Len(value) -> Nat]
      BY <1>0, <2>1
    <2>3. \A i \in 1 .. Len(value) : lengths[i] \in Nat
      BY <2>2
    <2> HIDE DEF lengths
    <2> QED BY <1>n, <2>2, <2>3, FunctionIsSeq
  <1>2. piece \in Seq(T) /\ Len(piece) = Len(value) /\ DOMAIN piece = 1 .. Len(value)
    <2>1. \A i \in 1 .. Len(value) : Token(tag, "bytes", value[i]) \in T
      BY <1>0
    <2> HIDE DEF T
    <2>2. piece \in [1 .. Len(value) -> T]
      BY <1>0, <2>1
    <2> HIDE DEF piece
    <2> QED BY <1>n, <2>2, FunctionIsSeq
  <1>3. \A i \in 1 .. Len(value) : /\ lengths[i] = WithLength(Len(value[i])) /\ lengths[i] \in Nat
                                   /\ TokenSize(piece[i]) = 1 + lengths[i]
                                   /\ piece[i].shape \in PlainShapes
    <2> TAKE i \in 1 .. Len(value)
    <2>1. piece[i] = Token(tag, "bytes", value[i]) /\ lengths[i] = WithLength(Len(value[i]))
      BY <1>0
    <2>2. lengths[i] \in Nat
      BY <1>1
    <2> HIDE DEF piece, lengths
    <2> QED BY <2>1, <2>2, TokenSizeIs
  <1> HIDE DEF piece, lengths, T
  <1>4. Measured(C, piece)
    <2>1. \A i \in 1 .. Len(value) : TokenSize(piece[i]) \in Nat /\ piece[i].shape \in PlainShapes
      <3> TAKE i \in 1 .. Len(value)
      <3>1. lengths[i] \in Nat /\ TokenSize(piece[i]) = 1 + lengths[i]
            /\ piece[i].shape \in PlainShapes
        BY <1>3
      <3> QED BY <3>1
    <2>2. IsSeq(piece) /\ Len(piece) = Len(value)
      BY <1>2 DEF IsSeq
    <2> QED BY <2>1, <2>2 DEF Measured
  <1>5. TokenSizes(piece) = [i \in DOMAIN lengths |-> 1 + lengths[i]]
    <2>1. DOMAIN lengths = DOMAIN piece
      BY <1>1, <1>2
    <2>2. \A i \in DOMAIN piece : TokenSize(piece[i]) = 1 + lengths[i]
      BY <1>2, <1>3
    <2> QED BY <2>1, <2>2 DEF TokenSizes
  <1>6. WireSize(piece) = SumOf([i \in DOMAIN lengths |-> 1 + lengths[i]])
    BY <1>4, <1>5, WireSizeSums
  <1>7. SumOf([i \in DOMAIN lengths |-> 1 + lengths[i]]) = Len(lengths) + SumOf(lengths)
    BY <1>1, SumOneEach, Zenon
  <1> QED BY <1>1, <1>4, <1>6, <1>7 DEF piece, lengths

(* What ByteSizeLong counts for a field is the size of what                 *)
(* _InternalSerialize writes for it.                                        *)
LEMMA WrittenSize ==
    ASSUME NEW C, NEW kind \in Kinds, Flat(C) => kind \notin Submessages,
           NEW number \in Nat, NEW value, HasKind(kind, value), Flat(C) \/ SubmessagesSized
    PROVE  /\ Measured(C, WrittenField(kind, number, value))
           /\ WireSize(WrittenField(kind, number, value)) = SizeOf(kind, value)
  <1> DEFINE piece == WrittenField(kind, number, value)
  <1>1. CASE value = DefaultOf(kind)
    <2>1. piece = <<>> /\ SizeOf(kind, value) = 0
      BY <1>1, Zenon DEF WrittenField, Written, SizeOf, FieldSize
    <2> QED BY <2>1, MeasuredNone
  <1>2. CASE value # DefaultOf(kind) /\ kind \in Varints
    <2> DEFINE t == Token(8 * number, "varint", value)
    <2>1. piece = <<t>> /\ SizeOf(kind, value) = 1 + VarintSize(value)
      BY <1>2, Zenon DEF WrittenField, Written, SizeOf, FieldSize
    <2>2. TokenSize(t) = 1 + VarintSize(value) /\ t.shape \in PlainShapes /\ VarintSize(value) \in Nat
      BY TokenSizeIs, VarintSizeTyped
    <2> HIDE DEF t
    <2> QED BY <2>1, <2>2, MeasuredOne
  <1>3. CASE value # DefaultOf(kind) /\ kind \in Strings
    <2> DEFINE t == Token(8 * number + 2, "bytes", value)
    <2>1. /\ kind \notin Varints /\ kind \notin Submessages
          /\ kind # "repeated_bytes" /\ kind # "repeated_uint64"
      BY <1>3 DEF Varints, Strings, Submessages
    <2>2. piece = <<t>> /\ SizeOf(kind, value) = 1 + WithLength(Len(value))
      BY <1>3, <2>1, Zenon DEF WrittenField, Written, SizeOf, FieldSize
    <2>3. value \in Seq(Nat) /\ Len(value) \in Nat
      BY <2>1 DEF HasKind, FlatValues
    <2>4. TokenSize(t) = 1 + WithLength(Len(value)) /\ t.shape \in PlainShapes
          /\ WithLength(Len(value)) \in Nat
      <3>1. TokenSize(t) = 1 + WithLength(Len(value)) /\ t.shape \in PlainShapes
        BY TokenSizeIs
      <3> HIDE DEF t
      <3> QED BY <2>3, <3>1, WithLengthTyped
    <2> HIDE DEF t
    <2>5. TokenSize(t) \in Nat /\ t.shape \in PlainShapes /\ TokenSize(t) = SizeOf(kind, value)
      BY <2>2, <2>4
    <2>6. Measured(C, <<t>>) /\ WireSize(<<t>>) = SizeOf(kind, value)
      BY <2>5, MeasuredOne
    <2> QED BY <2>2, <2>6
  <1>4. CASE value # DefaultOf(kind) /\ kind = "repeated_bytes"
    <2>1. kind \notin Varints /\ kind \notin Submessages
      BY <1>4 DEF Varints, Submessages
    <2>2. piece = [i \in DOMAIN value |-> Token(8 * number + 2, "bytes", value[i])]
      BY <1>4, <2>1 DEF WrittenField, Written
    <2>3. SizeOf(kind, value) = Len(value) + SumOf([i \in DOMAIN value |-> WithLength(Len(value[i]))])
      BY <1>4, <2>1, Zenon DEF SizeOf, FieldSize
    <2>4. value \in Seq(Seq(Nat))
      BY <1>4, <2>1 DEF HasKind, FlatValues
    <2>5. /\ Measured(C, [i \in DOMAIN value |-> Token(8 * number + 2, "bytes", value[i])])
          /\ WireSize([i \in DOMAIN value |-> Token(8 * number + 2, "bytes", value[i])])
               = Len(value) + SumOf([i \in DOMAIN value |-> WithLength(Len(value[i]))])
      BY <2>4, EachSize, Zenon
    <2> QED BY <2>2, <2>3, <2>5
  <1>5. CASE value # DefaultOf(kind) /\ kind = "repeated_uint64"
    <2> DEFINE t == Token(8 * number + 2, "packed", value)
    <2>1. kind \notin Varints /\ kind \notin Submessages /\ kind # "repeated_bytes"
      BY <1>5 DEF Varints, Submessages
    <2>2. piece = <<t>> /\ SizeOf(kind, value) = 1 + WithLength(SumOf(VarintSizes(value)))
      BY <1>5, <2>1, Zenon DEF WrittenField, Written, SizeOf, FieldSize
    <2>3. value \in Seq(Nat)
      BY <1>5, <2>1 DEF HasKind, FlatValues
    <2>4. /\ TokenSize(t) = 1 + WithLength(SumOf(VarintSizes(value))) /\ t.shape \in PlainShapes
          /\ WithLength(SumOf(VarintSizes(value))) \in Nat
      BY <2>3, TokenSizeIs, VarintSizesTyped
    <2> HIDE DEF t
    <2> QED BY <2>2, <2>4, MeasuredOne
  <1>6. CASE value # DefaultOf(kind) /\ kind \in Submessages
    <2>1. /\ kind \notin Varints /\ DefaultOf(kind) = <<>>
          /\ kind # "repeated_bytes" /\ kind # "repeated_uint64"
      BY <1>6 DEF Submessages, Varints, DefaultOf
    <2>2. PICK m : FlatObject(Classes[kind], m) /\ value = <<m>>
      BY <1>6, <2>1 DEF HasKind
    <2>3. value[1] = m
      BY <2>2
    <2> DEFINE inner == SerializeFlat(Classes[kind], m)
               n == SizeFlat(Classes[kind], m)
               t == Token(8 * number + 2, "message", inner)
    <2>4. piece = <<t>>
      BY <1>6, <2>1, <2>3, Zenon DEF WrittenField, Written
    <2>5. SizeOf(kind, value) = 1 + WithLength(n)
      BY <1>6, <2>1, <2>3, Zenon DEF SizeOf, FieldSize
    <2>6. n \in Nat /\ WireSizeFlat(inner) = n
      BY <1>6, <2>2 DEF SubmessagesSized
    <2> HIDE DEF n, inner
    <2>7. TokenSize(t) = 1 + WithLength(n) /\ t.shape = "message" /\ WithLength(n) \in Nat
      BY <2>6, TokenSizeIs, WithLengthTyped
    <2>8. ~ Flat(C)
      BY <1>6
    <2> HIDE DEF t
    <2> QED BY <2>4, <2>5, <2>7, <2>8, MeasuredOne
  <1> QED BY <1>1, <1>2, <1>3, <1>4, <1>5, <1>6 DEF Kinds, Repeated

(* Sums of up to five numbers, written out.                                 *)
LEMMA SumOfFew ==
    ASSUME NEW s \in Seq(Nat)
    PROVE  /\ Len(s) = 1 => SumOf(s) = s[1]
           /\ Len(s) = 2 => SumOf(s) = s[1] + s[2]
           /\ Len(s) = 3 => SumOf(s) = s[1] + s[2] + s[3]
           /\ Len(s) = 4 => SumOf(s) = s[1] + s[2] + s[3] + s[4]
           /\ Len(s) = 5 => SumOf(s) = s[1] + s[2] + s[3] + s[4] + s[5]
  <1>1. PICK g : /\ g[0] = 0
                 /\ \A k \in 1 .. Len(s) : g[k] = g[k - 1] + s[k]
                 /\ SumOf(s) = g[Len(s)]
    BY SumSteps
  <1>2. \A k \in 1 .. Len(s) : s[k] \in Nat
    OBVIOUS
  <1>3. Len(s) >= 1 => g[1] = s[1]
    BY <1>1, <1>2
  <1>4. Len(s) >= 2 => g[2] = s[1] + s[2]
    BY <1>1, <1>2, <1>3
  <1>5. Len(s) >= 3 => g[3] = s[1] + s[2] + s[3]
    BY <1>1, <1>2, <1>4
  <1>6. Len(s) >= 4 => g[4] = s[1] + s[2] + s[3] + s[4]
    BY <1>1, <1>2, <1>5
  <1>7. Len(s) >= 5 => g[5] = s[1] + s[2] + s[3] + s[4] + s[5]
    BY <1>1, <1>2, <1>6
  <1>8. Len(s) = 1 => SumOf(s) = s[1]
    BY <1>1, <1>3
  <1>9. Len(s) = 2 => SumOf(s) = s[1] + s[2]
    BY <1>1, <1>4
  <1>10. Len(s) = 3 => SumOf(s) = s[1] + s[2] + s[3]
    BY <1>1, <1>5
  <1>11. Len(s) = 4 => SumOf(s) = s[1] + s[2] + s[3] + s[4]
    BY <1>1, <1>6
  <1>12. Len(s) = 5 => SumOf(s) = s[1] + s[2] + s[3] + s[4] + s[5]
    BY <1>1, <1>7
  <1> QED BY <1>8, <1>9, <1>10, <1>11, <1>12

(* ByteSizeLong counts every field that _InternalSerialize writes, once.    *)
Counted(C) ==
    /\ \A i \in DOMAIN C.sized : C.sized[i] \in Fields(C)
    /\ \A size \in [Fields(C) -> Nat] :
          SumOf([i \in DOMAIN C.sized |-> size[C.sized[i]]])
            = SumOf([i \in DOMAIN C.serialize |-> size[C.serialize[i][2]]])

(* The sizes of Cursor are counted.                                         *)
LEMMA CursorCounted == Counted(Cursor)
  <1> DEFINE C == Cursor
  <1>0. \A i \in DOMAIN C.sized : C.sized[i] \in Fields(C)
    BY DEF Cursor, MessageClass, Cursor_ByteSizeLong, Cursor_accessors,
           Fields
  <1> SUFFICES ASSUME NEW size \in [Fields(C) -> Nat]
               PROVE  SumOf([i \in DOMAIN C.sized |-> size[C.sized[i]]])
                        = SumOf([i \in DOMAIN C.serialize |-> size[C.serialize[i][2]]])
    BY <1>0 DEF Counted
  <1> DEFINE s == [i \in DOMAIN C.sized |-> size[C.sized[i]]]
             t == [i \in DOMAIN C.serialize |-> size[C.serialize[i][2]]]
  <1>1. /\ size["op"] \in Nat
        /\ size["bucketname"] \in Nat
        /\ size["cursor"] \in Nat
        /\ size["k"] \in Nat
        /\ size["v"] \in Nat
    BY DEF Cursor, MessageClass, Cursor_accessors, Fields
  <1>2. /\ s \in Seq(Nat) /\ Len(s) = 5
        /\ s[1] = size["bucketname"]
        /\ s[2] = size["k"]
        /\ s[3] = size["v"]
        /\ s[4] = size["op"]
        /\ s[5] = size["cursor"]
    BY <1>1 DEF Cursor, MessageClass, Cursor_ByteSizeLong
  <1>3. /\ t \in Seq(Nat) /\ Len(t) = 5
        /\ t[1] = size["op"]
        /\ t[2] = size["bucketname"]
        /\ t[3] = size["cursor"]
        /\ t[4] = size["k"]
        /\ t[5] = size["v"]
    BY <1>1 DEF Cursor, MessageClass, Cursor_Serialize
  <1> HIDE DEF s, t
  <1>4. SumOf(s) = s[1] + s[2] + s[3] + s[4] + s[5]
    BY <1>2, SumOfFew
  <1>5. SumOf(t) = t[1] + t[2] + t[3] + t[4] + t[5]
    BY <1>3, SumOfFew
  <1>6. SumOf(s) = SumOf(t)
    BY SMTT(40), <1>1, <1>2, <1>3, <1>4, <1>5
  <1> QED BY <1>6 DEF s, t

(* The sizes of Pair are counted.                                           *)
LEMMA PairCounted == Counted(Pair)
  <1> DEFINE C == Pair
  <1>0. \A i \in DOMAIN C.sized : C.sized[i] \in Fields(C)
    BY DEF Pair, MessageClass, Pair_ByteSizeLong, Pair_accessors,
           Fields
  <1> SUFFICES ASSUME NEW size \in [Fields(C) -> Nat]
               PROVE  SumOf([i \in DOMAIN C.sized |-> size[C.sized[i]]])
                        = SumOf([i \in DOMAIN C.serialize |-> size[C.serialize[i][2]]])
    BY <1>0 DEF Counted
  <1> DEFINE s == [i \in DOMAIN C.sized |-> size[C.sized[i]]]
             t == [i \in DOMAIN C.serialize |-> size[C.serialize[i][2]]]
  <1>1. /\ size["k"] \in Nat
        /\ size["v"] \in Nat
        /\ size["cursorid"] \in Nat
    BY DEF Pair, MessageClass, Pair_accessors, Fields
  <1>2. /\ s \in Seq(Nat) /\ Len(s) = 3
        /\ s[1] = size["k"]
        /\ s[2] = size["v"]
        /\ s[3] = size["cursorid"]
    BY <1>1 DEF Pair, MessageClass, Pair_ByteSizeLong
  <1>3. /\ t \in Seq(Nat) /\ Len(t) = 3
        /\ t[1] = size["k"]
        /\ t[2] = size["v"]
        /\ t[3] = size["cursorid"]
    BY <1>1 DEF Pair, MessageClass, Pair_Serialize
  <1> HIDE DEF s, t
  <1>4. SumOf(s) = s[1] + s[2] + s[3]
    BY <1>2, SumOfFew
  <1>5. SumOf(t) = t[1] + t[2] + t[3]
    BY <1>3, SumOfFew
  <1>6. SumOf(s) = SumOf(t)
    BY <1>1, <1>2, <1>3, <1>4, <1>5
  <1> QED BY <1>6 DEF s, t

(* The sizes of OutboundMessageData are counted.                            *)
LEMMA OutboundMessageDataCounted == Counted(OutboundMessageData)
  <1> DEFINE C == OutboundMessageData
  <1>0. \A i \in DOMAIN C.sized : C.sized[i] \in Fields(C)
    BY DEF OutboundMessageData, MessageClass, OutboundMessageData_ByteSizeLong,
           OutboundMessageData_accessors,
           Fields
  <1> SUFFICES ASSUME NEW size \in [Fields(C) -> Nat]
               PROVE  SumOf([i \in DOMAIN C.sized |-> size[C.sized[i]]])
                        = SumOf([i \in DOMAIN C.serialize |-> size[C.serialize[i][2]]])
    BY <1>0 DEF Counted
  <1> DEFINE s == [i \in DOMAIN C.sized |-> size[C.sized[i]]]
             t == [i \in DOMAIN C.serialize |-> size[C.serialize[i][2]]]
  <1>1. /\ size["id"] \in Nat
        /\ size["data"] \in Nat
    BY DEF OutboundMessageData, MessageClass, OutboundMessageData_accessors, Fields
  <1>2. /\ s \in Seq(Nat) /\ Len(s) = 2
        /\ s[1] = size["data"]
        /\ s[2] = size["id"]
    BY <1>1 DEF OutboundMessageData, MessageClass, OutboundMessageData_ByteSizeLong
  <1>3. /\ t \in Seq(Nat) /\ Len(t) = 2
        /\ t[1] = size["id"]
        /\ t[2] = size["data"]
    BY <1>1 DEF OutboundMessageData, MessageClass, OutboundMessageData_Serialize
  <1> HIDE DEF s, t
  <1>4. SumOf(s) = s[1] + s[2]
    BY <1>2, SumOfFew
  <1>5. SumOf(t) = t[1] + t[2]
    BY <1>3, SumOfFew
  <1>6. SumOf(s) = SumOf(t)
    BY <1>1, <1>2, <1>3, <1>4, <1>5
  <1> QED BY <1>6 DEF s, t

(* The sizes of SendMessageByMinBlockRequest are counted.                   *)
LEMMA SendMessageByMinBlockRequestCounted == Counted(SendMessageByMinBlockRequest)
  <1> DEFINE C == SendMessageByMinBlockRequest
  <1>0. \A i \in DOMAIN C.sized : C.sized[i] \in Fields(C)
    BY DEF SendMessageByMinBlockRequest, MessageClass,
           SendMessageByMinBlockRequest_ByteSizeLong,
           SendMessageByMinBlockRequest_accessors,
           Fields
  <1> SUFFICES ASSUME NEW size \in [Fields(C) -> Nat]
               PROVE  SumOf([i \in DOMAIN C.sized |-> size[C.sized[i]]])
                        = SumOf([i \in DOMAIN C.serialize |-> size[C.serialize[i][2]]])
    BY <1>0 DEF Counted
  <1> DEFINE s == [i \in DOMAIN C.sized |-> size[C.sized[i]]]
             t == [i \in DOMAIN C.serialize |-> size[C.serialize[i][2]]]
  <1>1. /\ size["data"] \in Nat
        /\ size["min_block"] \in Nat
    BY DEF SendMessageByMinBlockRequest, MessageClass,
           SendMessageByMinBlockRequest_accessors, Fields
  <1>2. /\ s \in Seq(Nat) /\ Len(s) = 2
        /\ s[1] = size["data"]
        /\ s[2] = size["min_block"]
    BY <1>1 DEF SendMessageByMinBlockRequest, MessageClass,
                SendMessageByMinBlockRequest_ByteSizeLong
  <1>3. /\ t \in Seq(Nat) /\ Len(t) = 2
        /\ t[1] = size["data"]
        /\ t[2] = size["min_block"]
    BY <1>1 DEF SendMessageByMinBlockRequest, MessageClass,
                SendMessageByMinBlockRequest_Serialize
  <1> HIDE DEF s, t
  <1>4. SumOf(s) = s[1] + s[2]
    BY <1>2, SumOfFew
  <1>5. SumOf(t) = t[1] + t[2]
    BY <1>3, SumOfFew
  <1>6. SumOf(s) = SumOf(t)
    BY <1>1, <1>2, <1>3, <1>4, <1>5
  <1> QED BY <1>6 DEF s, t

(* The sizes of SendMessageByIdRequest are counted.                         *)
LEMMA SendMessageByIdRequestCounted == Counted(SendMessageByIdRequest)
  <1> DEFINE C == SendMessageByIdRequest
  <1>0. \A i \in DOMAIN C.sized : C.sized[i] \in Fields(C)
    BY DEF SendMessageByIdRequest, MessageClass, SendMessageByIdRequest_ByteSizeLong,
           SendMessageByIdRequest_accessors,
           Fields
  <1> SUFFICES ASSUME NEW size \in [Fields(C) -> Nat]
               PROVE  SumOf([i \in DOMAIN C.sized |-> size[C.sized[i]]])
                        = SumOf([i \in DOMAIN C.serialize |-> size[C.serialize[i][2]]])
    BY <1>0 DEF Counted
  <1> DEFINE s == [i \in DOMAIN C.sized |-> size[C.sized[i]]]
             t == [i \in DOMAIN C.serialize |-> size[C.serialize[i][2]]]
  <1>1. /\ size["data"] \in Nat
        /\ size["peer_id"] \in Nat
    BY DEF SendMessageByIdRequest, MessageClass, SendMessageByIdRequest_accessors, Fields
  <1>2. /\ s \in Seq(Nat) /\ Len(s) = 2
        /\ s[1] = size["peer_id"]
        /\ s[2] = size["data"]
    BY <1>1 DEF SendMessageByIdRequest, MessageClass, SendMessageByIdRequest_ByteSizeLong
  <1>3. /\ t \in Seq(Nat) /\ Len(t) = 2
        /\ t[1] = size["data"]
        /\ t[2] = size["peer_id"]
    BY <1>1 DEF SendMessageByIdRequest, MessageClass, SendMessageByIdRequest_Serialize
  <1> HIDE DEF s, t
  <1>4. SumOf(s) = s[1] + s[2]
    BY <1>2, SumOfFew
  <1>5. SumOf(t) = t[1] + t[2]
    BY <1>3, SumOfFew
  <1>6. SumOf(s) = SumOf(t)
    BY <1>1, <1>2, <1>3, <1>4, <1>5
  <1> QED BY <1>6 DEF s, t

(* The sizes of SendMessageToRandomPeersRequest are counted.                *)
LEMMA SendMessageToRandomPeersRequestCounted == Counted(SendMessageToRandomPeersRequest)
  <1> DEFINE C == SendMessageToRandomPeersRequest
  <1>0. \A i \in DOMAIN C.sized : C.sized[i] \in Fields(C)
    BY DEF SendMessageToRandomPeersRequest, MessageClass,
           SendMessageToRandomPeersRequest_ByteSizeLong,
           SendMessageToRandomPeersRequest_accessors,
           Fields
  <1> SUFFICES ASSUME NEW size \in [Fields(C) -> Nat]
               PROVE  SumOf([i \in DOMAIN C.sized |-> size[C.sized[i]]])
                        = SumOf([i \in DOMAIN C.serialize |-> size[C.serialize[i][2]]])
    BY <1>0 DEF Counted
  <1> DEFINE s == [i \in DOMAIN C.sized |-> size[C.sized[i]]]
             t == [i \in DOMAIN C.serialize |-> size[C.serialize[i][2]]]
  <1>1. /\ size["data"] \in Nat
        /\ size["max_peers"] \in Nat
    BY DEF SendMessageToRandomPeersRequest, MessageClass,
           SendMessageToRandomPeersRequest_accessors, Fields
  <1>2. /\ s \in Seq(Nat) /\ Len(s) = 2
        /\ s[1] = size["data"]
        /\ s[2] = size["max_peers"]
    BY <1>1 DEF SendMessageToRandomPeersRequest, MessageClass,
                SendMessageToRandomPeersRequest_ByteSizeLong
  <1>3. /\ t \in Seq(Nat) /\ Len(t) = 2
        /\ t[1] = size["data"]
        /\ t[2] = size["max_peers"]
    BY <1>1 DEF SendMessageToRandomPeersRequest, MessageClass,
                SendMessageToRandomPeersRequest_Serialize
  <1> HIDE DEF s, t
  <1>4. SumOf(s) = s[1] + s[2]
    BY <1>2, SumOfFew
  <1>5. SumOf(t) = t[1] + t[2]
    BY <1>3, SumOfFew
  <1>6. SumOf(s) = SumOf(t)
    BY <1>1, <1>2, <1>3, <1>4, <1>5
  <1> QED BY <1>6 DEF s, t

(* The sizes of SentPeers are counted.                                      *)
LEMMA SentPeersCounted == Counted(SentPeers)
  <1> DEFINE C == SentPeers
  <1>0. \A i \in DOMAIN C.sized : C.sized[i] \in Fields(C)
    BY DEF SentPeers, MessageClass, SentPeers_ByteSizeLong, SentPeers_accessors,
           Fields
  <1> SUFFICES ASSUME NEW size \in [Fields(C) -> Nat]
               PROVE  SumOf([i \in DOMAIN C.sized |-> size[C.sized[i]]])
                        = SumOf([i \in DOMAIN C.serialize |-> size[C.serialize[i][2]]])
    BY <1>0 DEF Counted
  <1> DEFINE s == [i \in DOMAIN C.sized |-> size[C.sized[i]]]
             t == [i \in DOMAIN C.serialize |-> size[C.serialize[i][2]]]
  <1>1. size["peers"] \in Nat
    BY DEF SentPeers, MessageClass, SentPeers_accessors, Fields
  <1>2. /\ s \in Seq(Nat) /\ Len(s) = 1
        /\ s[1] = size["peers"]
    BY <1>1 DEF SentPeers, MessageClass, SentPeers_ByteSizeLong
  <1>3. /\ t \in Seq(Nat) /\ Len(t) = 1
        /\ t[1] = size["peers"]
    BY <1>1 DEF SentPeers, MessageClass, SentPeers_Serialize
  <1> HIDE DEF s, t
  <1>4. SumOf(s) = s[1]
    BY <1>2, SumOfFew
  <1>5. SumOf(t) = t[1]
    BY <1>3, SumOfFew
  <1>6. SumOf(s) = SumOf(t)
    BY <1>1, <1>2, <1>3, <1>4, <1>5
  <1> QED BY <1>6 DEF s, t

(* The sizes of PenalizePeerRequest are counted.                            *)
LEMMA PenalizePeerRequestCounted == Counted(PenalizePeerRequest)
  <1> DEFINE C == PenalizePeerRequest
  <1>0. \A i \in DOMAIN C.sized : C.sized[i] \in Fields(C)
    BY DEF PenalizePeerRequest, MessageClass, PenalizePeerRequest_ByteSizeLong,
           PenalizePeerRequest_accessors,
           Fields
  <1> SUFFICES ASSUME NEW size \in [Fields(C) -> Nat]
               PROVE  SumOf([i \in DOMAIN C.sized |-> size[C.sized[i]]])
                        = SumOf([i \in DOMAIN C.serialize |-> size[C.serialize[i][2]]])
    BY <1>0 DEF Counted
  <1> DEFINE s == [i \in DOMAIN C.sized |-> size[C.sized[i]]]
             t == [i \in DOMAIN C.serialize |-> size[C.serialize[i][2]]]
  <1>1. /\ size["peer_id"] \in Nat
        /\ size["penalty"] \in Nat
    BY DEF PenalizePeerRequest, MessageClass, PenalizePeerRequest_accessors, Fields
  <1>2. /\ s \in Seq(Nat) /\ Len(s) = 2
        /\ s[1] = size["peer_id"]
        /\ s[2] = size["penalty"]
    BY <1>1 DEF PenalizePeerRequest, MessageClass, PenalizePeerRequest_ByteSizeLong
  <1>3. /\ t \in Seq(Nat) /\ Len(t) = 2
        /\ t[1] = size["peer_id"]
        /\ t[2] = size["penalty"]
    BY <1>1 DEF PenalizePeerRequest, MessageClass, PenalizePeerRequest_Serialize
  <1> HIDE DEF s, t
  <1>4. SumOf(s) = s[1] + s[2]
    BY <1>2, SumOfFew
  <1>5. SumOf(t) = t[1] + t[2]
    BY <1>3, SumOfFew
  <1>6. SumOf(s) = SumOf(t)
    BY <1>1, <1>2, <1>3, <1>4, <1>5
  <1> QED BY <1>6 DEF s, t

(* The sizes of PeerMinBlockRequest are counted.                            *)
LEMMA PeerMinBlockRequestCounted == Counted(PeerMinBlockRequest)
  <1> DEFINE C == PeerMinBlockRequest
  <1>0. \A i \in DOMAIN C.sized : C.sized[i] \in Fields(C)
    BY DEF PeerMinBlockRequest, MessageClass, PeerMinBlockRequest_ByteSizeLong,
           PeerMinBlockRequest_accessors,
           Fields
  <1> SUFFICES ASSUME NEW size \in [Fields(C) -> Nat]
               PROVE  SumOf([i \in DOMAIN C.sized |-> size[C.sized[i]]])
                        = SumOf([i \in DOMAIN C.serialize |-> size[C.serialize[i][2]]])
    BY <1>0 DEF Counted
  <1> DEFINE s == [i \in DOMAIN C.sized |-> size[C.sized[i]]]
             t == [i \in DOMAIN C.serialize |-> size[C.serialize[i][2]]]
  <1>1. /\ size["peer_id"] \in Nat
        /\ size["min_block"] \in Nat
    BY DEF PeerMinBlockRequest, MessageClass, PeerMinBlockRequest_accessors, Fields
  <1>2. /\ s \in Seq(Nat) /\ Len(s) = 2
        /\ s[1] = size["peer_id"]
        /\ s[2] = size["min_block"]
    BY <1>1 DEF PeerMinBlockRequest, MessageClass, PeerMinBlockRequest_ByteSizeLong
  <1>3. /\ t \in Seq(Nat) /\ Len(t) = 2
        /\ t[1] = size["peer_id"]
        /\ t[2] = size["min_block"]
    BY <1>1 DEF PeerMinBlockRequest, MessageClass, PeerMinBlockRequest_Serialize
  <1> HIDE DEF s, t
  <1>4. SumOf(s) = s[1] + s[2]
    BY <1>2, SumOfFew
  <1>5. SumOf(t) = t[1] + t[2]
    BY <1>3, SumOfFew
  <1>6. SumOf(s) = SumOf(t)
    BY <1>1, <1>2, <1>3, <1>4, <1>5
  <1> QED BY <1>6 DEF s, t

(* The sizes of InboundMessage are counted.                                 *)
LEMMA InboundMessageCounted == Counted(InboundMessage)
  <1> DEFINE C == InboundMessage
  <1>0. \A i \in DOMAIN C.sized : C.sized[i] \in Fields(C)
    BY DEF InboundMessage, MessageClass, InboundMessage_ByteSizeLong,
           InboundMessage_accessors,
           Fields
  <1> SUFFICES ASSUME NEW size \in [Fields(C) -> Nat]
               PROVE  SumOf([i \in DOMAIN C.sized |-> size[C.sized[i]]])
                        = SumOf([i \in DOMAIN C.serialize |-> size[C.serialize[i][2]]])
    BY <1>0 DEF Counted
  <1> DEFINE s == [i \in DOMAIN C.sized |-> size[C.sized[i]]]
             t == [i \in DOMAIN C.serialize |-> size[C.serialize[i][2]]]
  <1>1. /\ size["id"] \in Nat
        /\ size["data"] \in Nat
        /\ size["peer_id"] \in Nat
    BY DEF InboundMessage, MessageClass, InboundMessage_accessors, Fields
  <1>2. /\ s \in Seq(Nat) /\ Len(s) = 3
        /\ s[1] = size["data"]
        /\ s[2] = size["peer_id"]
        /\ s[3] = size["id"]
    BY <1>1 DEF InboundMessage, MessageClass, InboundMessage_ByteSizeLong
  <1>3. /\ t \in Seq(Nat) /\ Len(t) = 3
        /\ t[1] = size["id"]
        /\ t[2] = size["data"]
        /\ t[3] = size["peer_id"]
    BY <1>1 DEF InboundMessage, MessageClass, InboundMessage_Serialize
  <1> HIDE DEF s, t
  <1>4. SumOf(s) = s[1] + s[2] + s[3]
    BY <1>2, SumOfFew
  <1>5. SumOf(t) = t[1] + t[2] + t[3]
    BY <1>3, SumOfFew
  <1>6. SumOf(s) = SumOf(t)
    BY <1>1, <1>2, <1>3, <1>4, <1>5
  <1> QED BY <1>6 DEF s, t

(* The sizes of Forks are counted.                                          *)
LEMMA ForksCounted == Counted(Forks)
  <1> DEFINE C == Forks
  <1>0. \A i \in DOMAIN C.sized : C.sized[i] \in Fields(C)
    BY DEF Forks, MessageClass, Forks_ByteSizeLong, Forks_accessors,
           Fields
  <1> SUFFICES ASSUME NEW size \in [Fields(C) -> Nat]
               PROVE  SumOf([i \in DOMAIN C.sized |-> size[C.sized[i]]])
                        = SumOf([i \in DOMAIN C.serialize |-> size[C.serialize[i][2]]])
    BY <1>0 DEF Counted
  <1> DEFINE s == [i \in DOMAIN C.sized |-> size[C.sized[i]]]
             t == [i \in DOMAIN C.serialize |-> size[C.serialize[i][2]]]
  <1>1. /\ size["genesis"] \in Nat
        /\ size["forks"] \in Nat
    BY DEF Forks, MessageClass, Forks_accessors, Fields
  <1>2. /\ s \in Seq(Nat) /\ Len(s) = 2
        /\ s[1] = size["forks"]
        /\ s[2] = size["genesis"]
    BY <1>1 DEF Forks, MessageClass, Forks_ByteSizeLong
  <1>3. /\ t \in Seq(Nat) /\ Len(t) = 2
        /\ t[1] = size["genesis"]
        /\ t[2] = size["forks"]
    BY <1>1 DEF Forks, MessageClass, Forks_Serialize
  <1> HIDE DEF s, t
  <1>4. SumOf(s) = s[1] + s[2]
    BY <1>2, SumOfFew
  <1>5. SumOf(t) = t[1] + t[2]
    BY <1>3, SumOfFew
  <1>6. SumOf(s) = SumOf(t)
    BY <1>1, <1>2, <1>3, <1>4, <1>5
  <1> QED BY <1>6 DEF s, t

(* The sizes of StatusData are counted.                                     *)
LEMMA StatusDataCounted == Counted(StatusData)
  <1> DEFINE C == StatusData
  <1>0. \A i \in DOMAIN C.sized : C.sized[i] \in Fields(C)
    BY DEF StatusData, MessageClass, StatusData_ByteSizeLong, StatusData_accessors,
           Fields
  <1> SUFFICES ASSUME NEW size \in [Fields(C) -> Nat]
               PROVE  SumOf([i \in DOMAIN C.sized |-> size[C.sized[i]]])
                        = SumOf([i \in DOMAIN C.serialize |-> size[C.serialize[i][2]]])
    BY <1>0 DEF Counted
  <1> DEFINE s == [i \in DOMAIN C.sized |-> size[C.sized[i]]]
             t == [i \in DOMAIN C.serialize |-> size[C.serialize[i][2]]]
  <1>1. /\ size["network_id"] \in Nat
        /\ size["total_difficulty"] \in Nat
        /\ size["best_hash"] \in Nat
        /\ size["fork_data"] \in Nat
    BY DEF StatusData, MessageClass, StatusData_accessors, Fields
  <1>2. /\ s \in Seq(Nat) /\ Len(s) = 4
        /\ s[1] = size["total_difficulty"]
        /\ s[2] = size["best_hash"]
        /\ s[3] = size["fork_data"]
        /\ s[4] = size["network_id"]
    BY <1>1 DEF StatusData, MessageClass, StatusData_ByteSizeLong
  <1>3. /\ t \in Seq(Nat) /\ Len(t) = 4
        /\ t[1] = size["network_id"]
        /\ t[2] = size["total_difficulty"]
        /\ t[3] = size["best_hash"]
        /\ t[4] = size["fork_data"]
    BY <1>1 DEF StatusData, MessageClass, StatusData_Serialize
  <1> HIDE DEF s, t
  <1>4. SumOf(s) = s[1] + s[2] + s[3] + s[4]
    BY <1>2, SumOfFew
  <1>5. SumOf(t) = t[1] + t[2] + t[3] + t[4]
    BY <1>3, SumOfFew
  <1>6. SumOf(s) = SumOf(t)
    BY <1>1, <1>2, <1>3, <1>4, <1>5
  <1> QED BY <1>6 DEF s, t

(* Every class counts its fields.                                           *)
LEMMA AllCounted == ASSUME NEW c \in DOMAIN Classes PROVE Counted(Classes[c])
  <1>1. c \in {"Cursor", "Pair", "OutboundMessageData", "SendMessageByMinBlockRequest",
               "SendMessageByIdRequest", "SendMessageToRandomPeersRequest", "SentPeers",
               "PenalizePeerRequest", "PeerMinBlockRequest", "InboundMessage", "Forks",
               "StatusData"}
    BY DEF Classes
  <1>2. CASE c = "Cursor"
    BY <1>2, CursorCounted DEF Classes
  <1>3. CASE c = "Pair"
    BY <1>3, PairCounted DEF Classes
  <1>4. CASE c = "OutboundMessageData"
    BY <1>4, OutboundMessageDataCounted DEF Classes
  <1>5. CASE c = "SendMessageByMinBlockRequest"
    BY <1>5, SendMessageByMinBlockRequestCounted DEF Classes
  <1>6. CASE c = "SendMessageByIdRequest"
    BY <1>6, SendMessageByIdRequestCounted DEF Classes
  <1>7. CASE c = "SendMessageToRandomPeersRequest"
    BY <1>7, SendMessageToRandomPeersRequestCounted DEF Classes
  <1>8. CASE c = "SentPeers"
    BY <1>8, SentPeersCounted DEF Classes
  <1>9. CASE c = "PenalizePeerRequest"
    BY <1>9, PenalizePeerRequestCounted DEF Classes
  <1>10. CASE c = "PeerMinBlockRequest"
    BY <1>10, PeerMinBlockRequestCounted DEF Classes
  <1>11. CASE c = "InboundMessage"
    BY <1>11, InboundMessageCounted DEF Classes
  <1>12. CASE c = "Forks"
    BY <1>12, ForksCounted DEF Classes
  <1>13. CASE c = "StatusData"
    BY <1>13, StatusDataCounted DEF Classes
  <1> QED BY <1>1, <1>2, <1>3, <1>4, <1>5, <1>6, <1>7, <1>8, <1>9, <1>10, <1>11, <1>12, <1>13

(* The unknown fields kept have sizes.                                      *)
LEMMA UnknownMeasured == ASSUME NEW C, NEW u \in Seq({NewField}) PROVE Measured(C, u)
  <1>1. TokenSize(NewField) \in Nat /\ NewField.shape \in PlainShapes
    <2>1. TokenSize(Token(8 * 15, "varint", 1)) = 1 + VarintSize(1)
      BY TokenSizeIs
    <2>2. Token(8 * 15, "varint", 1).shape \in PlainShapes
      BY TokenSizeIs
    <2>3. VarintSize(1) \in Nat
      BY VarintSizeTyped
    <2> QED BY <2>1, <2>2, <2>3 DEF NewField
  <1>2. \A i \in 1 .. Len(u) : u[i] = NewField
    OBVIOUS
  <1>3. IsSeq(u)
    BY DEF IsSeq
  <1> QED BY <1>1, <1>2, <1>3 DEF Measured

(* ByteSizeLong is the size of what _InternalSerialize writes, if it is of  *)
(* submessages;                                                             *)
LEMMA SerializedSize ==
    ASSUME NEW C, Sound(C), Counted(C), NEW o, Object(C, o), Flat(C) \/ SubmessagesSized
    PROVE  /\ Measured(C, Serialize(C, o))
           /\ WireSize(Serialize(C, o)) = ByteSizeLong(C, o)
           /\ ByteSizeLong(C, o) \in Nat
  <1> DEFINE n == Len(C.serialize)
             f(i) == C.serialize[i][2]
             pieces == PlainPieces(C, o)
             flat == FlattenSeq(pieces)
             size == [g \in Fields(C) |-> SizeOf(C.accessors[g], o.fields[g])]
             written == [i \in DOMAIN C.serialize |-> size[C.serialize[i][2]]]
             counted == [i \in DOMAIN C.sized |-> size[C.sized[i]]]
  <1>1. /\ n \in Nat \ {0} /\ DOMAIN C.serialize = 1 .. n
        /\ \A i \in 1 .. n : f(i) \in Fields(C) /\ C.serialize[i][1] \in Nat
    BY Entries
  <1>2. \A g \in Fields(C) : /\ C.accessors[g] \in Kinds /\ HasKind(C.accessors[g], o.fields[g])
                             /\ Flat(C) => C.accessors[g] \notin Submessages
    BY DEF Sound, Object, Flat
  <1> HIDE DEF n
  <1>3. /\ DOMAIN pieces = 1 .. n
        /\ \A i \in 1 .. n :
              pieces[i] = WrittenField(C.accessors[f(i)], C.serialize[i][1], o.fields[f(i)])
    BY <1>1, Zenon DEF PlainPieces, Pieces
  <1>4. ASSUME NEW i \in 1 .. n
        PROVE  Measured(C, pieces[i]) /\ WireSize(pieces[i]) = size[f(i)]
    <2> DEFINE g == f(i)
               number == C.serialize[i][1]
    <2>1. g \in Fields(C) /\ number \in Nat
      BY <1>1
    <2>2. pieces[i] = WrittenField(C.accessors[g], number, o.fields[g])
      BY <1>3
    <2>3. size[g] = SizeOf(C.accessors[g], o.fields[g])
      BY <2>1
    <2> HIDE DEF g, number, pieces, size
    <2>4. /\ Measured(C, WrittenField(C.accessors[g], number, o.fields[g]))
          /\ WireSize(WrittenField(C.accessors[g], number, o.fields[g]))
               = SizeOf(C.accessors[g], o.fields[g])
      BY <1>2, <2>1, WrittenSize
    <2> QED BY <2>2, <2>3, <2>4 DEF g
  <1>5. IsSeq(pieces) /\ Len(pieces) = n
    <2> DEFINE T == {pieces[i] : i \in 1 .. n}
    <2>1. pieces = [i \in 1 .. n |-> pieces[i]]
      BY <1>1, Zenon DEF PlainPieces, Pieces
    <2> HIDE DEF pieces
    <2>2. pieces \in [1 .. n -> T]
      BY <2>1
    <2> HIDE DEF T
    <2>3. n \in Nat
      BY <1>1
    <2> QED BY <2>2, <2>3, FunctionIsSeq DEF IsSeq
  <1> HIDE DEF pieces
  <1>6. /\ Measured(C, flat)
        /\ WireSize(flat) = SumOf(PieceSizes(pieces))
    <2>1. n \in Nat \ {0} /\ DOMAIN pieces = 1 .. n /\ Len(pieces) = n /\ IsSeq(pieces)
      BY <1>1, <1>3, <1>5
    <2>2. \A i \in 1 .. n : Measured(C, pieces[i])
      BY <1>4
    <2> QED BY <2>1, <2>2, FlattenMeasured
  <1>7. PieceSizes(pieces) = written
    <2> HIDE DEF size
    <2> QED BY <1>1, <1>3, <1>4 DEF PieceSizes
  <1>8. SumOf(counted) = SumOf(written)
    <2>1. \A g \in Fields(C) : size[g] \in Nat
      <3> TAKE g \in Fields(C)
      <3>1. PICK i \in 1 .. n : f(i) = g
        BY <1>1 DEF Sound
      <3> HIDE DEF size
      <3>2. Measured(C, pieces[i]) /\ WireSize(pieces[i]) = size[g]
        BY <1>4, <3>1
      <3> QED BY <3>2, WireSizeSums
    <2>2. size \in [Fields(C) -> Nat]
      <3>1. size = [g \in Fields(C) |-> size[g]]
        OBVIOUS
      <3> HIDE DEF size
      <3> QED BY <2>1, <3>1
    <2> HIDE DEF size
    <2> QED BY <2>2 DEF Counted
  <1>9. counted = [i \in DOMAIN C.sized |->
                     FieldSize(SizeFlat, C.accessors[C.sized[i]], o.fields[C.sized[i]])]
    <2>1. \A i \in DOMAIN C.sized : C.sized[i] \in Fields(C)
      BY DEF Counted
    <2> QED BY <2>1, Zenon DEF SizeOf
  <1>10. ByteSizeLong(C, o) = SumOf(counted) + WireSize(o.unknown)
    BY <1>9, Zenon DEF ByteSizeLong, SizeBy
  <1> HIDE DEF flat, counted, written, size
  <1>11. Measured(C, o.unknown)
    BY UnknownMeasured DEF Object, IsRecord
  <1>12. Serialize(C, o) = flat \o o.unknown
    BY Zenon DEF Serialize, PlainPieces, flat, pieces
  <1>13. /\ Measured(C, flat \o o.unknown)
         /\ WireSize(flat \o o.unknown) = WireSize(flat) + WireSize(o.unknown)
         /\ WireSize(flat \o o.unknown) \in Nat
    <2>1. Measured(C, flat \o o.unknown) /\ WireSize(flat \o o.unknown) = WireSize(flat) + WireSize(o.unknown)
      BY <1>6, <1>11, MeasuredConcat
    <2> QED BY <2>1, WireSizeSums
  <1> QED BY <1>6, <1>7, <1>8, <1>10, <1>12, <1>13

(* which are sized as every object of their class is.                       *)
LEMMA EverySubmessageSized == SubmessagesSized
  <1> SUFFICES ASSUME NEW kind \in Submessages, NEW m, FlatObject(Classes[kind], m)
               PROVE  /\ SizeFlat(Classes[kind], m) \in Nat
                      /\ WireSizeFlat(SerializeFlat(Classes[kind], m)) = SizeFlat(Classes[kind], m)
    BY DEF SubmessagesSized
  <1> DEFINE C == Classes[kind]
             w == Serialize(C, m)
  <1>1. Sound(C) /\ Flat(C) /\ Counted(C)
    BY SubmessagesFlat, AllCounted
  <1> HIDE DEF C
  <1>2. Object(C, m)
    BY <1>1, FlatIsObject DEF C
  <1>3. Measured(C, w) /\ WireSize(w) = ByteSizeLong(C, m) /\ ByteSizeLong(C, m) \in Nat
    BY <1>1, <1>2, SerializedSize
  <1>4. SerializeFlat(C, m) = w
    BY <1>1, FlatSerialize
  <1> HIDE DEF w
  <1>5. WireSizeFlat(w) = WireSize(w)
    <2>1. DOMAIN w = 1 .. Len(w)
      BY <1>3 DEF Measured, IsSeq
    <2>2. \A i \in DOMAIN w : w[i].shape \in PlainShapes
      BY <1>1, <1>3, <2>1 DEF Measured
    <2>3. \A i \in DOMAIN w : TokenSizeFlat(w[i]) = TokenSize(w[i])
      BY <2>2, Zenon DEF TokenSizeFlat, TokenSize, TokenSizeBy, PlainShapes
    <2>4. [i \in DOMAIN w |-> TokenSizeFlat(w[i])] = [i \in DOMAIN w |-> TokenSize(w[i])]
      BY <2>3
    <2> QED BY <2>4, Zenon DEF WireSizeFlat, WireSize
  <1>6. SizeFlat(C, m) = ByteSizeLong(C, m)
    <2>1. \A i \in DOMAIN C.sized : C.accessors[C.sized[i]] \notin Submessages
      BY <1>1 DEF Flat, Counted
    <2>2. \A i \in DOMAIN C.sized :
            FieldSize(None, C.accessors[C.sized[i]], m.fields[C.sized[i]])
              = FieldSize(SizeFlat, C.accessors[C.sized[i]], m.fields[C.sized[i]])
      BY <2>1, Zenon DEF FieldSize
    <2>3. [i \in DOMAIN C.sized |-> FieldSize(None, C.accessors[C.sized[i]], m.fields[C.sized[i]])]
            = [i \in DOMAIN C.sized |-> FieldSize(SizeFlat, C.accessors[C.sized[i]], m.fields[C.sized[i]])]
      BY <2>2, Zenon
    <2> QED BY <2>3, Zenon DEF SizeFlat, ByteSizeLong, SizeBy
  <1> QED BY <1>3, <1>4, <1>5, <1>6 DEF C

(* ByteSizeLong, which sizes the buffer, gives the size of what             *)
(* _InternalSerialize then writes into it without looking.                  *)
THEOREM SizesExactProved == Spec => []SizesExact
  <1>1. IInv => SizesExact
    <2> SUFFICES ASSUME IInv, NEW i \in Objects
                 PROVE  ByteSizeLong(TheClass, msg[i]) = WireSize(Serialize(TheClass, msg[i]))
      BY DEF SizesExact
    <2>1. Sound(TheClass) /\ Counted(TheClass) /\ Object(TheClass, msg[i])
      BY AllSound, AllCounted DEF IInv, TheClass
    <2> QED BY <2>1, SerializedSize, EverySubmessageSized
  <1> QED BY <1>1, ProtoTypeOK, PTL
==============================================================================
