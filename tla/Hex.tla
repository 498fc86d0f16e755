-------------------------------- MODULE Hex --------------------------------
(***************************************************************************)
(* src/silkoroutine/common/util.{hpp,cpp}: from_hex, one round of its loop *)
(* at a time, and operator<< of bytes.  A char is its code, -128 .. 127; a *)
(* text is either typed in (the --seekkey of the tools) or is what         *)
(* operator<< printed of some other string (the replies they show).        *)
(***************************************************************************)
EXTENDS Integers, Sequences

CONSTANTS Texts,        \* bound: the texts typed in
          Shown       \* bound: the strings whose print is parsed

Char == -128 .. 127
Byte == 0 .. 255

ASSUME HexAssumption == Texts \subseteq Seq(Char) /\ Shown \subseteq Seq(Char)

NoDigit == 16

\* Mutant: F is left out.
decode_hex_digit_NoF(ch) ==
    CASE ch \in 48 .. 57 -> ch - 48
      [] ch \in 97 .. 102 -> ch - 97 + 10
      [] ch \in 65 .. 69 -> ch - 65 + 10
      [] OTHER -> NoDigit

\* '0' is 48, '9' 57, 'a' 97, 'f' 102, 'A' 65, 'F' 70.
decode_hex_digit(ch) ==
    CASE ch \in 48 .. 57 -> ch - 48
      [] ch \in 97 .. 102 -> ch - 97 + 10
      [] ch \in 65 .. 70 -> ch - 65 + 10
      [] OTHER -> NoDigit

\* std::hex prints lower case.
HexChar(d) == IF d < 10 THEN 48 + d ELSE 97 + d - 10

byte_view_of_string(s) == [k \in 1 .. Len(s) |-> s[k] % 256]

\* Mutant: small bytes are not filled up to two digits.
HexOf_NoFill(bytes) ==
    LET Digits(b) == IF b < 16 THEN <<HexChar(b)>> ELSE <<HexChar(b \div 16), HexChar(b % 16)>>
        From[k \in 0 .. Len(bytes)] ==
            IF k = 0 THEN <<>> ELSE From[k - 1] \o Digits(bytes[k])
    IN  From[Len(bytes)]

\* operator<<: setw(2), setfill('0').
HexOf(bytes) ==
    [k \in 1 .. 2 * Len(bytes) |->
        LET b == bytes[(k + 1) \div 2]
        IN  HexChar(IF k % 2 = 1 THEN b \div 16 ELSE b % 16)]

VARIABLES arg,     \* the argument of from_hex
          origin,   \* the string it is the print of, if printed
          printed,
          pc,       \* "prefix", "length", "loop", "done", "nullopt"
          hex,      \* the text from_hex still looks at
          pos,        \* the loop's counter
          carry,
          out

hexVars == <<arg, origin, printed, pc, hex, pos, carry, out>>

HexTypeOK ==
    /\ arg \in Seq(Char)
    /\ origin \in Seq(Char)
    /\ printed \in BOOLEAN
    /\ pc \in {"prefix", "length", "loop", "done", "nullopt"}
    /\ hex \in Seq(Char)
    /\ pos \in 0 .. Len(hex)
    /\ carry \in Byte
    /\ out \in Seq(Byte)

HexInit ==
    /\ \/ printed = FALSE /\ arg \in Texts /\ origin = <<>>
       \/ /\ printed = TRUE /\ origin \in Shown
          /\ arg = HexOf(byte_view_of_string(origin))
    /\ pc = "prefix" /\ hex = arg
    /\ pos = 0 /\ carry = 0 /\ out = <<>>

\* "0x" or "0X".
HasPrefix(t) == Len(t) >= 2 /\ t[1] = 48 /\ t[2] \in {120, 88}

RemovePrefix ==
    /\ pc = "prefix"
    /\ hex' = IF HasPrefix(arg) THEN SubSeq(arg, 3, Len(arg)) ELSE arg
    /\ pc' = "length"
    /\ UNCHANGED <<arg, origin, printed, pos, carry, out>>

CheckLength ==
    /\ pc = "length"
    /\ pc' = IF Len(hex) % 2 # 0 THEN "nullopt" ELSE "loop"
    /\ UNCHANGED <<arg, origin, printed, hex, pos, carry, out>>

\* One round: the first digit of a byte is kept, the second completes it.
\* (carry is a multiple of 16, so that carry | v is their sum.)
Digit ==
    /\ pc = "loop" /\ pos < Len(hex)
    /\ LET v == decode_hex_digit(hex[pos + 1])
       IN  IF v = NoDigit
           THEN /\ pc' = "nullopt"
                /\ UNCHANGED <<pos, carry, out>>
           ELSE /\ IF pos % 2 = 0
                   THEN carry' = v * 16 /\ UNCHANGED out
                   ELSE out' = Append(out, (carry + v) % 256) /\ UNCHANGED carry
                /\ pos' = pos + 1
                /\ UNCHANGED pc
    /\ UNCHANGED <<arg, origin, printed, hex>>

Return ==
    /\ pc = "loop" /\ pos = Len(hex)
    /\ pc' = "done"
    /\ UNCHANGED <<arg, origin, printed, hex, pos, carry, out>>

HexNext == RemovePrefix \/ CheckLength \/ Digit \/ Return

HexSpec == HexInit /\ [][HexNext]_hexVars

-----------------------------------------------------------------------------
(* Properties.                                                              *)

\* The reference: what a hexadecimal text is, and the bytes it stands for.
Rest(t) == IF HasPrefix(t) THEN SubSeq(t, 3, Len(t)) ELSE t
IsDigit(ch) == ch \in (48 .. 57) \cup (65 .. 70) \cup (97 .. 102)
IsHex(t) == Len(t) % 2 = 0 /\ \A k \in 1 .. Len(t) : IsDigit(t[k])
SameLetter(a, b) == a = b \/ (a \in 65 .. 70 /\ b = a + 32)

\* from_hex takes exactly the texts that are hexadecimal, with or without prefix,
\* and gives bytes whose print is the text again, but for the case of letters.
Decodes ==
    /\ pc = "nullopt" => ~IsHex(Rest(arg))
    /\ pc = "done" => /\ IsHex(Rest(arg))
                      /\ 2 * Len(out) = Len(Rest(arg))
                      /\ \A k \in 1 .. Len(Rest(arg)) :
                            SameLetter(Rest(arg)[k], HexOf(out)[k])

\* What operator<< prints of any string, chars below 0 included, from_hex reads
\* back: the replies a tool prints can be given to it as keys.
ReadsBack == printed /\ pc \in {"done", "nullopt"} =>
    pc = "done" /\ out = byte_view_of_string(origin)

\* The loop invariant.
HexInv ==
    /\ HexTypeOK
    /\ pc = "prefix" => hex = arg
    /\ pc # "prefix" => hex = Rest(arg)
    /\ pc \in {"prefix", "length"} => pos = 0
    /\ pc \in {"loop", "done"} => Len(hex) % 2 = 0
    /\ pc = "done" => pos = Len(hex)
    /\ pc = "nullopt" => ~IsHex(hex)
    /\ \A k \in 1 .. pos : decode_hex_digit(hex[k]) # NoDigit
    /\ pos % 2 = 1 => carry = 16 * decode_hex_digit(hex[pos])
    /\ Len(out) = pos \div 2
    /\ \A k \in 1 .. Len(out) :
          out[k] = 16 * decode_hex_digit(hex[2 * k - 1]) + decode_hex_digit(hex[2 * k])
=============================================================================
