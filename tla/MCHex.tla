-------------------------------- MODULE MCHex --------------------------------
(***************************************************************************)
(* The model-checking instance of Hex: the texts of up to MaxLength chars, *)
(* from the chars at the borders of the digits and letters ("0", "9", ":", *)
(* "@", "A", "F", "G", "X", "`", "a", "f", "g", "x"), and a negative one.  *)
(***************************************************************************)
EXTENDS Hex

CONSTANT MaxLength

Chars == {-48, 47, 48, 57, 58, 64, 65, 70, 71, 88, 96, 97, 102, 103, 120}

UpTo(n, S) == UNION {[1 .. k -> S] : k \in 0 .. n}

MCTexts == UpTo(MaxLength, Chars)
MCShown == UpTo(2, {-128, -112, -1, 0, 9, 10, 15, 16, 48, 120, 127})
=============================================================================
