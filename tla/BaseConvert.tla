----------------------------- MODULE BaseConvert -----------------------------
(***************************************************************************)
(* The conversion of a SHA-1 between the 31 digits of base 36 that the     *)
(* wiki sends and the 20 bytes that the dump holds.  A number is a sequence *)
(* of digits, the most significant first.                                  *)
(***************************************************************************)
EXTENDS Integers, Sequences, SequencesExt

CONSTANTS
    TextBase, TextLength,   \* 36 and 31
    RawBase, RawLength      \* 256 and 20

ASSUME BaseAssumption ==
    /\ TextBase \in Nat \ {0, 1} /\ RawBase \in Nat \ {0, 1}
    /\ TextLength \in Nat /\ RawLength \in Nat

\* One pass over the digits divides the number by dest: the quotient, without
\* leading zeros, and the remainder.
DividePass(digits, source, dest) ==
    FoldLeft(LAMBDA acc, digit :
                LET work == acc.rest * source + digit
                IN  [rest |-> work % dest,
                     quotient |-> IF acc.quotient # <<>> \/ work >= dest
                                    THEN Append(acc.quotient, work \div dest)
                                    ELSE acc.quotient],
             [rest |-> 0, quotient |-> <<>>], digits)

\* The remainders come lowest first, zeros fill up the rest, and the whole is
\* turned round.
Pad(found, pad) ==
    Reverse(found \o [i \in 1 .. (IF pad > Len(found) THEN pad - Len(found) ELSE 0) |-> 0])

\* baseConvert: passes until nothing is left of the number, which takes no
\* more of them than the number has bits.
Convert(digits, source, dest, pad) ==
    LET passes[n \in 0 .. Len(digits) * source] ==
            IF n = 0 THEN [left |-> digits, found |-> <<>>]
            ELSE LET before == passes[n - 1]
                     pass == DividePass(before.left, source, dest)
                 IN  IF before.left = <<>> THEN before
                     ELSE [left |-> pass.quotient,
                           found |-> Append(before.found, pass.rest)]
    IN  Pad(passes[Len(digits) * source].found, pad)

\* "if (result.length() != rawSha1Length) throw": a number of TextLength
\* digits can be too large.
Fits(digits) == Len(Convert(digits, TextBase, RawBase, RawLength)) = RawLength

\* convertFromBase36: the bytes of the file, the lowest first.
ToRaw(digits) == Reverse(Convert(digits, TextBase, RawBase, RawLength))

\* convertToBase36.
FromRaw(bytes) == Convert(Reverse(bytes), RawBase, TextBase, TextLength)
==============================================================================
