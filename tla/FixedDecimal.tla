---------------------------- MODULE FixedDecimal ----------------------------
(***************************************************************************)
(* FixedDecimalValue (DataValue.hpp), the value of a fixed decimal column: *)
(* an integer of two unsigned words in two's complement, and its digits    *)
(* packed in 16 bits.  The code compares the words.                        *)
(***************************************************************************)
EXTENDS Integers

CONSTANT Word   \* values of a word: 2^64

Words  == 0 .. Word - 1
Values == [hi : Words, lo : Words]

Signed(hi) == IF 2 * hi < Word THEN hi ELSE hi - Word   \* (long long) hi

Less(x, y) == Signed(x.hi) < Signed(y.hi) \/ (x.hi = y.hi /\ x.lo < y.lo)

Equal(x, y)        == x.hi = y.hi /\ x.lo = y.lo
Greater(x, y)      == Less(y, x)
LessEqual(x, y)    == ~Less(y, x)
GreaterEqual(x, y) == ~Less(x, y)
NotEqual(x, y)     == x.hi # y.hi \/ x.lo # y.lo
IsZero(x)          == x.hi = 0 /\ x.lo = 0

(* setDigits(): (int << 8) | fract, cut to the 16 bits of itsDigits.  The  *)
(* OR is a sum as long as the fraction's digits fit the low byte.          *)
Byte == 256
SetDigits(int, fract)  == (int * Byte + fract) % (Byte * Byte)
GetIntDigits(digits)   == digits \div Byte
GetFractDigits(digits) == digits % Byte

(* The integer a value stands for. *)
IntOf(x) == Signed(x.hi) * Word + x.lo

EvenWord == Word \in Nat /\ Word >= 2 /\ Word % 2 = 0
=============================================================================
