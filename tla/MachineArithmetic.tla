-------------------------- MODULE MachineArithmetic --------------------------
(* Integers of the widths the compiler knows, and what an operation of the IR *)
(* means on them.  A size is a number of bytes, as DataLayout::getSize gives  *)
(* it; Bits says how many bits the instance gives to it, so that TLC can take *)
(* every value of a width.  A number is kept as a natural below 2^Bits[size]. *)
(* A float is <<h>>, the number of halves h, or NaN.                          *)
EXTENDS Integers, Sequences, Bitwise

CONSTANT Bits

ASSUME BitsAssumption ==
    /\ Bits \in [{1, 2, 4, 8} -> Nat \ {0}]
    /\ Bits[1] < Bits[2] /\ Bits[2] < Bits[4] /\ Bits[4] < Bits[8]

Sizes == {1, 2, 4, 8}
NaN == <<>>

Mod(v, s) == v % 2 ^ Bits[s]
Signed(v, s) == IF v >= 2 ^ (Bits[s] - 1) THEN v - 2 ^ Bits[s] ELSE v

\* What is between -2^(Bits-1) and 2^(Bits-1)-1: what a signed immediate of s bytes holds
FitsSigned(v, s) == v \in -(2 ^ (Bits[s] - 1)) .. 2 ^ (Bits[s] - 1) - 1

\* C++ division truncates towards zero, TLA+ division does not
Quotient(a, b) ==
    LET abs(x) == IF x < 0 THEN -x ELSE x
        q == abs(a) \div abs(b)
    IN  IF (a < 0) = (b < 0) THEN q ELSE -q
Remainder(a, b) == a - b * Quotient(a, b)
\* Halves to the integer below in magnitude, and to the nearest one (ties to even)
Truncated(h) == Quotient(h, 2)
Rounded(h) == IF h % 2 = 0 THEN h \div 2
              ELSE LET low == (h - 1) \div 2 IN IF low % 2 = 0 THEN low ELSE low + 1

Binary == {"Add", "Sub", "IMul", "UMul", "IDiv", "UDiv", "IRem", "URem",
           "ShiftLeft", "LShiftRight", "AShiftRight", "And", "Or", "Xor"}
Compares == {"ICmpEq", "ICmpNe", "ICmpGt", "ICmpGe", "ICmpLt", "ICmpLe",
             "UCmpGt", "UCmpGe", "UCmpLt", "UCmpLe"}
FCompares == {"FCmpEq", "FCmpNe", "FCmpGt", "FCmpGe", "FCmpLt", "FCmpLe"}

\* The result of a binary operation of s bytes on the naturals a and b
BinaryMeaning(k, s, a, b) ==
    Mod(CASE k = "Add" -> a + b
          [] k = "Sub" -> a - b
          [] k \in {"IMul", "UMul"} -> a * b
          [] k = "IDiv" -> Quotient(Signed(a, s), Signed(b, s))
          [] k = "IRem" -> Remainder(Signed(a, s), Signed(b, s))
          [] k = "UDiv" -> a \div b
          [] k = "URem" -> a % b
          [] k = "ShiftLeft" -> a * 2 ^ b
          [] k = "LShiftRight" -> a \div 2 ^ b
          [] k = "AShiftRight" -> Signed(a, s) \div 2 ^ b
          [] k = "And" -> a & b
          [] k = "Or" -> a | b
          [] k = "Xor" -> a ^^ b, s)

\* Inputs for which the operation has a meaning at all
Defined(k, s, a, b) ==
    /\ k \in {"IDiv", "UDiv", "IRem", "URem"} => b # 0
    /\ k \in {"IDiv", "IRem"} => FitsSigned(Quotient(Signed(a, s), Signed(b, s)), s)
    /\ k \in {"ShiftLeft", "LShiftRight", "AShiftRight"} => b < Bits[s]

Relation(k, a, b) ==
    CASE k \in {"ICmpEq", "FCmpEq"} -> a = b
      [] k \in {"ICmpNe", "FCmpNe"} -> a # b
      [] k \in {"ICmpGt", "UCmpGt", "FCmpGt"} -> a > b
      [] k \in {"ICmpGe", "UCmpGe", "FCmpGe"} -> a >= b
      [] k \in {"ICmpLt", "UCmpLt", "FCmpLt"} -> a < b
      [] k \in {"ICmpLe", "UCmpLe", "FCmpLe"} -> a <= b

CompareMeaning(k, s, a, b) ==
    CASE k \in {"UCmpGt", "UCmpGe", "UCmpLt", "UCmpLe", "ICmpEq", "ICmpNe"} -> Relation(k, a, b)
      [] k \in {"ICmpGt", "ICmpGe", "ICmpLt", "ICmpLe"} -> Relation(k, Signed(a, s), Signed(b, s))
      [] k \in FCompares -> IF NaN \in {a, b} THEN k = "FCmpNe" ELSE Relation(k, a[1], b[1])

Truth(b) == IF b THEN 1 ELSE 0
==============================================================================
