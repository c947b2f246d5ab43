-------------------------------- MODULE Fold --------------------------------
(***************************************************************************)
(* Fold (src/opt/fold.go), on integers: the value of an operation whose    *)
(* operands are constants.  All of it is computed on 64 bits; for class w  *)
(* the result is cut to its lower half, the operands are not.              *)
(***************************************************************************)
EXTENDS Arithmetic

\* Definitions marked "mutant" are slips the properties must catch; no other
\* definition uses them.

NoFold == -1                                  \* Fold returns false

Truncated(a, b) ==                            \* a / b of Go, for b # 0
  LET q == Magnitude(a) \div Magnitude(b)
  IN  IF (a < 0) = (b < 0) THEN q ELSE -q

Folded(op, l, r) ==                           \* res, before it is cut
  LET n == Bits(TRUE)
      a == Signed(l, n)
      b == Signed(r, n)
      s == r % n                              \* uint(r) & 63
  IN  CASE op = "add"  -> a + b
        [] op = "sub"  -> a - b
        [] op = "neg"  -> -a
        [] op = "mul"  -> a * b
        [] op = "div"  -> Truncated(a, b)
        [] op = "rem"  -> a - b * Truncated(a, b)
        [] op = "udiv" -> l \div r
        [] op = "urem" -> l % r
        [] op = "and"  -> FromDigits(Digits(l, n) \cap Digits(r, n))
        [] op = "or"   -> FromDigits(Digits(l, n) \cup Digits(r, n))
        [] op = "xor"  -> l + r - 2 * FromDigits(Digits(l, n) \cap Digits(r, n))
        [] op = "shl"  -> l * 2^s
        [] op = "shr"  -> l \div 2^s
        [] op = "sar"  -> a \div 2^s
        [] op = "ceq"  -> IF l = r THEN 1 ELSE 0
        [] op = "cne"  -> IF l # r THEN 1 ELSE 0

FoldInt_Uncut(op, wide, l, r) ==                          \* mutant
  IF op \notin IntOps \/ (op \in Divisions /\ r = 0) THEN NoFold
  ELSE Wrap(Folded(op, l, r), Bits(TRUE))

FoldInt(op, wide, l, r) ==
  IF op \notin IntOps \/ (op \in Divisions /\ r = 0) THEN NoFold
  ELSE Wrap(Folded(op, l, r), Bits(wide))

-----------------------------------------------------------------------------
(***************************************************************************)
(* The operands for which Fold is right: in class l all of them, wrap-     *)
(* around, the least negative number and shifts by more than the width     *)
(* included.  In class w it is right whatever the upper halves of the      *)
(* constants hold where the lower half of a result depends on lower halves *)
(* only; the other operations need operands that are of class w, the       *)
(* signed ones operands that are not negative in it, and shifts amounts    *)
(* less than its width.                                                    *)
(***************************************************************************)
LowerHalf == {"add", "sub", "neg", "mul", "and", "or", "xor", "shl"}
SignedOps == {"div", "rem", "sar"}

Fits(op, wide, l, r) ==
  wide \/
    /\ op \in {"shl", "shr", "sar"} => r < Bits(FALSE)
    /\ op \notin LowerHalf =>
         {l, r} \subseteq Values(IF op \in SignedOps THEN Bits(FALSE) - 1 ELSE Bits(FALSE))
=============================================================================
