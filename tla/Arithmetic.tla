----------------------------- MODULE Arithmetic -----------------------------
(***************************************************************************)
(* Integers of the two classes, w and l, and what the machine computes on  *)
(* them: the instructions that the emitter prints for an operation         *)
(* (src/arch/arm64/emit.go), on w registers or on x registers.  A value is *)
(* a number below 2^64; 4 bits stand for 64 here and 2 for 32.             *)
(*                                                                         *)
(* Exact is the reference that constant folding is compared with, so it    *)
(* says what a result is, digit by digit or by the equation it solves,     *)
(* and not how to compute it.                                              *)
(***************************************************************************)
EXTENDS QbeIR
LOCAL INSTANCE FiniteSetsExt

Bits(wide) == IF wide THEN 4 ELSE 2         \* 64 and 32

Values(n) == 0 .. 2^n - 1

Wrap(v, n)   == v % 2^n
Signed(v, n) == IF v < 2^(n - 1) THEN v ELSE v - 2^n

Digits(v, n) == {i \in 0 .. n - 1 : (v \div 2^i) % 2 = 1}
FromDigits(S)    == MapThenSumSet(LAMBDA i : 2^i, S)

Magnitude(v) == IF v < 0 THEN -v ELSE v

\* The quotient that is rounded towards zero.
Quotient(a, b) ==
  CHOOSE q \in -Magnitude(a) .. Magnitude(a) :
    LET r == a - q * b
    IN  Magnitude(r) < Magnitude(b) /\ r * a >= 0

Remainder(a, b) == a - b * Quotient(a, b)

Exact(op, wide, l, r) ==
  LET n == Bits(wide)
      a == Wrap(l, n)
      b == Wrap(r, n)
      A == Digits(a, n)
      B == Digits(b, n)
      s == b % n                        \* a shift amount is taken modulo the width
      sign == IF n - 1 \in A THEN n - s .. n - 1 ELSE {}
  IN  CASE op = "add"  -> Wrap(a + b, n)
        [] op = "sub"  -> Wrap(a - b, n)
        [] op = "neg"  -> Wrap(-a, n)
        [] op = "mul"  -> Wrap(a * b, n)
        [] op = "div"  -> Wrap(Quotient(Signed(a, n), Signed(b, n)), n)
        [] op = "rem"  -> Wrap(Remainder(Signed(a, n), Signed(b, n)), n)
        [] op = "udiv" -> Quotient(a, b)
        [] op = "urem" -> Remainder(a, b)
        [] op = "and"  -> FromDigits(A \cap B)
        [] op = "or"   -> FromDigits(A \cup B)
        [] op = "xor"  -> FromDigits((A \ B) \cup (B \ A))
        [] op = "shl"  -> FromDigits({i + s : i \in A} \cap (0 .. n - 1))
        [] op = "shr"  -> FromDigits({i - s : i \in A} \cap (0 .. n - 1))
        [] op = "sar"  -> FromDigits(({i - s : i \in A} \cap (0 .. n - 1)) \cup sign)
        [] op = "ceq"  -> IF a = b THEN 1 ELSE 0
        [] op = "cne"  -> IF a # b THEN 1 ELSE 0
=============================================================================
