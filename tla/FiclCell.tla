------------------------------ MODULE FiclCell ------------------------------
(***************************************************************************)
(* The cells of the FORTH machine (src/ficl) and its double-cell           *)
(* arithmetic.  A cell of the machine is an untyped machine word; here it  *)
(* is a pair <<kind, value>>, so that a number, an address, a compiled     *)
(* instruction, a word of the core vocabulary, a control-structure tag and *)
(* a text are told apart.  What was never stored is Junk.                  *)
(*                                                                         *)
(* Numbers keep their width: CellBits bits, two's complement.  A double is *)
(* a record of a high and a low cell, both held as unsigned values, as in  *)
(* the portable half of double.c, which is what the makefile of src/ficl   *)
(* compiles (ansi.h sets FICL_PLATFORM_HAS_2INTEGER to 0).                 *)
(***************************************************************************)
EXTENDS Integers, Sequences

CONSTANTS
  CellBits,   \* bits of a cell (ficlInteger)
  IntBits     \* bits of a C int, not wider than a cell

ASSUME FiclWidths == CellBits \in Nat \ {0, 1} /\ IntBits \in 2..CellBits

Num(i)   == <<"num", i>>
Adr(a)   == <<"adr", a>>     \* a cell of the dictionary
Ins(n)   == <<"ins", n>>     \* a compiled instruction, by name
Core(n)  == <<"core", n>>    \* the execution token of a core word
Tag(t)   == <<"tag", t>>     \* doTag, colonTag, ... of primitives.c
Txt(k)   == <<"txt", k>>     \* a text, by its number, which is its length too
Poison   == <<"ip", "exit">>      \* system->exitInnerWord
Loop0    == <<"ip", "interpret">> \* system->interpreterLoop
NoIp     == <<"ip", "null">>
Junk     == <<"junk", 0>>

IsNum(c) == c[1] = "num"
\* The machine word as a number; which one an instruction or a tag is does
\* not matter.
Value(c) == IF c[1] \in {"num", "adr", "txt", "frm"} THEN c[2] ELSE 0
IsAdr(c) == c[1] = "adr"

Pow2 == [n \in 0..(2 * CellBits) |-> 2 ^ n]
Unsigned(i) == i % Pow2[CellBits]
Signed(i) == LET u == Unsigned(i)
             IN  IF u < Pow2[CellBits - 1] THEN u ELSE u - Pow2[CellBits]
\* (int)i: what is left of a cell that goes through a C int.
ToInt(i) == LET u == i % Pow2[IntBits]
            IN  IF u < Pow2[IntBits - 1] THEN u ELSE u - Pow2[IntBits]

FiclTrue  == Num(-1)
FiclFalse == Num(0)
Bool(b) == IF b THEN FiclTrue ELSE FiclFalse

(***************************************************************************)
(* Arithmetic on cells: on numbers it wraps; an address plus or minus a    *)
(* number is an address; anything else is not meaningful.                  *)
(***************************************************************************)
Add(a, b) == CASE IsNum(a) /\ IsNum(b) -> Num(Signed(a[2] + b[2]))
               [] IsAdr(a) /\ IsNum(b) -> Adr(a[2] + b[2])
               [] IsNum(a) /\ IsAdr(b) -> Adr(a[2] + b[2])
               [] OTHER -> Junk
Sub(a, b) == CASE IsNum(a) /\ IsNum(b) -> Num(Signed(a[2] - b[2]))
               [] IsAdr(a) /\ IsNum(b) -> Adr(a[2] - b[2])
               [] IsAdr(a) /\ IsAdr(b) -> Num(Signed(a[2] - b[2]))
               [] OTHER -> Junk

\* Bit by bit on the two's complement of the numbers.
Bit(i, n) == (Unsigned(i) \div Pow2[n]) % 2
OfBits(f) ==
  LET sum[n \in 0..CellBits] ==
        IF n = 0 THEN 0 ELSE sum[n - 1] + f[n - 1] * Pow2[n - 1]
  IN  Signed(sum[CellBits])
Bits == 0..(CellBits - 1)
BitAnd(a, b) == OfBits([n \in Bits |-> Bit(a, n) * Bit(b, n)])
BitOr(a, b)  == OfBits([n \in Bits |-> IF Bit(a, n) + Bit(b, n) > 0
                                       THEN 1 ELSE 0])
BitXor(a, b) == OfBits([n \in Bits |-> (Bit(a, n) + Bit(b, n)) % 2])
Invert(a)    == Signed(-a - 1)
\* A shift by the width of the cell or more is undefined in C; the words
\* that shift are modelled for the counts below it.
LShift(a, u) == Signed(Unsigned(a) * Pow2[u])
RShift(a, u) == Signed(Unsigned(a) \div Pow2[u])

-----------------------------------------------------------------------------
(***************************************************************************)
(* double.c.  Carries and borrows cross from the low to the high cell.     *)
(***************************************************************************)
Dbl(h, l) == [high |-> h, low |-> l]
HighBit(u) == u >= Pow2[CellBits - 1]
Zero2 == Dbl(0, 0)

\* (the values a double stands for)
UValue(d) == d.high * Pow2[CellBits] + d.low
IValue(d) == LET v == UValue(d)
             IN  IF v < Pow2[2 * CellBits - 1] THEN v ELSE v - Pow2[2 * CellBits]

IsNegative(d) == HighBit(d.high)

Negate2(d) ==
  LET low == Unsigned(Invert(d.low) + 1)
  IN  Dbl(Unsigned(Invert(d.high) + (IF low = 0 THEN 1 ELSE 0)), low)

\* The borrow is taken at INT_MIN, not at zero.
IntMin == Unsigned(-Pow2[IntBits - 1])
Decrement2(d) ==
  Dbl(Unsigned(d.high - (IF d.low = IntMin THEN 1 ELSE 0)), Unsigned(d.low - 1))

Add2(x, y) ==
  LET low == Unsigned(x.low + y.low)
      carry == \/ (HighBit(x.low) \/ HighBit(y.low)) /\ ~HighBit(low)
               \/ HighBit(x.low) /\ HighBit(y.low)
  IN  Dbl(Unsigned(x.high + y.high + (IF carry THEN 1 ELSE 0)), low)

\* Mutant: no borrow from the high cell.
SubtractNoBorrow(x, y) == Dbl(Unsigned(x.high - y.high), Unsigned(x.low - y.low))

Subtract2(x, y) ==
  Dbl(Unsigned(x.high - y.high - (IF x.low < y.low THEN 1 ELSE 0)),
      Unsigned(x.low - y.low))

ShiftLeft2(x) ==
  Dbl(Unsigned(2 * x.high + (IF HighBit(x.low) THEN 1 ELSE 0)),
      Unsigned(2 * x.low))
ShiftRight2(x) ==
  Dbl(x.high \div 2,
      (x.low \div 2) + (IF x.high % 2 = 1 THEN Pow2[CellBits - 1] ELSE 0))

Or2(x, y) == Dbl(Unsigned(BitOr(x.high, y.high)), Unsigned(BitOr(x.low, y.low)))

Compare2(x, y) ==
  CASE x.high > y.high -> 1
    [] x.high < y.high -> -1
    [] x.low > y.low -> 1
    [] x.low < y.low -> -1
    [] OTHER -> 0

\* ficl2UnsignedMultiply: shift and add, one bit of x at a time.
UMultiply(x, y) ==
  LET step[n \in 0..CellBits] ==
        IF n = 0 THEN [sum |-> Zero2, addend |-> Dbl(0, y)]
        ELSE LET p == step[n - 1]
             IN  [sum |-> IF Bit(x, n - 1) = 1 THEN Add2(p.sum, p.addend)
                                               ELSE p.sum,
                  addend |-> ShiftLeft2(p.addend)]
  IN  step[CellBits].sum

MultiplyAccumulate(u, mul, add) ==
  LET lo == UMultiply(u.low, mul)
      hi == UMultiply(u.high, mul)
      low == Unsigned(lo.low + add)
  IN  Dbl(Unsigned(lo.high + hi.low + (IF low < lo.low THEN 1 ELSE 0)), low)

\* ficl2UnsignedDivide for a divisor that is not zero: the divisor is
\* shifted up to the dividend, then down again, one quotient bit at a time.
\* (With a divisor of zero the first loop never ends, unless the dividend is
\* zero too.)
UDivide(q, y) ==
  LET up[n \in 0..(2 * CellBits)] ==
        IF n = 0 THEN [mask |-> Dbl(0, 1), sub |-> Dbl(0, y)]
        ELSE LET p == up[n - 1]
             IN  IF Compare2(p.sub, q) < 0 /\ ~HighBit(p.sub.high)
                 THEN [mask |-> ShiftLeft2(p.mask), sub |-> ShiftLeft2(p.sub)]
                 ELSE p
      Less(p) == [p EXCEPT !.q = Subtract2(@, p.sub), !.quot = Or2(@, p.mask)]
      Lowered(p) == [p EXCEPT !.mask = ShiftRight2(@), !.sub = ShiftRight2(@)]
      down[n \in 0..(2 * CellBits)] ==
        IF n = 0 THEN LET top == up[2 * CellBits]
                      IN  [mask |-> top.mask, sub |-> top.sub, q |-> q, quot |-> Zero2]
        ELSE LET p == down[n - 1]
             IN  IF p.mask = Zero2 THEN p
                 ELSE Lowered(IF Compare2(p.sub, p.q) <= 0 THEN Less(p) ELSE p)
      end == down[2 * CellBits]
  IN  [quotient |-> end.quot, remainder |-> end.q.low]

Negated(minus, d) == IF minus THEN Negate2(d) ELSE d
Magnitude(i) == Unsigned(IF i < 0 THEN -i ELSE i)
IMultiply(x, y) ==
  Negated((x < 0) # (y < 0), UMultiply(Magnitude(x), Magnitude(y)))

\* ficl2IntegerDivideFloored and ficl2IntegerDivideSymmetric: num is a
\* double, den a signed cell, the remainder a signed cell.
Floored(u, d, flip) == \* of the magnitudes: their quotient u, the divisor d
  IF flip /\ u.remainder # 0
  THEN [quotient |-> Decrement2(Negate2(u.quotient)), remainder |-> d - u.remainder]
  ELSE [u EXCEPT !.quotient = Negated(flip, @)]
DivideFloored(num, den) ==
  [Floored(UDivide(Negated(IsNegative(num), num), Magnitude(den)), Magnitude(den),
           IsNegative(num) # (den < 0))
     EXCEPT !.remainder = IF den < 0 THEN Signed(-Signed(@)) ELSE Signed(@)]

DivideSymmetric(num, den) ==
  [UDivide(Negated(IsNegative(num), num), Magnitude(den))
     EXCEPT !.quotient = Negated(IsNegative(num) # (den < 0), @),
            !.remainder = Signed(IF IsNegative(num) THEN -@ ELSE @)]

\* FICL_INTEGER_TO_2INTEGER: sign extension.
Extend(i) == Dbl(IF i < 0 THEN Unsigned(-1) ELSE 0, Unsigned(i))
=============================================================================
