------------------------------ MODULE FiclFloat -----------------------------
(***************************************************************************)
(* The floating-point instructions of the inner interpreter                *)
(* (ficlVmInnerLoop in src/ficl/vm.c).  They work like their integer       *)
(* namesakes, on the float stack m.f.  A float is a number: a quotient is  *)
(* rounded to a whole one.  The words that mix an integer in (f+i, f-i,    *)
(* f*i, f/i, i-f, i/f) take the bits of the integer cell for a float; what *)
(* comes out is Junk here.                                                 *)
(***************************************************************************)
EXTENDS FiclInstr

FloatMoves == {"FDrop", "FQuestionDup", "FDup", "FSwap", "F2Drop", "F2Dup",
               "FOver", "F2Over", "FRot", "FMinusRot", "F2Swap"}
FloatMove(i, f) ==
  CASE i = "FDrop"  -> Drop(f, 1)
    [] i = "FQuestionDup" -> IF Fetch(f, 0) = Num(0) THEN f ELSE Pick(f, 0)
    [] i = "FDup"   -> Pick(f, 0)
    [] i = "FSwap"  -> Roll(f, 1)
    [] i = "F2Drop" -> Drop(f, 2)
    [] i = "F2Dup"  -> PushAll(f, <<Fetch(f, 1), Fetch(f, 0)>>)
    [] i = "FOver"  -> Pick(f, 1)
    \* (the second and the third cell, not the fourth and the third)
    [] i = "F2Over" -> PushAll(f, <<Fetch(f, 2), Fetch(f, 1)>>)
    [] i = "FRot"   -> Roll(f, 2)
    [] i = "FMinusRot" -> Roll(f, -2)
    [] i = "F2Swap" -> Roll(Roll(f, 3), 3)

\* fpick, froll and f-roll take a count from the data stack.  fpick stores
\* the cell above the top and does not move the top.
FloatCounts(i, m) ==
  LET n == Sgn(m.d, 0)
      Then(f) == [m EXCEPT !.d = Drop(@, 1), !.f = f]
  IN  CASE i = "FPick" -> Then(Store(m.f, -1, Fetch(m.f, n)))
        [] i = "FRoll" -> Then(IF n < 1 THEN m.f ELSE Roll(m.f, n))
        [] i = "FMinusRoll" -> Then(IF n < 1 THEN m.f ELSE Roll(m.f, -n))

FloatArithmetic == {"F0", "F1", "FNeg1", "FPlus", "FMinus", "FStar", "FSlash",
                    "FNegate"}
FloatCalculate(i, m) ==
  LET f == m.f  x == Sgn(f, 1)  y == Sgn(f, 0)
      Binary(n) == [m EXCEPT !.f = Wrapped2(f, n)]
  IN  CASE i = "F0"     -> [m EXCEPT !.f = Push(f, Num(0))]
        [] i = "F1"     -> [m EXCEPT !.f = Push(f, Num(1))]
        [] i = "FNeg1"  -> [m EXCEPT !.f = Push(f, Num(-1))]
        [] i = "FPlus"  -> Binary(x + y)
        [] i = "FMinus" -> Binary(x - y)
        [] i = "FStar"  -> Binary(x * y)
        [] i = "FSlash" -> IF y = 0 THEN [m EXCEPT !.f = Replace(f, 2, Junk)]
                           ELSE Binary(Quotient(x, y))
        [] i = "FNegate" -> [m EXCEPT !.f = Replace(f, 1, Num(Signed(-y)))]

\* The words with an integer operand, and the conversions.
FloatMixed == {"FPlusI", "FMinusI", "FStarI", "FSlashI", "IMinusF", "ISlashF",
               "IntToFloat", "FloatToInt"}
FloatMix(i, m) ==
  CASE i = "IntToFloat" -> [m EXCEPT !.f = Push(@, Fetch(m.d, 0)), !.d = Drop(@, 1)]
    [] i = "FloatToInt" -> [m EXCEPT !.d = Push(@, Fetch(m.f, 0)), !.f = Drop(@, 1)]
    [] OTHER -> [m EXCEPT !.f = Replace(@, 1, Junk), !.d = Drop(@, 1)]

FloatLogic == {"F0Equals", "F0Less", "F0Greater", "FEquals", "FLess",
               "FGreater"}
FloatDecide(i, m) ==
  LET f == m.f  x == Sgn(f, 1)  y == Sgn(f, 0)
      Flag(n, b) == [m EXCEPT !.f = Drop(f, n), !.d = Push(@, Bool(b))]
  IN  CASE i = "F0Equals"  -> Flag(1, Fetch(f, 0) # Num(0))  \* (inverted)
        [] i = "F0Less"    -> Flag(1, y < 0)
        [] i = "F0Greater" -> Flag(1, y > 0)
        [] i = "FEquals"   -> Flag(2, Fetch(f, 1) = Fetch(f, 0))
        [] i = "FLess"     -> Flag(2, x < y)
        [] i = "FGreater"  -> Flag(2, x > y)

FloatMemory == {"F2Fetch", "FFetch", "F2Store", "FStore", "FPlusStore",
                "FFrom", "ToF", "FLiteralParen"}
FloatRemember(i, m) ==
  LET f == m.f  a == Ptr(m.d, 0)
      m1 == [m EXCEPT !.d = Drop(@, 1)]
  IN  CASE i = "FFetch" -> [m1 EXCEPT !.f = Push(f, Read(m, a))]
        [] i = "F2Fetch" ->
             [m1 EXCEPT !.f = PushAll(f, <<Read(m, Add(a, Num(1))), Read(m, a)>>)]
        [] i = "FStore" -> [Write(m1, a, Fetch(f, 0)) EXCEPT !.f = Drop(f, 1)]
        [] i = "F2Store" ->
             [Write(Write(m1, a, Fetch(f, 0)), Add(a, Num(1)), Fetch(f, 1))
                EXCEPT !.f = Drop(f, 2)]
        [] i = "FPlusStore" ->
             [Write(m1, a, Add(Read(m, a), Fetch(f, 0))) EXCEPT !.f = Drop(f, 1)]
        [] i = "FFrom" -> [m EXCEPT !.d = Push(@, Fetch(f, 0)), !.f = Drop(f, 1)]
        [] i = "ToF"   -> [m1 EXCEPT !.f = Push(f, a)]
        [] i = "FLiteralParen" -> [Skip(m, 1) EXCEPT !.f = Push(f, Operand(m))]

FloatLocals == {"GetF2LocalParen", "GetFLocalParen", "ToF2LocalParen",
                "ToFLocalParen"}
FloatFrames(i, m) ==
  LET n == Value(Operand(m))  f == m.f  s == Skip(m, 1)
  IN  CASE i = "GetFLocalParen"  -> [s EXCEPT !.f = Push(f, Local(m, n))]
        [] i = "GetF2LocalParen" ->
             [s EXCEPT !.f = PushAll(f, <<Local(m, n + 1), Local(m, n)>>)]
        [] i = "ToFLocalParen" ->
             [SetLocal(s, n, Fetch(f, 0)) EXCEPT !.f = Drop(f, 1)]
        [] i = "ToF2LocalParen" ->
             [SetLocal(SetLocal(s, n, Fetch(f, 0)), n + 1, Fetch(f, 1))
                EXCEPT !.f = Drop(f, 2)]
=============================================================================
