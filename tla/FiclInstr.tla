------------------------------ MODULE FiclInstr -----------------------------
(***************************************************************************)
(* The instructions of the inner interpreter (ficlVmInnerLoop in           *)
(* src/ficl/vm.c) that work on the stacks, on memory and on the            *)
(* instruction pointer.  Each family is an operator from the name of an    *)
(* instruction and the machine m to the machine after it.  The fields used *)
(* here are m.d, m.r and m.f (data, return and float stack), m.frame (the  *)
(* index in the return stack of the first local), m.ip, m.mem (the cells   *)
(* of the dictionary), and m.smudge, m.code and m.here for the             *)
(* instructions that compile.  The names are those of ficltokens.h without *)
(* the prefix ficlInstruction.                                             *)
(*                                                                         *)
(* An address unit is a cell, and a character has a cell to itself; the    *)
(* words that fetch or store a part of a cell (q@ w@ c@ and so on) see its *)
(* low-order bits.  A float is a number: rounding is not modelled.         *)
(***************************************************************************)
EXTENDS FiclStack

Sgn(s, n) == Value(Fetch(s, n))          \* the cell as a signed integer
Uns(s, n) == Unsigned(Value(Fetch(s, n))) \* ... as an unsigned one
Ptr(s, n) == Fetch(s, n)

Read(m, c) == IF IsAdr(c) /\ c[2] \in DOMAIN m.mem THEN m.mem[c[2]] ELSE Junk
Write(m, c, x) == IF IsAdr(c) /\ c[2] \in DOMAIN m.mem
                  THEN [m EXCEPT !.mem[c[2]] = x] ELSE m

\* The operand of an instruction is the cell behind it.
Operand(m) == Read(m, m.ip)
Skip(m, n) == [m EXCEPT !.ip = Add(@, Num(n))]
Branch(m)  == [m EXCEPT !.ip = Add(@, Operand(m))]
PopIp(m)   == [m EXCEPT !.ip = Fetch(m.r, 0), !.r = Drop(@, 1)]

-----------------------------------------------------------------------------
(***************************************************************************)
(* CHECK_STACK, CHECK_RETURN_STACK and CHECK_FLOAT_STACK of each           *)
(* instruction: the cells it says it pops and pushes.  FICL_ROBUST is 2.   *)
(***************************************************************************)
Pops1 == {"1Plus", "1Minus", "2Plus", "2Minus", "0Equals", "0Less", "0Greater",
          "Invert", "Fetch", "QuadFetch", "WFetch", "CFetch", "Cells",
          "CellPlus", "Negate", "2Star", "2Slash"}
Pops2 == {"Plus", "Minus", "And", "Or", "Xor", "Equals", "Less", "ULess",
          "GreaterThan", "LShift", "RShift", "Max", "Min", "Star", "Slash",
          "OfParen"}

Stores1 == {"Drop", "ToRStack", "Branch0Paren", "Branch0ParenWithCheck",
            "Comma", "CComma", "PlusLoopParen", "F2Fetch", "FFetch",
            "F2Store", "FStore", "FPlusI", "FMinusI", "FStarI", "FSlashI",
            "IMinusF", "ISlashF", "IntToFloat", "FPlusStore", "ToF"}
Stores2 == {"2Drop", "PlusStore", "QuadStore", "WStore", "CStore", "Store",
            "2ToR", "DoParen", "QDoParen"}
Yields1 == {"ShortLiteral", "LiteralParen", "CStringLiteralParen", "Dup",
            "FromRStack", "FetchRStack", "DoDoes", "CreateParen",
            "VariableParen", "ConstantParen", "FloatToInt", "F0Equals",
            "F0Less", "F0Greater", "FEquals", "FLess", "FGreater", "FFrom"}
Yields2 == {"2LiteralParen", "StringLiteralParen", "2RFrom", "2RFetch",
            "2ConstantParen"}

DataCheck(i) ==
  CASE i \in Yields1 -> <<0, 1>>
    [] i \in Yields2 -> <<0, 2>>
    [] i \in Stores1 -> <<1, 0>>
    [] i \in Stores2 -> <<2, 0>>
    [] i \in Pops1   -> <<1, 1>>
    [] i \in Pops2   -> <<2, 1>>
    [] i \in {"QuestionDup", "SToD", "2Fetch"} -> <<1, 2>>
    [] i \in {"Swap", "SlashMod"} -> <<2, 2>>
    [] i = "Over"    -> <<2, 3>>
    [] i = "2Dup"    -> <<2, 4>>
    [] i = "2Over"   -> <<4, 6>>
    [] i = "2Swap"   -> <<4, 4>>
    [] i = "StarSlash"    -> <<3, 1>>
    [] i = "StarSlashMod" -> <<3, 2>>
    [] i \in {"Fill", "Move", "2Store"} -> <<3, 0>>
    [] i = "Compare" -> <<4, 1>>
    [] i \in {"Rot", "MinusRot"} -> <<3, 4>>
    [] OTHER -> <<0, 0>>

ReturnCheck(i) ==
  CASE i = "ToRStack" -> <<0, 1>>
    [] i = "FromRStack" -> <<1, 0>>
    [] i = "FetchRStack" -> <<1, 1>>
    [] i = "2ToR" -> <<0, 2>>
    [] i = "2RFrom" -> <<2, 0>>
    [] i = "2RFetch" -> <<2, 2>>
    [] OTHER -> <<0, 0>>

FloatCheck(i) ==
  CASE i \in {"F0", "F1", "FNeg1", "FLiteralParen", "FFetch", "IntToFloat",
              "FConstantParen", "ToF"} -> <<0, 1>>
    [] i \in {"F2Fetch", "F2ConstantParen"} -> <<0, 2>>
    [] i \in {"FStore", "FloatToInt", "FPlusStore", "FDrop", "F0Equals",
              "F0Less", "F0Greater", "FFrom"} -> <<1, 0>>
    [] i \in {"FNegate", "FPlusI", "FMinusI", "FStarI", "FSlashI", "IMinusF",
              "ISlashF"} -> <<1, 1>>
    [] i \in {"FDup", "FQuestionDup"} -> <<1, 2>>
    [] i \in {"F2Store", "F2Drop", "FEquals", "FLess", "FGreater"} -> <<2, 0>>
    [] i \in {"FPlus", "FMinus", "FStar", "FSlash"} -> <<2, 1>>
    [] i = "FSwap" -> <<2, 2>>
    [] i = "FOver" -> <<2, 3>>
    [] i = "F2Dup" -> <<2, 4>>
    [] i = "F2Over" -> <<4, 6>>
    [] i = "F2Swap" -> <<4, 4>>
    [] i \in {"FRot", "FMinusRot"} -> <<3, 4>>
    [] OTHER -> <<0, 0>>

\* pick, roll and -roll look at the count on the stack first: <<depth of the
\* stack they count on, cells to be there>>.
Counted == {"Pick", "Roll", "MinusRoll"}
FCounted == {"FPick", "FRoll", "FMinusRoll"}
CountCheck(i, m) ==
  IF StackCheck(m.d, 1, 0) # "fits" THEN StackCheck(m.d, 1, 0)
  ELSE LET n == Sgn(m.d, 0) IN
       CASE i = "Pick" /\ n < 0 -> "fits"
         [] i = "Pick" -> StackCheck(m.d, n + 1, n + 2)
         [] i = "FPick" -> StackCheck(m.f, n + 1, n + 2)
         [] n < 1 -> "fits"
         [] i \in Counted -> StackCheck(Drop(m.d, 1), n + 1, n + 2)
         [] OTHER -> StackCheck(m.f, n + 1, n + 2)

Checks(i, m) ==
  IF i \in Counted \cup FCounted THEN CountCheck(i, m)
  ELSE LET d == StackCheck(m.d, DataCheck(i)[1], DataCheck(i)[2])
           r == StackCheck(m.r, ReturnCheck(i)[1], ReturnCheck(i)[2])
           f == StackCheck(m.f, FloatCheck(i)[1], FloatCheck(i)[2])
       IN  CASE d # "fits" -> d [] r # "fits" -> r [] OTHER -> f

-----------------------------------------------------------------------------
\* Literals: the value is in the instruction or in the cells behind it.
Literals == {"LiteralParen", "2LiteralParen", "StringLiteralParen",
             "CStringLiteralParen"}
Literal(i, m) ==
  LET d == m.d  o == Operand(m)
      p == Read(m, Add(m.ip, Num(1)))
  IN  CASE i = "LiteralParen" -> [Skip(m, 1) EXCEPT !.d = Push(d, o)]
        [] i = "2LiteralParen" -> [Skip(m, 2) EXCEPT !.d = PushAll(d, <<p, o>>)]
        [] i = "StringLiteralParen" ->
             \* the address of the text, then its length
             [Skip(m, 1) EXCEPT !.d = PushAll(d, <<m.ip, Num(Value(o))>>)]
        [] i = "CStringLiteralParen" -> [Skip(m, 1) EXCEPT !.d = Push(d, m.ip)]

\* The locals of a colon definition live in a frame on the return stack.
Locals == {"LinkParen", "UnlinkParen", "Get2LocalParen", "GetLocalParen",
           "To2LocalParen", "ToLocalParen", "GetLocal0", "GetLocal1",
           "Get2Local0", "ToLocal0", "ToLocal1", "To2Local0"}
Local(m, n)  == IF m.frame + n \in DOMAIN m.r.c THEN m.r.c[m.frame + n] ELSE Junk
Fetch1(m, n) == [m EXCEPT !.d = Push(@, Local(m, n))]
Fetch2(m, n) == [m EXCEPT !.d = PushAll(@, <<Local(m, n + 1), Local(m, n)>>)]
SetLocal(m, n, x) == IF m.frame + n \in DOMAIN m.r.c
                     THEN [m EXCEPT !.r.c[m.frame + n] = x] ELSE m
Store1(m, n) == [SetLocal(m, n, Fetch(m.d, 0)) EXCEPT !.d = Drop(@, 1)]
Store2(m, n) == [SetLocal(SetLocal(m, n, Fetch(m.d, 0)), n + 1, Fetch(m.d, 1))
                   EXCEPT !.d = Drop(@, 2)]
Frames(i, m) ==
  LET n == Value(Operand(m)) IN
  CASE i = "LinkParen" ->
         LET saved == Push(m.r, <<"frm", m.frame>>)
         IN  [Skip(m, 1) EXCEPT !.frame = saved.top + 1, !.r = Drop(saved, -n)]
    [] i = "UnlinkParen" ->
         LET at == [m.r EXCEPT !.top = m.frame - 1]
         IN  [m EXCEPT !.frame = Value(Fetch(at, 0)), !.r = Drop(at, 1)]
    [] i = "GetLocalParen"  -> Fetch1(Skip(m, 1), n)
    [] i = "GetLocal0"      -> Fetch1(m, 0)
    [] i = "GetLocal1"      -> Fetch1(m, 1)
    [] i = "Get2LocalParen" -> Fetch2(Skip(m, 1), n)
    [] i = "Get2Local0"     -> Fetch2(m, 0)
    [] i = "ToLocalParen"   -> Store1(Skip(m, 1), n)
    [] i = "ToLocal0"       -> Store1(m, 0)
    [] i = "ToLocal1"       -> Store1(m, 1)
    [] i = "To2LocalParen"  -> Store2(Skip(m, 1), n)
    [] i = "To2Local0"      -> Store2(m, 0)

\* Moves on the data stack.
Moves == {"Dup", "QuestionDup", "Swap", "Drop", "2Drop", "2Dup", "Over",
          "2Over", "Pick", "Rot", "Roll", "MinusRot", "MinusRoll", "2Swap"}
Move(i, s) ==
  LET n == Sgn(s, 0) IN
  CASE i = "Dup"   -> Pick(s, 0)
    [] i = "QuestionDup" -> IF Fetch(s, 0) = Num(0) THEN s ELSE Pick(s, 0)
    [] i = "Swap"  -> Roll(s, 1)
    [] i = "Drop"  -> Drop(s, 1)
    [] i = "2Drop" -> Drop(s, 2)
    [] i = "2Dup"  -> PushAll(s, <<Fetch(s, 1), Fetch(s, 0)>>)
    [] i = "Over"  -> Pick(s, 1)
    [] i = "2Over" -> PushAll(s, <<Fetch(s, 3), Fetch(s, 2)>>)
    [] i = "2Swap" -> Roll(Roll(s, 3), 3)
    [] i = "Pick"  -> IF n < 0 THEN s ELSE Store(s, 0, Fetch(s, n))
    [] i = "Rot"   -> Roll(s, 2)
    [] i = "MinusRot"  -> Roll(s, -2)
    [] i = "Roll"      -> IF n < 1 THEN Drop(s, 1) ELSE Roll(Drop(s, 1), n)
    [] i = "MinusRoll" -> IF n < 1 THEN Drop(s, 1) ELSE Roll(Drop(s, 1), -n)

\* Sums and steps, shifts and extremes, products and quotients.
Wrapped2(s, n) == Replace(s, 2, Num(Signed(n)))
Sums == {"Plus", "Minus", "1Plus", "1Minus", "2Plus", "2Minus"}
AddUp(i, s) ==
  CASE i = "Plus"   -> Replace(s, 2, Add(Ptr(s, 1), Ptr(s, 0)))
    [] i = "Minus"  -> Replace(s, 2, Sub(Ptr(s, 1), Ptr(s, 0)))
    [] i = "1Plus"  -> Replace(s, 1, Add(Ptr(s, 0), Num(1)))
    [] i = "1Minus" -> Replace(s, 1, Sub(Ptr(s, 0), Num(1)))
    [] i = "2Plus"  -> Replace(s, 1, Add(Ptr(s, 0), Num(2)))
    [] i = "2Minus" -> Replace(s, 1, Sub(Ptr(s, 0), Num(2)))

Scales == {"LShift", "RShift", "Max", "Min", "SToD", "Cells", "CellPlus",
           "2Star", "2Slash", "Negate"}
Larger(x, y) == IF x > y THEN x ELSE y
Scale(i, s) ==
  LET x == Sgn(s, 1)  y == Sgn(s, 0) IN
  CASE i = "LShift"   -> Wrapped2(s, LShift(x, Uns(s, 0)))
    [] i = "RShift"   -> Wrapped2(s, RShift(x, Uns(s, 0)))
    [] i = "Max"      -> Wrapped2(s, Larger(x, y))
    [] i = "Min"      -> Wrapped2(s, -Larger(-x, -y))
    [] i = "SToD"     -> Push(s, IF y < 0 THEN Num(-1) ELSE Num(0))
    [] i = "Cells"    -> s
    [] i = "CellPlus" -> Replace(s, 1, Add(Ptr(s, 0), Num(1)))
    [] i = "2Star"    -> Replace(s, 1, Num(Signed(2 * y)))
    [] i = "2Slash"   -> Replace(s, 1, Num(y \div 2))
    [] i = "Negate"   -> Replace(s, 1, Num(Signed(-y)))

Products == {"Star", "Slash", "SlashMod", "StarSlash", "StarSlashMod"}
Quotient(x, y) == \* C rounds towards zero
  LET q == (IF x < 0 THEN -x ELSE x) \div (IF y < 0 THEN -y ELSE y)
  IN  IF (x < 0) = (y < 0) THEN q ELSE -q
Calculate(i, s) ==
  LET x == Sgn(s, 1)  y == Sgn(s, 0)
      Pair(n, w) == Push(Replace(s, n, Num(w.remainder)),
                         Num(Signed(w.quotient.low)))
  IN  CASE i = "Star"     -> Wrapped2(s, x * y)
        [] i = "Slash"    -> Wrapped2(s, Quotient(x, y))
        [] i = "SlashMod" -> Pair(2, DivideSymmetric(Extend(x), y))
        [] i = "StarSlashMod" -> Pair(3, DivideSymmetric(IMultiply(Sgn(s, 2), x), y))
        [] i = "StarSlash"    -> 
             Replace(s, 3, Num(Signed(DivideSymmetric(IMultiply(Sgn(s, 2), x), y).quotient.low)))

\* Comparisons and bitwise logic.
Logic == {"0Equals", "0Less", "0Greater", "Equals", "Less", "ULess",
          "GreaterThan", "And", "Or", "Xor", "Invert"}
Decide(i, s) ==
  LET x == Sgn(s, 1)  y == Sgn(s, 0)
      One(b) == Replace(s, 1, Bool(b))
      Two(b) == Replace(s, 2, Bool(b))
      Bits2(n) == Replace(s, 2, Num(n))
  IN  CASE i = "0Equals"  -> One(Fetch(s, 0) = Num(0))
        [] i = "0Less"    -> One(y < 0)
        [] i = "0Greater" -> One(y > 0)
        [] i = "Equals"   -> Two(Fetch(s, 1) = Fetch(s, 0))
        [] i = "Less"     -> Two(x < y)
        [] i = "ULess"    -> Two(Unsigned(x) < Unsigned(y))
        [] i = "GreaterThan" -> Two(x > y)
        [] i = "And"      -> Bits2(BitAnd(x, y))
        [] i = "Or"       -> Bits2(BitOr(x, y))
        [] i = "Xor"      -> Bits2(BitXor(x, y))
        [] i = "Invert"   -> Replace(s, 1, Num(Invert(y)))

\* Moves between the data and the return stack.
ReturnMoves == {"ToRStack", "FromRStack", "FetchRStack", "2ToR", "2RFrom",
                "2RFetch"}
ReturnMove(i, m) ==
  LET d == m.d  r == m.r IN
  CASE i = "ToRStack" ->
         [m EXCEPT !.r = Push(r, Fetch(d, 0)), !.d = Drop(d, 1)]
    [] i = "FromRStack" ->
         [m EXCEPT !.d = Push(d, Fetch(r, 0)), !.r = Drop(r, 1)]
    [] i = "FetchRStack" -> [m EXCEPT !.d = Push(d, Fetch(r, 0))]
    [] i = "2ToR" ->
         [m EXCEPT !.r = PushAll(r, <<Fetch(d, 1), Fetch(d, 0)>>),
                   !.d = Drop(d, 2)]
    [] i = "2RFrom" ->
         [m EXCEPT !.d = PushAll(d, <<Fetch(r, 1), Fetch(r, 0)>>),
                   !.r = Drop(r, 2)]
    [] i = "2RFetch" ->
         [m EXCEPT !.d = PushAll(d, <<Fetch(r, 1), Fetch(r, 0)>>)]

\* Memory.  A partial fetch sees the low bits of the cell, a partial store
\* replaces them.
Part == [Quad |-> IntBits, W |-> IntBits \div 2, C |-> IntBits \div 4]
LowBits(i, n) == i % Pow2[n]
Merge(old, new, n) ==
  Num(Signed(Unsigned(old) - LowBits(old, n) + LowBits(new, n)))
Parts == {"PlusStore", "QuadFetch", "QuadStore", "WFetch", "WStore", "CFetch",
          "CStore"}
FetchPart(m, n) ==
  [m EXCEPT !.d = Replace(@, 1, Num(LowBits(Value(Read(m, Ptr(m.d, 0))), n)))]
StorePart(m, n) ==
  LET a == Ptr(m.d, 0)
  IN  [Write(m, a, Merge(Value(Read(m, a)), Sgn(m.d, 1), n)) EXCEPT !.d = Drop(@, 2)]
RememberPart(i, m) ==
  LET d == m.d  a == Ptr(d, 0) IN
  CASE i = "PlusStore" ->
         [Write(m, a, Add(Read(m, a), Fetch(d, 1))) EXCEPT !.d = Drop(d, 2)]
    [] i = "QuadFetch" -> FetchPart(m, Part.Quad)
    [] i = "WFetch"    -> FetchPart(m, Part.W)
    [] i = "CFetch"    -> FetchPart(m, Part.C)
    [] i = "QuadStore" -> StorePart(m, Part.Quad)
    [] i = "WStore"    -> StorePart(m, Part.W)
    [] i = "CStore"    -> StorePart(m, Part.C)

Blocks == {"Fill", "Move", "Compare"}
Cells(m, c, n) == [k \in 1..n |-> Read(m, Add(c, Num(k - 1)))]
Put(m, c, xs) ==
  IF ~IsAdr(c) THEN m
  ELSE [m EXCEPT !.mem = [a \in DOMAIN @ |->
          IF a - c[2] + 1 \in DOMAIN xs THEN xs[a - c[2] + 1] ELSE @[a]]]
Lexical(x, y) == \* the sign of the first difference, or of the lengths
  LET n == IF Len(x) < Len(y) THEN Len(x) ELSE Len(y)
      different == {k \in 1..n : x[k] # y[k]}
      first == CHOOSE k \in different : \A j \in different : k <= j
      diff == IF different = {} THEN Len(x) - Len(y)
              ELSE Value(x[first]) - Value(y[first])
  IN  CASE diff < 0 -> Num(-1) [] diff > 0 -> Num(1) [] OTHER -> Num(0)
Block(i, m) ==
  LET d == m.d  n == Uns(d, 0) IN
  CASE i = "Fill" ->
         LET low == Num(LowBits(Value(Ptr(d, 0)), Part.C))
         IN  [Put(m, Ptr(d, 2), [k \in 1..Uns(d, 1) |-> low]) EXCEPT !.d = Drop(d, 3)]
    [] i = "Move" ->
         [Put(m, Ptr(d, 1), Cells(m, Ptr(d, 2), n)) EXCEPT !.d = Drop(d, 3)]
    [] i = "Compare" ->
         [m EXCEPT !.d = Replace(d, 4,
            Lexical(Cells(m, Ptr(d, 3), Uns(d, 2)), Cells(m, Ptr(d, 1), n)))]

\* Whole cells.
Memory == {"2Fetch", "Fetch", "2Store", "Store", "Comma", "CComma"}
Append1(m, x) == \* ficlDictionaryAppendCell, ...AppendUnsigned
  [Write(m, Adr(m.here), x) EXCEPT !.here = @ + 1]
Remember(i, m) ==
  LET d == m.d  a == Ptr(d, 0) IN
  CASE i = "Fetch"  -> [m EXCEPT !.d = Replace(d, 1, Read(m, a))]
    [] i = "2Fetch" ->
         [m EXCEPT !.d = PushAll(Drop(d, 1),
                                 <<Read(m, Add(a, Num(1))), Read(m, a)>>)]
    [] i = "Store"  -> [Write(m, a, Fetch(d, 1)) EXCEPT !.d = Drop(d, 2)]
    [] i = "2Store" ->
         [Write(Write(m, a, Fetch(d, 1)), Add(a, Num(1)), Fetch(d, 2))
            EXCEPT !.d = Drop(d, 3)]
    [] i = "Comma"  -> [Append1(m, a) EXCEPT !.d = Drop(d, 1)]
    [] i = "CComma" ->
         [Append1(m, Num(LowBits(Value(a), Part.C))) EXCEPT !.d = Drop(d, 1)]

-----------------------------------------------------------------------------
(***************************************************************************)
(* The flow of control inside a definition.  do and ?do leave three cells  *)
(* on the return stack: where leave goes, the limit and the index.         *)
(***************************************************************************)
Flow == {"ExitParen", "SemiParen", "BranchParen", "Branch0Paren", "OfParen"}
Go(i, m) ==
  LET d == m.d  popped == [m EXCEPT !.d = Drop(d, 1)] IN
  CASE i \in {"ExitParen", "SemiParen"} -> PopIp(m)
    [] i = "BranchParen"  -> Branch(m)
    [] i = "Branch0Paren" ->
         IF Fetch(d, 0) = Num(0) THEN Branch(popped) ELSE Skip(popped, 1)
    [] i = "OfParen" ->
         IF Fetch(d, 1) # Fetch(d, 0) THEN Branch(popped)
         ELSE [Skip(m, 1) EXCEPT !.d = Drop(d, 2)]

Counting == {"DoParen", "QDoParen", "LoopParen", "PlusLoopParen", "Leave",
             "Unloop", "I", "J", "K"}
Count(i, m) ==
  LET d == m.d  r == m.r
      enter == [Skip(m, 1) EXCEPT !.d = Drop(d, 2),
                  !.r = PushAll(r, <<Operand(m), Fetch(d, 1), Fetch(d, 0)>>)]
      step == IF i = "LoopParen" THEN 1 ELSE Sgn(d, 0)
      index == Signed(Sgn(r, 0) + step)
      done == (step < 0) # (index >= Sgn(r, 1))
      n == [m EXCEPT !.d = IF i = "LoopParen" THEN d ELSE Drop(d, 1)]
      Index(k) == [m EXCEPT !.d = Push(d, Fetch(r, k))]
  IN  CASE i = "DoParen" -> enter
        [] i = "QDoParen" ->
             IF Fetch(d, 0) # Fetch(d, 1) THEN enter
             ELSE [m EXCEPT !.ip = Operand(m), !.d = Drop(d, 2)]
        [] i \in {"LoopParen", "PlusLoopParen"} ->
             IF done THEN [Skip(n, 1) EXCEPT !.r = Drop(r, 3)]
             ELSE [Branch(n) EXCEPT !.r = Store(r, 0, Num(index))]
        [] i = "Leave"  -> PopIp([m EXCEPT !.r = Drop(r, 2)])
        [] i = "Unloop" -> [m EXCEPT !.r = Drop(r, 3)]
        [] i = "I" -> Index(0)
        [] i = "J" -> Index(3)
        [] i = "K" -> Index(6)
=============================================================================
