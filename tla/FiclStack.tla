------------------------------ MODULE FiclStack -----------------------------
(***************************************************************************)
(* The stacks of the FORTH machine (src/ficl/stack.c).  A stack is the     *)
(* array of its cells and the index of its top cell (zero when empty).     *)
(* The operations move top and never clear a cell, and they do not look at *)
(* the bounds: a check does, which the caller makes beforehand.  So a read *)
(* outside of the array finds Junk and a write there is lost, and top can  *)
(* leave 0..Size when a check is missing.                                  *)
(***************************************************************************)
EXTENDS FiclCell

EmptyStack(size) == [c |-> [i \in 1..size |-> Junk], top |-> 0]

Size(s) == Len(s.c)
Depth(s) == s.top
Inside(s) == s.top \in 0..Size(s)

\* ficlStackFetch, ficlStackStore, ficlStackGetTop: counted from the top.
Fetch(s, n) == IF s.top - n \in DOMAIN s.c THEN s.c[s.top - n] ELSE Junk
Store(s, n, x) == IF s.top - n \in DOMAIN s.c
                  THEN [s EXCEPT !.c[s.top - n] = x] ELSE s
GetTop(s) == Fetch(s, 0)

\* ficlStackDrop and the pops; ficlStackPush.
Drop(s, n) == [s EXCEPT !.top = @ - n]
Push(s, x) == Store([s EXCEPT !.top = @ + 1], 0, x)
Push2(s, d) == Push(Push(s, Num(Signed(d.low))), Num(Signed(d.high)))
Top2(s) == Dbl(Unsigned(Value(Fetch(s, 0))), Unsigned(Value(Fetch(s, 1))))
Replace(s, n, x) == Push(Drop(s, n), x)   \* n cells give way to x

\* Several cells at once, the last of xs on the top.
PushAll(s, xs) ==
  LET push[i \in 0..Len(xs)] == IF i = 0 THEN s ELSE Push(push[i - 1], xs[i])
  IN  push[Len(xs)]

ResetStack(s) == [s EXCEPT !.top = 0]

\* ficlStackPick, ficlStackRoll (both directions), as moves of the cells
\* at the given distances from the top.
Pick(s, n) == Push(s, Fetch(s, n))
Roll(s, n) ==
  CASE n = 0 -> s
    [] n > 0 -> [s EXCEPT !.c = [i \in DOMAIN s.c |->
                   CASE i = s.top -> Fetch(s, n)
                     [] i \in (s.top - n)..(s.top - 1) -> s.c[i + 1]
                     [] OTHER -> s.c[i]]]
    [] n < 0 -> [s EXCEPT !.c = [i \in DOMAIN s.c |->
                   CASE i = s.top + n -> Fetch(s, 0)
                     [] i \in (s.top + n + 1)..s.top ->
                          IF i - 1 \in DOMAIN s.c THEN s.c[i - 1] ELSE Junk
                     [] OTHER -> s.c[i]]]

\* ficlStackCheck: the error it throws, if any.
StackCheck(s, pop, push) ==
  CASE pop > Depth(s) -> "underflow"
    [] Size(s) - Depth(s) < push - pop -> "overflow"
    [] OTHER -> "fits"
=============================================================================
