------------------------------ MODULE FiclPrim ------------------------------
(***************************************************************************)
(* The compiling words of the FORTH machine (src/ficl/primitives.c) and    *)
(* its search-order words (search.c).  Every word is an operator from the  *)
(* machine m to the machine after the C function of the word; a word that  *)
(* reads a name from the input has the name as a parameter, which is ""    *)
(* at the end of the text.                                                 *)
(*                                                                         *)
(* A function that throws leaves the code it threw in m.sig; what had been *)
(* done before stays done.  Wild stands for what C leaves undefined: a     *)
(* number taken for an address, a read of memory nobody wrote.             *)
(***************************************************************************)
EXTENDS FiclDict

Quiet     == Num(0)
Status(s) == <<"status", s>>   \* FICL_VM_STATUS_...
Wild      == <<"wild", 0>>

Raise(m, code) == [m EXCEPT !.sig = code]
Error(m) == Raise(m, Status("error"))
Then(m, Next(_)) == IF m.sig = Quiet THEN Next(m) ELSE m

\* FICL_STACK_CHECK on the data stack; FICL_VM_DICTIONARY_CHECK.
Check(m, pop, push) ==
  IF StackCheck(m.d, pop, push) = "fits" THEN m ELSE Error(m)
Guard(m, n) ==
  CASE DictionaryCheck(m, n) = "fits" -> m
    [] DictionaryCheck(m, n) = "search order overflow" ->
         Error(ResetSearchOrder(m))
    [] OTHER -> Error(m)
\* ficlVmDictionaryAllotCells compares a number of cells with a number of
\* bytes: a single free cell is room enough.
AllotCells(m, n) == IF CellsAvailable(m) < 1 THEN Error(m) ELSE Allot(m, n)

Top(m)     == Fetch(m.d, 0)
Under(m)   == Fetch(m.d, 1)
PopD(m, n) == [m EXCEPT !.d = Drop(@, n)]
PushD(m, xs) == [m EXCEPT !.d = PushAll(@, xs)]
Here(m)    == Adr(m.here)
Compile(m, i) == Append1(m, Ins(i))
\* ficlVmGetWord: without a name the line is to be continued.
Named(m, name, Next(_)) ==
  IF name = "" THEN Raise(m, Status("restart")) ELSE Next(m)

-----------------------------------------------------------------------------
(***************************************************************************)
(* Control structures.  While a definition is compiled, the data stack     *)
(* holds the places to patch and the targets of jumps, each under a tag.   *)
(***************************************************************************)
MarkTag(m, tag) == PushD(m, <<Tag(tag)>>)
MarkBranch(m, tag) == PushD(m, <<Here(m), Tag(tag)>>)

Pointer(c) == c[1] \in {"adr", "core", "tag", "frm"}
\* strcmp reads whatever the cell points to.
Matching(m, tag, Next(_)) ==
  CASE Top(m) = Tag(tag) -> Next(PopD(m, 1))
    [] Pointer(Top(m)) -> Error(PopD(m, 1))
    [] OTHER -> Raise(m, Wild)
MatchTag(m, tag, Next(_)) ==
  LET checked == Check(m, 1, 0)
  IN  IF checked.sig = Quiet THEN Matching(m, tag, Next) ELSE checked

Patch(m, a, x) == IF IsAdr(a) THEN Write(m, a, x) ELSE Raise(m, Wild)
PatchForward(m, a) == Patch(m, a, Sub(Here(m), a))

ResolveBack(m, tag) ==
  MatchTag(m, tag, LAMBDA x : Then(Check(x, 1, 0), LAMBDA y :
    Append1(PopD(y, 1), Sub(Top(y), Here(y)))))
ResolveForward(m, tag) ==
  MatchTag(m, tag, LAMBDA x : Then(Check(x, 1, 0), LAMBDA y :
    PatchForward(PopD(y, 1), Top(y))))
\* Mutant: where leave goes is patched like the other jumps, with an offset.
ResolveAbsRelative(m, tag) ==
  Then(Check(m, 2, 0), LAMBDA x : PatchForward(PopD(x, 2), Under(x)))

\* A tag that does not match only gets a warning.
ResolveAbs(m, tag) ==
  Then(Check(m, 2, 0), LAMBDA x :
    IF ~Pointer(Top(x)) THEN Raise(x, Wild)
    ELSE Patch(PopD(x, 2), Under(x), Here(x)))

If(m) ==
  Append1(MarkBranch(Compile(m, "Branch0ParenWithCheck"), "origin"), Num(1))
Else(m) ==
  MatchTag(Compile(m, "BranchParenWithCheck"), "origin", LAMBDA x :
    PatchForward(Append1(MarkBranch(PopD(x, 1), "origin"), Num(1)), Top(x)))
Endif(m) == ResolveForward(m, "origin")

Begin(m) == MarkBranch(m, "target")
Until(m) == ResolveBack(Compile(m, "Branch0ParenWithCheck"), "target")
While(m) ==
  Then(Check(m, 2, 5), LAMBDA x :
    LET marked == MarkBranch(Compile(x, "Branch0ParenWithCheck"), "origin")
    IN  Append1([marked EXCEPT !.d = Roll(Roll(@, 3), 3)], Num(1)))
Again(m)  == ResolveBack(Compile(m, "BranchParenWithCheck"), "target")
Repeat(m) == Then(Again(m), LAMBDA x : ResolveForward(x, "origin"))

Do(m, i) ==
  MarkBranch(Append1(MarkBranch(Compile(m, i), "leave"), Num(0)), "do")
Loop(m, i) == Then(ResolveBack(Compile(m, i), "do"),
                   LAMBDA x : ResolveAbs(x, "leave"))

\* case keeps the places to patch under their number and the tag of case.
Case(m) == Then(Check(m, 0, 2), LAMBDA x : PushD(x, <<Num(0), Tag("case")>>))
Endcase(m) ==
  LET merged == \* the jump of a last fallthrough joins those of endof
        IF Top(m) # Tag("fallthrough") THEN m
        ELSE LET patch == Under(m)
             IN  MatchTag(PopD(m, 2), "case", LAMBDA x :
                   PushD(PopD(x, 1), <<patch, Add(Top(x), Num(1)), Tag("case")>>))
      PatchAll(x, n) ==
        LET patched[k \in 0..n] ==
              IF k = 0 THEN x
              ELSE Then(patched[k - 1], LAMBDA y : PatchForward(PopD(y, 1), Top(y)))
        IN  patched[n]
  IN  Then(merged, LAMBDA w : MatchTag(w, "case", LAMBDA x :
        Then(Check(x, 1, 0), LAMBDA y :
          LET n == Unsigned(Value(Top(y)))
          IN  Then(Check(PopD(y, 1), n, 0), LAMBDA z :
                PatchAll(Compile(z, "Drop"), n)))))
Of(m) ==
  Then(Check(m, 1, 3), LAMBDA w :
    LET through == Top(w) = Tag("fallthrough")
        x == IF through THEN PopD(w, 2) ELSE w
    IN  MatchTag(x, "case", LAMBDA y :
          LET made == Append1(MarkBranch(Compile(MarkTag(y, "case"), "OfParen"),
                                         "of"), Num(2))
          IN  IF through THEN PatchForward(made, Under(w)) ELSE made))
\* endof and fallthrough: how a branch of case ends.
Endof(m) ==
  Then(Check(m, 4, 3), LAMBDA w : MatchTag(w, "of", LAMBDA x :
    MatchTag(PopD(x, 1), "case", LAMBDA y :
      LET jump == Compile(PopD(y, 1), "BranchParenWithCheck")
          marked == PushD(jump, <<Here(jump), Add(Top(y), Num(1)), Tag("case")>>)
      IN  PatchForward(Append1(marked, Num(2)), Top(x)))))
Fallthrough(m) ==
  Then(Check(m, 4, 3), LAMBDA w : MatchTag(w, "of", LAMBDA x :
    MatchTag(PopD(x, 1), "case", LAMBDA y :
      LET jump == Compile(MarkTag(y, "case"), "BranchParenWithCheck")
          marked == PushD(jump, <<Here(jump), Tag("fallthrough")>>)
      IN  PatchForward(Append1(marked, Num(2)), Top(x)))))

-----------------------------------------------------------------------------
(***************************************************************************)
(* Definitions.                                                            *)
(***************************************************************************)
\* Mutant: the locals of a definition that was given up are still counted.
ColonKeepsLocals(m, name) ==
  Named(m, name, LAMBDA x :
    [AppendWord(MarkTag(x, "colon"), name, "ColonParen", TRUE)
       EXCEPT !.state = "compile"])

Colon(m, name) ==
  Named(m, name, LAMBDA x :
    [AppendWord(MarkTag(x, "colon"), name, "ColonParen", TRUE)
       EXCEPT !.state = "compile", !.localsCount = 0])
ColonNoName(m) ==
  LET made == AppendWord(m, NoName, "ColonParen", TRUE)
  IN  [PushD(made, <<Adr(made.smudge), Tag("colon")>>) EXCEPT !.state = "compile"]

\* What ends the scope of the locals: (unlink) is compiled if there are any.
Unlinked(m) == IF m.localsCount > 0 THEN Compile(m, "UnlinkParen") ELSE m
NoLocals(m) ==
  [Unlinked(m) EXCEPT !.locals = IF m.localsCount > 0 THEN <<>> ELSE @,
                      !.localsCount = 0]
Semicolon(m) ==
  MatchTag(m, "colon", LAMBDA x :
    Unsmudge([Compile(NoLocals(x), "SemiParen") EXCEPT !.state = "interpret"]))
Exit(m) == Compile(Unlinked(m), "ExitParen")
Does(m) == Compile(NoLocals(m), "DoesParen")

Constant(m, name) ==
  Named(m, name, LAMBDA x : Then(Check(x, 1, 0), LAMBDA y :
    Append1(AppendWord(PopD(y, 1), name, "ConstantParen", FALSE), Top(y))))
Constant2(m, name) ==
  Named(m, name, LAMBDA x : Then(Check(x, 2, 0), LAMBDA y :
    AppendCells(AppendWord(PopD(y, 2), name, "2ConstantParen", FALSE),
                <<Top(y), Under(y)>>)))
Variable(m, name, cells) ==
  Named(m, name, LAMBDA x :
    AllotCells(AppendWord(x, name, "VariableParen", FALSE), cells))
Create(m, name) ==
  Named(m, name, LAMBDA x :
    AllotCells(AppendWord(x, name, "CreateParen", FALSE), 1))
AllotWord(m) ==
  Then(Check(m, 1, 0), LAMBDA x :
    LET n == Value(Top(x))
    IN  Then(Guard(PopD(x, 1), n), LAMBDA y : Allot(y, n)))

\* A literal goes through a C int; a small one is an instruction.
Short(i) == <<"short", i>>
LiteralIm(m) ==
  LET c == Top(m)
      i == ToInt(Value(c))
      x == PopD(m, 1)
  IN  CASE IsNum(c) /\ i \in -16..16 -> Append1(x, Short(i))
        [] IsNum(c) -> Append1(Compile(x, "LiteralParen"), Num(i))
        [] OTHER -> Append1(Compile(x, "LiteralParen"),
                            IF IntBits = CellBits THEN c ELSE Junk)
Literal2Im(m) ==
  AppendCells(PopD(Compile(m, "2LiteralParen"), 2), <<Top(m), Under(m)>>)

\* What the flags of a word say; ImmediateCore and CompileOnlyCore are the
\* core words that ficlSystemCompileCore marks so.
ControlWords == {"if", "else", "then", "begin", "until", "while", "repeat",
                 "again", "do", "?do", "loop", "+loop", "case", "of", "endof",
                 "fallthrough", "endcase", ";", "exit", "does>", "recurse",
                 "[", "[']", "postpone"}
ImmediateCore == ControlWords \cup {"literal", "2literal", "s\"", "to",
                                    "2constant", "2variable", "local", "2local",
                                    "end-locals"}
CompileOnlyCore == ControlWords \cup
  {"ToRStack", "FromRStack", "FetchRStack", "2ToR", "2RFrom", "2RFetch", "I",
   "J", "K", "Leave", "Unloop"}
IsImmediate(m, xt) ==
  CASE xt[1] = "core" -> xt[2] \in ImmediateCore
    [] xt[1] = "local" -> TRUE
    [] OTHER -> Header(m, xt[2]).immediate
IsCompileOnly(m, xt) ==
  CASE xt[1] = "core" -> xt[2] \in CompileOnlyCore
    [] xt[1] = "local" -> TRUE
    [] OTHER -> Header(m, xt[2]).compileOnly

Tick(m, name) ==
  Named(m, name, LAMBDA x : Then(Check(x, 0, 1), LAMBDA y :
    IF Lookup(y, name) = NoWord THEN Error(y)
    ELSE PushD(y, <<Lookup(y, name)>>)))
BracketTick(m, name) == Then(Tick(m, name), LiteralIm)
Postpone(m, name) ==
  Then(Tick(m, name), LAMBDA x :
    IF IsImmediate(x, Top(x)) THEN Append1(PopD(x, 1), Top(x))
    ELSE Append1(LiteralIm(x), Core("Comma")))
Recurse(m) == Append1(m, Adr(m.smudge))
ToBody(m) == Then(Check(m, 1, 1), LAMBDA x :
  PushD(PopD(x, 1), <<Add(Top(x), Num(2))>>))
FromBody(m) == Then(Check(m, 1, 1), LAMBDA x :
  PushD(PopD(x, 1), <<Sub(Top(x), Num(2))>>))

\* forget: the compilation list loses the word and what is newer, and the
\* memory from its name on is free; a core word is not in m.mem.
Forget(m, name) ==
  Then(Tick(m, name), LAMBDA x :
    LET w == Top(x)[2]
        where == Header(x, w).at
    IN  IF ~IsAdr(Top(x)) THEN Raise(x, Wild)
        ELSE [HashForget(PopD(x, 1), x.current, where) EXCEPT !.here = where])

\* sfind and search-wordlist, by the name of a text on the stack.
Direction(m, xt) == Num(IF IsImmediate(m, xt) THEN 1 ELSE -1)
SFind(m, name) ==
  LET Found(x, xt) == PushD(PopD(x, 2), IF xt = NoWord THEN <<Num(0), Num(0)>>
                                        ELSE <<xt, Direction(x, xt)>>)
  IN  Then(Check(m, 2, 2), LAMBDA x : Found(x, Lookup(x, name)))
SearchWordlist(m, l, name) ==
  LET Found(xt) == PushD(PopD(m, 3), IF xt = NoWord THEN <<Num(0)>>
                                     ELSE <<xt, Direction(m, xt)>>)
  IN  Found(HashLookup(m, l, name))

-----------------------------------------------------------------------------
(***************************************************************************)
(* Locals.  The first local of a definition compiles (link), whose operand *)
(* is filled in at the end of the list.                                    *)
(***************************************************************************)
LocalParen(m, name, double) ==
  LET n == m.localsCount
      code == IF double THEN "To2LocalParen" ELSE "ToLocalParen"
      noted == [m EXCEPT !.locals =
                  Append(@, [name |-> name, double |-> double, at |-> n])]
      linked == IF n > 0 THEN noted
                ELSE [AppendCells(noted, <<Ins("LinkParen"), Num(n)>>)
                        EXCEPT !.localsFixup = m.here + 1]
  IN  CASE name # "" /\ n >= MaxLocals -> Error(m)
        [] name # "" ->
             [AppendCells(linked, <<Ins(code), Num(n)>>)
                EXCEPT !.localsCount = n + (IF double THEN 2 ELSE 1)]
        [] n > 0 -> Write(m, Adr(m.localsFixup), Num(n))
        [] OTHER -> m

DoLocalIm(m, l) ==
  LET n == l.at
      values == IF l.double THEN <<Local(m, n), Local(m, n + 1)>> ELSE <<Local(m, n)>>
      short == IF l.double THEN "Get2Local0"
               ELSE IF n = 0 THEN "GetLocal0" ELSE "GetLocal1"
      long == IF l.double THEN "Get2LocalParen" ELSE "GetLocalParen"
  IN  CASE m.state = "interpret" -> PushD(m, values)
        [] m.state # "interpret" /\ (n = 0 \/ (n = 1 /\ ~l.double)) -> Compile(m, short)
        [] OTHER -> Append1(Compile(m, long), Num(n))

ToLocal(m, l) ==
  LET n == l.at
      short == IF l.double THEN "To2Local0"
               ELSE IF n = 0 THEN "ToLocal0" ELSE "ToLocal1"
      long == IF l.double THEN "To2LocalParen" ELSE "ToLocalParen"
  IN  IF n = 0 \/ (n = 1 /\ ~l.double) THEN Compile(m, short)
      ELSE Append1(Compile(m, long), Num(n))
ToGlobal(m, xt) ==
  LET code == IF xt[1] = "adr" THEN Header(m, xt[2]).code ELSE "core"
      body == Body(xt[2])
      Stored == IF code = "ConstantParen" THEN Write(PopD(m, 1), Adr(body), Top(m))
                ELSE Write(Write(PopD(m, 2), Adr(body), Top(m)), Adr(body + 1), Under(m))
  IN  CASE xt = NoWord -> Error(m)
        [] code \notin {"ConstantParen", "2ConstantParen"} -> Error(m)
        [] m.state = "interpret" -> Stored
        [] OTHER -> Compile(LiteralIm(PushD(m, <<Adr(body)>>)),
                            IF code = "ConstantParen" THEN "Store" ELSE "2Store")
To(m, name) ==
  Named(m, name, LAMBDA x :
    IF x.localsCount > 0 /\ x.state = "compile" /\ LocalNamed(x, name) # {}
    THEN ToLocal(x, x.locals[LookupLocal(x, name)[2]])
    ELSE ToGlobal(x, Lookup(x, name)))

-----------------------------------------------------------------------------
(***************************************************************************)
(* Double-cell arithmetic on the data stack.                               *)
(***************************************************************************)
Doubles == {"fm/mod", "sm/rem", "mod", "um/mod", "m*", "um*", "dnegate"}
DoubleWord(p, m) ==
  LET d == m.d
      x == Sgn(d, 1)  y == Sgn(d, 0)
      num == Top2(Drop(d, 1))
      Both(w) == PushAll(Drop(d, 3), <<Num(Signed(w.remainder)),
                                       Num(Signed(w.quotient.low))>>)
      With(s) == [m EXCEPT !.d = s]
      Checked(pop, push, s) == Then(Check(m, pop, push), LAMBDA w : [w EXCEPT !.d = s])
  IN  CASE p = "fm/mod" -> Checked(3, 2, Both(DivideFloored(num, y)))
        [] p = "sm/rem" -> Checked(3, 2, Both(DivideSymmetric(num, y)))
        [] p = "mod" -> Checked(2, 1,
             Replace(d, 2, Num(DivideSymmetric(Extend(x), y).remainder)))
        [] p = "um/mod" -> With(Both(UDivide(num, Unsigned(y))))
        [] p = "m*"  -> Checked(2, 2, Push2(Drop(d, 2), IMultiply(x, y)))
        [] p = "um*" -> Checked(2, 2,
             Push2(Drop(d, 2), UMultiply(Unsigned(x), Unsigned(y))))
        [] p = "dnegate" -> With(Push2(Drop(d, 2), Negate2(Top2(d))))

-----------------------------------------------------------------------------
(***************************************************************************)
(* The search order and the list that receives the words (search.c).       *)
(***************************************************************************)
SearchWords == {"definitions", "forth-wordlist", "get-current", "get-order",
                "set-current", "set-order", "ficl-wordlist", "search>",
                ">search", "wid-set-super", "forget-wid"}
SearchWord(p, m) ==
  LET n == Len(m.order)
      top == Top(m)
      Lst(c) == IF IsAdr(c) /\ IsList(m, c[2]) THEN c[2] ELSE Null
      count == Value(top)
      given == [k \in 1..count |-> Lst(Fetch(m.d, 1 + count - k))]
  IN  CASE p = "definitions" ->
             IF n < 1 THEN Error(m) ELSE [m EXCEPT !.current = m.order[n]]
        [] p = "forth-wordlist" -> PushD(m, <<Adr(Forth)>>)
        [] p = "get-current" -> PushD(m, <<Adr(m.current)>>)
        [] p = "get-order" ->
             PushD(m, [k \in 1..n |-> Adr(m.order[k])] \o <<Num(n)>>)
        [] p = "set-current" ->
             IF Lst(top) = Null THEN Raise(m, Wild)
             ELSE [PopD(m, 1) EXCEPT !.current = Lst(top)]
        [] p = "set-order" ->
             IF count > MaxWordlists THEN Error(PopD(m, 1))
             ELSE IF count < 0 THEN ResetSearchOrder(PopD(m, 1))
             ELSE IF Null \in {given[k] : k \in 1..count} THEN Raise(m, Wild)
             ELSE [PopD(m, 1 + count) EXCEPT !.order = given]
        [] p = "ficl-wordlist" ->
             Then(Check(m, 1, 1), LAMBDA x :
               PushD(CreateWordlist(PopD(x, 1)), <<Here(x)>>))
        [] p = "search>" ->
             IF n = 0 THEN Error(m)
             ELSE [PushD(m, <<Adr(m.order[n])>>) EXCEPT !.order = SubSeq(@, 1, n - 1)]
        [] p = ">search" ->
             \* (the list may grow one beyond the array)
             IF n > MaxWordlists THEN Error(m)
             ELSE IF Lst(top) = Null THEN Raise(m, Wild)
             ELSE [PopD(m, 1) EXCEPT !.order = Append(@, Lst(top))]
        [] p = "forget-wid" ->
             IF Lst(top) = Null THEN Raise(m, Wild)
             ELSE HashForget(PopD(m, 1), Lst(top), m.here)
        [] p = "wid-set-super" ->
             Then(Check(m, 2, 0), LAMBDA x :
               IF Lst(top) = Null \/ Lst(Under(x)) = Null THEN Raise(x, Wild)
               ELSE Write(PopD(x, 2), Adr(Lst(top)),
                          ListCell(List(x, Lst(top)).first, Lst(Under(x)))))
=============================================================================
