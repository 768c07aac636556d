-------------------------------- MODULE FiclVm --------------------------------
(***************************************************************************)
(* The virtual machine of FORTH (src/ficl/vm.c) with the words of          *)
(* primitives.c that drive it: the outer interpreter, execute, evaluate,   *)
(* catch and throw.                                                        *)
(*                                                                         *)
(* A host evaluates one line after the other: the loop of src/ficl/main.c, *)
(* which goes on after an error, or parse_ficl_file of libfakedbfs/ficl.c, *)
(* which refuses the file, throws its machine away and makes another one   *)
(* for the next file, on the same dictionary.                              *)
(*                                                                         *)
(* The C stack is vm.cs, the newest frame last: a frame for each           *)
(* ficlVmExecuteString ("line" by the host, "string" by evaluate) and each *)
(* catch, with what it saves.  An exception is a code in vm.sig; a step of *)
(* its own hands it to the top frame, as longjmp does.  Each of these      *)
(* functions runs an inner loop that keeps the registers of the machine in *)
(* local variables: its frame notes them (snap) when it calls a primitive, *)
(* because they are put back when the primitive throws.                    *)
(***************************************************************************)
EXTENDS FiclPrim

CONSTANTS
  StackSize,      \* cells of each stack
  DictionarySize, \* cells of the dictionary
  Texts,          \* the text of number k: a sequence of words
  TextOf,         \* the number of the text a token of the input stands for
  Numerals,       \* the number a token stands for
  Sessions        \* what may be read: each a sequence of files, a file has its
                  \* host and its lines, a line is one of a set of sequences
                  \* of tokens

VARIABLES
  vm,      \* the machine and the dictionary
  session, \* which of Sessions is read,
  file,    \* the index of its file, the next line of that, and the line that
  line,    \* the end of the file leaves in the buffer
  buffer

vars == <<vm, session, file, line, buffer>>

InstructionNames ==
  Literals \cup Locals \cup Moves \cup Sums \cup Scales \cup Products \cup Logic
    \cup ReturnMoves \cup Parts \cup Blocks \cup Memory \cup Flow \cup Counting
    \cup FloatMoves \cup FCounted \cup FloatArithmetic \cup FloatMixed
    \cup FloatLogic \cup FloatMemory \cup FloatLocals
    \cup {"BranchParenWithCheck", "Branch0ParenWithCheck", "DoesParen"}

NoSnap  == [ip |-> NoIp, d |-> 0, r |-> 0, f |-> 0, frame |-> 0]
NoTib   == [rest |-> <<>>, at |-> Null, text |-> 0]
Registers(x) == [ip |-> x.ip, d |-> x.d.top, r |-> x.r.top, f |-> x.f.top,
                 frame |-> x.frame]
WithRegisters(x, s) == [x EXCEPT !.ip = s.ip, !.d.top = s.d, !.r.top = s.r,
                                 !.f.top = s.f, !.frame = s.frame]

\* ficlVmCreate and ficlVmReset: a machine on the dictionary of x.
NewVm(x) ==
  [x EXCEPT !.d = EmptyStack(StackSize), !.r = EmptyStack(StackSize),
            !.f = EmptyStack(StackSize), !.frame = 0, !.ip = NoIp,
            !.state = "interpret", !.source = 0, !.restart = FALSE,
            !.running = "", !.tib = NoTib, !.sig = Quiet, !.cs = <<>>]

\* ficlVmQuit, ficlVmReset
QuitVm(x) == [x EXCEPT !.r = ResetStack(@), !.restart = FALSE, !.ip = NoIp,
                       !.state = "interpret", !.tib = NoTib, !.source = 0]
ResetVm(x) == [QuitVm(x) EXCEPT !.d = ResetStack(@), !.f = ResetStack(@)]

PushIp(x, ip) == [x EXCEPT !.r = Push(@, x.ip), !.ip = ip]
PushFrame(x, kind, saved) ==
  [x EXCEPT !.cs = Append(@, [kind |-> kind, snap |-> NoSnap, saved |-> saved])]
PopFrame(x) == [x EXCEPT !.cs = SubSeq(@, 1, Len(@) - 1)]
TopFrame(x) == x.cs[Len(x.cs)]
SetSnap(x, s) == [x EXCEPT !.cs[Len(x.cs)].snap = s]

\* The next word of the text, "" at its end.  An evaluated text is in
\* memory, and may have been overwritten since.
Reading(x, Next(_, _)) ==
  CASE x.tib.at # Null /\ At(x, x.tib.at) # Txt(x.tib.text) -> Raise(x, Wild)
    [] x.tib.rest = <<>> -> Next(x, "")
    [] OTHER -> Next([x EXCEPT !.tib.rest = Tail(@)], Head(x.tib.rest))

-----------------------------------------------------------------------------
(***************************************************************************)
(* Jumps.  The first time a jump runs it is made to skip a chain of        *)
(* unconditional jumps (ficlVmOptimizeJumpToJump).                         *)
(***************************************************************************)
PlainJump == [BranchParenWithCheck  |-> "BranchParen",
              Branch0ParenWithCheck |-> "Branch0Paren"]
Destination(x, a) == Value(Add(Adr(a), At(x, a)))  \* a holds the offset
\* Mutant: the new offset is counted from the instruction, not from its operand.
RECURSIVE OptimiseShort(_, _)
OptimiseShort(x, a) ==
  IF At(x, a) \notin {Ins(i) : i \in DOMAIN PlainJump} THEN x
  ELSE LET plain == Write(x, Adr(a), Ins(PlainJump[At(x, a)[2]]))
           to == Destination(x, a + 1)
           y == IF At(plain, to) = Ins("BranchParenWithCheck")
                THEN OptimiseShort(plain, to) ELSE plain
       IN  IF At(y, to) # Ins("BranchParen") THEN y
           ELSE Write(y, Adr(a + 1), Num(Destination(y, to + 1) - a))

RECURSIVE Optimise(_, _)
Optimise(x, a) ==
  IF At(x, a) \notin {Ins(i) : i \in DOMAIN PlainJump} THEN x
  ELSE LET plain == Write(x, Adr(a), Ins(PlainJump[At(x, a)[2]]))
           to == Destination(x, a + 1)
           y == IF At(plain, to) = Ins("BranchParenWithCheck")
                THEN Optimise(plain, to) ELSE plain
       IN  IF At(y, to) # Ins("BranchParen") THEN y
           ELSE Write(y, Adr(a + 1), Num(Destination(y, to + 1) - (a + 1)))

\* Division by zero stops the process: (/) traps, the others never end.
Divides == {"Slash", "SlashMod", "StarSlash", "StarSlashMod", "fm/mod",
            "sm/rem", "mod", "um/mod"}
Fatal(i, x) == i \in Divides /\ Value(Top(x)) = 0

Execute(i, x) ==
  CASE i \in Literals    -> Literal(i, x)
    [] i \in Locals      -> Frames(i, x)
    [] i \in Moves       -> [x EXCEPT !.d = Move(i, @)]
    [] i \in Sums        -> [x EXCEPT !.d = AddUp(i, @)]
    [] i \in Scales      -> [x EXCEPT !.d = Scale(i, @)]
    [] i \in Products    -> [x EXCEPT !.d = Calculate(i, @)]
    [] i \in Logic       -> [x EXCEPT !.d = Decide(i, @)]
    [] i \in ReturnMoves -> ReturnMove(i, x)
    [] i \in Parts       -> RememberPart(i, x)
    [] i \in Blocks      -> Block(i, x)
    [] i \in Memory      -> Remember(i, x)
    [] i \in Flow        -> Go(i, x)
    [] i \in Counting    -> Count(i, x)
    [] i \in FloatMoves  -> [x EXCEPT !.f = FloatMove(i, @)]
    [] i \in FCounted    -> FloatCounts(i, x)
    [] i \in FloatArithmetic -> FloatCalculate(i, x)
    [] i \in FloatMixed  -> FloatMix(i, x)
    [] i \in FloatLogic  -> FloatDecide(i, x)
    [] i \in FloatMemory -> FloatRemember(i, x)
    [] i \in FloatLocals -> FloatFrames(i, x)

\* An address outside of the dictionary is not the machine's memory.
Mapped(c) == IsAdr(c) /\ c[2] \in 1..DictionarySize
Addressing == Parts \cup {"2Fetch", "Fetch", "2Store", "Store", "F2Fetch", "FFetch",
                          "F2Store", "FStore", "FPlusStore"}
Stray(i, x) ==
  LET d == x.d IN
  \/ i \in Addressing /\ ~Mapped(Fetch(d, 0))
  \/ i = "Fill" /\ Uns(d, 1) > 0 /\ ~Mapped(Fetch(d, 2))
  \/ i = "Move" /\ Uns(d, 0) > 0 /\ ~(Mapped(Fetch(d, 1)) /\ Mapped(Fetch(d, 2)))
  \/ i = "Compare" /\ Uns(d, 0) > 0 /\ Uns(d, 2) > 0
       /\ ~(Mapped(Fetch(d, 1)) /\ Mapped(Fetch(d, 3)))

Instruction(i, x) ==
  LET y == IF i \in DOMAIN PlainJump THEN Optimise(x, x.ip[2] - 1) ELSE x
      plain == IF i \in DOMAIN PlainJump THEN PlainJump[i] ELSE i
      w == x.smudge
  IN  CASE i = "DoesParen" ->
             IF ~IsHeader(x, w) THEN Raise(x, Wild)
             ELSE PopIp(Write(SetCode(x, w, "DoDoes"), Adr(Body(w)), x.ip))
        [] Checks(plain, y) # "fits" -> Error(y)
        [] Fatal(i, x) \/ Stray(i, x) -> Raise(x, Wild)
        [] OTHER -> Execute(plain, y)

\* The run time of the words made in the dictionary, by the code of the word
\* at a.
Word(x, a) ==
  LET code == Header(x, a).code
      body == Adr(Body(a))
      next == Adr(Body(a) + 1)
  IN  CASE Checks(code, x) # "fits" -> Error(x)
        [] code = "ColonParen"    -> PushIp(x, body)
        [] code = "VariableParen" -> PushD(x, <<body>>)
        [] code = "CreateParen"   -> PushD(x, <<next>>)
        [] code = "ConstantParen" -> PushD(x, <<Read(x, body)>>)
        [] code = "2ConstantParen" -> PushD(x, <<Read(x, next), Read(x, body)>>)
        [] code = "DoDoes" -> PushIp(PushD(x, <<next>>), Read(x, body))

-----------------------------------------------------------------------------
(***************************************************************************)
(* The primitives.                                                         *)
(***************************************************************************)
LeftBracket(x) == [x EXCEPT !.state = "interpret"]
RightBracket(x) == [x EXCEPT !.state = "compile"]
Compiling(p, x) ==
  CASE p = "if" -> If(x)          [] p = "else" -> Else(x)
    [] p = "then" -> Endif(x)     [] p = "begin" -> Begin(x)
    [] p = "until" -> Until(x)    [] p = "while" -> While(x)
    [] p = "repeat" -> Repeat(x)  [] p = "again" -> Again(x)
    [] p = "do" -> Do(x, "DoParen")       [] p = "?do" -> Do(x, "QDoParen")
    [] p = "loop" -> Loop(x, "LoopParen") [] p = "+loop" -> Loop(x, "PlusLoopParen")
    [] p = "case" -> Case(x)      [] p = "of" -> Of(x)
    [] p = "endof" -> Endof(x)    [] p = "fallthrough" -> Fallthrough(x)
    [] p = "endcase" -> Endcase(x)
    [] p = ";" -> Semicolon(x)    [] p = ":noname" -> ColonNoName(x)
    [] p = "exit" -> Exit(x)      [] p = "does>" -> Does(x)
    [] p = "recurse" -> Recurse(x)
    [] p = "literal" -> LiteralIm(x)  [] p = "2literal" -> Literal2Im(x)
    [] p = "[" -> LeftBracket(x)  [] p = "]" -> RightBracket(x)
    [] p = "immediate" -> SetImmediate(x)
    [] p = "compile-only" -> SetCompileOnly(x)
    [] p = "allot" -> AllotWord(x)
    [] p = "here" -> Then(Check(x, 0, 1), LAMBDA y : PushD(y, <<Here(y)>>))
    [] p = ">body" -> ToBody(x)   [] p = "body>" -> FromBody(x)
    [] p = "end-locals" -> LocalParen(x, "", FALSE)
CompilingWords ==
  (ControlWords \ {"[']", "postpone"}) \cup
    {":noname", "literal", "2literal", "]", "immediate", "compile-only",
     "allot", "here", ">body", "body>", "end-locals"}

\* The words that read a name.
NamingWords == {":", "constant", "2constant", "variable", "2variable",
                "create", "'", "[']", "postpone", "to", "local", "2local",
                "forget"}
Naming(p, x, name) ==
  CASE p = ":" -> Colon(x, name)
    [] p = "constant" -> Constant(x, name)
    [] p = "2constant" -> Constant2(x, name)
    [] p = "variable" -> Variable(x, name, 1)
    [] p = "2variable" -> Variable(x, name, 2)
    [] p = "create" -> Create(x, name)
    [] p = "'" -> Tick(x, name)
    [] p = "[']" -> BracketTick(x, name)
    [] p = "postpone" -> Postpone(x, name)
    [] p = "to" -> To(x, name)
    [] p = "local" -> LocalParen(x, name, FALSE)
    [] p = "2local" -> LocalParen(x, name, TRUE)
    [] p = "forget" -> Forget(x, name)

\* s" leaves a text it interprets at here and does not move here.
Quote(x, token) ==
  LET k == IF token \in DOMAIN TextOf THEN TextOf[token] ELSE 0
  IN  IF x.state = "interpret"
      THEN PushD(Write(x, Here(x), Txt(k)), <<Here(x), Num(k)>>)
      ELSE Append1(Compile(x, "StringLiteralParen"), Txt(k))

\* What a text on the stack says, by its address and length.
TextAt(x, a, n) == IF IsAdr(a) /\ At(x, a[2]) = Txt(Value(n)) THEN Value(n) ELSE -1
TextOfNumber(k) == IF k = 0 THEN <<>> ELSE Texts[k]

\* catch: what is put back if the word it executes throws, all but the float
\* stack and the dictionary.  The copy of a stack has its registers and, as
\* its array is declared with one element, its first cell.
Saved(x) == [regs |-> Registers(x), state |-> x.state, source |-> x.source,
             restart |-> x.restart, running |-> x.running, tib |-> x.tib,
             first |-> <<x.d.c[1], x.r.c[1]>>,
             cells |-> SubSeq(x.r.c, 1, x.r.top)]
Restored(x, s) ==
  [WithRegisters(x, [s.regs EXCEPT !.f = x.f.top])
     EXCEPT !.d.c[1] = s.first[1], !.r.c[1] = s.first[2],
            !.state = s.state, !.source = s.source, !.restart = s.restart,
            !.running = s.running, !.tib = s.tib]

RECURSIVE Perform(_, _), Primitive(_, _)

\* ficlVmExecuteString up to the call of the inner loop.
ExecuteString(x, kind, tib) ==
  LET y == [PushFrame(x, kind, [tib |-> x.tib, source |-> x.source])
              EXCEPT !.tib = tib, !.source = -1]
  IN  IF ~y.restart THEN PushIp(y, Loop0)
      ELSE Then(Primitive(y, y.running), LAMBDA z : [z EXCEPT !.restart = FALSE])

Evaluate(x) ==
  Then(Check(x, 2, 0), LAMBDA y :
    LET k == TextAt(y, Under(y), Top(y))
    IN  IF k < 0 THEN Raise(y, Wild)
        ELSE ExecuteString(PopD(y, 2), "string",
               [rest |-> TextOfNumber(k), at |-> Under(y)[2], text |-> k]))

\* Mutant: the ip is not pushed.
CatchNoPush(x) ==
  Then(Check(x, 1, 0), LAMBDA y :
    LET popped == PopD(y, 1)
        framed == [PushFrame(popped, "catch", Saved(popped)) EXCEPT !.ip = Poison]
    IN  Perform(SetSnap(framed, Registers(framed)), Top(y)))

Catch(x) ==
  Then(Check(x, 1, 0), LAMBDA y :
    LET popped == PopD(y, 1)
        framed == PushIp(PushFrame(popped, "catch", Saved(popped)), Poison)
    IN  Perform(SetSnap(framed, Registers(framed)), Top(y)))

\* interpret, with ficlVmParseWord and ficlVmParseNumber.
CompileWord(x, xt) ==
  IF xt[1] = "core" /\ xt[2] \in InstructionNames THEN Compile(x, xt[2]) ELSE Append1(x, xt)
Understood(x, token, xt) ==
  LET Number(y) == PushD(y, <<Num(Numerals[token])>>)
  IN  CASE xt # NoWord /\ x.state = "interpret" ->
             IF IsCompileOnly(x, xt) THEN Error(x) ELSE Perform(x, xt)
        [] xt # NoWord /\ IsImmediate(x, xt) -> Perform(x, xt)
        [] xt # NoWord -> CompileWord(x, xt)
        [] token \notin DOMAIN Numerals -> Error(x)
        [] x.state = "interpret" -> Number(x)  \* the check of the next word finds it full
        [] OTHER -> LiteralIm(Number(x))
Interpret(x) ==
  Reading(x, LAMBDA y, token :
    IF token = "" THEN Raise(y, Status("out of text"))
    ELSE Then(Then(Guard(y, 0), LAMBDA z : Check(z, 0, 0)), LAMBDA z :
           Understood(z, token, IF z.localsCount > 0 THEN LookupLocal(z, token)
                                ELSE Lookup(z, token))))

DepthWord(x) == Then(Check(x, 0, 1), LAMBDA y : PushD(y, <<Num(Depth(y.d))>>))
SourceId(x) == PushD(x, <<Num(x.source)>>)
Refill(x) == \* a text that is evaluated has no more lines
  IF x.source # -1 /\ ~x.restart THEN Raise(x, Status("restart"))
  ELSE PushD(x, <<Bool(x.source # -1)>>)
ExecuteWord(x) == Then(Check(x, 1, 0), LAMBDA y : Perform(PopD(y, 1), Top(y)))
Throw(x) == IF Top(x) = Num(0) THEN PopD(x, 1) ELSE Raise(PopD(x, 1), Top(x))
Quit(x) == Raise(x, Status("quit"))
Abort(x) == Raise(x, Status("abort"))

Primitive(x, p) ==
  LET y == [x EXCEPT !.running = p] IN
  CASE p = "interpret" -> Interpret(y)
    [] p \in CompilingWords -> Compiling(p, y)
    [] p \in NamingWords -> Reading(y, LAMBDA z, name : Naming(p, z, name))
    [] p = "s\"" -> Reading(y, Quote)
    [] p = "sfind" ->
         LET k == TextAt(y, Under(y), Top(y))
         IN  IF k < 1 THEN Raise(y, Wild) ELSE SFind(y, Head(Texts[k]))
    [] p = "search-wordlist" ->
         LET k == TextAt(y, Fetch(y.d, 2), Under(y))
         IN  IF k < 1 \/ ~IsAdr(Top(y)) \/ ~IsList(y, Top(y)[2]) THEN Raise(y, Wild)
             ELSE SearchWordlist(y, Top(y)[2], Head(Texts[k]))
    [] p = "depth" -> DepthWord(y)
    [] p = "source-id" -> SourceId(y)
    [] p = "refill" -> Refill(y)
    [] p \in Doubles -> IF Fatal(p, y) THEN Raise(y, Wild) ELSE DoubleWord(p, y)
    [] p \in SearchWords -> SearchWord(p, y)
    [] p = "execute" -> ExecuteWord(y)
    [] p = "evaluate" -> Evaluate(y)
    [] p = "catch" -> Catch(y)
    [] p = "throw" -> Throw(y)
    [] p = "quit" -> Quit(y)
    [] p = "abort" -> Abort(y)

\* One turn of an inner loop, for the cell c of a definition or an execution
\* token.
Perform(x, c) ==
  CASE c[1] = "short" -> Then(Check(x, 0, 1), LAMBDA y : PushD(y, <<Num(c[2])>>))
    [] c[1] \in {"ins", "core"} /\ c[2] \in InstructionNames -> Instruction(c[2], x)
    [] c[1] = "core" -> Primitive(x, c[2])
    [] c[1] = "local" -> DoLocalIm(x, x.locals[c[2]])
    [] c[1] = "adr" /\ IsHeader(x, c[2]) -> Word(x, c[2])
    [] c = Num(0) -> Error(x)     \* "NULL instruction executed!"
    [] OTHER -> Raise(x, Wild)

-----------------------------------------------------------------------------
(***************************************************************************)
(* The steps.                                                              *)
(***************************************************************************)
\* What a step leaves behind: outside of its stacks and its dictionary the
\* machine writes memory that is not its own; registers and the running word are of use
\* only as long as they may be put back.
Settled(x) ==
  LET lost == \/ ~Inside(x.d) \/ ~Inside(x.r) \/ ~Inside(x.f)
              \/ x.here > DictionarySize + 1
      kept == x.restart \/ x.sig = Status("restart")
      y == IF kept THEN x ELSE [x EXCEPT !.running = ""]
  IN  IF lost THEN Raise(x, Wild) ELSE y

\* The inner loop of the top frame: fetch, and perform.
Turn(x) ==
  CASE x.ip = Loop0  -> Primitive(SetSnap(x, Registers(x)), "interpret")
    [] x.ip = Poison -> Raise(x, Status("inner exit"))
    [] IsAdr(x.ip) ->
         LET y == Skip(x, 1) IN Perform(SetSnap(y, Registers(y)), Operand(x))
    [] OTHER -> Raise(x, Wild)
Rested(x) == \* no primitive is running in the top frame any more
  IF x.sig = Quiet /\ Len(x.cs) = Len(vm.cs) THEN SetSnap(x, NoSnap) ELSE x
Step ==
  /\ vm.cs # <<>>
  /\ vm.sig = Quiet
  /\ vm' = Rested(Settled(Turn(vm)))
  /\ UNCHANGED <<session, file, line, buffer>>

\* An exception reaches the top frame (the cases after each setjmp).
Unwound(x) == \* the inner loop puts its registers back and throws again
  IF TopFrame(x).snap = NoSnap THEN x ELSE WithRegisters(x, TopFrame(x).snap)
Abandon(x) ==
  IF x.state = "compile" THEN EmptyLocals(AbortDefinition(x)) ELSE x
\* Mutant: the end of a text leaves its return address behind.
HandledNoPop(x, code) ==
  CASE code = Status("restart") -> [x EXCEPT !.restart = TRUE]
    [] code \in {Status("out of text"), Status("inner exit")} -> x
    [] code = Status("quit") -> QuitVm(Abandon(x))
    [] OTHER -> ResetVm(ResetSearchOrder(Abandon(x)))
Handled(x, code) ==
  CASE code = Status("restart")     -> [x EXCEPT !.restart = TRUE]
    [] code = Status("out of text") -> PopIp(x)
    [] code = Status("inner exit")  -> x
    [] code = Status("quit")        -> QuitVm(Abandon(x))
    [] OTHER                        -> ResetVm(ResetSearchOrder(Abandon(x)))
Finished(code) == code \in {Status("restart"), Status("out of text")}
Resumed(x) == IF x.cs = <<>> THEN x ELSE SetSnap(x, NoSnap)

CatchReturns ==
  /\ vm.cs # <<>> /\ vm.sig \notin {Quiet, Wild}
  /\ TopFrame(vm).kind = "catch"
  /\ LET x == [Unwound(vm) EXCEPT !.sig = Quiet]
         kept == PushD(PopIp(x), <<Num(0)>>)
         back == PushD(Restored(x, TopFrame(vm).saved), <<vm.sig>>)
     IN  vm' = Settled(Resumed(PopFrame(
                IF vm.sig = Status("inner exit") THEN kept ELSE back)))
  /\ UNCHANGED <<session, file, line, buffer>>

TextEnds(x) ==
  LET saved == TopFrame(x).saved
      y == Handled([Unwound(x) EXCEPT !.sig = Quiet], x.sig)
  IN  PopFrame([y EXCEPT !.tib = saved.tib, !.source = saved.source])
EvaluateReturns ==
  /\ vm.cs # <<>> /\ vm.sig \notin {Quiet, Wild}
  /\ TopFrame(vm).kind = "string"
  /\ vm' = IF Finished(vm.sig) THEN Settled(Resumed(TextEnds(vm)))
          ELSE Raise(TextEnds(vm), vm.sig)
  /\ UNCHANGED <<session, file, line, buffer>>

(***************************************************************************)
(* The hosts.                                                              *)
(***************************************************************************)
AtPrompt == vm.cs = <<>> /\ vm.sig = Quiet
Files == Sessions[session]
EndOfFiles == file > Len(Files)
Lines == Files[file].lines

HostReads ==
  /\ AtPrompt /\ ~EndOfFiles /\ line <= Len(Lines)
  /\ \E l \in Lines[line] :
       /\ vm' = Settled(ExecuteString(vm, "line",
                 [rest |-> l, at |-> Null, text |-> 0]))
       /\ buffer' = IF Files[file].host = "plugin" THEN l ELSE <<>>
  /\ line' = line + 1
  /\ UNCHANGED <<session, file>>

\* A plugin file: feof is seen only after a read has failed, so the last
\* line is in the buffer once more.  Then the next plugin is loaded, with a
\* machine of its own.
HostReadsLastAgain ==
  /\ AtPrompt /\ ~EndOfFiles /\ line = Len(Lines) + 1
  /\ Files[file].host = "plugin"
  /\ vm' = Settled(ExecuteString(vm, "line",
            [rest |-> buffer, at |-> Null, text |-> 0]))
  /\ line' = line + 1
  /\ UNCHANGED <<session, file, buffer>>
HostCloses ==
  /\ AtPrompt /\ ~EndOfFiles
  /\ line = Len(Lines) + (IF Files[file].host = "plugin" THEN 2 ELSE 1)
  /\ vm' = NewVm(vm)
  /\ file' = file + 1 /\ line' = 1 /\ buffer' = <<>> /\ UNCHANGED session

LineReturns ==
  /\ vm.cs # <<>> /\ vm.sig \notin {Quiet, Wild}
  /\ TopFrame(vm).kind = "line"
  /\ IF Files[file].host = "plugin" /\ ~Finished(vm.sig)
     THEN /\ vm' = NewVm(TextEnds(vm))
          /\ file' = file + 1 /\ line' = 1 /\ buffer' = <<>> /\ UNCHANGED session
     ELSE /\ vm' = Settled(TextEnds(vm))
          /\ UNCHANGED <<session, file, line, buffer>>

NoMachine(dict) == [mem |-> dict.mem, here |-> dict.here, smudge |-> dict.smudge,
              current |-> dict.current, order |-> dict.order,
              locals |-> dict.locals, localsCount |-> dict.localsCount,
              localsFixup |-> dict.localsFixup, d |-> Junk, r |-> Junk, f |-> Junk, frame |-> 0, ip |-> NoIp,
              state |-> "interpret", source |-> 0, restart |-> FALSE,
              running |-> "", tib |-> NoTib, sig |-> Quiet, cs |-> <<>>]
Init ==
  /\ vm = NewVm(NoMachine(EmptyDictionary(DictionarySize)))
  /\ session \in DOMAIN Sessions
  /\ file = 1 /\ line = 1 /\ buffer = <<>>
Next == \/ HostReads \/ HostReadsLastAgain \/ HostCloses
        \/ Step \/ CatchReturns \/ EvaluateReturns \/ LineReturns
Spec == Init /\ [][Next]_vars

-----------------------------------------------------------------------------
(***************************************************************************)
(* Properties.                                                             *)
(***************************************************************************)
\* However a line ended, the machine comes back to the prompt with an empty
\* return stack, unless the line is to be continued: then the stack still
\* leads back to the interpreter (ficlVmExecuteString pushes the ip and each
\* of its ends has to pop it or to reset the stack).
PromptBalanced ==
  AtPrompt => IF vm.restart THEN vm.r.top > 0 /\ vm.r.c[1] = NoIp
                            ELSE vm.r.top = 0 /\ vm.ip = NoIp

\* However the word ended that it executed, catch goes on behind itself, with
\* the return stack it was called with: it puts back only the index of the
\* top cell, and when the word has returned not even that.
CatchComesBack ==
  [][\A i \in DOMAIN vm.cs :
       vm.cs[i].kind = "catch" /\ i > Len(vm'.cs) /\ vm'.cs # <<>> =>
         LET saved == vm.cs[i].saved
         IN  /\ vm'.ip = saved.regs.ip
             /\ vm'.r.top = saved.regs.r
             /\ SubSeq(vm'.r.c, 1, vm'.r.top) = saved.cells]_vars

\* Every chain of a word list ends, and holds finished words only, none of
\* them in the memory that is free again after an aborted definition.
WordLists == {a \in 1..(vm.here - 1) : IsList(vm, a)}
ListsIntact ==
  \A l \in WordLists :
    /\ Ends(vm, List(vm, l).first)
    /\ \A w \in Chain(vm, List(vm, l).first) :
         w < vm.here /\ IsHeader(vm, w) /\ ~Header(vm, w).smudged

\* The instructions of a colon definition: the cells between its body and
\* its (;) that are no operands.
Operands(c) ==
  CASE c[1] # "ins" -> 0
    [] c[2] = "2LiteralParen" -> 2
    [] c[2] \in (DOMAIN PlainJump) \cup
         {"BranchParen", "Branch0Paren", "OfParen", "LoopParen", "PlusLoopParen",
          "DoParen", "QDoParen", "LiteralParen", "StringLiteralParen",
          "LinkParen", "GetLocalParen", "Get2LocalParen", "ToLocalParen",
          "To2LocalParen"} -> 1
    [] OTHER -> 0
Starts(w) ==
  LET s == Walk(Body(w), LAMBDA a : IF At(vm, a) = Ins("SemiParen") THEN Null
                                    ELSE a + 1 + Operands(At(vm, a)), DictionarySize)
  IN  {s[i] : i \in DOMAIN s}
Colons == UNION {{w \in Chain(vm, List(vm, l).first) :
                    Header(vm, w).code = "ColonParen"} : l \in WordLists}
Is(a, names) == At(vm, a) \in {Ins(i) : i \in names}

\* A jump compiled by the control-structure words goes to an instruction of
\* its own definition, however the structures were nested, left or aborted.
RelativeJumps == {"BranchParen", "Branch0Paren", "OfParen", "LoopParen",
                  "PlusLoopParen"} \cup DOMAIN PlainJump
BranchesInside ==
  \A w \in Colons : \A a \in Starts(w) :
    /\ Is(a, RelativeJumps) => Destination(vm, a + 1) \in Starts(w)
    /\ Is(a, {"DoParen", "QDoParen"}) => At(vm, a + 1) \in {Adr(b) : b \in Starts(w)}

\* A definition begun with ":" drops its frame of locals at every way out, and
\* one that has none drops none; the locals it uses are in its frame.  The
\* count that decides is shared by all machines and outlives an error.  ":"
\* sets it back, ":noname" does not: a definition without a name, begun after
\* one with locals was given up, drops a frame it has not made and can read
\* the other's locals, against what primitives.c:2591 says of their scope.
\* Such a definition is in no word list, and no part of this property.
Before(w, a) == {b \in Starts(w) : b < a}
Framed(w, a) == \E b \in Before(w, a) :
  /\ Is(b, {"LinkParen"})
  /\ \A c \in Before(w, a) : c > b => ~Is(c, {"DoesParen"})
UsesLocal(a) == Is(a, Locals \ {"LinkParen", "UnlinkParen"})
InFrame(w, a) == \E b \in Before(w, a) :
  /\ Is(b, {"LinkParen"})
  /\ Operands(At(vm, a)) = 1 =>
       LET size == Value(At(vm, b + 1)) \* 0 until the list of locals ends
       IN  size = 0 \/ Value(At(vm, a + 1)) < size
FramesPaired ==
  \A w \in Colons : \A a \in Starts(w) :
    /\ Is(a, {"ExitParen", "SemiParen", "DoesParen"}) =>
         (Framed(w, a) <=> a - 1 \in Starts(w) /\ Is(a - 1, {"UnlinkParen"}))
    /\ UsesLocal(a) => InFrame(w, a)

\* When a jump is made to skip the jumps it leads to, no jump leads elsewhere
\* than before: its new destination is on the old way, and the machine goes
\* on there or, when it was not to jump, behind the jump.
Way(x, a) ==
  LET s == Walk(a, LAMBDA b :
                  IF At(x, b) \in {Ins("BranchParen"), Ins("BranchParenWithCheck")}
                  THEN Destination(x, b + 1) ELSE Null, DictionarySize)
  IN  {s[i] : i \in DOMAIN s}
Conditional(c) == c \in {Ins("Branch0Paren"), Ins("Branch0ParenWithCheck")}
IsJump(c) == c \in {Ins("BranchParen"), Ins("BranchParenWithCheck")} \/ Conditional(c)
MeetsJump == vm.cs # <<>> /\ vm.sig = Quiet /\ IsAdr(vm.ip) /\ IsJump(Operand(vm))
JumpsKeepTheirWay ==
  [][MeetsJump /\ vm'.sig = Quiet =>
       /\ \A a \in DOMAIN vm.mem : IsJump(vm.mem[a]) =>
            /\ IsJump(vm'.mem[a])
            /\ Conditional(vm.mem[a]) = Conditional(vm'.mem[a])
            /\ Destination(vm', a + 1) \in Way(vm, Destination(vm, a + 1))
       /\ \/ vm'.ip[2] \in Way(vm, Destination(vm, vm.ip[2] + 1))
          \/ Conditional(Operand(vm)) /\ vm'.ip = Adr(vm.ip[2] + 2)]_vars

\* A word that divides or multiplies, typed at the prompt, leaves what exact
\* arithmetic says, cut to cells, although double.c works one bit at a time
\* on pairs of cells.  Division rounds towards zero, fm/mod down.
Exact(p, d) ==
  LET x == Sgn(d, 1)  y == Sgn(d, 0)  z == Sgn(d, 2)
      num == IValue(Top2(Drop(d, 1)))
      floor(a, b) == IF b > 0 THEN a \div b ELSE (-a) \div (-b)
      QR(a, q, b) == <<Num(Signed(a - q * b)), Num(Signed(q))>>
      Wide(n) == <<Num(Signed(n)), Num(Signed(n \div Pow2[CellBits]))>>
  IN  CASE p = "SlashMod" -> QR(x, Quotient(x, y), y)
        [] p = "StarSlashMod" -> QR(z * x, Quotient(z * x, y), y)
        [] p = "fm/mod" -> QR(num, floor(num, y), y)
        [] p = "sm/rem" -> QR(num, Quotient(num, y), y)
        [] p = "um/mod" ->
             LET n == UValue(Top2(Drop(d, 1))) IN QR(n, n \div Unsigned(y), Unsigned(y))
        [] p = "m*" -> Wide(x * y)
        [] p = "um*" -> Wide(Unsigned(x) * Unsigned(y))
ExactWords == {"SlashMod", "StarSlashMod", "fm/mod", "sm/rem", "um/mod", "m*", "um*"}
Typed(p) == /\ vm.cs # <<>> /\ vm.sig = Quiet /\ vm.ip = Loop0
            /\ vm.state = "interpret" /\ vm.tib.rest # <<>>
            /\ Head(vm.tib.rest) = p
DivisionExact ==
  [][\A p \in ExactWords : Typed(p) /\ vm'.sig = Quiet =>
       <<Fetch(vm'.d, 1), Fetch(vm'.d, 0)>> = Exact(p, vm.d)]_vars
=============================================================================
