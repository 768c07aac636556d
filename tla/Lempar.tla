------------------------------- MODULE Lempar -------------------------------
(***************************************************************************)
(* The parser skeleton buildtools/lempar.c, around which lemon writes the  *)
(* tables of Lemon!Packed.  A parser is a record                           *)
(*    stack   the states and symbols pushed so far, with their values      *)
(*    errcnt  yyerrcnt                                                     *)
(*    major   yymajor, the token being parsed: NoToken when Parse returns  *)
(*    hit     yyerrorhit: the token has met an error                       *)
(* Parse is a loop: the operators below are one pass through it, for each  *)
(* of the actions that the tables can order.  The code that a grammar      *)
(* attaches to a rule belongs to the grammar.                              *)
(***************************************************************************)
EXTENDS Lemon
CONSTANT StackDepth     \* YYSTACKDEPTH
NoToken == "YYNOCODE"

Bottom == [state |-> 0, symbol |-> "$", value |-> "none"]
Allocated == [stack |-> <<>>, errcnt |-> -1, major |-> NoToken, minor |-> "none", hit |-> FALSE]

(* yy_find_shift_action and yy_find_reduce_action.                         *)
FindAction(g, kind, state, symbol) ==
    LET i == g.offset[kind][state] + g.index[symbol]
    IN  IF \/ g.offset[kind][state] = g.useDefault[kind]
           \/ LookaheadAt(g.table, i) # g.index[symbol]
        THEN g.default[state] ELSE g.table[i].act
TopState(p) == Last(p.stack).state
\* Mutant of Ordered: an entry of the table is not asked whose it is.
OrderedUnasked(g, p) ==
    LET i == g.offset["shift"][TopState(p)] + g.index[p.major]
    IN  IF LookaheadAt(g.table, i) < 0 THEN g.default[TopState(p)] ELSE g.table[i].act
Ordered(g, p) == FindAction(g, "shift", TopState(p), p.major)
Parsing(p) == p.major # NoToken /\ p.stack # <<>>

(* The head of Parse: a parser with an empty stack starts afresh.          *)
Fed(p, token, value) ==
    LET opened == IF p.stack = <<>> THEN [p EXCEPT !.stack = <<Bottom>>, !.errcnt = -1] ELSE p
    IN  [opened EXCEPT !.major = token, !.minor = value, !.hit = FALSE]

(* yy_shift: a full stack is emptied, and nobody is told.                  *)
Pushed(stack, state, symbol, value) ==
    IF Len(stack) >= StackDepth THEN <<>>
    ELSE Append(stack, [state |-> state, symbol |-> symbol, value |-> value])
Shift(p, state) ==
    LET stack == Pushed(p.stack, state, p.major, p.minor)
    IN  [p EXCEPT !.stack = stack, !.errcnt = @ - 1,
                  !.major = IF p.major = "$" /\ stack # <<>> THEN "$" ELSE NoToken]

(* yy_reduce, from the pop on; value is what the code of the rule computed. *)
Handle(g, p, r) == SubSeq(p.stack, Len(p.stack) - Len(g.rules[r].rhs) + 1, Len(p.stack))
Popped(g, p, r) == SubSeq(p.stack, 1, Len(p.stack) - Len(g.rules[r].rhs))
ReduceBy(g, p, r, value) ==
    LET rest == Popped(g, p, r)
        lhs == g.rules[r].lhs
        act == FindAction(g, "reduce", Last(rest).state, lhs)
    IN  [p EXCEPT !.stack = IF act < g.nstate THEN Pushed(rest, act, lhs, value)
                            ELSE IF act = AcceptAction(g) THEN <<>> ELSE rest]
Accepts(g, p, r) ==
    FindAction(g, "reduce", Last(Popped(g, p, r)).state, g.rules[r].lhs) = AcceptAction(g)

(* A syntax error: pop until "error" can be shifted; when it never can, or *)
(* the text is at its end, the parse fails with an empty stack.            *)
Reported(p) == p.errcnt < 0
Recovered(g, p) ==
    LET shiftable(n) == FindAction(g, "shift", p.stack[n].state, "error") < g.nstate
        kept == {n \in DOMAIN p.stack : shiftable(n)}
        top == CHOOSE n \in kept : \A k \in kept : k <= n
        after == IF Last(p.stack).symbol = "error" \/ p.hit
                 THEN [p EXCEPT !.major = NoToken]
                 ELSE IF kept = {} \/ p.major = "$"
                 THEN [p EXCEPT !.stack = <<>>, !.major = NoToken]
                 ELSE [p EXCEPT !.stack = Pushed(SubSeq(@, 1, top),
                           FindAction(g, "shift", p.stack[top].state, "error"), "error", "none")]
    IN  [after EXCEPT !.errcnt = 3, !.hit = TRUE]
=============================================================================
