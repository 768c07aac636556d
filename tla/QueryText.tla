------------------------------ MODULE QueryText ------------------------------
(***************************************************************************)
(* From the text of a query to the statement SQLite prepares: the loop of  *)
(* fdbfs_query_parse over the tokens, the parser lemon made of             *)
(* queryparser.y, the instructions its rules queue, and the two passes of  *)
(* fdbfs_query_init_exec that check them and write the SELECT.             *)
(*                                                                         *)
(* The text is one of Texts, which is read character by character, or      *)
(* whatever tokens the environment goes on to feed.  What QueryExec does   *)
(* with the rows starts where this module ends.                            *)
(***************************************************************************)
EXTENDS QueryGrammar, QueryTokens
CONSTANTS
    Tokens,         \* records [kind, value] the tokeniser can deliver
    MaxTokens,      \* bound: tokens the environment feeds
    Texts,          \* texts that are read character by character
    MaxPasses,      \* bound: passes of Parse counted for one token
    Catalogues,     \* the catalogues of the database
    Refused         \* regular expressions that do not compile, files that cannot be read

VARIABLES
    text,       \* the string to be read
    cp,         \* the index of its next character, 0 if the environment feeds
    parser,     \* of Lempar
    queued,     \* q->insthead: records [op, value]
    fed,        \* the tokens of the text so far
    phase,      \* where fdbfs_query_parse is, then fdbfs_query_init_exec
    failed,     \* q->error, or a message in f->error
    freed,      \* how often the value of the rule being reduced was freed
    verdict,    \* what init_exec makes of the instructions
    lost,       \* history: yy_shift found the stack full and emptied it
    passes      \* history: passes of the loop of Parse over the present token
vars == <<text, cp, parser, queued, fed, phase, failed, freed, verdict, lost, passes>>

NoVerdict == [code |-> "none", sql |-> <<>>, room |-> 0]
Init ==
    /\ \/ text = "" /\ cp = 0
       \/ text \in Texts /\ cp = 1
    /\ parser = Allocated
    /\ queued = <<>> /\ fed = <<>> /\ freed = 0 /\ lost = FALSE /\ passes = 0
    /\ phase = "read"
    /\ failed \in BOOLEAN       \* an earlier call can have left its message
    /\ verdict = NoVerdict
-----------------------------------------------------------------------------
(* fdbfs_query_parse. *)
Deliver(kind, value) ==
    /\ parser' = Fed(parser, kind, value)
    /\ fed' = Append(fed, [kind |-> kind, value |-> value])
    /\ phase' = "token"
    /\ passes' = 0
    /\ UNCHANGED <<text, queued, failed, freed, verdict, lost>>
Feed ==
    /\ phase = "read" /\ cp = 0
    /\ Len(fed) < MaxTokens
    /\ \E token \in Tokens : Deliver(token.kind, token.value)
    /\ UNCHANGED cp

\* fdbfs_query_qtok.  A character no token starts with ends the text.
NextToken == Toktl(text, cp)
Delivers == phase = "read" /\ cp > 0 /\ NextToken.kind \notin {"END", "ILLEGAL"}
IsEmpty(token) == token.kind \in {"STRING", "REGEXP"} /\ Extracted(text, cp, token) = ""
SkipBlanks ==
    /\ Delivers /\ NextToken.kind = "SPACE"
    /\ cp' = cp + NextToken.length
    /\ UNCHANGED <<text, parser, queued, fed, phase, failed, freed, verdict, lost, passes>>
QTok ==
    /\ Delivers /\ NextToken.kind # "SPACE" /\ ~IsEmpty(NextToken)
    /\ Deliver(NextToken.kind, Extracted(text, cp, NextToken))
    /\ cp' = cp + NextToken.length
QTokEmpty ==
    /\ Delivers /\ IsEmpty(NextToken)
    /\ phase' = "refused"
    /\ failed' = TRUE
    /\ UNCHANGED <<text, cp, parser, queued, fed, freed, verdict, lost, passes>>

\* Mutant of Looked: only q->error counts, which a bad token does not set.
LookedAway ==
    /\ phase = "token" /\ ~Parsing(parser)
    /\ phase' = "read"
    /\ UNCHANGED <<text, cp, parser, queued, fed, failed, freed, verdict, lost, passes>>

\* The error is looked at after each token of the text ...
Looked ==
    /\ phase = "token" /\ ~Parsing(parser)
    /\ phase' = IF failed THEN "refused" ELSE "read"
    /\ UNCHANGED <<text, cp, parser, queued, fed, failed, freed, verdict, lost, passes>>

\* ... but not when it ends: EOQUERY and 0 follow without a look.
EndOfText ==
    /\ phase = "read" /\ (cp > 0 => ~Delivers)
    /\ parser' = Fed(parser, "EOQUERY", "none")
    /\ phase' = "eoquery"
    /\ UNCHANGED <<text, cp, queued, fed, failed, freed, verdict, lost>>
    /\ passes' = 0
EndOfQuery ==
    /\ phase = "eoquery" /\ ~Parsing(parser)
    /\ parser' = Fed(parser, "$", "none")
    /\ phase' = "end"
    /\ UNCHANGED <<text, cp, queued, fed, failed, freed, verdict, lost>>
    /\ passes' = 0
Parsed ==
    /\ phase = "end" /\ ~Parsing(parser)
    /\ phase' = "parsed"
    /\ UNCHANGED <<text, cp, parser, queued, fed, failed, freed, verdict, lost, passes>>
-----------------------------------------------------------------------------
(* Parse, one pass of its loop per step. *)
Pass == passes' = Min({passes + 1, MaxPasses + 1})
ParseShift ==
    /\ Parsing(parser)
    /\ Ordered(Tables, parser) < Tables.nstate
    /\ parser' = Shift(parser, Ordered(Tables, parser))
    /\ lost' = (lost \/ parser'.stack = <<>>)
    /\ UNCHANGED <<text, cp, queued, fed, phase, failed, freed, verdict>>
    /\ Pass

RuleOrdered == Ordered(Tables, parser) - Tables.nstate + 1
Reducing ==
    /\ Parsing(parser)
    /\ Ordered(Tables, parser) \in Tables.nstate..ErrorAction(Tables) - 1

\* Mutant of Operand: always the first symbol of the rule.
OperandFirst(handle) == IF handle = <<>> THEN "none" ELSE handle[1].value

\* The value A of a rule: of its third symbol if it has that many.
Operand(handle) ==
    IF Len(handle) >= 3 THEN handle[3].value ELSE IF handle = <<>> THEN "none" ELSE handle[1].value
Argument == Operand(Handle(Tables, parser, RuleOrdered))
Opcode == Grammar[RuleOrdered].queues
Unusable == Opcode \in {"VOID", "REGEXP", "NOTREGEXP"} /\ Argument \in Refused

ParseReduce ==
    /\ Reducing
    /\ ~Unusable
    /\ parser' = ReduceBy(Tables, parser, RuleOrdered, Argument)
    /\ queued' = IF Opcode = "nothing" THEN queued
                 ELSE Append(queued, [op |-> Opcode, value |-> Argument])
    /\ lost' = (lost \/ (parser'.stack = <<>> /\ ~Accepts(Tables, parser, RuleOrdered)))
    /\ UNCHANGED <<text, cp, fed, phase, failed, freed, verdict>>
    /\ Pass

\* The code of the rule frees its value and returns - from yy_reduce, with
\* the right-hand side still on the stack.
ParseUnusable ==
    /\ Reducing
    /\ Unusable
    /\ failed' = TRUE
    /\ freed' = Min({freed + 1, 2})
    /\ UNCHANGED <<text, cp, parser, queued, fed, phase, verdict, lost>>
    /\ Pass

ParseError ==
    /\ Parsing(parser)
    /\ Ordered(Tables, parser) = ErrorAction(Tables)
    /\ parser' = Recovered(Tables, parser)
    /\ failed' = (failed \/ Reported(parser))
    /\ UNCHANGED <<text, cp, queued, fed, phase, freed, verdict, lost>>
    /\ Pass
-----------------------------------------------------------------------------
(* fdbfs_query_init_exec, first pass: which instructions are refused, and  *)
(* the length the text of the SELECT can need.                             *)
Comparison == {"EQUAL", "NEQU", "GTHAN", "LTHAN", "GTHEQU", "LTHEQU"}
Binary == {"AND", "OR"} \cup Comparison
Bound == {"INT", "FLOAT", "STRING", "VOID", "NULL"}
Operands == Bound \cup {"UINT", "COLNAME"}
Regexp == {"REGEXP", "NOTREGEXP"}

Before(insts, i, op) == Cardinality({j \in 1..i-1 : insts[j].op = op})
Present(insts, op) == \E i \in DOMAIN insts : insts[i].op = op
LastOf(insts, i, ops) ==
    LET at == {j \in 1..i-1 : insts[j].op \in ops}
    IN  IF at = {} THEN "none" ELSE insts[Max(at)].op
AllColumns(insts, i) == LastOf(insts, i, {"BEGINQ_COLS", "BEGINQ_ALL"}) = "BEGINQ_ALL"
Selecting(insts) == {i \in DOMAIN insts : insts[i].op = "SELCN" /\ ~AllColumns(insts, i)}
CheckOf(insts, i) ==
    IF Before(insts, i, "ENDQ") > 0 THEN "INST_AFTER_END"
    ELSE IF insts[i].op = "CLOSE_GRP" /\ Before(insts, i, "BEGIN_GRP") <= Before(insts, i, "CLOSE_GRP")
    THEN "UNBALANCED_GROUP"
    ELSE IF insts[i].op = "SETCAT" /\ insts[i].value \notin Catalogues THEN "NO_SUCH_CAT"
    ELSE "fine"

Checked(insts) ==
    LET bad == {i \in DOMAIN insts : CheckOf(insts, i) # "fine"}
    IN  IF bad # {} THEN CheckOf(insts, Min(bad))
        ELSE IF ~AllColumns(insts, Len(insts) + 1) /\ Selecting(insts) = {} THEN "NO_COLUMNS"
        ELSE IF Before(insts, Len(insts) + 1, "BEGIN_GRP") > Before(insts, Len(insts) + 1, "CLOSE_GRP")
        THEN "UNBALANCED_GROUP"
        ELSE IF ~Present(insts, "SETCAT") THEN "CATALOGUE_NOT_SET"
        ELSE "fine"

SumOf(s) ==
    LET upto[n \in 0..Len(s)] == IF n = 0 THEN 0 ELSE upto[n - 1] + s[n]
    IN  upto[Len(s)]
Width(value) == IF value = "none" THEN 0 ELSE Len(value)
\* sizeof("SELECT  FROM c_ WHERE ") + 7, and what each instruction adds.
RoomOf(insts, i) ==
    LET inst == insts[i] IN
    CASE inst.op = "AND" -> 5
      [] inst.op = "OR" -> 4
      [] inst.op \in {"EQUAL", "NEQU", "GTHEQU", "LTHEQU", "NOT"} -> 2
      [] inst.op \in {"SETCAT", "UINT"} -> Width(inst.value)
      [] inst.op = "COLNAME" \/ i \in Selecting(insts) -> Width(inst.value) + 1
      [] inst.op \in Regexp -> Width(inst.value) + 13
      [] inst.op \in {"BEGIN_GRP", "CLOSE_GRP", "GTHAN", "LTHAN"} \cup Bound -> 1
      [] OTHER -> 0
Room(insts) ==
    30 + (IF Selecting(insts) # {} THEN 2 ELSE 0) + SumOf([i \in DOMAIN insts |-> RoomOf(insts, i)])
-----------------------------------------------------------------------------
(* Second pass: the pieces of the text, in order, as records of what a     *)
(* piece is and how long.                                                  *)
SawOperand(insts, i) == LastOf(insts, i, Operands \cup Binary \cup Regexp) \in Operands
\* Mutant of ShapeOf: an operator needs no operand before it.
ShapeOfOperands(insts, i) ==
    IF insts[i].op \in Operands /\ SawOperand(insts, i) THEN "DOUBLE_OPERAND" ELSE "fine"
ShapeOf(insts, i) ==
    CASE insts[i].op \in Binary \cup Regexp /\ ~SawOperand(insts, i) -> "OPERATION_WITHOUT_OPERANDS"
      [] insts[i].op \in Operands /\ SawOperand(insts, i) -> "DOUBLE_OPERAND"
      [] insts[i].op = "NOT" /\ i > 1 /\ insts[i-1].op = "NOT" -> "DOUBLE_OPERAND"
      [] OTHER -> "fine"
Shaped(insts) ==
    LET bad == {i \in DOMAIN insts : ShapeOf(insts, i) # "fine"}
    IN  IF bad = {} THEN "fine" ELSE ShapeOf(insts, Min(bad))

Piece(what, length) == [what |-> what, length |-> length]
Paired(places) == \* quotes inside of what is quoted are doubled
    \A n \in places : Cardinality({k \in places : k <= n}) % 2 = 1 => n + 1 \in places
\* A regular expression is written as it is between quotes of SQL: it is one
\* literal only if all quotes in it are doubled.
IsLiteral(value) == Paired({n \in 1..Len(value) : At(value, n) = "'"})
Pattern(what, value) == IF IsLiteral(value) THEN what ELSE "broken"
TextOf(insts, i) ==
    LET inst == insts[i]
        negated == i < Len(insts) /\ insts[i+1].op = "NOTREGEXP"
    IN  CASE inst.op = "BEGIN_GRP" -> <<Piece("(", 1)>>
          [] inst.op = "CLOSE_GRP" -> <<Piece(")", 1)>>
          [] inst.op = "NOT" -> <<Piece("!", 2)>>
          [] inst.op \in Binary -> <<Piece("binary", RoomOf(insts, i))>>
          [] inst.op \in Bound -> <<Piece("?", 1)>>
          [] inst.op = "UINT" -> <<Piece("operand", Width(inst.value))>>
          [] inst.op = "COLNAME" /\ ~negated -> <<Piece("operand", Width(inst.value))>>
          [] inst.op = "COLNAME" /\ negated -> <<Piece("notregexp(", 10 + Width(inst.value))>>
          [] inst.op = "REGEXP" -> <<Piece(Pattern("REGEXP", inst.value), Width(inst.value) + 10)>>
          [] inst.op = "NOTREGEXP" -> <<Piece(Pattern("notregexp)", inst.value), Width(inst.value) + 5)>>
          [] OTHER -> <<>>
Conditional(insts) ==
    \E i \in DOMAIN insts : insts[i].op \in {"BEGIN_GRP", "STRING", "COLNAME", "UINT", "INT"}
Select(insts) ==
    LET columns == [i \in DOMAIN insts |-> IF insts[i].op = "SELCN" THEN Width(insts[i].value) + 1 ELSE 0]
        selected == IF Selecting(insts) = {} THEN Piece("*", 1)
                    ELSE Piece("columns", SumOf(columns) - 1)    \* a comma before all but the first
        catalogue == insts[Max({i \in DOMAIN insts : insts[i].op = "SETCAT"})]
    IN  <<Piece("SELECT", 7), selected, Piece("FROM", 8), Piece("catalogue", Width(catalogue.value))>>
        \o (IF Conditional(insts) THEN <<Piece("WHERE", 7)>> ELSE <<>>)
        \o FlattenSeq([i \in DOMAIN insts |-> TextOf(insts, i)])

(* fdbfs_query_init_exec, as far as sqlite3_prepare.                       *)
Exec ==
    /\ phase = "parsed"
    /\ phase' = "executed"
    /\ verdict' =
          IF Checked(queued) # "fine" THEN [NoVerdict EXCEPT !.code = Checked(queued)]
          ELSE IF Shaped(queued) # "fine" THEN [NoVerdict EXCEPT !.code = Shaped(queued)]
          ELSE [code |-> "prepared", sql |-> Select(queued), room |-> Room(queued)]
    /\ UNCHANGED <<text, cp, parser, queued, fed, failed, freed, lost, passes>>

Next ==
    \/ Feed \/ SkipBlanks \/ QTok \/ QTokEmpty \/ Looked \/ EndOfText \/ EndOfQuery \/ Parsed
    \/ ParseShift \/ ParseReduce \/ ParseUnusable \/ ParseError
    \/ Exec
Spec == Init /\ [][Next]_vars
=============================================================================
