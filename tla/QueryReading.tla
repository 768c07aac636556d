---------------------------- MODULE QueryReading ----------------------------
(***************************************************************************)
(* What a query text says, stated without the parser: an automaton that    *)
(* counts parentheses for the language of queryparser.y, the instruction   *)
(* each token stands for, and which texts SQLite can read.  The properties *)
(* of QueryText compare the parser and the executor with these.            *)
(***************************************************************************)
EXTENDS QueryText

Operators == {"B_AND", "B_OR", "B_NOT", "EQUALS", "NEQU", "GT", "LT", "GTEQU", "LTEQU"}
Literals == {"NIL", "SIGNEDINT", "USINT", "STRING", "FLOAT"}

\* One token further: <<where, open parentheses>>, where "dead" is for good.
Places == [start |-> {<<"QUERY", "query">>},
           query |-> {<<"COLS", "cols">>, <<"CATALOGUE", "cat">>},
           cols |-> {<<"OPAR", "column">>},
           column |-> {<<"UQSTRING", "columns">>},
           columns |-> {<<"COMMA", "column">>, <<"CPAR", "selected">>},
           selected |-> {<<"CATALOGUE", "cat">>},
           cat |-> {<<"UQSTRING", "named">>},
           named |-> {<<"COND", "empty">>},
           name |-> {<<"REGEQU", "regexp">>, <<"REGNEQU", "regexp">>},
           regexp |-> {<<"REGEXP", "flags">>},
           flags |-> {<<"CINSENS", "full">>},
           file |-> {<<"OPAR", "path">>},
           path |-> {<<"STRING", "close">>},
           close |-> {<<"CPAR", "full">>}]
Condition == {"empty", "name", "flags", "full"}
Advance(at, kind) ==
    LET where == at[1] open == at[2]
        fixed == IF where \in DOMAIN Places THEN {p[2] : p \in {q \in Places[where] : q[1] = kind}} ELSE {}
    IN  IF fixed # {} THEN <<CHOOSE w \in fixed : TRUE, open>>
        ELSE IF where \in Condition /\ kind \in Operators THEN <<"operand", open>>
        ELSE IF where \in Condition /\ kind = "CPAR" /\ open > 0 THEN <<"full", open - 1>>
        ELSE IF where = "empty" /\ kind = "OPAR" THEN <<"empty", open + 1>>
        ELSE IF where = "empty" /\ kind = "UQSTRING" THEN <<"name", open>>
        ELSE IF where = "operand" /\ kind = "UQSTRING" THEN <<"full", open>>
        ELSE IF where \in {"empty", "operand"} /\ kind \in Literals THEN <<"full", open>>
        ELSE IF where \in {"empty", "operand"} /\ kind = "VFILE" THEN <<"file", open>>
        ELSE <<"dead", open>>
\* The readings of the beginnings of a text.
ReadingOf(tokens) ==
    LET at[i \in 0..Len(tokens)] ==
            IF i = 0 THEN <<"start", 0>> ELSE Advance(at[i - 1], tokens[i].kind)
    IN  at
Reading == ReadingOf(fed)[Len(fed)]
Dead == Reading[1] = "dead"
Sentence == Reading[1] \in Condition /\ Reading[2] = 0

\* What the tokens stand for, in the order of the text.
Named == [B_AND |-> "AND", B_OR |-> "OR", B_NOT |-> "NOT", EQUALS |-> "EQUAL", NEQU |-> "NEQU",
          GT |-> "GTHAN", LT |-> "LTHAN", GTEQU |-> "GTHEQU", LTEQU |-> "LTHEQU",
          NIL |-> "NULL", SIGNEDINT |-> "INT", USINT |-> "UINT", FLOAT |-> "FLOAT"]
OpMeant(tokens, i) ==
    LET kind == tokens[i].kind
        after == IF i = 1 THEN "none" ELSE tokens[i-1].kind
        selecting == ~\E j \in 1..i : tokens[j].kind = "CATALOGUE"
    IN  IF kind = "QUERY"
        THEN IF i < Len(tokens) /\ tokens[i+1].kind = "COLS" THEN "BEGINQ_COLS" ELSE "BEGINQ_ALL"
        ELSE IF kind \in DOMAIN Named THEN Named[kind]
        ELSE IF kind = "UQSTRING"
        THEN IF selecting THEN "SELCN" ELSE IF after = "CATALOGUE" THEN "SETCAT" ELSE "COLNAME"
        ELSE IF kind = "STRING" THEN IF i > 2 /\ tokens[i-2].kind = "VFILE" THEN "VOID" ELSE "STRING"
        ELSE IF kind = "REGEXP" THEN IF after = "REGEQU" THEN "REGEXP" ELSE "NOTREGEXP"
        ELSE IF selecting THEN "nothing"
        ELSE IF kind = "OPAR" /\ after # "VFILE" THEN "BEGIN_GRP"
        ELSE IF kind = "CPAR" /\ ~(i > 3 /\ tokens[i-3].kind = "VFILE") THEN "CLOSE_GRP"
        ELSE "nothing"
Meant(tokens, i) ==
    IF OpMeant(tokens, i) = "nothing" THEN <<>>
    ELSE <<[op |-> OpMeant(tokens, i), value |-> tokens[i].value]>>
MeaningTo(tokens, n) == FlattenSeq([i \in 1..n |-> Meant(tokens, i)])
Meaning == MeaningTo(fed, Len(fed))
HasValue(op) == op \in {"SELCN", "SETCAT", "COLNAME", "INT", "UINT", "FLOAT", "STRING", "VOID"} \cup Regexp
Agree(insts, others) ==
    \A i \in DOMAIN insts : /\ insts[i].op = others[i].op
                            /\ HasValue(insts[i].op) => insts[i].value = others[i].value

(* The words of a text, each the longest there is at its place, and the    *)
(* token each stands for.                                                  *)
CharsIn(s, set) == \A n \in 1..Len(s) : At(s, n) \in set
IsName(s) == s # "" /\ At(s, 1) \notin Digits /\ CharsIn(s, IdChars)
IsWhole(s) == s # "" /\ CharsIn(s, Digits)
IsSigned(s) == IsWhole(s) \/ (At(s, 1) = "-" /\ IsWhole(SubSeq(s, 2, Len(s))))
IsFloat(s) == \E n \in 1..Len(s) :
    /\ At(s, n) = "." /\ IsSigned(SubSeq(s, 1, n - 1)) /\ IsWhole(SubSeq(s, n + 1, Len(s)))
IsQuoted(s, quotes) == \* as far as the closing quote, or the end of the text
    /\ At(s, 1) \in quotes
    /\ LET inside == {n \in 2..Len(s) : At(s, n) = At(s, 1)}
       IN  Paired(inside) \/ (Len(s) \in inside /\ Paired(inside \ {Len(s)}))
Reserved == [NULL |-> "NIL", QUERY |-> "QUERY", CAT |-> "CATALOGUE", WHERE |-> "COND", COLS |-> "COLS",
             vfile |-> "VFILE"]
Written == [EQUALS |-> "==", REGEQU |-> "=~", NEQU |-> "!=", REGNEQU |-> "!~", GTEQU |-> ">=",
            LTEQU |-> "<=", B_OR |-> "||", B_AND |-> "&&", OPAR |-> "(", CPAR |-> ")", ASSIGN |-> "=",
            B_NOT |-> "!", GT |-> ">", LT |-> "<", BW_OR |-> "|", BW_AND |-> "&", COMMA |-> ",",
            CINSENS |-> "i"]
KindsOf(s) == \* the kinds of token that can be spelled so
    {k \in DOMAIN Written : Written[k] = s}
    \cup (IF s \in DOMAIN Reserved THEN {Reserved[s]}
          ELSE IF IsName(s) /\ s # "i" THEN {"UQSTRING"} ELSE {})
    \cup (IF IsQuoted(s, {"'", "\""}) THEN {"STRING"} ELSE {})
    \cup (IF IsQuoted(s, {"/"}) THEN {"REGEXP"} ELSE {})
    \cup (IF IsFloat(s) THEN {"FLOAT"} ELSE {})
    \cup (IF IsWhole(s) /\ Len(s) = 1 THEN {"USINT"} ELSE {})
    \cup (IF IsSigned(s) /\ Len(s) > 1 THEN {"SIGNEDINT"} ELSE {})
WordAt(t, i) ==
    LET ends == {n \in i..Len(t) : KindsOf(SubSeq(t, i, n)) # {}}
    IN  IF ends = {} THEN "" ELSE SubSeq(t, i, Max(ends))
Words(t) ==
    LET from[i \in Nat] ==
            LET word == WordAt(t, i)
            IN  IF At(t, i) \in Blanks THEN from[i + 1]
                ELSE IF word = "" THEN <<>>
                ELSE <<word>> \o from[i + Len(word)]
    IN  from[1]
Content(kind, s) ==
    CASE kind \in {"STRING", "REGEXP"} -> SubSeq(s, 2, Len(s) - 1)
      [] kind \in {"UQSTRING", "FLOAT", "USINT", "SIGNEDINT"} -> s
      [] OTHER -> "none"
\* A word is delivered as what it is, but for two cases: what a keyword
\* begins with, in either case of letters, counts as the keyword, and = as !.
\* (What is quoted and not closed loses its last character.)
Spells(word, token) ==
    \/ token.kind \in KindsOf(word) /\ token.value = Content(token.kind, word)
    \/ IsName(word) /\ \E k \in DOMAIN Keywords : Keywords[k].kind = token.kind /\ Starts(word, k)
    \/ word = "=" /\ token.kind = "B_NOT"
FollowsText(t, tokens) ==
    LET words == Words(t)
    IN  Len(tokens) <= Len(words) /\ \A i \in DOMAIN tokens : Spells(words[i], tokens[i])

(* A condition SQLite can read: operands joined by operators, in balanced   *)
(* groups; IsReadable says so by what can stand next to what.              *)
Class(piece) ==
    CASE piece.what \in {"?", "operand"} -> "operand"
      [] piece.what = "notregexp(" -> "call"
      [] piece.what = "notregexp)" -> "called"
      [] piece.what = "REGEXP" -> "postfix"
      [] piece.what = "(" -> "open"
      [] piece.what = ")" -> "close"
      [] OTHER -> piece.what
Follows == [begin |-> {"operand", "call", "open"},
            binary |-> {"operand", "call", "open"},
            open |-> {"operand", "call", "open"},
            operand |-> {"binary", "postfix", "close", "end"},
            postfix |-> {"binary", "close", "end"},
            close |-> {"binary", "close", "end"},
            called |-> {"binary", "close", "end"},
            call |-> {"called"}]
IsReadable(sql) ==
    LET where == {i \in DOMAIN sql : sql[i].what = "WHERE"}
        classes == <<"begin">> \o [i \in 1..Len(sql) - 5 |-> Class(sql[i + 5])] \o <<"end">>
    IN  IF where = {} THEN Len(sql) = 4
        ELSE \A i \in 1..Len(classes) - 1 :
                classes[i] \in DOMAIN Follows /\ classes[i+1] \in Follows[classes[i]]

-----------------------------------------------------------------------------
(* The packed table gives, in every state the parser gets to and for every *)
(* token it looks at, the action that FindActions computed: no entry of    *)
(* another state is taken for one of this one (lemon.c acttab_insert,      *)
(* lempar.c yy_find_shift_action and yy_find_reduce_action).               *)
TablesAgree ==
    /\ Parsing(parser) =>
          Ordered(Tables, parser) = Intended(Tables, TopState(parser), parser.major)
    /\ Reducing =>
          LET under == Last(Popped(Tables, parser, RuleOrdered)).state
              lhs == Grammar[RuleOrdered].lhs
          IN  FindAction(Tables, "reduce", under, lhs) = Intended(Tables, under, lhs)

(* A text is refused at the first token that no query can have there, and  *)
(* at no other, unless a message was pending, a string or an expression is *)
(* empty, or the parser's stack was full: what lemon generates reads the language of queryparser.y.  A text *)
(* too deep for that stack is parsed from there as if it began, and never  *)
(* gets as far as SQLite.                                                  *)
RefusesAtOnce ==
    IF lost THEN verdict.code # "prepared"
    ELSE /\ phase = "read" /\ fed # <<>> => ~Dead
         /\ phase = "refused" => Dead \/ Len(fed) = 1 \/ (cp > 0 /\ IsEmpty(NextToken))

(* What fdbfs_query_parse queues is what the text says, in its order; ENDQ *)
(* ends it exactly when the text is a whole query.  The text is what comes *)
(* before the first character no token begins with, and its tokens are its *)
(* longest words.                                                          *)
InstructionsFollowTokens ==
    phase = "parsed" /\ ~lost =>
       IF Sentence THEN Len(queued) = Len(Meaning) + 1
                        /\ Agree(queued, Append(Meaning, [op |-> "ENDQ", value |-> "none"]))
       ELSE failed /\ Len(queued) <= Len(Meaning) /\ Agree(queued, Meaning)
InstructionsFollowText ==
    /\ cp > 0 /\ phase \in {"parsed", "refused"} => FollowsText(text, fed)
    /\ cp > 0 /\ phase = "parsed" => Len(fed) = Len(Words(text))
    /\ InstructionsFollowTokens

Length(sql) == 1 + SumOf([i \in DOMAIN sql |-> sql[i].length])
SelectFits(select) == Length(select.sql) <= select.room
PatternsWhole(insts) ==
    \A i \in 1..Len(insts) : insts[i].op \in Regexp => IsLiteral(insts[i].value)
SelectReads(select, insts) == PatternsWhole(insts) =>
   (IsReadable(select.sql) <=>
       /\ ~Present(insts, "NOT")
       /\ \A i \in 2..Len(insts) : insts[i].op = "CLOSE_GRP" => insts[i-1].op # "BEGIN_GRP"
       /\ Conditional(insts) \/ \A i \in DOMAIN insts : insts[i].op \notin Operands
       /\ insts[Len(insts)].op \notin Binary)

(* The SELECT that init_exec hands to SQLite fits, with its final NUL, the *)
(* buffer that the first pass made room for (strlcat never cuts it), and   *)
(* is one SQLite can read, but for a "!" (written where SQL has NOT), an   *)
(* empty group, a condition without WHERE (it has operands, none of which  *)
(* asks for one) and a text that ended behind an operator.  Of a regular   *)
(* expression with a quote that is not doubled only the length is claimed: *)
(* the literal ends at that quote, and what SQLite gets is no SQL.         *)
PreparedIsReadable ==
    verdict.code = "prepared" => SelectFits(verdict) /\ SelectReads(verdict, queued)

(* Parse returns: no token takes it more passes than there are rules to    *)
(* reduce in a row, so that it never goes round with nothing changed.      *)
ParseReturns == passes <= MaxPasses
=============================================================================
