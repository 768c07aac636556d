------------------------------- MODULE MCFicl -------------------------------
(***************************************************************************)
(* What is typed at the FORTH machine.  A session is a sequence of files,  *)
(* a line of a file one of a few sequences of tokens; the sets of lines    *)
(* are put together from pieces, well-formed ones and others.  Core words  *)
(* that are instructions go by the name of the instruction.                *)
(***************************************************************************)
EXTENDS FiclVm, TLC

MCNumbers == {-32, -31, -16, -8, -7, -2, -1, 0, 1, 2, 3, 4, 5, 7, 17, 21, 31}
MCNumerals == [t \in {ToString(n) : n \in MCNumbers} |->
                 CHOOSE n \in MCNumbers : ToString(n) = t]

\* The texts that are evaluated, their names as tokens.
MCTexts == << <<"1", "Plus">>,              \* 1
              <<":", "b", "2", ";">>,       \* 2
              <<"nowhere">>,                \* 3
              <<"7", "throw">>,             \* 4
              <<"quit">>,                   \* 5
              <<"'", "a", "catch">>,        \* 6
              <<"a">> >>                    \* 7
MCTextOf == [t \in {"[add", "[define", "[nowhere", "[throw", "[quit", "[catch", "[a"} |->
               CASE t = "[add" -> 1 [] t = "[define" -> 2 [] t = "[nowhere" -> 3
                 [] t = "[throw" -> 4 [] t = "[quit" -> 5 [] t = "[catch" -> 6
                 [] t = "[a" -> 7]

MCCoreNames == InstructionNames \cup CompilingWords \cup NamingWords
  \cup Doubles \cup SearchWords
  \cup {"s\"", "sfind", "search-wordlist", "depth", "source-id", "refill", "execute", "evaluate", "catch", "throw", "quit", "abort"}

Main(lines)   == [host |-> "main", lines |-> lines]
Plugin(lines) == [host |-> "plugin", lines |-> lines]
Definition(name, bodies) == {<<":", name>> \o b \o <<";">> : b \in bodies}
Around(open, bodies, close) == {open \o b \o close : b \in bodies}

\* Control structures, two deep.
Straight == {<<"1Minus">>, <<"Dup", "exit">>}
Structures(bodies) ==
  UNION {Around(<<"if">>, bodies, <<"then">>),
         Around(<<"if">>, bodies, <<"else", "2", "then">>),
         Around(<<"if", "2", "else">>, bodies, <<"then">>),
         Around(<<"begin", "Dup", "while">>, bodies, <<"repeat">>),
         Around(<<"begin">>, bodies, <<"Dup", "0Equals", "until">>),
         Around(<<"begin", "Dup", "0Equals", "if", "exit", "else">>, bodies, <<"then", "again">>),
         Around(<<"2", "0", "do">>, bodies, <<"I", "Plus", "loop">>),
         Around(<<"0", "?do", "I">>, bodies, <<"Leave", "-1", "+loop">>),
         Around(<<"case", "1", "of">>, bodies, <<"endof", "2", "fallthrough", "3", "of", "4", "endof", "endcase">>)}
IllFormed == {<<"if">>, <<"if", "loop">>, <<"do", "until">>, <<"else", "then">>,
              <<"while", "repeat">>, <<"if", "endcase">>, <<"of", "endof">>,
              <<"begin", "loop">>, <<"if", "begin", "while", "then", "until">>}
ControlSession ==
  <<Main(<<Definition("a", Structures(Straight) \cup Structures(Structures({<<"1Minus">>}))
                           \cup IllFormed),
           {<<n, "a">> : n \in {"0", "1", "3"}},
           {<<n, "a", "nowhere">> : n \in {"2"}} >>)>>

\* Locals, defining words, and definitions given up half way.
Scopes == {<<"local", "x", "local", "y", "end-locals", "y", "x">>,
           <<"local", "x", "2local", "y", "local", "z", "end-locals", "z", "y", "to", "x", "x">>,
           <<"local", "x", "end-locals", "x", "if", "3", "exit", "then", "4">>,
           <<"local", "x", "end-locals", "create", "x", "Comma", "does>", "Fetch">>,
           <<"create", "Comma", "does>", "local", "p", "end-locals", "p", "Fetch">>,
           <<"Dup", "Plus">>}
GivenUp == {<<":", "a", "local", "x", "nowhere">>, <<":", "a", "local", "x">>,
            <<":", "a", "local">>, <<":", "a", "1", "local", "x", "[", "quit">>,
            <<":", "a", "local", "x", "[", "nowhere">>,
            <<":", "a", "local", "v", "local", "w", "local", "x", "local", "y", "local", "z">>}
ScopeSession ==
  <<Main(<<GivenUp \cup Definition("a", Scopes),
           Definition("b", Scopes) \cup
             {<<"end-locals", "x", ";">>, <<"x", "Plus", ";">>, <<":noname", "2", ";">>,
              <<":noname", "x", ";">>},
           {<<"1", "2", "3", "4", "a">>, <<"1", "2", "3", "4", "b", "c">>},
           {<<"c", "b">>, <<"1", "2", "a", "d", "d">>}>>)>>

\* Two plugins on one dictionary, and files that end early.
PluginSession ==
  <<Plugin(<<GivenUp \cup Definition("a", Scopes), {<<>>, <<"1", "2", "a", "b">>, <<"1", "b">>}>>),
    Plugin(<<Definition("c", Scopes) \cup {<<":">>, <<"7", "throw">>},
             {<<"c">>, <<"1", "2", "c", "b">>, <<"]", "nowhere">>}>>)>>

\* catch, throw and evaluate.
Throwers == {<<"1", "throw">>, <<"nowhere">>, <<"quit">>, <<"abort">>, <<"0", "throw", "3">>,
             <<"s\"", "[throw", "evaluate">>, <<"s\"", "[add", "evaluate">>,
             <<"2", "0", "do", "I", "throw", "loop">>, <<"Drop", "Drop", "Drop">>,
             <<"local", "x", "end-locals", "x", "throw">>, <<"create">>}
Catchers == {<<"[']", "a", "catch">>, <<"1", "ToRStack", "[']", "a", "catch", "FromRStack", "Drop">>,
             <<"local", "y", "end-locals", "[']", "a", "catch", "y">>,
             <<"[']", "a", "catch", "throw">>, <<"3", "1", "do", "[']", "a", "catch", "if", "Leave", "then", "loop">>}
CatchSession ==
  <<Main(<<Definition("a", Throwers),
           Definition("b", Catchers) \cup {<<"'", "a", "catch", "5">>},
           {<<"1", "2", "b">>, <<"0", "'", "b", "catch">>, <<"1", "b", "c">>}>>)>>
EvaluateSession ==
  <<Main(<<{<<"s\"", t, "evaluate", "3">> : t \in DOMAIN MCTextOf} \cup
             {<<":", "a", "s\"", t, "evaluate", "3", ";">> : t \in DOMAIN MCTextOf \ {"[define"}},
           {<<"'", "a", "catch">>, <<"2", "a">>, <<"]", "a">>, <<":", "c", "[", "1", "a", "]", "literal", ";">>},
           {<<"a">>, <<"c">>, <<"b">>}>>)>>

\* Products and quotients.
Small == {"-32", "-7", "-2", "-1", "1", "2", "5", "31"}
ArithmeticSession ==
  <<Main(<<{<<a, b, p>> : a \in Small \cup {"0"}, b \in Small, p \in {"SlashMod", "m*", "um*"}}
           \cup {<<a, b, c, p>> : a \in Small \cup {"0"}, b \in {"-32", "-1", "0", "3", "31"},
                                 c \in Small, p \in {"StarSlashMod", "fm/mod", "sm/rem", "um/mod"}}>>)>>

\* Word lists and their order.
Orders == {<<>>, <<"w", ">search">>, <<"w", ">search", "definitions">>, <<"w", "set-current">>,
           <<"w", "w", "2", "set-order">>, <<"w", "forth-wordlist", "wid-set-super">>,
           <<"search>", "Drop">>, <<"0", "set-order">>, <<"get-order", "set-order">>,
           <<"nowhere">>, <<"-1", "set-order">>, <<"w", ">search", "w", ">search", "w", ">search", "w", ">search">>}
SearchSession ==
  <<Main(<<{<<"ficl-wordlist", "constant", "w">>},
           Orders,
           Definition("a", {<<"1">>}) \cup {<<":", "a", "nowhere">>, <<"create">>},
           Orders,
           {<<"a">>, <<":", "a", "a", "2", ";", "a">>, <<"w", "forget-wid", "s\"", "[a", "sfind">>,
            <<"s\"", "[a", "w", "search-wordlist">>}>>)>>

\* Words that are forgotten, between definitions that are given up.
Forgetting == {<<"forget", "a">>, <<"forget", "b">>, <<"forget", "b", "nowhere">>, <<"forget", "c">>}
ForgetSession ==
  <<Main(<<Definition("a", {<<"1">>}) \cup {<<"variable", "a">>},
           Definition("b", {<<"a">>, <<"2">>}) \cup {<<":", "b", "local", "x", "nowhere">>, <<":", "b", "a", "nowhere">>},
           Forgetting,
           Definition("c", {<<"a">>, <<"b">>}) \cup {<<":", "a", "nowhere">>, <<"immediate">>},
           Forgetting \cup {<<"quit">>, <<"]", "quit">>},
           {<<"a">>, <<"c">>, <<":", "b", "3", ";", "b", "depth">>, <<"source-id", "refill">>}>>)>>

\* Words that define words, and memory.
MiscSession ==
  <<Main(<<{<<":", "a", "constant", ";">>, <<":", "a", "variable", "immediate", ";">>, <<":", "a", "postpone", "if", ";", "immediate">>,
            <<":", "a", "postpone", "Dup", ";", "immediate">>, <<":", "a", "[']", "Plus", "execute", ";">>,
            <<":", "a", "Dup", "if", "1Minus", "recurse", "then", ";">>, <<":", "a", "compile-only">>},
           {<<"1", "a">>, <<"4", "a", "b">>, <<"2", "a", "b", "b", "Fetch">>, <<"1", "1", "a">>,
            <<":", "b", "a", "2", "then", ";">>, <<":", "b", "a", ";">>, <<";">>, <<"b", ";">>},
           {<<"3", "b", "Store">>, <<"3", "b">>, <<"b">>, <<"5", "to", "b">>, <<"here", "b">>},
           {<<"b", "Fetch">>, <<"b">>, <<"1", "1", "2variable", "c", "c", "2Store", "c", "2Fetch">>,
            <<"1", "2", "2constant", "c", "c", "7", "7", "to", "c">>, <<"1", "IntToFloat", "FDup", "FPlus", "FloatToInt">>,
            <<"variable", "c", "c", "1", "5", "Fill", "here", "1", "c", "1", "Compare">>}>>)>>

MCSessions == <<ControlSession, ScopeSession, PluginSession, CatchSession,
                EvaluateSession, ArithmeticSession, SearchSession, ForgetSession, MiscSession>>
=============================================================================
