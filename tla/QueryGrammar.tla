---------------------------- MODULE QueryGrammar ----------------------------
(***************************************************************************)
(* The grammar of queries, libfakedbfs/queryparser.y: its rules, each with *)
(* the opcode that its code queues, and the parser tables lemon makes.     *)
(***************************************************************************)
EXTENDS Lempar

\* The tokens that %nonassoc and %left name before the rules do.
Declared == <<"ASSIGN", "BW_OR", "BW_AND", "ILLEGAL", "SPACE", "B_OR", "B_AND">>

Rule(lhs, rhs) == [lhs |-> lhs, rhs |-> rhs, queues |-> "nothing"]
Queues(lhs, rhs, op) == [lhs |-> lhs, rhs |-> rhs, queues |-> op]
Alternatives(lhs, rhss) == [i \in DOMAIN rhss |-> Rule(lhs, rhss[i])]
Grammar ==
    <<Rule("statem", <<"command">>),
      Rule("command", <<"query">>),
      Queues("query", <<"qry", "CATALOGUE", "catname", "COND", "cexp", "EOQUERY">>, "ENDQ"),
      Rule("qry", <<"bqry">>),
      Rule("qry", <<"sqry", "COLS", "OPAR", "coldefs", "CPAR">>),
      Rule("coldefs", <<"coldefs", "COMMA", "coldef">>),
      Rule("coldefs", <<"coldef">>),
      Queues("coldef", <<"UQSTRING">>, "SELCN"),
      Queues("sqry", <<"QUERY">>, "BEGINQ_COLS"),
      Queues("bqry", <<"QUERY">>, "BEGINQ_ALL"),
      Queues("catname", <<"UQSTRING">>, "SETCAT"),
      Rule("cexp", <<"en">>),
      Rule("en", <<"en", "op", "val">>),
      Rule("en", <<"regex">>),
      Rule("en", <<"val">>),
      Rule("en", <<"oparen", "en", "cparen">>),
      Rule("en", <<>>)>>
    \o Alternatives("op", <<<<"andop">>, <<"orop">>, <<"notop">>, <<"equop">>, <<"nequop">>,
                            <<"gtop">>, <<"ltop">>, <<"gteop">>, <<"lteop">>>>)
    \o Alternatives("val", <<<<"colname">>, <<"null">>, <<"integer">>, <<"eqstring">>,
                             <<"voidfile">>, <<"floatp">>>>)
    \o <<Queues("gteop", <<"GTEQU">>, "GTHEQU"),
         Queues("lteop", <<"LTEQU">>, "LTHEQU"),
         Queues("ltop", <<"LT">>, "LTHAN"),
         Queues("gtop", <<"GT">>, "GTHAN"),
         Queues("nequop", <<"NEQU">>, "NEQU"),
         Queues("oparen", <<"OPAR">>, "BEGIN_GRP"),
         Queues("cparen", <<"CPAR">>, "CLOSE_GRP"),
         Queues("colname", <<"UQSTRING">>, "COLNAME"),
         Queues("andop", <<"B_AND">>, "AND"),
         Queues("orop", <<"B_OR">>, "OR"),
         Queues("notop", <<"B_NOT">>, "NOT"),
         Queues("equop", <<"EQUALS">>, "EQUAL"),
         Queues("null", <<"NIL">>, "NULL"),
         Queues("integer", <<"SIGNEDINT">>, "INT"),
         Queues("integer", <<"USINT">>, "UINT"),
         Queues("eqstring", <<"STRING">>, "STRING"),
         Queues("voidfile", <<"VFILE", "OPAR", "STRING", "CPAR">>, "VOID"),
         Queues("floatp", <<"FLOAT">>, "FLOAT"),
         Queues("regex", <<"colname", "REGEQU", "REGEXP", "flags">>, "REGEXP"),
         Queues("regex", <<"colname", "REGNEQU", "REGEXP", "flags">>, "NOTREGEXP"),
         Rule("flags", <<"CINSENS">>),
         Rule("flags", <<>>)>>

(* The stages of lemon, each a constant of its own. *)
WithFirsts == WithFirst(Numbered(Declared, Grammar))
Reached == WithBases(WithFirsts)
Automaton == WithStates(Reached)
Followed == WithFollow(Automaton)
Acting == WithDefaults(WithActions(Followed))
Sets == WithSets(Acting)
Placed == WithPlaces(Sets)
Tables == Packed(Placed)
=============================================================================
