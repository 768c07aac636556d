--------------------------- MODULE QueryAutomaton ---------------------------
(***************************************************************************)
(* How the parser of queries and the reading of QueryReading go together:  *)
(* facts about the tables of the query grammar, from which the proofs      *)
(* conclude what the parser does on a text of any length, in groups nested *)
(* to any depth.  The grammar is a constant, and TLC evaluates the facts.  *)
(***************************************************************************)
EXTENDS QueryReading, Automaton

Rules(n) == {r \in DOMAIN Grammar : Grammar[r].lhs = n}
ParenRule == CHOOSE r \in DOMAIN Grammar : Grammar[r].rhs = <<"oparen", "en", "cparen">>
QueryRule == CHOOSE r \in Rules("query") : TRUE
Holds(s, r, d) == <<r, d>> \in Tables.configs[s]
Order(s, x) == OrderOn(Tables, s, x)

TokenKinds == Terminals(Tables) \ {"$", "EOQUERY"}
TokeniserKinds ==
    {"STRING", "REGEXP", "CINSENS", "FLOAT", "SIGNEDINT", "USINT", "UQSTRING"}
    \cup {Pairs[p] : p \in DOMAIN Pairs} \cup {Singles[p] : p \in DOMAIN Singles}
    \cup {Keywords[k].kind : k \in DOMAIN Keywords}
-----------------------------------------------------------------------------
(* Groups.  A parenthesis counts as open or closed as soon as it is read,  *)
(* before its rule is reduced.                                             *)
Weight(n) == IF n = "oparen" THEN 1 ELSE IF n = "cparen" THEN -1 ELSE 0
JustRead(n) == {s \in Tables.states : \E r \in Rules(n) : Holds(s, r, 1)}
Opens(s) == IF s \in JustRead("oparen") THEN 1 ELSE IF s \in JustRead("cparen") THEN -1 ELSE 0
\* A condition stands there that is in no group.
TopLevel == {s \in Tables.states : \E r \in Rules("cexp") : Holds(s, r, 1)}
\* The states n symbols away from the beginning, without a group.
Flat[n \in 0..10] ==
    IF n = 0 THEN {0}
    ELSE {Order(s, x) : s \in Flat[n - 1], x \in Symbols(Tables) \ {"oparen"}} \cap Tables.states

GroupsAreRules ==
    /\ Tables.rules = Grammar /\ DOMAIN Grammar = 1..Tables.nrule
    /\ {"oparen", "cparen"} \cap Terminals(Tables) = {} /\ {"EOQUERY", "$"} \subseteq Terminals(Tables)
    /\ ParenRule \in Rules("en") /\ Grammar[ParenRule].rhs = <<"oparen", "en", "cparen">>
    /\ QueryRule \in Rules("query") /\ RhsLength(Tables, QueryRule) = 6
    /\ \A r \in DOMAIN Grammar :
          /\ (\E i \in DOMAIN Grammar[r].rhs : Grammar[r].rhs[i] \in {"oparen", "cparen"}) => r = ParenRule
          /\ Grammar[r].queues = "BEGIN_GRP" <=> Grammar[r].lhs = "oparen"
          /\ Grammar[r].queues = "CLOSE_GRP" <=> Grammar[r].lhs = "cparen"
    /\ \A r \in Rules("oparen") \cup Rules("cparen") \cup Rules("cexp") : RhsLength(Tables, r) = 1
GroupsAreSpelt ==
    \A s \in Tables.states :
       /\ Order(s, "cparen") # AcceptAction(Tables)
       /\ Order(s, "cparen") \in Tables.states =>
             Holds(s, ParenRule, 2)
             /\ \A x \in Symbols(Tables) : Order(Order(s, "cparen"), x) \notin Tables.states
       /\ Holds(s, QueryRule, 0) => s = 0
       /\ (\E r \in Rules("cexp") : Holds(s, r, 0)) => Holds(s, QueryRule, 4)
       /\ s \in TopLevel => Opens(s) = 0
FlatIsShort ==
    /\ Flat[0] = {0}
    /\ \A n \in 0..9 :
          LET next == Flat[n + 1]
          IN  \A s \in Flat[n] : \A x \in Symbols(Tables) \ {"oparen"} :
                 Order(s, x) \in Tables.states => Order(s, x) \in next
    /\ \A s \in Flat[10] : \A x \in Symbols(Tables) : Order(s, x) \notin Tables.states
-----------------------------------------------------------------------------
(* What the parser can know of the reading: <<u, s, x, w>> where s is the  *)
(* state on top of the stack, u the one below, x the token looked at, or   *)
(* NoToken, and w where the reading was before x.                          *)
OneOpen(w, x) == Advance(<<w, 1>>, x)
Uncovered(k, r) == \* the states that can be on top when the handle is popped
    {u \in Tables.states : /\ Holds(u, r, 0)
                           /\ RhsLength(Tables, r) = 0 => u = k[2]
                           /\ RhsLength(Tables, r) = 1 => u = k[1]}
Onwards(k) ==
    LET a == Order(k[2], k[3]) IN
    IF k[3] = NoToken THEN {<<k[1], k[2], x, k[4]>> : x \in TokenKinds \cup {"EOQUERY"}}
    ELSE IF Reduces(Tables, a)
    THEN {<<u, Order(u, Grammar[RuleOf(Tables, a)].lhs), k[3], k[4]>> : u \in Uncovered(k, RuleOf(Tables, a))}
    ELSE IF a \in Tables.states /\ k[3] # "EOQUERY"
    THEN {<<k[2], a, NoToken, OneOpen(k[4], k[3])[1]>>}
    ELSE {}
Start == <<0, 0, NoToken, "start">>
Known ==
    LET Know == Tables.states \X Tables.states \X (TokenKinds \cup {NoToken, "EOQUERY"}) \X STRING
        from[K \in SUBSET Know, latest \in SUBSET Know] ==
            LET more == UNION {Onwards(k) : k \in latest} \ K
            IN  IF more = {} THEN K ELSE from[K \cup more, more]
    IN  from[{Start}, {Start}]

Agrees(k) ==
    LET a == Order(k[2], k[3])
        next == OneOpen(k[4], k[3])
    IN  /\ k[3] = NoToken => k[4] # "dead"
        /\ k[3] # NoToken /\ Reduces(Tables, a) =>
              LET lhs == Grammar[RuleOf(Tables, a)].lhs
              IN  /\ Opens(k[2]) = Weight(lhs)
                  /\ \A u \in Uncovered(k, RuleOf(Tables, a)) :
                        Order(u, lhs) \in Tables.states /\ Opens(Order(u, lhs)) = 0
        /\ k[3] \in TokenKinds /\ a \in Tables.states =>
              /\ Opens(k[2]) = 0
              /\ next[1] # "dead" /\ next[2] = 1 + Opens(a)
              /\ Opens(a) = -1 => Holds(k[2], ParenRule, 2)
        /\ k[3] \in TokenKinds /\ a = ErrorAction(Tables) =>
              \/ next[1] = "dead"
              \/ k[3] = "CPAR" /\ k[4] \in Condition /\ k[2] \in TopLevel
        \* The end of the text.
        /\ k[3] = "EOQUERY" /\ a \in Tables.states =>
              k[4] \in Condition /\ Opens(k[2]) = 0 /\ Holds(k[2], QueryRule, 5)
        /\ k[3] = "EOQUERY" /\ a = ErrorAction(Tables) /\ k[4] \in Condition =>
              Opens(k[2]) = 0 /\ Holds(k[2], ParenRule, 2)
KnowsReading ==
    /\ Start \in Known
    /\ \A k \in Known : Onwards(k) \subseteq Known /\ Agrees(k)

-----------------------------------------------------------------------------
(* Instructions.  A rule queues its instruction when it is reduced, that   *)
(* is when the token behind it is looked at; until then the instruction is *)
(* owed: <<op, d>>, its value d symbols below the top of the stack.  u is  *)
(* the state below s, and what "i" stands behind is owed still.            *)
OperandAt(r) == IF RhsLength(Tables, r) >= 3 THEN 3 ELSE 1
Begins == {"BEGINQ_ALL", "BEGINQ_COLS"}
OwedIn(s) ==
    {<<Grammar[c[1]].queues, c[2] - OperandAt(c[1])>> :
        c \in {d \in Tables.configs[s] : /\ Grammar[d[1]].queues \notin {"nothing", "ENDQ"}
                                        /\ d[2] >= OperandAt(d[1])}}
Deeper(owed, n) == {<<o[1], o[2] + n>> : o \in owed}
Owed(u, s) == IF s \in JustRead("flags") THEN Deeper(OwedIn(u), 1) ELSE OwedIn(s)
Beginning == {<<op, 0>> : op \in Begins}

\* What a token says at a place of the reading; of a regular expression, the
\* token before it decides.
SelectPlaces == {"start", "query", "cols", "column", "columns", "selected"}
OpRead(w, x) ==
    IF x \in DOMAIN Named THEN Named[x]
    ELSE IF x = "UQSTRING" THEN IF w \in SelectPlaces THEN "SELCN" ELSE IF w = "cat" THEN "SETCAT" ELSE "COLNAME"
    ELSE IF x = "STRING" THEN IF w = "path" THEN "VOID" ELSE "STRING"
    ELSE IF w \in SelectPlaces THEN "nothing"
    ELSE IF x = "OPAR" /\ w # "file" THEN "BEGIN_GRP"
    ELSE IF x = "CPAR" /\ w # "close" THEN "CLOSE_GRP"
    ELSE "nothing"
RegexRead(s) ==
    {Grammar[r].queues : r \in {q \in Rules("regex") :
        /\ Holds(s, q, 2) /\ Grammar[q].rhs[2] \in TokenKinds
        /\ Grammar[q].queues = IF Grammar[q].rhs[2] = "REGEQU" THEN "REGEXP" ELSE "NOTREGEXP"}}

OwesOnReduce(k, r) ==
    LET op == Grammar[r].queues
        n == RhsLength(Tables, r)
        owed == Owed(k[1], k[2])
        after(u) == Owed(u, Order(u, Grammar[r].lhs))
    IN  /\ op = "nothing" =>
              /\ \A o \in owed : o[2] >= n
              /\ \A u \in Uncovered(k, r) : after(u) = Deeper(owed, 1 - n)
        /\ op # "nothing" =>
              /\ op # "ENDQ" /\ n >= OperandAt(r)
              /\ owed = IF op \in Begins THEN Beginning ELSE {<<op, n - OperandAt(r)>>}
              /\ \A u \in Uncovered(k, r) : after(u) = {}
        /\ op \in Begins => k[4] = "query" /\ n = 1 /\ (op = "BEGINQ_COLS" <=> k[3] = "COLS")
OwesOnShift(k, a) ==
    LET op == OpRead(k[4], k[3])
        owed == Owed(k[1], k[2])
        after == Owed(k[2], a)
    IN  IF k[3] = "QUERY" THEN owed = {} /\ after = Beginning
        ELSE IF k[3] = "REGEXP" THEN owed = {} /\ \E o \in RegexRead(k[2]) : after = {<<o, 0>>}
        ELSE IF op = "nothing" THEN after = Deeper(owed, 1)
        ELSE owed = {} /\ after = {<<op, 0>>}
Owes(k) ==
    LET a == Order(k[2], k[3]) IN
    /\ k[3] = NoToken /\ k[4] = "query" => Owed(k[1], k[2]) = Beginning
    /\ k[3] # NoToken /\ Reduces(Tables, a) => OwesOnReduce(k, RuleOf(Tables, a))
    /\ k[3] \in TokenKinds /\ a \in Tables.states => OwesOnShift(k, a)
    /\ k[3] = "EOQUERY" /\ a \in Tables.states => Owed(k[1], k[2]) = {}
KnowsInstructions == Owed(0, 0) = {} /\ \A k \in Known : Owes(k)

\* What the places tell of the tokens before them.
PlaceNames == DOMAIN Places \cup Condition \cup {"operand", "dead"}
PlacesTell ==
    \A w \in PlaceNames : \A x \in TokenKinds :
       LET v == OneOpen(w, x)[1]
       IN  /\ v \in PlaceNames /\ (w = "dead" => v = "dead")
           /\ v # "dead" =>
                 /\ v \in SelectPlaces <=> w \in SelectPlaces /\ x # "CATALOGUE"
                 /\ v = "cat" <=> x = "CATALOGUE"
                 /\ v = "query" <=> x = "QUERY"
                 /\ v = "file" <=> x = "VFILE"
                 /\ v = "path" <=> w = "file"
                 /\ v = "close" <=> w = "path"

\* What is said one after the other: <<w, op>> where op is the last that was
\* said when the reading is at w.
TextOps == {"BEGIN_GRP", "CLOSE_GRP", "NOT"} \cup Binary \cup Operands \cup Regexp
OpsRead(w, x) ==
    IF x = "QUERY" THEN Begins
    ELSE IF x = "REGEXP" THEN Regexp
    ELSE {OpRead(w, x)} \ {"nothing"}
SaidOnwards(said) ==
    UNION {LET v == OneOpen(said[1], x)[1] ops == OpsRead(said[1], x)
           IN  IF v = "dead" THEN {}
               ELSE IF ops = {} THEN {<<v, said[2]>>}
               ELSE {<<v, op>> : op \in ops} : x \in TokenKinds}
Sayings ==
    LET Said == PlaceNames \X STRING
        from[K \in SUBSET Said, latest \in SUBSET Said] ==
            LET more == UNION {SaidOnwards(said) : said \in latest} \ K
            IN  IF more = {} THEN K ELSE from[K \cup more, more]
    IN  from[{<<"start", "none">>}, {<<"start", "none">>}]
Adjacent ==
    {<<said[2], "ENDQ">> : said \in {t \in Sayings : t[1] \in Condition}}
    \cup UNION {LET w == said[1]
                    xs == {x \in TokenKinds : OneOpen(w, x)[1] # "dead"}
                IN  {said[2]} \X UNION {OpsRead(w, x) : x \in xs} : said \in Sayings}
\* Places from which a regular expression can still follow: none is read twice.
BeforeRegex == (DOMAIN Places \cup {"empty"}) \ {"flags", "file", "path", "close"}
\* What can be queued behind what; nothing but ENDQ follows the condition.
Neighbours(p, q) ==
    /\ q \in Begins \cup {"SELCN", "SETCAT", "ENDQ"} \cup TextOps
    /\ p # "ENDQ" /\ (p = "none" <=> q \in Begins)
    /\ p \in TextOps => q \in TextOps \cup {"ENDQ"}
    /\ q = "BEGIN_GRP" => p \in {"SETCAT", "BEGIN_GRP"}
    /\ q \in Regexp => p = "COLNAME"
    /\ p \in Binary => q \in Operands
    /\ p \in Operands => q \in Binary \cup Regexp \cup {"NOT", "CLOSE_GRP", "ENDQ"}
    /\ p \in Regexp \cup {"CLOSE_GRP"} => q \in Binary \cup {"NOT", "CLOSE_GRP", "ENDQ"}
KnowsOrder ==
    /\ <<"start", "none">> \in Sayings
    /\ \A said \in Sayings : SaidOnwards(said) \subseteq Sayings
    /\ \A w \in PlaceNames : \A x \in TokenKinds :
          LET v == OneOpen(w, x)[1]
          IN  /\ v # "dead" => /\ v \in BeforeRegex => w \in BeforeRegex
                               /\ x = "REGEXP" => w = "regexp" /\ v \notin BeforeRegex
              /\ OpsRead(w, x) \cap Regexp # {} => x = "REGEXP"
    /\ \A said \in Adjacent : Neighbours(said[1], said[2])

\* Behind the end of a query, rules are reduced until the parser accepts.
EndStates == {Order(s, "EOQUERY") : s \in Tables.states} \cap Tables.states
LastRule(s) == RuleOf(Tables, Order(s, "$"))
Ends(s, lhs) ==
    /\ Reduces(Tables, Order(s, "$"))
    /\ LastRule(s) \in Rules(lhs) /\ RhsLength(Tables, LastRule(s)) = 1
    /\ Grammar[LastRule(s)].queues = "nothing"
QueryEnds ==
    /\ Order(0, "$") = ErrorAction(Tables)
    /\ Grammar[QueryRule].queues = "ENDQ"
    /\ \A s \in EndStates :
          Holds(s, QueryRule, 6) /\ Reduces(Tables, Order(s, "$")) /\ LastRule(s) = QueryRule
    /\ Order(0, "query") \in Tables.states /\ Ends(Order(0, "query"), "command")
    /\ Order(0, "command") \in Tables.states /\ Ends(Order(0, "command"), "statem")
    /\ Order(0, "statem") = AcceptAction(Tables)

(* The tables of the query grammar, as lemon makes them.                   *)
ASSUME QueryTables ==
    /\ WellMade(Tables) /\ NoToken \notin Symbols(Tables)
    /\ TokeniserKinds \subseteq TokenKinds
    /\ GroupsAreRules /\ GroupsAreSpelt /\ FlatIsShort
    /\ KnowsReading /\ KnowsInstructions /\ PlacesTell /\ KnowsOrder /\ QueryEnds

(* lempar.c makes YYSTACKDEPTH 100; 11 entries hold what is not in groups. *)
ASSUME QueryConstants ==
    /\ StackDepth \in Nat /\ StackDepth >= 11
    /\ \A token \in Tokens : token.kind \in TokenKinds
=============================================================================
