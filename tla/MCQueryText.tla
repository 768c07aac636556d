----------------------------- MODULE MCQueryText -----------------------------
EXTENDS QueryAutomaton
MCKinds == {"QUERY", "COLS", "CATALOGUE", "COND", "OPAR", "CPAR", "COMMA", "B_AND", "EQUALS", "B_NOT",
    "NIL", "VFILE", "REGNEQU", "CINSENS"}
MCTokens == [kind : MCKinds, value : {"none"}]
    \cup {[kind |-> "UQSTRING", value |-> "music"],
          [kind |-> "USINT", value |-> "7"],
          [kind |-> "STRING", value |-> "text"], [kind |-> "REGEXP", value |-> "re"]}

\* Texts: words of every kind next to each other, with and without a blank,
\* whole conditions, selected columns; blanks, ends and errors everywhere.
Pieces == {"a", "C", "null", "i", "ix", "7", "12", "-5", "1.5", "'it''s'", "''", "/r/", "\"x", "==", "=", "=~",
           "!", "!~", "<=", ">", "|", "&&", "(", ")", ",", "#", "."}
Operations == {"==", "=", "=~", "!=", "!~", "<=", " > ", "||", "&", "-"}
Values == {"7", "12", "-5", "1.5", "'it''s'", "\"\"", "/r/i", "/r/ i", "nu", "NULL", "vfile('f')", "b", "'x", "7 #"}
MCTexts ==
    {"QUERY CAT music WHERE " \o p \o s \o q : p \in Pieces, s \in {"", " \t"}, q \in Pieces}
    \cup {"query cat music where " \o n \o s \o o \o s \o v :
              n \in {"artist", "c", "x_1", "($"}, s \in {"", " "}, o \in Operations, v \in Values}
    \cup {"QUERY COLS (" \o c \o ") CAT music WHERE" \o w :
              c \in {"", "a", "a,b ,qx", "cats, q", "a,1"}, w \in {"", "\n", " a", "ever"}}
    \cup {"", "#", "q", "QUERYCAT music WHERE", "Q CA music W",
          "Q CA m W b == vfile('nofile')", "Q CA m W b =~ /(/ && d"}
    \cup {"Q CA music W b" \o o \o e : o \in {"=~", "!~"}, e \in {"/it's/", "/it''s/i", "/'/ && c"}}
NoTexts == {}
=============================================================================
