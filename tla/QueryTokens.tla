----------------------------- MODULE QueryTokens -----------------------------
(***************************************************************************)
(* The tokeniser of queries, libfakedbfs/qtokenise.c.  A text is a string; *)
(* At(t, i) is its character i, "" behind its end, as the NUL in C.        *)
(***************************************************************************)
EXTENDS Naturals, SequencesExt, TLC

At(t, i) == IF i > Len(t) THEN "" ELSE SubSeq(t, i, i)
Characters(t) == {At(t, i) : i \in 1..Len(t)}
Lower == "abcdefghijklmnopqrstuvwxyz"
UpperCase == "ABCDEFGHIJKLMNOPQRSTUVWXYZ"
Blanks == {" ", "\t", "\n", "\r"}
Digits == Characters("0123456789")
IdChars == Characters(Lower) \cup Characters(UpperCase) \cup Digits \cup {"_", "$"}

\* How many characters from i on are of the set.
Span(t, i, set) == Min({j \in i..Len(t) + 1 : At(t, j) \notin set}) - i

\* The length of what begins with a delimiter at i: up to the next one that is
\* not doubled, or to the end of the text.
Delimited(t, i) ==
    LET length[j \in Nat] ==
            IF j > Len(t) THEN j - i
            ELSE IF At(t, j) # At(t, i) THEN length[j + 1]
            ELSE IF At(t, j + 1) = At(t, i) THEN length[j + 2]
            ELSE j - i + 1
    IN  length[i + 1]

Pairs == ("==" :> "EQUALS") @@ ("=~" :> "REGEQU") @@ ("!=" :> "NEQU") @@ ("!~" :> "REGNEQU")
    @@ (">=" :> "GTEQU") @@ ("<=" :> "LTEQU") @@ ("||" :> "B_OR") @@ ("&&" :> "B_AND")
\* (the case of a single = has no break, and ends in that of !)
Singles == ("(" :> "OPAR") @@ (")" :> "CPAR") @@ ("=" :> "B_NOT") @@ ("!" :> "B_NOT")
    @@ (">" :> "GT") @@ ("<" :> "LT") @@ ("|" :> "BW_OR") @@ ("&" :> "BW_AND") @@ ("," :> "COMMA")

(* uqstrtok compares as many characters as the word has: whatever a        *)
(* keyword starts with is taken for it.                                    *)
Keywords == <<[word |-> "null", kind |-> "NIL"], [word |-> "query", kind |-> "QUERY"],
    [word |-> "cat", kind |-> "CATALOGUE"], [word |-> "where", kind |-> "COND"],
    [word |-> "cols", kind |-> "COLS"], [word |-> "vfile", kind |-> "VFILE"]>>
InLower(c) == IF c \in Characters(UpperCase)
              THEN At(Lower, CHOOSE i \in 1..26 : At(UpperCase, i) = c) ELSE c
Starts(word, k) ==
    /\ Len(word) <= Len(Keywords[k].word)
    /\ \A i \in 1..Len(word) :
          At(Keywords[k].word, i) = IF Keywords[k].kind = "VFILE" THEN At(word, i)
                                    ELSE InLower(At(word, i))
UqStrTok(word) ==
    LET taken == {k \in DOMAIN Keywords : Starts(word, k)}
    IN  IF taken = {} THEN "UQSTRING" ELSE Keywords[Min(taken)].kind

\* A number: a single digit counts as unsigned, more than one as signed.
NumberLength(t, i) ==
    LET whole == 1 + Span(t, i + 1, Digits)
        fraction == IF At(t, i + whole) = "." THEN Span(t, i + whole + 1, Digits) ELSE 0
    IN  IF fraction > 0 THEN whole + 1 + fraction ELSE whole
NumberKind(t, i) ==
    IF "." \in Characters(SubSeq(t, i, i + NumberLength(t, i) - 1)) THEN "FLOAT"
    ELSE IF At(t, i + 1) \in Digits THEN "SIGNEDINT" ELSE "USINT"

(* toktl: the kind and the length of the token at i.                       *)
Token(kind, length) == [kind |-> kind, length |-> length]
Toktl(t, i) ==
    LET c == At(t, i)
        next == At(t, i + 1)
        word == SubSeq(t, i, i + Span(t, i, IdChars) - 1)
    IN  CASE c = "" -> Token("END", 0)
          [] c \in Blanks -> Token("SPACE", Span(t, i, Blanks))
          [] c \in {"'", "\""} -> Token("STRING", Delimited(t, i))
          [] c = "/" -> Token("REGEXP", Delimited(t, i))
          [] c \o next \in DOMAIN Pairs -> Token(Pairs[c \o next], 2)
          [] c \in DOMAIN Singles /\ c \o next \notin DOMAIN Pairs -> Token(Singles[c], 1)
          [] c = "i" /\ next \notin IdChars -> Token("CINSENS", 1)
          [] c \in Digits \/ (c = "-" /\ next \in Digits) ->
               Token(NumberKind(t, i), NumberLength(t, i))
          [] c \in IdChars \ Digits /\ ~(c = "i" /\ next \notin IdChars) ->
               Token(UqStrTok(word), Len(word))
          [] OTHER -> Token("ILLEGAL", 1)

(* extract_token_data: the text between the first and the last character   *)
(* of a string, even if that is no delimiter; "none" where there is none.  *)
Extracted(t, i, token) ==
    CASE token.kind \in {"STRING", "REGEXP"} -> SubSeq(t, i + 1, i + token.length - 2)
      [] token.kind \in {"UQSTRING", "SIGNEDINT", "USINT", "FLOAT"} ->
           SubSeq(t, i, i + token.length - 1)
      [] OTHER -> "none"
=============================================================================
