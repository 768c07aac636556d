---------------------------- MODULE SpecMeaning ----------------------------
(***************************************************************************)
(* What a specification says, stated on its definitions and not on its     *)
(* text: how they are written down as a file, which tables the loader of   *)
(* SpecText makes of them, and where that is less than doc/specfile.5      *)
(* promises.                                                               *)
(*                                                                         *)
(* A definition is an enumeration [is, name, args, elems] or a catalogue   *)
(* [is, name, alias, elems].  Its arguments are NoArgs, NoSub or a         *)
(* sequence of sub-elements; an enumeration's element is [name, subs] with *)
(* a sequence of sub-elements, Bare or Other; a sub-element is             *)
(* <<"name", n>>, <<"self", "">> or <<"sameas", n>>; a catalogue's element *)
(* is [name, alias, type, of].                                             *)
(***************************************************************************)
EXTENDS SpecText

NoArgs == <<<<"none", "">>>>
NoSub == <<<<"nosub", "">>>>
Bare == <<<<"bare", "">>>>
Other == <<<<"other", "">>>>

Lexeme(kind) == [kind |-> kind, value |-> ""]
Word(name) == [kind |-> "UQSTRING", value |-> name]
Quoted(name) == [kind |-> "STRING", value |-> name]
Listed(seqs) ==
    FlattenSeq([i \in DOMAIN seqs |-> IF i = 1 THEN seqs[i] ELSE <<Lexeme("COMMA")>> \o seqs[i]])

PrintedSub(s) ==
    IF s[1] = "name" THEN <<Quoted(s[2])>>
    ELSE <<Lexeme("LTHAN")>>
         \o (IF s[1] = "self" THEN <<Lexeme("SELF")>> ELSE <<Lexeme("SAMEAS"), Word(s[2])>>)
         \o <<Lexeme("GTHAN")>>
PrintedSubs(subs) == Listed([i \in DOMAIN subs |-> PrintedSub(subs[i])])
PrintedElem(e) ==
    <<Quoted(e.name)>>
    \o (IF e.subs = Bare THEN <<>>
        ELSE IF e.subs = Other THEN <<Lexeme("AS"), Lexeme("STRINGDT")>>
        ELSE <<Lexeme("OBRACE")>> \o PrintedSubs(e.subs) \o <<Lexeme("CBRACE")>>)
PrintedAlias(alias) ==
    IF alias = "none" THEN <<>>
    ELSE IF alias = "fc" THEN <<Lexeme("EQUALS"), Lexeme("LTHAN"), Lexeme("FC"), Lexeme("GTHAN")>>
    ELSE <<Lexeme("EQUALS"), Quoted(alias)>>
PrintedCatElem(e) ==
    <<Word(e.name)>> \o PrintedAlias(e.alias) \o <<Lexeme("AS")>>
    \o (IF e.type = "plain" THEN <<Lexeme("NUMBERDT")>>
        ELSE <<Lexeme("EN"), Word(e.of)>> \o (IF e.type = "oenumsub" THEN <<Lexeme("DOTSUB")>> ELSE <<>>))
PrintedArgs(args) ==
    IF args = NoArgs THEN <<>>
    ELSE IF args = NoSub THEN <<Lexeme("NOSUB"), Lexeme("OPAR"), Lexeme("CPAR")>>
    ELSE <<Lexeme("ALLSUB"), Lexeme("OPAR")>> \o PrintedSubs(args) \o <<Lexeme("CPAR")>>
PrintedBlock(d) ==
    (IF d.is = "enum" THEN <<Lexeme("ENUM"), Word(d.name)>> \o PrintedArgs(d.args)
     ELSE <<Lexeme("CATALOGUE_TYPE"), Word(d.name)>> \o PrintedAlias(d.alias))
    \o <<Lexeme("OBRACE")>>
    \o Listed([i \in DOMAIN d.elems |-> IF d.is = "enum" THEN PrintedElem(d.elems[i])
                                        ELSE PrintedCatElem(d.elems[i])])
    \o <<Lexeme("CBRACE"), Lexeme("SCOLON")>>
Printed(s) == FlattenSeq([i \in DOMAIN s |-> PrintedBlock(s[i])])
-----------------------------------------------------------------------------
(* What becomes of a definition: the first fault decides, where "refused"  *)
(* is a message and "crashed" a NULL pointer followed.                     *)
HasSubs(e) == e.subs \notin {Bare, Other}
AllSubs(d) == IF d.args \in {NoArgs, NoSub} THEN <<>> ELSE d.args
Before(s, i, is) == {s[k].name : k \in {j \in 1..i-1 : s[j].is = is}}

SubVerdict(d, i, sub) ==
    LET of == {k \in 1..i-1 : d.elems[k].name = sub[2]}
    IN  IF sub[1] # "sameas" THEN "made"
        ELSE IF of = {} THEN "refused"
        ELSE IF HasSubs(d.elems[Min(of)]) THEN "made" ELSE "crashed"
Worst(verdicts) ==  \* of a sequence: the first that is not "made"
    LET bad == SelectSeq(verdicts, LAMBDA v : v # "made") IN IF bad = <<>> THEN "made" ELSE bad[1]
ElemVerdict(d, i) ==
    IF HasSubs(d.elems[i])
    THEN Worst([k \in DOMAIN d.elems[i].subs |-> SubVerdict(d, i, d.elems[i].subs[k])])
    ELSE "made"
RefVerdict(s, i, k) ==
    LET e == s[i].elems[k] IN
    IF \/ e.type = "oenum" /\ e.of \notin Before(s, i, "enum")
       \/ e.type = "oenumsub" /\ ~\E h \in 1..k-1 : s[i].elems[h].name = e.of /\ s[i].elems[h].type = "oenum"
    THEN "refused" ELSE "made"
BlockVerdict(s, i) ==
    LET d == s[i] IN
    IF d.is = "cat"
    THEN IF d.name \in KnownCatalogues \cup Before(s, i, "cat") THEN "refused"
         ELSE Worst([k \in DOMAIN d.elems |-> RefVerdict(s, i, k)])
    ELSE IF d.name \in KnownEnums \cup Before(s, i, "enum")
         THEN IF Before(s, i, "enum") = {} /\ d.args = NoArgs THEN "crashed" ELSE "refused"
         ELSE Worst([k \in DOMAIN d.elems |-> ElemVerdict(d, k)])
Verdict(s) == Worst([i \in DOMAIN s |-> BlockVerdict(s, i)])
-----------------------------------------------------------------------------
(* The rows of an enumeration's table: an element's own sub-elements,      *)
(* numbered from 0, then those of ALLSUB, from 6500.  The loader takes a   *)
(* <sameas> in ALLSUB, which specfile(5) has not, for a <self>.            *)
Names(subs) == [i \in DOMAIN subs |-> IF subs[i][1] = "self" THEN "self" ELSE subs[i][2]]
AllNames(d) == [i \in DOMAIN AllSubs(d) |-> IF AllSubs(d)[i][1] = "name" THEN AllSubs(d)[i][2] ELSE "self"]
Numbers(from, subs) == [i \in DOMAIN subs |-> from + i - 1]
Column(field, k) == [i \in DOMAIN field |-> field[i][k]]
Copying(e) == HasSubs(e) /\ \E i \in DOMAIN e.subs : e.subs[i][1] = "sameas"
Listing(e) == HasSubs(e) /\ ~Copying(e)

Kept(d, e, field) ==
    /\ Column(field, 1) = Names(e.subs) \o AllNames(d)
    /\ Column(field, 2) = Numbers(0, e.subs) \o Numbers(ALLSUBSTART, AllSubs(d))
RowAsDefined(d, i, row) ==
    /\ row.name = d.elems[i].name /\ row.value = i - 1
    /\ row.other <=> d.elems[i].subs = Other
    /\ Listing(d.elems[i]) => Kept(d, d.elems[i], row.subs)

\* What an element has of its own and by copying, and what is copied to it.
OwnNames(d, row) == SubSeq(Column(row.subs, 1), 1, Len(row.subs) - Len(AllSubs(d)))
RowOf(d, rows, name) == rows[Min({k \in DOMAIN d.elems : d.elems[k].name = name})]
WithCopies(d, rows, subs) ==
    FlattenSeq([i \in DOMAIN subs |->
        IF subs[i][1] = "sameas" THEN OwnNames(d, RowOf(d, rows, subs[i][2])) ELSE Names(<<subs[i]>>)])
CopiesFirst(e) == Copying(e) /\ e.subs[1][1] = "sameas"
-----------------------------------------------------------------------------
(* The files: a definition as it is, or with a comment put into it.        *)
Exact == text = Printed(spec)
Uncommented ==
    LET inside(i) == \E k \in 1..i : text[k].kind = "/*" /\ \A j \in k+1..i-1 : text[j].kind # "*/"
        at == SelectSeq([i \in DOMAIN text |-> i], LAMBDA i : ~inside(i))
    IN  [i \in DOMAIN at |-> text[at[i]]]
Harmless == \A i \in DOMAIN text : text[i].value = "comment" => text[i].kind = "UQSTRING"
Over == phase \in {"made", "refused", "crashed"}
Ended == read = Len(text)

(* A whole file is loaded, refused or fatal as its first fault says, and a *)
(* comment without a word of the language in it changes nothing.           *)
VerdictIsOfTheSpec ==
    Over /\ Harmless /\ Uncommented = Printed(spec) =>
       \/ phase = Verdict(spec)
       \/ ~Ended /\ phase \in {"made", "crashed"}   \* the file was cut off

(* The lists read back: what the values in a catalogue's rows are shown    *)
(* as.  Not so a <self>: it is to have "the same name as the father", but  *)
(* is looked for by its value and found without one (dbinit.c:151).        *)
ShownAs(subs, names, numbers) ==
    \A j \in DOMAIN names : names[j] # "self" => NameByValue(subs, numbers[j]) = names[j]
ListAsDefined(d, list) ==
    /\ list.otherelem = First({k \in DOMAIN d.elems : /\ d.elems[k].subs = Other
                                                      /\ \A j \in DOMAIN d.elems : j > k => d.elems[j].subs # Other})
    /\ \A k \in DOMAIN d.elems :
          /\ NameByValue(list.elems, k - 1) = d.elems[k].name
          /\ Listing(d.elems[k]) =>
                ShownAs(SubheadByEnval(list.elems, k - 1), Names(d.elems[k].subs) \o AllNames(d),
                        Numbers(0, d.elems[k].subs) \o Numbers(ALLSUBSTART, AllSubs(d)))

Enumerations == SelectSeq(spec, LAMBDA d : d.is = "enum")
Catalogues == SelectSeq(spec, LAMBDA d : d.is = "cat")
Loaded == phase = "made" /\ Ended /\ Exact
Reread == phase = "listed" /\ Ended /\ Exact

(* The tables of a whole file have what its definitions list, in their     *)
(* order, with every value and name in its place: the order in which lemon *)
(* reduces allocer, headdoer and clearallsub puts every list of            *)
(* sub-elements where it was written.  The next program reads back lists   *)
(* in which every value finds its name and every field what it is of;      *)
(* whatever the file was, none of these is missing.  Of sub-elements this  *)
(* is about elements with a list of their own and no copies.  It is less   *)
(* than specfile(5) promises: "ALLSUB() blocks simply define elements that *)
(* will apply to all enum elements", but an element without a list of its  *)
(* own gets none of them (dbspec.y:91).                                    *)
TablesAsDefined ==
  /\ phase # "unreadable"
  /\ Reread =>
       /\ \A i \in DOMAIN Enumerations : ListAsDefined(Enumerations[i], lists.enums[i])
       /\ \A i \in DOMAIN Catalogues : \A k \in DOMAIN Catalogues[i].elems :
             LET e == Catalogues[i].elems[k] of == lists.cats[i].elems[k].of
             IN  /\ e.type = "oenum" => lists.enums[of].name = e.of
                 /\ e.type = "oenumsub" =>
                       /\ lists.cats[i].elems[of].name = e.of
                       /\ lists.cats[i].elems[of].type = "oenum"
  /\ Loaded =>
       /\ Len(written.enums) = Len(Enumerations) /\ Len(written.cats) = Len(Catalogues)
       /\ \A i \in DOMAIN Enumerations :
             LET d == Enumerations[i] IN
             /\ written.enums[i].name = d.name
             /\ Len(written.enums[i].rows) = Len(d.elems)
             /\ \A k \in DOMAIN d.elems : RowAsDefined(d, k, written.enums[i].rows[k])
       /\ \A i \in DOMAIN Catalogues :
             LET d == Catalogues[i] IN
             /\ written.cats[i].name = d.name
             /\ Len(written.cats[i].rows) = Len(d.elems)
             /\ \A k \in DOMAIN d.elems :
                   LET e == d.elems[k] row == written.cats[i].rows[k]
                   IN  /\ row.name = e.name /\ row.type = e.type
                       /\ row.alias = (IF e.alias = "none" THEN e.name ELSE e.alias)
                       /\ row.of = (IF e.type = "plain" THEN "none" ELSE e.of)

(* An element with a <sameas> behind sub-elements of its own has, in the   *)
(* order of the file, its own and all that the named element has, without  *)
(* the latter's ALLSUB, and its own ALLSUB once at the end: splicing the   *)
(* copy in neither cuts what was there nor what follows.  What stands      *)
(* before the <sameas> is found by its number, although copies can have    *)
(* the number of another sub-element, before or behind them, by which they *)
(* are not found (dbinit.c:221).  A <sameas> that comes first is left out: *)
(* specfile(5) has it copy the elements of the other, but it brings only   *)
(* one of them (dbspec.y:197).                                             *)
CopiesKept ==
  /\ Reread =>
       \A i \in DOMAIN Enumerations : \A k \in DOMAIN Enumerations[i].elems :
          LET e == Enumerations[i].elems[k]
              own == SubSeq(e.subs, 1, Min({j \in DOMAIN e.subs : e.subs[j][1] = "sameas"}) - 1)
          IN  Copying(e) => ShownAs(lists.enums[i].elems[k].subs, Names(own), Numbers(0, own))
  /\ Loaded =>
       \A i \in DOMAIN Enumerations : \A k \in DOMAIN Enumerations[i].elems :
          LET d == Enumerations[i] e == d.elems[k] rows == written.enums[i].rows
          IN  Copying(e) /\ ~CopiesFirst(e) =>
                 Column(rows[k].subs, 1) = WithCopies(d, rows, e.subs) \o AllNames(d)

(* A file that ends too early is not refused: what it defined in full is   *)
(* in the database, and of the definition it was in the middle of nothing  *)
(* but the name of an enumeration; a message is left behind, for the next  *)
(* call to find.  In the middle of a catalogue the loader crashes.         *)
CutOffKeepsWhole ==
    LET whole(is) == Cardinality({i \in 1..read : /\ text[i].kind = "CBRACE"
                                                  /\ i < Len(text) /\ text[i + 1].kind = "SCOLON"
                                                  /\ text[Max({k \in 1..i : text[k].kind \in {"ENUM", "CATALOGUE_TYPE"}})].kind = is})
    IN  Exact =>
          /\ phase = "made" =>
                /\ Len(written.cats) = whole("CATALOGUE_TYPE")
                /\ Len(written.enums) \in {whole("ENUM"), whole("ENUM") + 1}
                /\ Len(written.enums) > whole("ENUM") => written.enums[Len(written.enums)].rows = <<>>
                /\ pending <=> read > 0 /\ text[read].kind # "SCOLON"
          /\ phase = "crashed" /\ Verdict(spec) = "made" =>
                \E i \in 1..read : text[i].kind = "CATALOGUE_TYPE"
                                   /\ \A k \in i..read : text[k].kind # "SCOLON"

(* memory.c frees nothing twice, neither a node that several elements end  *)
(* in nor a name that copies share, whatever the file was and however far  *)
(* it got; after a load only lost copies are left.                         *)
ReleasedOnce ==
    /\ Cardinality(ToSet(released)) = Len(released)
    /\ phase = "made" /\ Ended /\ Exact =>
          \A n \in DOMAIN heads.nodes : heads.nodes[n].sameas \/ <<"node", n>> \in ToSet(released)
=============================================================================
