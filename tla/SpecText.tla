------------------------------ MODULE SpecText ------------------------------
(***************************************************************************)
(* Loading a specification file: fdbfs_dbspec_parse reads the tokens of    *)
(* the lexer, the parser lemon made of dbspec.y builds enumerations and    *)
(* catalogues in a Heads structure, make_tables_from_spec writes them to   *)
(* the database and memory.c releases them; the next program reads back    *)
(* what they wrote.                                                        *)
(*                                                                         *)
(* Pointers to sub-elements are indices into heads.nodes, 0 is NULL; a     *)
(* string is known by the place in the text it was allocated for, so that  *)
(* two pointers to one string are told from two strings that are equal.    *)
(* Names are compared as the code does after fdbfs_normalise.  The writes  *)
(* of make_tables_from_spec succeed here; Schema has them fail.            *)
(***************************************************************************)
EXTENDS SpecGrammar
CONSTANTS
    Specs,              \* definitions somebody writes down
    Versions(_),        \* the files of lexemes [kind, value] that come of it
    KnownEnums,         \* names of the enumerations in the database
    KnownCatalogues     \* and of its catalogue field tables

VARIABLES
    spec,       \* history: the definitions behind the text
    text,       \* the lexemes of the file
    read,       \* how many of them the lexer has passed
    comment,    \* its start condition
    parser,     \* of Lempar
    heads,      \* Heads h
    pending,    \* f->error.emsg # NULL
    phase,      \* where fdbfs_dbspec_parse is
    written,    \* what make_tables_from_spec has put into the database
    released,   \* what memory.c has freed, in order
    lists       \* the lists the next program reads back
vars == <<spec, text, read, comment, parser, heads, pending, phase, written, released, lists>>

NoHeads == [enums |-> <<>>, cats |-> <<>>, curenum |-> 0, curcath |-> 0,
            elems |-> <<>>, catelems |-> <<>>, nodes |-> <<>>,
            sub |-> 0, lastsub |-> 0, allsub |-> 0, lastallsub |-> 0,
            evalue |-> 0, subvalue |-> 0, allvalue |-> 0, err |-> FALSE]
Init ==
    /\ spec \in Specs
    /\ text \in Versions(spec)
    /\ read = 0 /\ comment = FALSE
    /\ parser = Allocated
    /\ heads = NoHeads
    /\ pending = FALSE
    /\ phase = "read"
    /\ written = [enums |-> <<>>, cats |-> <<>>]
    /\ released = <<>>
    /\ lists = [enums |-> <<>>, cats |-> <<>>]
-----------------------------------------------------------------------------
(* The lexer: in a comment the rules for words of a fixed spelling still   *)
(* match, being longer than the single character of the comment rule.      *)
Keywords == {"EN", "ENUM", "ALLSUB", "CATALOGUE_TYPE", "NOSUB", "AS", "SAMEAS", "SELF", "FC", "DOTSUB"}
            \cup ToSet(DataTypes)
\* Mutant of Delivered: the rules for names are not limited to INITIAL.
DeliveredAlways(kind) == kind \notin {"/*", "*/"}

Delivered(kind) == IF comment THEN kind \in Keywords ELSE kind \notin {"/*", "*/"}

(* A value of the parser: a number and the place of a string, or an index. *)
Value(num, at) == [num |-> num, at |-> at]

Lex ==
    /\ phase = "read"
    /\ read < Len(text)
    /\ LET kind == text[read + 1].kind
       IN  /\ comment' = IF kind = "/*" THEN TRUE ELSE IF kind = "*/" THEN FALSE ELSE comment
           /\ IF Delivered(kind)
              THEN parser' = Fed(parser, kind, Value(0, read + 1)) /\ phase' = "token"
              ELSE UNCHANGED <<parser, phase>>
    /\ read' = read + 1
    /\ UNCHANGED <<spec, text, heads, pending, written, released, lists>>

\* The file can end anywhere; what token 0 does is not looked at.
EndOfText ==
    /\ phase = "read"
    /\ parser' = Fed(parser, "$", Value(0, 0))
    /\ phase' = "end"
    /\ UNCHANGED <<spec, text, read, comment, heads, pending, written, released, lists>>
-----------------------------------------------------------------------------
(* The code of the rules.  Each gives the heads, the value of the left-    *)
(* hand side, and whether it reports an error or dereferences NULL.        *)
Outcome(h, value, failed, crash) == [heads |-> h, value |-> value, failed |-> failed, crash |-> crash]
Done(h, value) == Outcome(h, value, FALSE, FALSE)
Failed(h, value) == Outcome(h, value, TRUE, FALSE)
Crashed(h) == Outcome(h, Value(0, 0), FALSE, TRUE)
Spelled(at) == text[at].value

Catname(h, b) ==
    IF \/ Spelled(b.at) \in KnownCatalogues
       \/ \E i \in DOMAIN h.cats : h.cats[i].name # 0 /\ Spelled(h.cats[i].name) = Spelled(b.at)
    THEN Failed(h, b)
    ELSE Done([h EXCEPT !.cats = Append(@, [name |-> 0, fmtname |-> 0, fc |-> FALSE, elems |-> <<>>]),
                        !.curcath = Len(h.cats) + 1], b)
Typename(h, b) ==
    IF Spelled(b.at) \in KnownEnums \/ \E i \in DOMAIN h.enums : Spelled(h.enums[i].name) = Spelled(b.at)
    THEN Failed(h, b)
    ELSE Done([h EXCEPT !.enums = Append(@, [name |-> b.at, allsubs |-> 0, elems |-> <<>>, other |-> 0]),
                        !.curenum = Len(h.enums) + 1], b)
\* curenumh is NULL when the first enumeration was refused by Typename.
Headdoer(h) ==
    IF h.curenum = 0 THEN Crashed(h)
    ELSE Done([h EXCEPT !.enums[h.curenum].allsubs = h.allsub], Value(0, 0))

Element(at, value, other) == [name |-> at, value |-> value, other |-> other, subs |-> 0]
\* Mutant of BareElement: the list goes to the enumeration at once.
BareElementAtOnce(h, b) ==
    LET elems == Append(h.elems, Element(b.at, h.evalue, FALSE))
    IN  Done([h EXCEPT !.elems = elems, !.enums[h.curenum].elems = elems, !.evalue = @ + 1], b)
BareElement(h, b) ==
    Done([h EXCEPT !.elems = Append(@, Element(b.at, h.evalue, FALSE)), !.evalue = @ + 1], b)
OtherElement(h, b) ==
    Done([h EXCEPT !.elems = Append(@, Element(b.at, h.evalue, TRUE)), !.evalue = @ + 1,
                   !.enums[h.curenum].other = b.at], b)
\* Mutant of Allocer: the list of the element before is not put away.
AllocerKeeps(h) ==
    Done([h EXCEPT !.elems = Append(@, Element(0, 0, FALSE)), !.subvalue = 0, !.allvalue = 0],
         Value(0, Len(h.elems) + 1))
\* The element is in the list, with no name yet, while its sub-elements are read.
Allocer(h) ==
    Done([h EXCEPT !.elems = Append(@, Element(0, 0, FALSE)), !.subvalue = 0, !.allvalue = 0,
                   !.sub = 0, !.lastsub = 0], Value(0, Len(h.elems) + 1))
BracedElement(h, b, x) ==
    Done([h EXCEPT !.elems[x.at] = [Element(b.at, h.evalue, FALSE) EXCEPT !.subs = h.sub],
                   !.evalue = @ + 1], x)
-----------------------------------------------------------------------------
(* Sub-elements. *)
ALLSUBSTART == 6500
Node(b, value, allsub, next) ==
    [name |-> IF b.num = 0 THEN b.at ELSE 0, value |-> value, allsub |-> allsub, sameas |-> FALSE,
     self |-> b.num = 1 \/ (b.num = 2 /\ allsub), next |-> next]
Chain(nodes, n) ==
    LET from[k \in 0..Len(nodes)] == IF k = 0 THEN <<>> ELSE <<k>> \o from[nodes[k].next]
    IN  from[n]
\* The list with node n behind last, if there is one.
Linked(nodes, last, n) == IF last = 0 THEN nodes ELSE [nodes EXCEPT ![last].next = n]

Allsubelement(h, b) ==
    LET value == Max({h.allvalue, ALLSUBSTART})
        n == Len(h.nodes) + 1
    IN  Done([h EXCEPT !.nodes = Linked(Append(@, Node(b, value, TRUE, 0)), h.lastallsub, n),
                       !.allvalue = value + 1, !.lastallsub = n,
                       !.allsub = IF @ = 0 THEN n ELSE @], Value(0, n))

Subelement(h, b) ==
    LET n == Len(h.nodes) + 1
        allsubs == h.enums[h.curenum].allsubs
    IN  Done([h EXCEPT !.nodes = Linked(Append(@, Node(b, h.subvalue, FALSE, allsubs)), h.lastsub, n),
                       !.subvalue = @ + 1, !.lastsub = n, !.sub = IF @ = 0 THEN n ELSE @], Value(0, n))

(* fdbfs_copy_sub_list numbers its first node with the value at lastval    *)
(* and then moves lastval, which points to lastsubval, to lastallsubval.   *)
\* Mutant of Copies: the sub-elements of ALLSUB are copied with the others.
CopiesAllsubs(h, from) ==
    LET chain == Chain(h.nodes, from)
        n == Len(h.nodes)
    IN  [i \in DOMAIN chain |->
            [h.nodes[chain[i]] EXCEPT !.value = IF i = 1 THEN h.subvalue ELSE h.allvalue + i - 2,
                                      !.sameas = TRUE,
                                      !.next = IF i = Len(chain) THEN 0 ELSE n + i + 1]]
Copies(h, from) ==
    LET chain == Chain(h.nodes, from)
        kept == <<Head(chain)>> \o SelectSeq(Tail(chain), LAMBDA k : ~h.nodes[k].allsub)
        n == Len(h.nodes)
    IN  [i \in DOMAIN kept |->
            [h.nodes[kept[i]] EXCEPT !.value = IF i = 1 THEN h.subvalue ELSE h.allvalue + i - 2,
                                     !.sameas = TRUE,
                                     !.next = IF i = Len(kept) THEN 0 ELSE n + i + 1]]
SameAs(h, b) ==
    LET named == {i \in DOMAIN h.elems : h.elems[i].name # 0 /\ Spelled(h.elems[i].name) = Spelled(b.at)}
        from == h.elems[Min(named)].subs
        allsubs == h.enums[h.curenum].allsubs
        first == Len(h.nodes) + 1
        last == first + Len(Copies(h, from)) - 1
        copied == Linked(h.nodes \o Copies(h, from), h.lastsub, first)
    IN  IF named = {} THEN Failed([h EXCEPT !.err = TRUE, !.subvalue = @ + 1], Value(0, 0))
        ELSE IF from = 0 THEN Crashed(h)    \* there is no last copy to go on from
        ELSE IF h.sub # 0
        THEN Done([h EXCEPT !.nodes = [copied EXCEPT ![last].next = allsubs],
                            !.allvalue = @ + last - first, !.lastsub = last], Value(0, first))
        ELSE Done([h EXCEPT !.nodes = [copied EXCEPT ![last].next = allsubs, ![first].next = allsubs],
                            !.allvalue = @ + last - first, !.sub = first, !.lastsub = first],
                  Value(0, first))
-----------------------------------------------------------------------------
(* Catalogues. *)
Catelem(h, b, c, d) ==
    Done([h EXCEPT !.catelems = Append(@, [name |-> b.at, alias |-> IF c.num = 1 THEN c.at ELSE b.at,
                                           fc |-> c.num = 2, type |-> d.num, of |-> d.at])], b)
OfEnum(h, b) ==
    LET named == {i \in DOMAIN h.enums : Spelled(h.enums[i].name) = Spelled(b.at)}
    IN  IF named = {} THEN Failed(h, Value("oenum", 0)) ELSE Done(h, Value("oenum", Min(named)))
OfSub(h, b) ==
    LET named == {i \in DOMAIN h.catelems : Spelled(h.catelems[i].name) = Spelled(b.at)}
    IN  IF named = {} THEN Failed(h, Value("oenumsub", 0))
        ELSE IF h.catelems[Min(named)].type # "oenum" THEN Failed(h, Value("oenumsub", Min(named)))
        ELSE Done(h, Value("oenumsub", Min(named)))
\* A quoted alias is overwritten: its case falls through to that of <fc>.
Catalogueblock(h, a, b) ==
    Done([h EXCEPT !.cats[h.curcath] = [name |-> a.at, fmtname |-> a.at, fc |-> b.num # 0,
                                        elems |-> h.catelems],
                   !.catelems = <<>>], a)
Enumblock(h, a) ==
    Done([h EXCEPT !.enums[h.curenum].elems = h.elems, !.enums[h.curenum].allsubs = h.allsub,
                   !.elems = <<>>, !.allsub = 0, !.lastallsub = 0, !.sub = 0, !.lastsub = 0,
                   !.evalue = 0, !.allvalue = 0], a)

(* The switch of yy_reduce. *)
Coded(does, h, v) ==
    CASE does = "catalogueblock" -> Catalogueblock(h, v[2], v[3])
      [] does = "catname" -> Catname(h, v[1])
      [] does = "headdoer" -> Headdoer(h)
      [] does = "typename" -> Typename(h, v[1])
      [] does = "clearallsub" -> Done([h EXCEPT !.allsub = 0, !.lastallsub = 0], Value(0, 0))
      [] does = "bare element" -> BareElement(h, v[1])
      [] does = "allocer" -> Allocer(h)
      [] does = "element" -> BracedElement(h, v[1], v[2])
      [] does = "other element" -> OtherElement(h, v[1])
      [] does = "allsubelement" -> Allsubelement(h, v[1])
      [] does = "subelement" -> IF v[1].num = 2 THEN SameAs(h, v[1]) ELSE Subelement(h, v[1])
      [] does \in {"first", "name"} -> Done(h, v[1])
      [] does = "second" -> Done(h, v[2])
      [] does = "self" -> Done(h, Value(1, 0))
      [] does = "sameas" -> Done(h, Value(2, v[2].at))
      [] does = "catelem" -> Catelem(h, v[1], v[2], v[4])
      [] does = "plain" -> Done(h, Value("plain", 0))
      [] does = "enum" -> OfEnum(h, v[2])
      [] does = "sub" -> OfSub(h, v[2])
      [] does = "alias" -> Done(h, Value(1, v[2].at))
      [] does = "no alias" -> Done(h, Value(0, 0))
      [] does = "fc" -> Done(h, Value(2, 0))
      [] does = "enumblock" -> Enumblock(h, v[2])
      [] OTHER -> Done(h, Value(0, 0))
-----------------------------------------------------------------------------
(* Parse, one pass of its loop per step.                                   *)
ParseShift ==
    /\ Parsing(parser)
    /\ Ordered(Tables, parser) < Tables.nstate
    /\ parser' = Shift(parser, Ordered(Tables, parser))
    /\ UNCHANGED <<spec, text, read, comment, heads, pending, phase, written, released, lists>>

RuleOrdered == Ordered(Tables, parser) - Tables.nstate + 1
ParseReduce ==
    /\ Parsing(parser)
    /\ Ordered(Tables, parser) \in Tables.nstate..ErrorAction(Tables) - 1
    /\ LET handle == Handle(Tables, parser, RuleOrdered)
           did == Coded(SpecRules[RuleOrdered].does, heads, [i \in DOMAIN handle |-> handle[i].value])
       IN  /\ heads' = did.heads
           /\ pending' = (pending \/ did.failed)
           /\ parser' = IF did.crash THEN parser ELSE ReduceBy(Tables, parser, RuleOrdered, did.value)
           /\ phase' = IF did.crash THEN "crashed" ELSE phase
    /\ UNCHANGED <<spec, text, read, comment, written, released, lists>>

ParseError ==
    /\ Parsing(parser)
    /\ Ordered(Tables, parser) = ErrorAction(Tables)
    /\ parser' = Recovered(Tables, parser)
    /\ pending' = (pending \/ Reported(parser))
    /\ UNCHANGED <<spec, text, read, comment, heads, phase, written, released, lists>>
-----------------------------------------------------------------------------
(* memory.c: an element releases its own sub-elements, up to the first     *)
(* that belongs to the whole enumeration; copies share their names.        *)
\* Mutant of SubRelease: an element does not stop where ALLSUB begins.
SubReleaseThrough(nodes, n, allsub) ==
    LET release[k \in 0..Len(nodes)] ==
            IF k = 0 THEN <<>>
            ELSE (IF nodes[k].sameas \/ nodes[k].name = 0 THEN <<>> ELSE <<<<"string", nodes[k].name>>>>)
                 \o <<<<"node", k>>>> \o release[nodes[k].next]
    IN  release[n]
SubRelease(nodes, n, allsub) ==
    LET release[k \in 0..Len(nodes)] ==
            IF k = 0 \/ (nodes[k].allsub /\ ~allsub) THEN <<>>
            ELSE (IF nodes[k].sameas \/ nodes[k].name = 0 THEN <<>> ELSE <<<<"string", nodes[k].name>>>>)
                 \o <<<<"node", k>>>> \o release[nodes[k].next]
    IN  release[n]
EnumRelease(h, e) ==
    <<<<"string", e.name>>>>
    \o FlattenSeq([i \in DOMAIN e.elems |->
                     <<<<"string", e.elems[i].name>>>> \o SubRelease(h.nodes, e.elems[i].subs, FALSE)])
    \o SubRelease(h.nodes, e.allsubs, TRUE)
CatRelease(c) ==
    <<<<"string", c.name>>>>
    \o FlattenSeq([i \in DOMAIN c.elems |->
          IF c.elems[i].name = c.elems[i].alias THEN <<<<"string", c.elems[i].name>>>>
          ELSE <<<<"string", c.elems[i].name>>, <<"string", c.elems[i].alias>>>>])
Release(h) ==
    FlattenSeq([i \in DOMAIN h.cats |-> CatRelease(h.cats[i])])
    \o FlattenSeq([i \in DOMAIN h.enums |-> EnumRelease(h, h.enums[i])])

(* After every token of the file. *)
Looked ==
    /\ phase = "token" /\ ~Parsing(parser)
    /\ IF heads.err \/ pending
       THEN phase' = "refused" /\ released' = Release(heads)
       ELSE phase' = "read" /\ UNCHANGED released
    /\ UNCHANGED <<spec, text, read, comment, parser, heads, pending, written, lists>>
-----------------------------------------------------------------------------
(* make_tables_from_spec: new_enum and construct_subelem_field for every   *)
(* enumeration, new_cft for every catalogue, whose name it takes for one.  *)
SubField(h, n) ==
    LET chain == Chain(h.nodes, n)
        shown(node) == IF node.self \/ node.name = 0 THEN "self" ELSE Spelled(node.name)
    IN  [i \in DOMAIN chain |-> <<shown(h.nodes[chain[i]]), h.nodes[chain[i]].value>>]
EnumTable(h, e) ==
    [name |-> Spelled(e.name),
     rows |-> [i \in DOMAIN e.elems |->
        [name |-> Spelled(e.elems[i].name), value |-> e.elems[i].value, other |-> e.elems[i].other,
         subs |-> SubField(h, e.elems[i].subs)]]]
CatTable(h, c) ==
    [name |-> Spelled(c.name),
     rows |-> [i \in DOMAIN c.elems |->
        LET e == c.elems[i] IN
        [name |-> Spelled(e.name), type |-> e.type,
         alias |-> IF e.fc THEN "fc" ELSE Spelled(e.alias),
         of |-> IF e.type = "oenum" THEN Spelled(h.enums[e.of].name)
                ELSE IF e.type = "oenumsub" THEN Spelled(c.elems[e.of].name) ELSE "none"]]]

MakeTables ==
    /\ phase = "end" /\ ~Parsing(parser)
    /\ LET nameless == {i \in DOMAIN heads.cats : heads.cats[i].name = 0}
           made == IF nameless = {} THEN heads.cats ELSE SubSeq(heads.cats, 1, Min(nameless) - 1)
       IN  /\ written' = [enums |-> [i \in DOMAIN heads.enums |-> EnumTable(heads, heads.enums[i])],
                          cats |-> [i \in DOMAIN made |-> CatTable(heads, made[i])]]
           /\ phase' = IF nameless = {} THEN "made" ELSE "crashed"
           /\ released' = IF nameless = {} THEN Release(heads) ELSE released
    /\ UNCHANGED <<spec, text, read, comment, parser, heads, pending, lists>>
-----------------------------------------------------------------------------
(* fdbfs_read_specs_from_db, by the program that starts next: the lists    *)
(* are made of the tables, with positions for pointers and 0 for NULL.     *)
First(positions) == IF positions = {} THEN 0 ELSE Min(positions)
FindByName(list, name) == First({i \in DOMAIN list : list[i].name = name})
FindByValue(list, val) == First({i \in DOMAIN list : list[i].value = val})

\* What a value in a row of a catalogue is shown as, and its sub-elements.
NameByValue(list, val) ==
    IF FindByValue(list, val) = 0 THEN "NULL" ELSE list[FindByValue(list, val)].name
SubheadByEnval(list, val) == list[FindByValue(list, val)].subs

\* A sub-element of the element itself has no name.
SubelementsFromField(field) ==
    [i \in DOMAIN field |-> [name |-> IF field[i][1] = "self" THEN "NULL" ELSE field[i][1],
                             value |-> field[i][2]]]
EnumFromDb(table) ==
    [name |-> table.name,
     elems |-> [i \in DOMAIN table.rows |->
        LET row == table.rows[i]
        IN  [name |-> row.name, value |-> row.value, subs |-> SubelementsFromField(row.subs)]],
     otherelem |-> Max({0} \cup {i \in DOMAIN table.rows : table.rows[i].other})]
CatFromDb(enums, table) ==
    [name |-> table.name,
     elems |-> [i \in DOMAIN table.rows |->
        LET row == table.rows[i]
        IN  [name |-> row.name, alias |-> row.alias, type |-> row.type,
             of |-> CASE row.type = "oenum" -> FindByName(enums, row.of)
                      [] row.type = "oenumsub" -> FindByName(SubSeq(table.rows, 1, i - 1), row.of)
                      [] OTHER -> 0]]]

ReadBack ==
    /\ phase = "made"
    /\ LET enums == [i \in DOMAIN written.enums |-> EnumFromDb(written.enums[i])]
           cats == [i \in DOMAIN written.cats |-> CatFromDb(enums, written.cats[i])]
           dangles(c) == \E i \in DOMAIN c.elems : c.elems[i].type # "plain" /\ c.elems[i].of = 0
       IN  IF \E i \in DOMAIN cats : dangles(cats[i])
           THEN phase' = "unreadable" /\ UNCHANGED lists
           ELSE phase' = "listed" /\ lists' = [enums |-> enums, cats |-> cats]
    /\ UNCHANGED <<spec, text, read, comment, parser, heads, pending, written, released>>

Next ==
    \/ Lex \/ EndOfText \/ Looked
    \/ ParseShift \/ ParseReduce \/ ParseError
    \/ MakeTables \/ ReadBack
Spec == Init /\ [][Next]_vars
=============================================================================
