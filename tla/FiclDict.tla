------------------------------ MODULE FiclDict ------------------------------
(***************************************************************************)
(* The dictionary of the FORTH machine (src/ficl/dictionary.c, hash.c and  *)
(* the local names of system.c) as operators on the machine m.             *)
(*                                                                         *)
(* All of it is in m.mem: a word is a cell with its name, a cell with its  *)
(* header (its address is the execution token) and its parameters; a word  *)
(* list is one cell with the newest word and the parent list.  m.here is   *)
(* the first free cell, m.smudge the newest word whether finished or not,  *)
(* m.current the list that receives finished words, m.order the lists that *)
(* are searched, the last one first.  The words the system is created with *)
(* are not in m.mem: they are the end of the forth word list.              *)
(***************************************************************************)
EXTENDS FiclFloat

CONSTANTS
  MaxWordlists, \* FICL_MAX_WORDLISTS
  MaxLocals,    \* FICL_MAX_LOCALS
  CoreNames     \* the names of the words the system is created with

Forth == 1       \* the address of the forth word list
Null  == 0
NoWord == Junk

HeaderCell(h) == <<"hdr", h>>
ListCell(first, parent) == <<"list", [first |-> first, parent |-> parent]>>

At(m, a) == Read(m, Adr(a))
IsHeader(m, a) == At(m, a)[1] = "hdr"
Header(m, a) == At(m, a)[2]
IsList(m, a) == At(m, a)[1] = "list"
List(m, a) == At(m, a)[2]
SetHeader(m, a, h) == IF IsHeader(m, a) THEN Write(m, Adr(a), HeaderCell(h)) ELSE m
Body(a) == a + 1

\* ficlDictionaryResetSearchOrder, ficlDictionaryEmpty.
ResetSearchOrder(m) == [m EXCEPT !.current = Forth, !.order = <<Forth>>]
EmptyDictionary(size) ==
  [mem |-> [a \in 1..size |-> IF a = Forth THEN ListCell(Null, Null) ELSE Junk],
   here |-> Forth + 1, smudge |-> Null, current |-> Forth, order |-> <<Forth>>,
   locals |-> <<>>, localsCount |-> 0, localsFixup |-> Null]

CellsUsed(m) == m.here - 1
CellsAvailable(m) == Len(m.mem) - CellsUsed(m)
Allot(m, n) == [m EXCEPT !.here = @ + n]
AppendCells(m, xs) == \* one ficlDictionaryAppendCell after the other
  LET append[i \in 0..Len(xs)] ==
        IF i = 0 THEN m ELSE Append1(append[i - 1], xs[i])
  IN  append[Len(xs)]

\* ficlVmDictionaryCheck: the complaint, if any.
DictionaryCheck(m, n) ==
  CASE n >= 0 /\ CellsAvailable(m) < n -> "dictionary full"
    [] n <= 0 /\ CellsUsed(m) < -n -> "dictionary underflow"
    [] Len(m.order) > MaxWordlists -> "search order overflow"
    [] OTHER -> "fits"

-----------------------------------------------------------------------------
(***************************************************************************)
(* The chains of words (hash.c).  A word list has a single chain.          *)
(***************************************************************************)
\* a, Next(a), Next(Next(a)) and so on up to Null, but no more than n.
Walk(a, Next(_), n) ==
  LET walk[b \in Int, k \in Nat] ==
        IF b = Null \/ k = 0 THEN <<>> ELSE <<b>> \o walk[Next(b), k - 1]
  IN  walk[a, n]

WordsFrom(m, a) == \* the words of the chain that starts at a, the newest first
  Walk(a, LAMBDA w : IF IsHeader(m, w) THEN Header(m, w).link ELSE Null,
       Len(m.mem))
Chain(m, a) == LET s == WordsFrom(m, a) IN {s[i] : i \in DOMAIN s}
\* A chain ends unless a word is linked to itself or to a newer word.
Ends(m, a) == Len(WordsFrom(m, a)) < Len(m.mem)

InsertWord(m, l, a) ==
  LET linked == SetHeader(m, a, [Header(m, a) EXCEPT !.link = List(m, l).first])
  IN  Write(linked, Adr(l), ListCell(a, List(m, l).parent))

\* ficlHashLookup in list l: the newest word of the name, in l or in its
\* parents; a core word when the search reaches the end of forth.
Parent(m, l) == IF IsList(m, l) THEN List(m, l).parent ELSE Null
RECURSIVE HashLookup(_, _, _)
HashLookup(m, l, name) ==
  LET named == IF ~IsList(m, l) THEN <<>>
               ELSE SelectSeq(WordsFrom(m, List(m, l).first),
                              LAMBDA w : IsHeader(m, w) /\ Header(m, w).name = name)
  IN  CASE l = Null -> NoWord
        [] named # <<>> -> Adr(Head(named))
        [] l = Forth /\ name \in CoreNames -> Core(name)
        [] OTHER -> HashLookup(m, Parent(m, l), name)

\* ficlHashForget: the list l without its words at where and behind it.
HashForget(m, l, where) ==
  LET older == SelectSeq(WordsFrom(m, List(m, l).first), LAMBDA w : w < where)
      first == IF older = <<>> THEN Null ELSE Head(older)
  IN  Write(m, Adr(l), ListCell(first, List(m, l).parent))

\* ficlDictionaryLookup: the lists of the search order, the last one first.
Lookup(m, name) ==
  LET found == SelectSeq([i \in DOMAIN m.order |-> HashLookup(m, m.order[i], name)],
                         LAMBDA xt : xt # NoWord)
  IN  IF found = <<>> THEN NoWord ELSE found[Len(found)]

\* ficlSystemLookupLocal and the part of it that looks at the local names
\* only; a local is <<"local", its index in m.locals>>.
LocalNamed(m, name) == {i \in DOMAIN m.locals : m.locals[i].name = name}
LookupLocal(m, name) ==
  IF LocalNamed(m, name) = {} THEN Lookup(m, name)
  ELSE <<"local", CHOOSE i \in LocalNamed(m, name) :
                    \A j \in LocalNamed(m, name) : j <= i>>
EmptyLocals(m) == [m EXCEPT !.locals = <<>>]

-----------------------------------------------------------------------------
(***************************************************************************)
(* Making words.  An unnamed word (:noname) has no name cell and never     *)
(* enters a list.                                                          *)
(***************************************************************************)
NoName == "(no name)"

Unsmudge(m) ==
  LET w == m.smudge
      h == Header(m, w)
      linked == IF h.name = NoName THEN m ELSE InsertWord(m, m.current, w)
  IN  IF ~IsHeader(m, w) THEN m
      ELSE SetHeader(linked, w, [Header(linked, w) EXCEPT !.smudged = FALSE])

AppendWord(m, name, code, smudged) ==
  LET a == IF name = NoName THEN m.here ELSE m.here + 1
      named == IF name = NoName THEN m ELSE Append1(m, <<"name", name>>)
      word == HeaderCell([name |-> name, at |-> m.here, code |-> code,
                          immediate |-> FALSE, compileOnly |-> FALSE,
                          smudged |-> TRUE, link |-> Null])
      made == [Append1(named, word) EXCEPT !.smudge = a]
  IN  IF smudged THEN made ELSE Unsmudge(made)

\* Mutant: whether the newest word is finished is not looked at.
AbortAlways(m) ==
  IF IsHeader(m, m.smudge) THEN [m EXCEPT !.here = Header(m, m.smudge).at] ELSE m

\* ficlDictionaryAbortDefinition: here goes back to the name of the newest
\* word if that word is not finished.  The word stays the newest one.
AbortDefinition(m) ==
  IF IsHeader(m, m.smudge) /\ Header(m, m.smudge).smudged
  THEN [m EXCEPT !.here = Header(m, m.smudge).at] ELSE m

SetImmediate(m) ==
  SetHeader(m, m.smudge, [Header(m, m.smudge) EXCEPT !.immediate = TRUE])
SetCompileOnly(m) ==
  SetHeader(m, m.smudge, [Header(m, m.smudge) EXCEPT !.compileOnly = TRUE])
SetCode(m, a, code) == SetHeader(m, a, [Header(m, a) EXCEPT !.code = code])

\* ficlDictionaryCreateWordlist.
CreateWordlist(m) == Append1(m, ListCell(Null, Null))
=============================================================================
