----------------------------- MODULE QueryExec ------------------------------
(***************************************************************************)
(* Execution of queries (libfakedbfs/query.c): fdbfs_query_new, _qne,      *)
(* _init_exec, _step and _destroy, with the application that calls them    *)
(* and pops rows.  Queries of one fdbfs_t share its curq, which tells the  *)
(* regular expression function of SQLite whose instructions to search.     *)
(*                                                                         *)
(* An instruction list is reduced to what its execution depends on, the    *)
(* text of the SELECT left aside: see Program.  The operand stack is a     *)
(* sequence; QueryStack has its layout in memory.                          *)
(***************************************************************************)
EXTENDS Integers, Sequences, SequencesExt

CONSTANTS
    Query,      \* query objects of one fdbfs_t
    Program,    \* instruction lists: [all, cols, regex, cat, keeps]
    StackSize,  \* cells of an operand stack
    MaxRows,    \* bound: rows of a result
    Faults,     \* whether SQLite calls fail
    Id,         \* the column id
    Std,        \* the columns file, lastupdate, ctime and mime
    Elem,       \* the elements of the catalogue's CFD
    OtherOf,    \* OtherOf[c]: the oth_ column of c, or None
    None        \* no program, no statement, no column

(* all: SELECT *; cols: the columns of the result; regex: the condition    *)
(* has a regular expression; cat: the catalogue exists; keeps: the         *)
(* application may leave rows on the stack (fquery pops each at once).     *)
(* The columns of the catalogue's table. *)
Column == ({Id} \cup Std \cup Elem \cup {OtherOf[e] : e \in Elem}) \ {None}

ASSUME QueryConstants ==
    /\ Program \subseteq [all : BOOLEAN, cols : Seq(Column), regex : BOOLEAN,
                          cat : BOOLEAN, keeps : BOOLEAN]
    /\ StackSize \in Nat \ {0}
    /\ MaxRows \in Nat
    /\ None \notin Query \cup Program \cup Nat
    /\ \A e \in Elem : OtherOf[e] # Id

VARIABLES
    prog,       \* the program of a query object, None where there is none
    phase,      \* exec_state; "new" is init before a catalogue was set
    stmt,       \* the statement cst points to
    stack,      \* the cells of the operand stack, the top last
    fetched,    \* rows the statement has returned
    ret,        \* what the last call returned
    curq,       \* f->curq
    searched,   \* the query whose instructions the last match searched
    kept        \* history: numbers of the rows announced by Q_NEXT and not popped

vars == <<prog, phase, stmt, stack, fetched, ret, curq, searched, kept>>

-----------------------------------------------------------------------------
(***************************************************************************)
(* Assembling the fields of a row.  An enumeration with an other type      *)
(* waits for its oth_ column; while it waits no field is made.             *)
(***************************************************************************)
(* Mutant: every enumeration waits. *)
WaitsAlways(c) == c \in Elem

Waits(c) == c \in Elem /\ OtherOf[c] # None

NoFields == [fields |-> <<>>, waits |-> FALSE, pops |-> 0, bad |-> FALSE]

NewField(c) == [name |-> c, value |-> c, other |-> None]

(* One column of the result.  A column that is not an element (bad) ends   *)
(* the loop; with selected columns a cell is popped for each one read.     *)
TakeColumn(p, s, c) ==
    LET last == Len(s.fields)
        read == [s EXCEPT !.pops = IF p.all THEN @ ELSE @ + 1]
    IN  CASE s.bad \/ (p.all /\ c = Id) -> s
          [] ~s.bad /\ ~(p.all /\ c = Id) /\ s.waits ->
               IF c = OtherOf[s.fields[last].name]
               THEN [read EXCEPT !.fields[last].other = c, !.waits = FALSE]
               ELSE [read EXCEPT !.fields[last].value = c]
          [] OTHER ->
               IF c \in Std \cup Elem
               THEN [read EXCEPT !.fields = Append(@, NewField(c)), !.waits = Waits(c)]
               ELSE [read EXCEPT !.bad = TRUE]

Assembled(p) ==
    LET taken[i \in 0..Len(p.cols)] ==
          IF i = 0 THEN NoFields ELSE TakeColumn(p, taken[i - 1], p.cols[i])
    IN  taken[Len(p.cols)]

-----------------------------------------------------------------------------
(* Cells of the stack: names of selected columns, and rows.  Row 0 is the  *)
(* list assembled when the statement is done: its fields have no values.   *)
NameCell == [row |-> None, fields |-> <<>>]
RowCell(n, fields) == [row |-> n, fields |-> fields]

(* The names are pushed until the stack is full: the result is not read.   *)
PushNames(p, st) ==
    LET room == StackSize - Len(st)
        n    == IF p.all THEN 0 ELSE IF Len(p.cols) < room THEN Len(p.cols) ELSE room
    IN  st \o [i \in 1..n |-> NameCell]

(* Mutant: one cell too many. *)
PopCellsOneMore(st, n) ==
    IF n + 1 >= Len(st) THEN <<>> ELSE SubSeq(st, 1, Len(st) - (n + 1))

PopCells(st, n) == IF n >= Len(st) THEN <<>> ELSE SubSeq(st, 1, Len(st) - n)

Fits(st) == Len(st) < StackSize

(* The statement returned row n, or is done (n = 0): the fields are        *)
(* assembled and pushed.                                                   *)
Deliver(q, n) ==
    LET a    == Assembled(prog[q])
        left == PopCells(PushNames(prog[q], stack[q]), a.pops)
        code == CASE a.bad -> "noSuchElem"
                  [] ~a.bad /\ ~Fits(left) -> "stackFull"
                  [] OTHER -> IF n = 0 THEN "finished" ELSE "next"
    IN  /\ ret' = [ret EXCEPT ![q] = code]
        /\ stack' = [stack EXCEPT ![q] =
                        IF code \in {"finished", "next"}
                        THEN Append(left, RowCell(n, a.fields)) ELSE left]
        /\ kept' = [kept EXCEPT ![q] = IF code = "next" THEN @ \cup {n} ELSE @]

(* Mutant: the statement is not finalized when a step fails. *)
StepFailsOpen(q) ==
    /\ phase' = [phase EXCEPT ![q] = "finished"]
    /\ ret' = [ret EXCEPT ![q] = "error"]
    /\ UNCHANGED <<stmt, stack, fetched, kept>>

(* sqlite3_step fails: the statement is finalized and the query over.      *)
StepFails(q) ==
    /\ phase' = [phase EXCEPT ![q] = "finished"]
    /\ stmt' = [stmt EXCEPT ![q] = IF @ = "open" THEN "final" ELSE @]
    /\ ret' = [ret EXCEPT ![q] = "error"]
    /\ UNCHANGED <<stack, fetched, kept>>

(* Mutant: the query is made current after its statement was stepped. *)
MatchBefore(q) ==
    searched' = [searched EXCEPT ![q] = IF prog[q].regex THEN curq ELSE None]

(* The regular expression function searches the instructions of curq.      *)
Match(q) ==
    searched' = [searched EXCEPT ![q] = IF prog[q].regex THEN curq' ELSE None]

(* The statement is stepped: a row, the end of the result, or an error.    *)
StepOpen(q) ==
    \/ /\ fetched[q] < MaxRows
       /\ fetched' = [fetched EXCEPT ![q] = @ + 1]
       /\ phase' = [phase EXCEPT ![q] = "more"]
       /\ stmt' = [stmt EXCEPT ![q] = "open"]
       /\ Deliver(q, fetched[q] + 1)
    \/ /\ phase' = [phase EXCEPT ![q] = "finished"]
       /\ stmt' = [stmt EXCEPT ![q] = "final"]
       /\ Deliver(q, 0)
       /\ UNCHANGED fetched
    \/ Faults /\ StepFails(q)

(* fdbfs_query_step. *)
Step(q) ==
    /\ prog[q] # None
    /\ \/ /\ phase[q] \in {"new", "finished"}
          /\ ret' = [ret EXCEPT ![q] = IF phase[q] = "new" THEN "uninit" ELSE "finished"]
          /\ UNCHANGED <<phase, stmt, stack, fetched, curq, searched, kept>>
       \/ /\ phase[q] \in {"init", "more"}
          /\ curq' = q
          /\ Match(q)
          /\ IF stmt[q] = "open" THEN StepOpen(q) ELSE StepFails(q)
    /\ UNCHANGED prog
-----------------------------------------------------------------------------
(***************************************************************************)
(* fdbfs_query_init_exec: the instructions are checked, the statement is   *)
(* prepared, its parameters are bound and the first row is fetched.  An    *)
(* error leaves exec_state in init: the next call starts again.            *)
(***************************************************************************)
InitFails(q, code, st) ==
    /\ phase' = [phase EXCEPT ![q] = "init"]
    /\ stmt' = [stmt EXCEPT ![q] = st]
    /\ ret' = [ret EXCEPT ![q] = code]
    /\ UNCHANGED <<stack, fetched, searched, kept>>

Checks(p) == p.cat /\ (p.all \/ p.cols # <<>>)

InitExec(q) ==
    /\ curq' = q
    /\ UNCHANGED prog
    /\ \/ ~prog[q].cat /\ InitFails(q, "noSuchCat", stmt[q])
       \/ prog[q].cat /\ ~Checks(prog[q]) /\ InitFails(q, "noColumns", stmt[q])
       \/ Checks(prog[q]) /\ Faults /\ InitFails(q, "error", "null")
       \/ Checks(prog[q]) /\ Faults /\ InitFails(q, "error", "open")
       \/ Checks(prog[q]) /\ Match(q) /\ StepOpen(q)

(* fdbfs_query_qne. *)
Qne(q) ==
    /\ prog[q] # None
    /\ \/ phase[q] \in {"new", "init"} /\ InitExec(q)
       \/ phase[q] \in {"more", "finished"} /\ Step(q)

(* The application asks for a row.  One that keeps none has popped the     *)
(* last; few call fdbfs_query_step themselves, but it is public.           *)
Fetch(q) ==
    /\ prog[q] # None
    /\ prog[q].keeps \/ kept[q] = {}
    /\ Qne(q) \/ Step(q)

(* The application pops a cell. *)
Pop(q) ==
    /\ prog[q] # None
    /\ stack[q] # <<>>
    /\ stack' = [stack EXCEPT ![q] = Front(@)]
    /\ kept' = [kept EXCEPT ![q] = @ \ {Last(stack[q]).row}]
    /\ UNCHANGED <<prog, phase, stmt, fetched, ret, curq, searched>>

(* fdbfs_query_new and fdbfs_query_parse. *)
New(q) ==
    /\ prog[q] = None
    /\ \E p \in Program : prog' = [prog EXCEPT ![q] = p]
    /\ UNCHANGED <<phase, stmt, stack, fetched, ret, curq, searched, kept>>

(* fdbfs_query_destroy; the statement is not finalized. *)
Destroy(q) ==
    /\ prog[q] # None
    /\ prog' = [prog EXCEPT ![q] = None]
    /\ phase' = [phase EXCEPT ![q] = "new"]
    /\ stmt' = [stmt EXCEPT ![q] = "null"]
    /\ stack' = [stack EXCEPT ![q] = <<>>]
    /\ fetched' = [fetched EXCEPT ![q] = 0]
    /\ ret' = [ret EXCEPT ![q] = None]
    /\ searched' = [searched EXCEPT ![q] = None]
    /\ kept' = [kept EXCEPT ![q] = {}]
    /\ UNCHANGED curq

Init ==
    /\ prog = [q \in Query |-> None]
    /\ phase = [q \in Query |-> "new"]
    /\ stmt = [q \in Query |-> "null"]
    /\ stack = [q \in Query |-> <<>>]
    /\ fetched = [q \in Query |-> 0]
    /\ ret = [q \in Query |-> None]
    /\ curq = None
    /\ searched = [q \in Query |-> None]
    /\ kept = [q \in Query |-> {}]

Next == \E q \in Query : New(q) \/ Fetch(q) \/ Pop(q) \/ Destroy(q)

Spec == Init /\ [][Next]_vars
-----------------------------------------------------------------------------
Cell == [row : {None} \cup 0..MaxRows, fields : Seq([name : Column, value : Column,
                                                     other : Column \cup {None}])]
Codes == {None, "next", "finished", "error", "uninit", "noSuchCat", "noColumns",
          "noSuchElem", "stackFull"}

(* Types; an operand stack never holds more than its cells (spush).        *)
QueryTypeOK ==
    /\ prog \in [Query -> Program \cup {None}]
    /\ phase \in [Query -> {"new", "init", "more", "finished"}]
    /\ stmt \in [Query -> {"null", "open", "final"}]
    /\ stack \in [Query -> Seq(Cell)]
    /\ \A q \in Query : Len(stack[q]) <= StackSize
    /\ fetched \in [Query -> 0..MaxRows]
    /\ ret \in [Query -> Codes]
    /\ curq \in Query \cup {None}
    /\ searched \in [Query -> Query \cup {None}]
    /\ kept \in [Query -> SUBSET (1..MaxRows)]

(* fdbfs_query_step: whatever the order of calls, errors and restarts, the *)
(* statement of a query that has more rows is alive, and one that is over  *)
(* was finalized or never prepared: no use after sqlite3_finalize.         *)
StatementLifecycle ==
    \A q \in Query :
        /\ phase[q] = "more" => stmt[q] = "open"
        /\ phase[q] = "finished" => stmt[q] # "open"
        /\ phase[q] = "new" => stmt[q] = "null"

(* Programs whose own cells never get in the way of rows: SELECT *, or an  *)
(* application that pops each row before the next call.                    *)
StackClean(p) == p.all \/ ~p.keeps

RowsOn(st) == {st[i].row : i \in DOMAIN st} \ {None, 0}

(* Of two rows the one above was fetched later.                            *)
Ascending(st) ==
    \A i, j \in DOMAIN st :
        i < j /\ st[i].row \in RowsOn(st) /\ st[j].row \in RowsOn(st) => st[i].row < st[j].row

(* Every row announced by Q_NEXT stays on the stack, in order, until the   *)
(* application pops it, and a row just announced is on top.                *)
RowsKept ==
    \A q \in Query :
        (prog[q] # None /\ StackClean(prog[q])) =>
            /\ RowsOn(stack[q]) = kept[q]
            /\ Ascending(stack[q])
            /\ ret[q] = "next" /\ kept[q] # {} => Last(stack[q]).row = Max(kept[q])

(* fdbfs_db_regex_func: queries of one fdbfs_t may be stepped in turn, and *)
(* a match searches the instructions of the query that is being stepped.   *)
SearchesOwnRegex == \A q \in Query : searched[q] \in {None, q}

-----------------------------------------------------------------------------
(* A column's value reaches the application: in the field of its name, or  *)
(* as the other value of its enumeration.                                  *)
Delivered(c, fields) ==
    \E i \in DOMAIN fields :
        \/ fields[i].name = c /\ fields[i].value = c
        \/ fields[i].other = c /\ fields[i].name \in Elem /\ OtherOf[fields[i].name] = c

Complete(p, fields) ==
    \A i \in DOMAIN p.cols :
        (p.all /\ p.cols[i] = Id) \/ Delivered(p.cols[i], fields)

(* The oth_ column of an enumeration is selected right after it.           *)
Paired(p) ==
    \A i \in 1..Len(p.cols) :
        (p.cols[i] \in Elem /\ OtherOf[p.cols[i]] # None /\ i < Len(p.cols)) =>
            p.cols[i + 1] = OtherOf[p.cols[i]]

RowsAreComplete(p, q) ==
    \A i \in DOMAIN stack[q] :
        stack[q][i].row # None => Complete(p, stack[q][i].fields)

(* Rows carry the value of every column of the result, if the columns are  *)
(* in the order of the table (SELECT * always is, see Schema).             *)
PairedRowsComplete ==
    \A q \in Query :
        (prog[q] # None /\ Paired(prog[q])) => RowsAreComplete(prog[q], q)
=============================================================================
