------------------------------- MODULE Schema -------------------------------
(***************************************************************************)
(* The catalogue database of fakedbfs and the programs that change it.     *)
(*                                                                         *)
(* fcreatedb loads specification files (enumerations and catalogue field   *)
(* definitions, CFDs), fedit makes and removes catalogues.  They share one *)
(* SQLite file and use no transactions: every statement commits by itself. *)
(* An action below is therefore one SQL statement, together with the C     *)
(* code up to the next one.  Programs interleave at that grain; a program  *)
(* may die, and a statement may fail (SQLITE_BUSY, SQLITE_SCHEMA, an I/O   *)
(* error), before any of them.                                             *)
(*                                                                         *)
(* Data abstraction.  A definition table (endef_<enum>, cft_<cfd>) is the  *)
(* specification file it is filled from and the number of rows inserted so *)
(* far; an element is reduced to "has an other type", a field to the       *)
(* enumeration it uses (None for a plain field).                           *)
(*                                                                         *)
(* SQLite keeps the schema in memory per connection.  fakedbfs reads with  *)
(* sqlite3_prepare, not _v2: a statement prepared from a cached schema     *)
(* fails with SQLITE_SCHEMA when another process created or dropped a table*)
(* since.  sqlite3_exec reloads the schema and retries.                    *)
(***************************************************************************)
EXTENDS Integers, Sequences, FiniteSets

CONSTANTS
    Proc,       \* processes: one instance of fdbfs_t each
    SpecFile,   \* specification files
    Enum,       \* enumeration names
    Cfd,        \* catalogue field definition (catalogue type) names
    Cat,        \* catalogue names
    None,       \* "no row", "no table", NULL
    SpecEnums,  \* SpecEnums[s]: the enumerations s declares, in order
    SpecCfds,   \* SpecCfds[s]: the CFDs s declares, in order
    Elems,      \* Elems[s][e][i]: element i of e in s has an "other" type
    Fields,     \* Fields[s][c][i]: enumeration field i of c uses, or None
    MaxRef,     \* bound: mkcat is not tried on a CFD with more references
    Faults      \* whether programs die and statements fail

ASSUME SchemaConstants ==
    /\ None \notin SpecFile \cup Enum \cup Cfd
    /\ None \notin [spec : SpecFile, rows : Nat]
    /\ None \notin [cfd : Cfd, spec : SpecFile, fields : Nat, other : SUBSET Nat,
                    cut : BOOLEAN]
    /\ MaxRef \in Nat
    /\ Faults \in BOOLEAN

(***************************************************************************)
(* What the grammar of dbspec.y accepts: names are declared once in a      *)
(* file, blocks are not empty, and a field uses an enumeration of its file.*)
(***************************************************************************)
ASSUME SpecFilesParse ==
    \A s \in SpecFile :
        /\ SpecEnums[s] \in Seq(Enum)
        /\ SpecCfds[s] \in Seq(Cfd)
        /\ \A i, j \in 1..Len(SpecEnums[s]) :
              SpecEnums[s][i] = SpecEnums[s][j] => i = j
        /\ \A i, j \in 1..Len(SpecCfds[s]) :
              SpecCfds[s][i] = SpecCfds[s][j] => i = j
        /\ \A e \in Enum : Elems[s][e] \in Seq(BOOLEAN) /\ Len(Elems[s][e]) > 0
        /\ \A c \in Cfd :
              /\ Fields[s][c] \in Seq(Enum \cup {None})
              /\ Len(Fields[s][c]) > 0
              /\ \A i \in 1..Len(Fields[s][c]) :
                    \/ Fields[s][c][i] = None
                    \/ \E j \in 1..Len(SpecEnums[s]) :
                           SpecEnums[s][j] = Fields[s][c][i]

-----------------------------------------------------------------------------
VARIABLES
    (* the database file *)
    sys,        \* system tables that exist
    enumRows,   \* number of enum_list rows bearing a name
    endef,      \* the endef_<name> tables
    cfdRows,    \* the CFDs listed in cfd_list
    refcount,   \* their refcount column
    cft,        \* the cft_<name> tables
    catRow,     \* cat_list: the CFD of a catalogue's row, or None
    ctab,       \* the c_<name> tables: the columns they were made with
    (* the SQLite connections *)
    fresh,      \* the cached schema is that of the file
    known,      \* system tables in the cached schema; {} before it is loaded
    (* the processes *)
    pc,         \* the next statement of a process
    cur,        \* the specification file it loads, None for fedit
    pos,        \* position in the list of enumerations or CFDs
    row,        \* the next row of the definition being written
    err,        \* f->error.emsg is not NULL while the lists are read
    hEnum,      \* f->heads.db_enumh
    hCfd,       \* f->heads.db_cath
    argCat,     \* the catalogue mkcat or rmcat works on
    argCfd,     \* its type (mkcat), or tcfd (rmcat)
    (* history: not in the program *)
    faulted,    \* a program died or a statement failed
    cut         \* the session took part of an enumeration for all of it

db    == <<sys, enumRows, endef, cfdRows, refcount, cft, catRow, ctab>>
conn  == <<fresh, known>>
heads == <<err, hEnum, hCfd, cut>>
args  == <<argCat, argCfd>>
vars  == <<sys, enumRows, endef, cfdRows, refcount, cft, catRow, ctab,
           fresh, known, pc, cur, pos, row, err, hEnum, hCfd, argCat, argCfd,
           faulted, cut>>

SysTables == {"enum_list", "cat_list", "cfd_list"}

DefTable == [spec : SpecFile, rows : Nat]
CatTable == [cfd : Cfd, spec : SpecFile, fields : Nat, other : SUBSET Nat,
             cut : BOOLEAN]     \* cut: history, it was made by a session with a cut

LoaderPc == {"start", "mkEnumList", "mkCatList", "mkCfdList", "parse",
             "mkEndef", "addEnum", "addElem",
             "mkCft", "addCfd", "dropCft", "addField"}
EditorPc == {"readCats", "ready", "mk", "addCat", "incRef", "mkCatTab",
             "rm", "getCfd", "delCat", "dropCat", "decRef"}
PcValues == {"idle", "readEnums", "readCfds"} \cup LoaderPc \cup EditorPc

(* No statement is due: no program, or fedit between two names of its      *)
(* command line ("mk": of mkcat, "rm": of rmcat, "ready": before the first).*)
Resting == {"idle", "ready", "mk", "rm"}

NoHeads(N) == [n \in N |-> None]

(* The enumeration and the CFD that process p is writing. *)
CurEnum(p) == SpecEnums[cur[p]][pos[p]]
CurCfd(p)  == SpecCfds[cur[p]][pos[p]]

Init ==
    /\ sys = {}
    /\ enumRows = [e \in Enum |-> 0]
    /\ endef = [e \in Enum |-> None]
    /\ cfdRows = {}
    /\ refcount = [c \in Cfd |-> 0]
    /\ cft = [c \in Cfd |-> None]
    /\ catRow = [k \in Cat |-> None]
    /\ ctab = [k \in Cat |-> None]
    /\ fresh = [p \in Proc |-> FALSE]
    /\ known = [p \in Proc |-> {}]
    /\ pc = [p \in Proc |-> "idle"]
    /\ cur = [p \in Proc |-> None]
    /\ pos = [p \in Proc |-> 1]
    /\ row = [p \in Proc |-> 1]
    /\ err = [p \in Proc |-> FALSE]
    /\ hEnum = [p \in Proc |-> NoHeads(Enum)]
    /\ hCfd = [p \in Proc |-> NoHeads(Cfd)]
    /\ argCat = [p \in Proc |-> None]
    /\ argCfd = [p \in Proc |-> None]
    /\ faulted = FALSE
    /\ cut = [p \in Proc |-> FALSE]

-----------------------------------------------------------------------------
(* Control: where a process goes next, and how it ends. *)

Goto(p, l) == pc' = [pc EXCEPT ![p] = l]

(* The schema a statement of p has verified is the file's; CREATE and DROP *)
(* make that of every other process out of date.                           *)
Refresh(p) ==
    /\ fresh' = [fresh EXCEPT ![p] = TRUE]
    /\ known' = [known EXCEPT ![p] = sys]

ChangeSchema(p, tables) ==
    /\ fresh' = [q \in Proc |-> q = p]
    /\ known' = [known EXCEPT ![p] = tables]

(* Mutant: sqlite3_prepare_v2, which prepares an out of date statement anew. *)
NeverExpired(p, table) == FALSE

(* SQLITE_SCHEMA: prepare finds the table in the cache, step finds the     *)
(* cache out of date.  A table that is not in the cache makes prepare      *)
(* reload it.                                                              *)
Expired(p, table) == ~fresh[p] /\ table \in known[p]

(* The program exits: after an error, at the end of its work, or killed.   *)
(* What it had committed stays, everything it held in memory is gone.      *)
Leave(p) ==
    /\ pc' = [pc EXCEPT ![p] = "idle"]
    /\ cur' = [cur EXCEPT ![p] = None]
    /\ pos' = [pos EXCEPT ![p] = 1]
    /\ row' = [row EXCEPT ![p] = 1]
    /\ err' = [err EXCEPT ![p] = FALSE]
    /\ hEnum' = [hEnum EXCEPT ![p] = NoHeads(Enum)]
    /\ hCfd' = [hCfd EXCEPT ![p] = NoHeads(Cfd)]
    /\ argCat' = [argCat EXCEPT ![p] = None]
    /\ argCfd' = [argCfd EXCEPT ![p] = None]
    /\ cut' = [cut EXCEPT ![p] = FALSE]

Exit(p) ==
    /\ Leave(p)
    /\ fresh' = [fresh EXCEPT ![p] = FALSE]
    /\ known' = [known EXCEPT ![p] = {}]

(* mkcat is done with a name, well or badly, and goes on to the next; its  *)
(* type stays.                                                             *)
NextMk(p) ==
    /\ Goto(p, "mk")
    /\ argCat' = [argCat EXCEPT ![p] = None]
    /\ UNCHANGED <<cur, pos, row, heads, argCfd>>

(* rmcat has removed a catalogue.  When it cannot, fedit exits. *)
NextRm(p) ==
    /\ Goto(p, "rm")
    /\ argCat' = [argCat EXCEPT ![p] = None]
    /\ argCfd' = [argCfd EXCEPT ![p] = None]
    /\ UNCHANGED <<cur, pos, row, heads>>

(* The loops of make_tables_from_spec: all enumerations, then all CFDs. *)
CfdLoop(p, i) ==
    \/ /\ i <= Len(SpecCfds[cur[p]])
       /\ Goto(p, "mkCft")
       /\ pos' = [pos EXCEPT ![p] = i]
       /\ row' = [row EXCEPT ![p] = 1]
       /\ UNCHANGED <<conn, cur, heads, args>>
    \/ i > Len(SpecCfds[cur[p]]) /\ Exit(p)

EnumLoop(p, i) ==
    \/ /\ i <= Len(SpecEnums[cur[p]])
       /\ Goto(p, "mkEndef")
       /\ pos' = [pos EXCEPT ![p] = i]
       /\ row' = [row EXCEPT ![p] = 1]
       /\ UNCHANGED <<conn, cur, heads, args>>
    \/ i > Len(SpecEnums[cur[p]]) /\ CfdLoop(p, 1)

-----------------------------------------------------------------------------
(* fcreatedb and fedit start.                                              *)

(* fcreatedb specfile; with -a it does not call fdbfs_db_start. *)
OpenLoader(p, s) ==
    /\ pc[p] = "idle"
    /\ \E l \in {"start", "readEnums"} : Goto(p, l)
    /\ cur' = [cur EXCEPT ![p] = s]
    /\ UNCHANGED <<db, conn, pos, row, heads, args>>

(* fedit: fdbfs_new with plugins, which leaves an error behind when a      *)
(* plugin directory is missing and does not look at it; fdbfs_conf_init    *)
(* has loaded the schema.                                                  *)
OpenEditor(p) ==
    /\ pc[p] = "idle"
    /\ Goto(p, "readEnums")
    /\ \E stale \in BOOLEAN : err' = [err EXCEPT ![p] = stale]
    /\ Refresh(p)
    /\ UNCHANGED <<db, cur, pos, row, hEnum, hCfd, cut, args>>

(* fdbfs_db_start: only cat_list is looked for. *)
DbStart(p) ==
    /\ pc[p] = "start"
    /\ Goto(p, IF "cat_list" \in sys THEN "readEnums" ELSE "mkEnumList")
    /\ Refresh(p)
    /\ UNCHANGED <<db, cur, pos, row, heads, args>>

(* One CREATE TABLE of init_db_tables; it fails when the table exists. *)
CreateSys(p, here, table, next) ==
    /\ pc[p] = here
    /\ \/ /\ table \notin sys
          /\ sys' = sys \cup {table}
          /\ ChangeSchema(p, sys \cup {table})
          /\ Goto(p, next)
          /\ UNCHANGED <<cur, pos, row, heads, args>>
       \/ table \in sys /\ Exit(p) /\ UNCHANGED sys
    /\ UNCHANGED <<enumRows, endef, cfdRows, refcount, cft, catRow, ctab>>

InitDbTables(p) ==
    \/ CreateSys(p, "mkEnumList", "enum_list", "mkCatList")
    \/ CreateSys(p, "mkCatList", "cat_list", "mkCfdList")
    \/ CreateSys(p, "mkCfdList", "cfd_list", "readEnums")

-----------------------------------------------------------------------------
(* Reading the definitions: fdbfs_enums_from_db, fdbfs_cats_from_db and    *)
(* fdbfs_catalogues_from_db.  Each keeps its outer SELECT open over the    *)
(* inner ones, hence one snapshot each, and others may commit in between.  *)

(* An empty list is taken for an error when an error was already pending. *)
EnumsReadable(p) ==
    /\ "enum_list" \in sys
    /\ ~Expired(p, "enum_list")
    /\ \A e \in Enum : enumRows[e] > 0 => endef[e] # None
    /\ err[p] => /\ \E e \in Enum : enumRows[e] > 0
                 /\ \A e \in Enum : enumRows[e] > 0 => endef[e].rows > 0

ReadEnums(p) ==
    /\ pc[p] = "readEnums"
    /\ \/ /\ EnumsReadable(p)
          /\ hEnum' = [hEnum EXCEPT ![p] =
                [e \in Enum |-> IF enumRows[e] > 0 THEN endef[e] ELSE None]]
          /\ Goto(p, "readCfds")
          /\ Refresh(p)
          /\ UNCHANGED <<cur, pos, row, err, hCfd, cut, args>>
       \/ ~EnumsReadable(p) /\ Exit(p)
    /\ UNCHANGED db

(* Mutant: a CFD without fields is accepted. *)
CfdReadableEmpty(p, c) ==
    /\ cft[c] # None
    /\ \A i \in 1..cft[c].rows :
          LET e == Fields[cft[c].spec][c][i]
          IN  e # None => hEnum[p][e] # None

(* fdbfs_catelems_from_dbtab: every enumeration a field names is found in  *)
(* the list read before, and a CFD without fields is an error.             *)
CfdReadable(p, c) ==
    /\ cft[c] # None
    /\ cft[c].rows > 0
    /\ \A i \in 1..cft[c].rows :
          LET e == Fields[cft[c].spec][c][i]
          IN  e # None => hEnum[p][e] # None

(* Mutant: a missing cfd_list is taken for an empty one. *)
CfdsReadableMissing(p) ==
    /\ ~Expired(p, "cfd_list")
    /\ \A c \in cfdRows : CfdReadable(p, c)
    /\ err[p] => cfdRows # {}

CfdsReadable(p) ==
    /\ "cfd_list" \in sys
    /\ ~Expired(p, "cfd_list")
    /\ \A c \in cfdRows : CfdReadable(p, c)
    /\ err[p] => cfdRows # {}

ReadCfds(p) ==
    /\ pc[p] = "readCfds"
    /\ \/ /\ CfdsReadable(p)
          /\ hCfd' = [hCfd EXCEPT ![p] =
                [c \in Cfd |-> IF c \in cfdRows THEN cft[c] ELSE None]]
          /\ Goto(p, IF cur[p] = None THEN "readCats" ELSE "parse")
          /\ Refresh(p)
          /\ UNCHANGED <<cur, pos, row, err, hEnum, cut, args>>
       \/ ~CfdsReadable(p) /\ Exit(p)
    /\ UNCHANGED db

(* The list of catalogues itself is used by fquery and findex only.  A     *)
(* step that fails (here: SQLITE_SCHEMA) ends the loop like the last row,  *)
(* without an error.                                                       *)
CatsReadable(p) ==
    /\ "cat_list" \in sys
    /\ \A k \in Cat : catRow[k] # None => hCfd[p][catRow[k]] # None
    /\ err[p] => \E k \in Cat : catRow[k] # None

(* fedit runs its command; none looks at an error pending from here on. *)
Ready(p) ==
    /\ Goto(p, "ready")
    /\ err' = [err EXCEPT ![p] = FALSE]
    /\ Refresh(p)
    /\ UNCHANGED <<cur, pos, row, hEnum, hCfd, cut, args>>

ReadCats(p) ==
    /\ pc[p] = "readCats"
    /\ \/ ~Expired(p, "cat_list") /\ CatsReadable(p) /\ Ready(p)
       \/ ~Expired(p, "cat_list") /\ ~CatsReadable(p) /\ Exit(p)
       \/ Expired(p, "cat_list") /\ ~err[p] /\ Ready(p)
       \/ Expired(p, "cat_list") /\ err[p] /\ Exit(p)
    /\ UNCHANGED db

-----------------------------------------------------------------------------
(* Loading a specification file: fdbfs_dbspec_parse, new_enum, new_cft.    *)

(* Mutant: the parser does not look the names up. *)
NoLookup(p) == TRUE

(* The parser refuses a name that the lists read before already hold. *)
NoCollision(p) ==
    /\ \A i \in 1..Len(SpecEnums[cur[p]]) : hEnum[p][SpecEnums[cur[p]][i]] = None
    /\ \A i \in 1..Len(SpecCfds[cur[p]]) : hCfd[p][SpecCfds[cur[p]][i]] = None

Parse(p) ==
    /\ pc[p] = "parse"
    /\ \/ NoCollision(p) /\ EnumLoop(p, 1)
       \/ ~NoCollision(p) /\ Exit(p)
    /\ UNCHANGED db

(* CREATE TABLE endef_<name>. *)
CreateEndef(p) ==
    /\ pc[p] = "mkEndef"
    /\ \/ /\ endef[CurEnum(p)] = None
          /\ endef' = [endef EXCEPT ![CurEnum(p)] = [spec |-> cur[p], rows |-> 0]]
          /\ ChangeSchema(p, sys)
          /\ Goto(p, "addEnum")
          /\ UNCHANGED <<cur, pos, row, heads, args>>
       \/ endef[CurEnum(p)] # None /\ Exit(p) /\ UNCHANGED endef
    /\ UNCHANGED <<sys, enumRows, cfdRows, refcount, cft, catRow, ctab>>

(* INSERT INTO enum_list: the name column is not UNIQUE. *)
AddEnumRow(p) ==
    /\ pc[p] = "addEnum"
    /\ enumRows' = [enumRows EXCEPT ![CurEnum(p)] = @ + 1]
    /\ Refresh(p)
    /\ Goto(p, "addElem")
    /\ UNCHANGED <<sys, endef, cfdRows, refcount, cft, catRow, ctab,
                   cur, pos, row, heads, args>>

(* Mutant: the result of the INSERT is not looked at. *)
AddElemUnchecked(p) ==
    /\ pc[p] = "addElem"
    /\ endef' = IF fresh[p] THEN [endef EXCEPT ![CurEnum(p)].rows = @ + 1] ELSE endef
    /\ \/ /\ row[p] < Len(Elems[cur[p]][CurEnum(p)])
          /\ row' = [row EXCEPT ![p] = @ + 1]
          /\ UNCHANGED <<conn, pc, cur, pos, heads, args>>
       \/ /\ row[p] >= Len(Elems[cur[p]][CurEnum(p)])
          /\ EnumLoop(p, pos[p] + 1)
    /\ UNCHANGED <<sys, enumRows, cfdRows, refcount, cft, catRow, ctab>>

(* INSERT INTO endef_<name>, one row per element, each a prepared          *)
(* statement: it fails when the cached schema is out of date.              *)
AddElem(p) ==
    /\ pc[p] = "addElem"
    /\ \/ /\ fresh[p]
          /\ endef' = [endef EXCEPT ![CurEnum(p)].rows = @ + 1]
          /\ \/ /\ row[p] < Len(Elems[cur[p]][CurEnum(p)])
                /\ row' = [row EXCEPT ![p] = @ + 1]
                /\ UNCHANGED <<conn, pc, cur, pos, heads, args>>
             \/ /\ row[p] >= Len(Elems[cur[p]][CurEnum(p)])
                /\ EnumLoop(p, pos[p] + 1)
       \/ ~fresh[p] /\ Exit(p) /\ UNCHANGED endef
    /\ UNCHANGED <<sys, enumRows, cfdRows, refcount, cft, catRow, ctab>>

(* Mutant: CREATE TABLE IF NOT EXISTS. *)
CreateCftIfNotExists(p) ==
    /\ pc[p] = "mkCft"
    /\ \/ /\ cft[CurCfd(p)] = None
          /\ cft' = [cft EXCEPT ![CurCfd(p)] = [spec |-> cur[p], rows |-> 0]]
          /\ ChangeSchema(p, sys)
       \/ cft[CurCfd(p)] # None /\ Refresh(p) /\ UNCHANGED cft
    /\ Goto(p, "addCfd")
    /\ UNCHANGED <<cur, pos, row, heads, args>>
    /\ UNCHANGED <<sys, enumRows, endef, cfdRows, refcount, catRow, ctab>>

(* CREATE TABLE cft_<name>. *)
CreateCft(p) ==
    /\ pc[p] = "mkCft"
    /\ \/ /\ cft[CurCfd(p)] = None
          /\ cft' = [cft EXCEPT ![CurCfd(p)] = [spec |-> cur[p], rows |-> 0]]
          /\ ChangeSchema(p, sys)
          /\ Goto(p, "addCfd")
          /\ UNCHANGED <<cur, pos, row, heads, args>>
       \/ cft[CurCfd(p)] # None /\ Exit(p) /\ UNCHANGED cft
    /\ UNCHANGED <<sys, enumRows, endef, cfdRows, refcount, catRow, ctab>>

(* Mutant: the test of the result is inverted, the field table is dropped. *)
AddCfdRowInverted(p) ==
    /\ pc[p] = "addCfd"
    /\ cfdRows' = cfdRows \cup {CurCfd(p)}
    /\ refcount' = [refcount EXCEPT ![CurCfd(p)] = 0]
    /\ Goto(p, "dropCft")
    /\ UNCHANGED <<sys, enumRows, endef, cft, catRow, ctab,
                   conn, cur, pos, row, heads, args>>

(* INSERT OR REPLACE INTO cfd_list, with refcount 0. *)
AddCfdRow(p) ==
    /\ pc[p] = "addCfd"
    /\ cfdRows' = cfdRows \cup {CurCfd(p)}
    /\ refcount' = [refcount EXCEPT ![CurCfd(p)] = 0]
    /\ Goto(p, "addField")
    /\ UNCHANGED <<sys, enumRows, endef, cft, catRow, ctab,
                   conn, cur, pos, row, heads, args>>

(* DROP TABLE cft_<name>, after the INSERT above failed. *)
DropCft(p) ==
    /\ pc[p] = "dropCft"
    /\ cft' = [cft EXCEPT ![CurCfd(p)] = None]
    /\ fresh' = [q \in Proc |-> FALSE]
    /\ known' = [known EXCEPT ![p] = {}]
    /\ Leave(p)
    /\ UNCHANGED <<sys, enumRows, endef, cfdRows, refcount, catRow, ctab>>

(* Mutant: the loop ends one field early. *)
AddFieldShort(p) ==
    /\ pc[p] = "addField"
    /\ cft' = [cft EXCEPT ![CurCfd(p)].rows = @ + 1]
    /\ \/ /\ row[p] < Len(Fields[cur[p]][CurCfd(p)]) - 1
          /\ row' = [row EXCEPT ![p] = @ + 1]
          /\ UNCHANGED <<conn, pc, cur, pos, heads, args>>
       \/ /\ row[p] >= Len(Fields[cur[p]][CurCfd(p)]) - 1
          /\ CfdLoop(p, pos[p] + 1)
    /\ UNCHANGED <<sys, enumRows, endef, cfdRows, refcount, catRow, ctab>>

(* INSERT INTO cft_<name>, one row per field. *)
AddField(p) ==
    /\ pc[p] = "addField"
    /\ cft' = [cft EXCEPT ![CurCfd(p)].rows = @ + 1]
    /\ \/ /\ row[p] < Len(Fields[cur[p]][CurCfd(p)])
          /\ row' = [row EXCEPT ![p] = @ + 1]
          /\ UNCHANGED <<conn, pc, cur, pos, heads, args>>
       \/ /\ row[p] >= Len(Fields[cur[p]][CurCfd(p)])
          /\ CfdLoop(p, pos[p] + 1)
    /\ UNCHANGED <<sys, enumRows, endef, cfdRows, refcount, catRow, ctab>>

-----------------------------------------------------------------------------
(* fedit mkcat TYPE NAME...: fdbfs_create_catalogue and new_catalog, for   *)
(* each name.  The type is looked up in the lists read at the start.       *)

MkCat(p, k, c) ==
    /\ pc[p] = "ready" \/ (pc[p] = "mk" /\ argCfd[p] = c)
    /\ hCfd[p][c] # None
    /\ refcount[c] < MaxRef
    /\ argCat' = [argCat EXCEPT ![p] = k]
    /\ argCfd' = [argCfd EXCEPT ![p] = c]
    /\ Goto(p, "addCat")
    /\ UNCHANGED <<db, conn, cur, pos, row, heads>>

(* INSERT OR REPLACE INTO cat_list. *)
AddCatRow(p) ==
    /\ pc[p] = "addCat"
    /\ catRow' = [catRow EXCEPT ![argCat[p]] = argCfd[p]]
    /\ Goto(p, "incRef")
    /\ UNCHANGED <<sys, enumRows, endef, cfdRows, refcount, cft, ctab,
                   conn, cur, pos, row, heads, args>>

(* Mutant: refcount = 1. *)
IncRefToOne(p) ==
    /\ pc[p] = "incRef"
    /\ refcount' = [c \in Cfd |-> IF c = argCfd[p] /\ c \in cfdRows
                                  THEN 1 ELSE refcount[c]]
    /\ Goto(p, "mkCatTab")
    /\ UNCHANGED <<sys, enumRows, endef, cfdRows, cft, catRow, ctab,
                   conn, cur, pos, row, heads, args>>

(* Mutant: the signs of the two UPDATEs are exchanged. *)
IncRefDown(p) ==
    /\ pc[p] = "incRef"
    /\ refcount' = [c \in Cfd |-> IF c = argCfd[p] /\ c \in cfdRows
                                  THEN refcount[c] - 1 ELSE refcount[c]]
    /\ Goto(p, "mkCatTab")
    /\ UNCHANGED <<sys, enumRows, endef, cfdRows, cft, catRow, ctab,
                   conn, cur, pos, row, heads, args>>

(* UPDATE cfd_list SET refcount = refcount + 1. *)
IncRef(p) ==
    /\ pc[p] = "incRef"
    /\ refcount' = [c \in Cfd |-> IF c = argCfd[p] /\ c \in cfdRows
                                  THEN refcount[c] + 1 ELSE refcount[c]]
    /\ Goto(p, "mkCatTab")
    /\ UNCHANGED <<sys, enumRows, endef, cfdRows, cft, catRow, ctab,
                   conn, cur, pos, row, heads, args>>

(* The columns new_catalog gives the table: one per field of the list in   *)
(* memory, and an oth_ column where the enumeration has an other element.  *)
HasOther(p, e) ==
    /\ hEnum[p][e] # None
    /\ \E r \in 1..hEnum[p][e].rows : Elems[hEnum[p][e].spec][e][r]

(* Mutant: one column more than there are fields. *)
ColumnsOneMore(p, c) ==
    LET def == hCfd[p][c]
        enumOf(i) == Fields[def.spec][c][i]
    IN  [cfd |-> c, spec |-> def.spec, fields |-> def.rows + 1,
         other |-> {i \in 1..def.rows :
                       enumOf(i) # None /\ HasOther(p, enumOf(i))},
         cut |-> cut[p]]

Columns(p, c) ==
    LET def == hCfd[p][c]
        enumOf(i) == Fields[def.spec][c][i]
    IN  [cfd |-> c, spec |-> def.spec, fields |-> def.rows,
         other |-> {i \in 1..def.rows :
                       enumOf(i) # None /\ HasOther(p, enumOf(i))},
         cut |-> cut[p]]

(* CREATE TABLE c_<name>. *)
CreateCatTable(p) ==
    /\ pc[p] = "mkCatTab"
    /\ \/ /\ ctab[argCat[p]] = None
          /\ ctab' = [ctab EXCEPT ![argCat[p]] = Columns(p, argCfd[p])]
          /\ ChangeSchema(p, sys)
       \/ ctab[argCat[p]] # None /\ Refresh(p) /\ UNCHANGED ctab
    /\ NextMk(p)
    /\ UNCHANGED <<sys, enumRows, endef, cfdRows, refcount, cft, catRow>>

-----------------------------------------------------------------------------
(* fedit rmcat NAME...: fdbfs_db_rm_catalogue, up to the first failure. *)

RmCat(p, k) ==
    /\ pc[p] \in {"ready", "rm"}
    /\ argCat' = [argCat EXCEPT ![p] = k]
    /\ Goto(p, "getCfd")
    /\ UNCHANGED <<db, conn, cur, pos, row, heads, argCfd>>

(* SELECT field_desc_table: tcfd is NULL when there is no such row. *)
GetCfdName(p) ==
    /\ pc[p] = "getCfd"
    /\ \/ /\ ~Expired(p, "cat_list")
          /\ argCfd' = [argCfd EXCEPT ![p] = catRow[argCat[p]]]
          /\ Goto(p, "delCat")
          /\ UNCHANGED <<cur, pos, row, heads, argCat>>
          /\ Refresh(p)
       \/ Expired(p, "cat_list") /\ Exit(p)
    /\ UNCHANGED db

(* DELETE FROM cat_list: no row to delete is no error. *)
DeleteCatRow(p) ==
    /\ pc[p] = "delCat"
    /\ catRow' = [catRow EXCEPT ![argCat[p]] = None]
    /\ Goto(p, "dropCat")
    /\ UNCHANGED <<sys, enumRows, endef, cfdRows, refcount, cft, ctab,
                   conn, cur, pos, row, heads, args>>

(* DROP TABLE c_<name>: fails when there is none. *)
DropCatTable(p) ==
    /\ pc[p] = "dropCat"
    /\ \/ /\ ctab[argCat[p]] # None
          /\ ctab' = [ctab EXCEPT ![argCat[p]] = None]
          /\ ChangeSchema(p, sys)
          /\ Goto(p, "decRef")
          /\ UNCHANGED <<cur, pos, row, heads, args>>
       \/ ctab[argCat[p]] = None /\ Exit(p) /\ UNCHANGED ctab
    /\ UNCHANGED <<sys, enumRows, endef, cfdRows, refcount, cft, catRow>>

(* UPDATE cfd_list SET refcount = refcount - 1; matches no row for NULL. *)
DecRef(p) ==
    /\ pc[p] = "decRef"
    /\ refcount' = [c \in Cfd |-> IF c = argCfd[p] /\ c \in cfdRows
                                  THEN refcount[c] - 1 ELSE refcount[c]]
    /\ Refresh(p)
    /\ NextRm(p)
    /\ UNCHANGED <<sys, enumRows, endef, cfdRows, cft, catRow, ctab>>

-----------------------------------------------------------------------------
(* Failures. *)

(* What the row loops of fdbfs_enumelems_from_dbtab and                    *)
(* fdbfs_catelems_from_dbtab have read when a step failed in some of the   *)
(* tables: so many rows of each, of one at least not all.  Neither loop    *)
(* looks at the code it ended with, what it has so far is the list.        *)
CutReads(N, table) ==
    {rows \in [N -> UNION {0..table[n].rows : n \in N}] :
        /\ \A n \in N : rows[n] <= table[n].rows
        /\ \E n \in N : rows[n] < table[n].rows}

ListedEnums == {e \in Enum : enumRows[e] > 0}

(* No element left is an error only where an error is pending. *)
CutEnums(p) ==
    /\ pc[p] = "readEnums"
    /\ "enum_list" \in sys
    /\ ~Expired(p, "enum_list")
    /\ \A e \in ListedEnums : endef[e] # None
    /\ \E rows \in CutReads(ListedEnums, endef) :
          /\ err[p] => \A e \in ListedEnums : rows[e] > 0
          /\ hEnum' = [hEnum EXCEPT ![p] =
                [e \in Enum |-> IF e \in ListedEnums
                                THEN [endef[e] EXCEPT !.rows = rows[e]] ELSE None]]
    /\ Goto(p, "readCfds")
    /\ Refresh(p)
    /\ cut' = [cut EXCEPT ![p] = TRUE]
    /\ UNCHANGED <<cur, pos, row, err, hCfd, args>>

(* No field left always is. *)
CutCfds(p) ==
    /\ pc[p] = "readCfds"
    /\ "cfd_list" \in sys
    /\ ~Expired(p, "cfd_list")
    /\ \A c \in cfdRows : cft[c] # None
    /\ \E rows \in CutReads(cfdRows, cft) :
          /\ \A c \in cfdRows :
                /\ rows[c] > 0
                /\ \A i \in 1..rows[c] :
                      LET e == Fields[cft[c].spec][c][i]
                      IN  e # None => hEnum[p][e] # None
          /\ hCfd' = [hCfd EXCEPT ![p] =
                [c \in Cfd |-> IF c \in cfdRows
                               THEN [cft[c] EXCEPT !.rows = rows[c]] ELSE None]]
    /\ Goto(p, IF cur[p] = None THEN "readCats" ELSE "parse")
    /\ Refresh(p)
    /\ UNCHANGED <<cur, pos, row, err, hEnum, cut, args>>

(* A step fails while the rows of a definition are read: the session goes  *)
(* on with the rows it has.                                                *)
ReadCutShort(p) ==
    /\ Faults
    /\ faulted' = TRUE
    /\ CutEnums(p) \/ CutCfds(p)
    /\ UNCHANGED db

(* A statement fails without effect.  The loader and rmcat give up (a      *)
(* failed INSERT into cfd_list first drops the field table, a failed UPDATE*)
(* at the end of rmcat frees its string twice), mkcat tries its next name, *)
(* and a failed read of cat_list goes unnoticed unless it failed in prepare.*)
(* A failed read of the other lists ends the program, but for a step that  *)
(* ReadCutShort describes.                                                 *)
StatementFails(p) ==
    /\ Faults
    /\ faulted' = TRUE
    /\ \/ /\ pc[p] \in (LoaderPc \ {"parse", "addCfd"})
                     \cup {"readEnums", "readCfds", "readCats"}
                     \cup {"getCfd", "delCat", "dropCat", "decRef"}
          /\ Exit(p)
       \/ /\ pc[p] = "addCfd"
          /\ Goto(p, "dropCft")
          /\ UNCHANGED <<conn, cur, pos, row, heads, args>>
       \/ pc[p] = "readCats" /\ ~err[p] /\ "cat_list" \in sys /\ Ready(p)
       \/ pc[p] \in {"addCat", "incRef", "mkCatTab"} /\ NextMk(p) /\ UNCHANGED conn
    /\ UNCHANGED db

(* The program is killed, or the machine stops, between two statements. *)
Crash(p) ==
    /\ Faults
    /\ faulted' = TRUE
    /\ pc[p] \notin Resting
    /\ Exit(p)
    /\ UNCHANGED db

(* fedit is through with its command line, or killed between two names. *)
Quit(p) ==
    /\ pc[p] \in Resting \ {"idle"}
    /\ Exit(p)
    /\ UNCHANGED db

-----------------------------------------------------------------------------
(* What users do. *)
User(p) ==
    /\ \/ \E s \in SpecFile : OpenLoader(p, s)
       \/ OpenEditor(p) \/ Quit(p)
       \/ \E k \in Cat, c \in Cfd : MkCat(p, k, c)
       \/ \E k \in Cat : RmCat(p, k)
    /\ UNCHANGED faulted

(* What a program does next by itself. *)
Load(p) ==
    \/ DbStart(p) \/ InitDbTables(p) \/ Parse(p)
    \/ CreateEndef(p) \/ AddEnumRow(p) \/ AddElem(p)
    \/ CreateCft(p) \/ AddCfdRow(p) \/ DropCft(p) \/ AddField(p)

Read(p) == ReadEnums(p) \/ ReadCfds(p) \/ ReadCats(p)

Edit(p) ==
    \/ AddCatRow(p) \/ IncRef(p) \/ CreateCatTable(p)
    \/ GetCfdName(p) \/ DeleteCatRow(p) \/ DropCatTable(p) \/ DecRef(p)

Work(p) == (Load(p) \/ Read(p) \/ Edit(p)) /\ UNCHANGED faulted

Fail(p) == StatementFails(p) \/ ReadCutShort(p) \/ Crash(p)

Next == \E p \in Proc : User(p) \/ Work(p) \/ Fail(p)

Spec == Init /\ [][Next]_vars

(* A program that runs comes to its next statement. *)
FairSpec == Spec /\ \A p \in Proc : WF_vars(Work(p))
-----------------------------------------------------------------------------
(* Properties. *)

DbTypeOK ==
    /\ sys \subseteq SysTables
    /\ enumRows \in [Enum -> Nat]
    /\ endef \in [Enum -> DefTable \cup {None}]
    /\ cfdRows \subseteq Cfd
    /\ refcount \in [Cfd -> Int]
    /\ cft \in [Cfd -> DefTable \cup {None}]
    /\ catRow \in [Cat -> Cfd \cup {None}]
    /\ ctab \in [Cat -> CatTable \cup {None}]

ProcTypeOK ==
    /\ pc \in [Proc -> PcValues]
    /\ cur \in [Proc -> SpecFile \cup {None}]
    /\ pos \in [Proc -> Nat \ {0}]
    /\ row \in [Proc -> Nat \ {0}]
    /\ argCat \in [Proc -> Cat \cup {None}]
    /\ argCfd \in [Proc -> Cfd \cup {None}]

HeadsTypeOK ==
    /\ fresh \in [Proc -> BOOLEAN]
    /\ known \in [Proc -> SUBSET SysTables]
    /\ err \in [Proc -> BOOLEAN]
    /\ cut \in [Proc -> BOOLEAN]
    /\ hEnum \in [Proc -> [Enum -> DefTable \cup {None}]]
    /\ hCfd \in [Proc -> [Cfd -> DefTable \cup {None}]]

TypeOK == DbTypeOK /\ ProcTypeOK /\ HeadsTypeOK

FillsEnum(p, e) == pc[p] \in {"addEnum", "addElem"} /\ CurEnum(p) = e
FillsCfd(p, c)  == pc[p] \in {"addCfd", "dropCft", "addField"} /\ CurCfd(p) = c

EnumComplete(s, e) ==
    /\ enumRows[e] > 0
    /\ endef[e] # None
    /\ endef[e].spec = s
    /\ endef[e].rows = Len(Elems[s][e])

CfdComplete(s, c) ==
    /\ c \in cfdRows
    /\ cft[c] # None
    /\ cft[c].spec = s
    /\ cft[c].rows = Len(Fields[s][c])

Loaded(s) ==
    /\ \A i \in 1..Len(SpecEnums[s]) : EnumComplete(s, SpecEnums[s][i])
    /\ \A i \in 1..Len(SpecCfds[s]) : CfdComplete(s, SpecCfds[s][i])

(* A program that got past reading the lists never writes to a database    *)
(* that lacks a system table, although fdbfs_db_start looks for cat_list   *)
(* only and two fcreatedb may run init_db_tables together.                 *)
WriterHasSchema ==
    \A p \in Proc :
        pc[p] \in {"mkEndef", "addEnum", "addElem", "mkCft", "addCfd",
                   "dropCft", "addField"} \cup (EditorPc \ {"readCats"})
            => sys = SysTables

(* What the lists name exists: no reader meets a row of enum_list or       *)
(* cfd_list whose table is missing, whoever died or failed where.          *)
ListedHasTable ==
    /\ \A e \in Enum : enumRows[e] > 0 => endef[e] # None
    /\ \A c \in cfdRows : cft[c] # None

(* enum_list never names an enumeration twice although its name column is  *)
(* not UNIQUE and two loaders may both find the name free.                 *)
EnumListedOnce == \A e \in Enum : enumRows[e] <= 1

(* No two processes fill the same definition: CREATE TABLE is the lock.    *)
ExclusiveDefinition ==
    \A p, q \in Proc :
        /\ \A e \in Enum : FillsEnum(p, e) /\ FillsEnum(q, e) => p = q
        /\ \A c \in Cfd : FillsCfd(p, c) /\ FillsCfd(q, c) => p = q

(* A field row that names an enumeration finds it, complete and as the     *)
(* specification file of the CFD defined it.                               *)
FieldsResolve ==
    \A c \in Cfd : cft[c] # None =>
        \A i \in 1..cft[c].rows :
            LET e == Fields[cft[c].spec][c][i]
            IN  e # None => EnumComplete(cft[c].spec, e)

(* A catalogue's row names a CFD that is listed. *)
CatRowHasCfd == \A k \in Cat : catRow[k] # None => catRow[k] \in cfdRows

(* Every column of a catalogue table, be it one whose row is gone, is      *)
(* described by the field table of the CFD it was made from.               *)
ColumnsDescribed ==
    \A k \in Cat : ctab[k] # None =>
        LET c == ctab[k].cfd
        IN  /\ c \in cfdRows
            /\ cft[c] # None
            /\ cft[c].spec = ctab[k].spec
            /\ ctab[k].fields \in 1..cft[c].rows

(* A listed CFD stays listed, its field table keeps its rows, and nothing  *)
(* but rmcat lowers its refcount: the REPLACE of add_to_cfd_list_table     *)
(* never finds a row to replace, which would set it to 0.                  *)
ListedOnlyGrows ==
    [][\A c \in cfdRows :
          /\ c \in cfdRows'
          /\ cft'[c] # None
          /\ cft'[c].spec = cft[c].spec
          /\ cft'[c].rows >= cft[c].rows
          /\ refcount'[c] >= refcount[c]
                \/ \E p \in Proc : pc[p] = "decRef" /\ argCfd[p] = c]_vars

(* Until something fails a CFD is incomplete only while it is written, however  *)
(* loaders race: none is left behind empty, which fdbfs_cats_from_db would *)
(* refuse in every later session.  (Enumerations have no such property:    *)
(* see AddElem.)                                                           *)
CfdPartialOnlyInFlight ==
    ~faulted =>
        \A c \in Cfd : cft[c] # None =>
            \/ CfdComplete(cft[c].spec, c)
            \/ \E p \in Proc : FillsCfd(p, c)

(* One program at a time, no failure: a specification file that the parser *)
(* accepts is loaded to its last row.                                      *)
AcceptedIsLoaded ==
    \A s \in SpecFile :
        (\E p \in Proc : cur[p] = s /\ pc[p] = "mkEndef") ~> Loaded(s)

Refs(c) == {k \in Cat : catRow[k] = c}

(* One fedit at a time, no failure: a CFD is never counted less often than *)
(* it is used, except between the two statements of mkcat.                 *)
RefcountCovers ==
    \A c \in Cfd :
        refcount[c] + Cardinality({p \in Proc : pc[p] = "incRef" /\ argCfd[p] = c})
            >= Cardinality(Refs(c))

HasOtherColumns(k) ==
    LET t == ctab[k]
        enumOf(i) == Fields[t.spec][t.cfd][i]
    IN  \A i \in 1..t.fields :
             /\ enumOf(i) # None
             /\ \E r \in 1..endef[enumOf(i)].rows :
                    Elems[endef[enumOf(i)].spec][enumOf(i)][r]
             => i \in t.other

(* A catalogue table has an oth_ column for every field whose enumeration  *)
(* has an other element: mkcat never works from an enumeration that was    *)
(* read half written, although another process may be writing it, programs *)
(* die and statements fail.  The one failure this does not survive is that *)
(* of a step in the middle of an enumeration's rows, which the reader takes*)
(* for their end, although dbspecdata.h has it return NULL on error: what  *)
(* holds is that nothing else ever leaves a column out.                    *)
OtherColumnPresent ==
    \A k \in Cat : ctab[k] # None /\ ~ctab[k].cut => HasOtherColumns(k)

=============================================================================
