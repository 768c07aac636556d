------------------------------ MODULE SchemaInv ------------------------------
(***************************************************************************)
(* The inductive invariant of Schema.  What keeps the definitions on disk  *)
(* coherent without transactions is an order of statements and one lock:   *)
(* CREATE TABLE succeeds for one process only, the list row follows the    *)
(* table, the rows follow the list row, and a file's CFDs follow all of its*)
(* enumerations.  DatabaseOK says what holds of the file, ProcessOK(p) what*)
(* process p knows of it at each program counter.                          *)
(***************************************************************************)
EXTENDS Schema

EnumPc == {"mkEndef", "addEnum", "addElem"}
CfdPc  == {"mkCft", "addCfd", "dropCft", "addField"}
MkPc   == {"addCat", "incRef", "mkCatTab"}
RmPc   == {"getCfd", "delCat", "dropCat", "decRef"}

-----------------------------------------------------------------------------
(* The system tables appear in the order of init_db_tables. *)
SysInOrder ==
    /\ "cat_list" \in sys => "enum_list" \in sys
    /\ "cfd_list" \in sys => "cat_list" \in sys

EnumTables ==
    \A e \in Enum :
        /\ enumRows[e] > 0 => endef[e] # None
        /\ enumRows[e] <= 1

(* A CFD whose table exists comes from a file whose enumerations are       *)
(* complete.                                                               *)
CfdTables ==
    /\ \A c \in cfdRows : cft[c] # None
    /\ \A c \in Cfd : cft[c] # None =>
          /\ cft[c].rows \in 0..Len(Fields[cft[c].spec][c])
          /\ \A i \in 1..Len(SpecEnums[cft[c].spec]) :
                EnumComplete(cft[c].spec, SpecEnums[cft[c].spec][i])

DatabaseOK ==
    SysInOrder /\ EnumTables /\ CfdTables /\ CatRowHasCfd /\ ColumnsDescribed

-----------------------------------------------------------------------------
(* The process works within its lists and its arguments are set.           *)
LocalsOK(p) ==
    /\ pc[p] \in LoaderPc => cur[p] \in SpecFile
    /\ pc[p] \in EnumPc =>
          /\ pos[p] \in 1..Len(SpecEnums[cur[p]])
          /\ row[p] \in 1..Len(Elems[cur[p]][CurEnum(p)])
    /\ pc[p] \in CfdPc =>
          /\ pos[p] \in 1..Len(SpecCfds[cur[p]])
          /\ row[p] \in 1..Len(Fields[cur[p]][CurCfd(p)])
    /\ pc[p] \in MkPc =>
          argCat[p] \in Cat /\ argCfd[p] \in Cfd /\ hCfd[p][argCfd[p]] # None
    /\ pc[p] \in RmPc => argCat[p] \in Cat

(* The system tables it has made or read. *)
SysKnown(p) ==
    /\ pc[p] = "mkCatList" => "enum_list" \in sys
    /\ pc[p] = "mkCfdList" => "cat_list" \in sys
    /\ pc[p] \in EnumPc \cup CfdPc \cup EditorPc \cup {"parse"}
          => "cfd_list" \in sys

(* How far the enumeration it writes has come. *)
EnumProgress(p) ==
    /\ pc[p] = "addEnum" =>
          /\ enumRows[CurEnum(p)] = 0
          /\ endef[CurEnum(p)] # None
          /\ endef[CurEnum(p)].spec = cur[p]
          /\ endef[CurEnum(p)].rows = 0
          /\ row[p] = 1
    /\ pc[p] = "addElem" =>
          /\ enumRows[CurEnum(p)] = 1
          /\ endef[CurEnum(p)] # None
          /\ endef[CurEnum(p)].spec = cur[p]
          /\ endef[CurEnum(p)].rows = row[p] - 1

(* How far the CFD it writes has come. *)
CfdProgress(p) ==
    /\ pc[p] \in {"addCfd", "dropCft"} =>
          /\ CurCfd(p) \notin cfdRows
          /\ cft[CurCfd(p)] # None
          /\ cft[CurCfd(p)].spec = cur[p]
          /\ cft[CurCfd(p)].rows = 0
          /\ row[p] = 1
    /\ pc[p] = "addField" =>
          /\ CurCfd(p) \in cfdRows
          /\ cft[CurCfd(p)] # None
          /\ cft[CurCfd(p)].spec = cur[p]
          /\ cft[CurCfd(p)].rows = row[p] - 1

(* The enumerations of its file before the one it writes are complete, and *)
(* all of them while it writes CFDs.                                       *)
EnumsBefore(p) ==
    /\ pc[p] \in EnumPc =>
          /\ row[p] = 1 \/ pc[p] = "addElem"
          /\ \A i \in 1..(pos[p] - 1) : EnumComplete(cur[p], SpecEnums[cur[p]][i])
    /\ pc[p] \in CfdPc =>
          /\ row[p] = 1 \/ pc[p] = "addField"
          /\ \A i \in 1..Len(SpecEnums[cur[p]]) :
                EnumComplete(cur[p], SpecEnums[cur[p]][i])

(* The list in its memory is a prefix of what the database holds. *)
HeadsArePrefixes(p) ==
    \A c \in Cfd : hCfd[p][c] # None =>
        /\ c \in cfdRows
        /\ cft[c].spec = hCfd[p][c].spec
        /\ hCfd[p][c].rows \in 1..cft[c].rows

ProcessOK(p) ==
    /\ LocalsOK(p)
    /\ SysKnown(p)
    /\ EnumProgress(p)
    /\ CfdProgress(p)
    /\ EnumsBefore(p)
    /\ HeadsArePrefixes(p)

IInv ==
    /\ TypeOK
    /\ DatabaseOK
    /\ ExclusiveDefinition
    /\ \A p \in Proc : ProcessOK(p)

-----------------------------------------------------------------------------
(* For OtherColumnPresent: the enumerations a session has in memory.       *)

(* Nothing has been read into hCfd yet. *)
EarlyPc == {"idle", "start", "mkEnumList", "mkCatList", "mkCfdList", "readEnums",
            "readCfds"}

(* Enumeration e in the memory of p is that of file s, to its last element.*)
Whole(p, s, e) ==
    /\ hEnum[p][e] # None
    /\ hEnum[p][e].spec = s
    /\ hEnum[p][e].rows = Len(Elems[s][e])

(* Between the two lists: a CFD that appears now expires the schema with   *)
(* which p would read it, unless p met a database with no enumerations.    *)
ReadsWhole(p) ==
    pc[p] = "readCfds" =>
        /\ "cfd_list" \notin known[p] => \A e \in Enum : hEnum[p][e] = None
        /\ \/ cut[p]
           \/ Expired(p, "cfd_list")
           \/ \A c \in Cfd : cft[c] # None =>
                  \A i \in 1..Len(Fields[cft[c].spec][c]) :
                      LET e == Fields[cft[c].spec][c][i]
                      IN  e # None /\ hEnum[p][e] # None => Whole(p, cft[c].spec, e)

(* The enumerations of a CFD in memory are in memory, complete unless a    *)
(* failed step has cut one short.                                          *)
HoldsWhole(p) ==
    ~cut[p] => \A c \in Cfd : hCfd[p][c] # None =>
        \A i \in 1..hCfd[p][c].rows :
            LET e == Fields[hCfd[p][c].spec][c][i]
            IN  e # None => Whole(p, hCfd[p][c].spec, e)

MemoryOK(p) ==
    /\ pc[p] \in EarlyPc => \A c \in Cfd : hCfd[p][c] = None
    /\ ReadsWhole(p)
    /\ HoldsWhole(p)

ColInv ==
    /\ "cfd_list" \notin sys => \A e \in Enum : enumRows[e] = 0
    /\ OtherColumnPresent
    /\ \A p \in Proc : MemoryOK(p)
-----------------------------------------------------------------------------
(* For RefcountCovers: what mkcat and rmcat owe a refcount.                *)

(* fedit works on one catalogue at a time, whoever else loads or reads:    *)
(* the commands of two fedits do not overlap.                              *)
OneCommand ==
    \A p, q \in Proc : pc[p] \in MkPc \cup RmPc /\ pc[q] \in MkPc \cup RmPc => p = q

(* The row of a catalogue is there and not yet counted, or is gone and     *)
(* still counted.                                                          *)
Adding(c)   == IF \E p \in Proc : pc[p] = "incRef" /\ argCfd[p] = c THEN 1 ELSE 0
Removing(c) == IF \E p \in Proc : pc[p] \in {"dropCat", "decRef"} /\ argCfd[p] = c
               THEN 1 ELSE 0

Covered(c) == refcount[c] + Adding(c) >= Cardinality(Refs(c)) + Removing(c)

RefInv ==
    /\ \A p \in Proc :
          /\ pc[p] = "delCat" => argCfd[p] = catRow[argCat[p]]
          /\ pc[p] \in {"delCat", "dropCat", "decRef"} => argCfd[p] \in cfdRows \cup {None}
    /\ ~faulted => \A c \in Cfd : Covered(c)
=============================================================================
