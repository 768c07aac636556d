---------------------------- MODULE SchemaProofs ----------------------------
(***************************************************************************)
(* Proofs about Schema, for every set of processes, files and names.       *)
(* A step of process p is checked in four parts: types, what holds of the  *)
(* database, what p knows after it, and (FrameProcess) that no other       *)
(* process loses what it knew.                                             *)
(***************************************************************************)
EXTENDS SchemaInv, FiniteSetTheorems, TLAPS

(* What SpecFilesParse says, element by element. *)
LEMMA SpecShape ==
    ASSUME NEW s \in SpecFile
    PROVE  /\ Len(SpecEnums[s]) \in Nat
           /\ Len(SpecCfds[s]) \in Nat
           /\ \A i \in 1..Len(SpecEnums[s]) : SpecEnums[s][i] \in Enum
           /\ \A i \in 1..Len(SpecCfds[s]) : SpecCfds[s][i] \in Cfd
           /\ \A e \in Enum : Len(Elems[s][e]) \in Nat \ {0}
           /\ \A c \in Cfd : Len(Fields[s][c]) \in Nat \ {0}
           /\ \A i, j \in 1..Len(SpecEnums[s]) :
                 SpecEnums[s][i] = SpecEnums[s][j] => i = j
  BY SpecFilesParse

LEMMA FieldEnum ==
    ASSUME NEW s \in SpecFile, NEW c \in Cfd, NEW i \in 1..Len(Fields[s][c]),
           Fields[s][c][i] # None
    PROVE  \E j \in 1..Len(SpecEnums[s]) : SpecEnums[s][j] = Fields[s][c][i]
  <1>1. \A t \in SpecFile : \A d \in Cfd : \A k \in 1..Len(Fields[t][d]) :
           \/ Fields[t][d][k] = None
           \/ \E j \in 1..Len(SpecEnums[t]) : SpecEnums[t][j] = Fields[t][d][k]
    <2> TAKE t \in SpecFile
    <2> TAKE d \in Cfd
    <2> TAKE k \in 1..Len(Fields[t][d])
    <2> QED
      BY SpecFilesParse
  <1> QED
    BY <1>1, Zenon

(* A process that writes a definition writes one of its file. *)
LEMMA CurInRange ==
    ASSUME NEW p \in Proc, LocalsOK(p)
    PROVE  /\ pc[p] \in EnumPc => CurEnum(p) \in Enum /\ cur[p] \in SpecFile
           /\ pc[p] \in CfdPc => CurCfd(p) \in Cfd /\ cur[p] \in SpecFile
  BY SpecShape DEF LocalsOK, EnumPc, CfdPc, LoaderPc, CurEnum, CurCfd

-----------------------------------------------------------------------------
(* Frames: what a step leaves to the other processes. *)

SameLocals(q) ==
    /\ pc'[q] = pc[q]
    /\ cur'[q] = cur[q]
    /\ pos'[q] = pos[q]
    /\ row'[q] = row[q]
    /\ argCat'[q] = argCat[q]
    /\ argCfd'[q] = argCfd[q]
    /\ hCfd'[q] = hCfd[q]

(* What q is writing is not touched. *)
SameWork(q) ==
    /\ pc[q] \in {"addEnum", "addElem"} =>
          /\ enumRows'[CurEnum(q)] = enumRows[CurEnum(q)]
          /\ endef'[CurEnum(q)] = endef[CurEnum(q)]
    /\ pc[q] \in {"addCfd", "dropCft", "addField"} =>
          /\ cft'[CurCfd(q)] = cft[CurCfd(q)]
          /\ CurCfd(q) \in cfdRows' <=> CurCfd(q) \in cfdRows

EnumsStay ==
    \A s \in SpecFile, e \in Enum : EnumComplete(s, e) => EnumComplete(s, e)'

CfdsStay ==
    \A c \in cfdRows :
        /\ c \in cfdRows'
        /\ cft'[c] # None
        /\ cft'[c].spec = cft[c].spec
        /\ cft'[c].rows >= cft[c].rows

(* A list read before stays a prefix of what the database holds. *)
LEMMA HeadsStay ==
    ASSUME IInv, DbTypeOK', NEW q \in Proc, hCfd'[q] = hCfd[q], CfdsStay
    PROVE  HeadsArePrefixes(q)'
  <1>0. ProcessOK(q)
    BY DEF IInv
  <1> SUFFICES ASSUME NEW c \in Cfd, hCfd[q][c] # None
               PROVE  /\ c \in cfdRows'
                      /\ cft'[c].spec = hCfd[q][c].spec
                      /\ hCfd[q][c].rows \in 1..cft'[c].rows
    BY DEF HeadsArePrefixes
  <1>1. /\ c \in cfdRows
        /\ cft[c].spec = hCfd[q][c].spec
        /\ hCfd[q][c].rows \in 1..cft[c].rows
    BY <1>0 DEF ProcessOK, HeadsArePrefixes
  <1>2. cft[c] \in DefTable /\ cft'[c] \in DefTable
    BY <1>1 DEF IInv, DatabaseOK, CfdTables, TypeOK, DbTypeOK, CfdsStay
  <1> QED
    BY <1>1, <1>2 DEF CfdsStay, DefTable

LEMMA FrameProcess ==
    ASSUME IInv, TypeOK', NEW q \in Proc, SameLocals(q), SameWork(q),
           sys \subseteq sys', EnumsStay, CfdsStay
    PROVE  ProcessOK(q)'
  <1> USE DEF SameLocals
  <1>0. ProcessOK(q) /\ LocalsOK(q)
    BY DEF IInv, ProcessOK
  <1>1. LocalsOK(q)'
    BY <1>0 DEF LocalsOK, CurEnum, CurCfd
  <1>2. SysKnown(q)'
    BY <1>0 DEF ProcessOK, SysKnown
  <1>3. EnumProgress(q)'
    BY <1>0 DEF ProcessOK, EnumProgress, SameWork, CurEnum
  <1>4. CfdProgress(q)'
    BY <1>0 DEF ProcessOK, CfdProgress, SameWork, CurCfd
  <1>5. EnumsBefore(q)'
    <2>1. ASSUME pc[q] \in EnumPc, NEW i \in 1..(pos[q] - 1)
          PROVE  EnumComplete(cur[q], SpecEnums[cur[q]][i])'
      <3>1. cur[q] \in SpecFile /\ pos[q] \in 1..Len(SpecEnums[cur[q]])
        BY <1>0, <2>1 DEF LocalsOK, EnumPc, LoaderPc
      <3>2. SpecEnums[cur[q]][i] \in Enum
        BY <2>1, <3>1, SpecShape
      <3>3. EnumComplete(cur[q], SpecEnums[cur[q]][i])
        BY <1>0, <2>1 DEF ProcessOK, EnumsBefore
      <3> QED
        BY <3>1, <3>2, <3>3 DEF EnumsStay, EnumComplete
    <2>2. ASSUME pc[q] \in CfdPc, NEW i \in 1..Len(SpecEnums[cur[q]])
          PROVE  EnumComplete(cur[q], SpecEnums[cur[q]][i])'
      <3>1. cur[q] \in SpecFile
        BY <1>0, <2>2 DEF LocalsOK, CfdPc, LoaderPc
      <3>2. SpecEnums[cur[q]][i] \in Enum
        BY <2>2, <3>1, SpecShape
      <3>3. EnumComplete(cur[q], SpecEnums[cur[q]][i])
        BY <1>0, <2>2 DEF ProcessOK, EnumsBefore
      <3> QED
        BY <3>1, <3>2, <3>3 DEF EnumsStay, EnumComplete
    <2> QED
      BY <1>0, <2>1, <2>2 DEF ProcessOK, EnumsBefore
  <1>6. HeadsArePrefixes(q)'
    BY HeadsStay DEF TypeOK
  <1> QED
    BY <1>1, <1>2, <1>3, <1>4, <1>5, <1>6 DEF ProcessOK

(* The definitions stay, p starts to fill none. *)
LEMMA FrameStep ==
    ASSUME IInv, TypeOK', NEW p \in Proc, ProcessOK(p)',
           \A q \in Proc \ {p} : SameLocals(q),
           UNCHANGED <<sys, enumRows, endef, cfdRows, cft>>,
           CatRowHasCfd', ColumnsDescribed',
           \A e \in Enum : FillsEnum(p, e)' => FillsEnum(p, e),
           \A c \in Cfd : FillsCfd(p, c)' => FillsCfd(p, c)
    PROVE  IInv'
  <1>1. DatabaseOK'
    BY DEF IInv, DatabaseOK, SysInOrder, EnumTables, CfdTables, EnumComplete
  <1>2. ASSUME NEW q \in Proc PROVE ProcessOK(q)'
    <2>1. CASE q = p
      BY <2>1
    <2>2. CASE q # p
      <3>1. EnumsStay
        BY DEF EnumsStay, EnumComplete
      <3>2. CfdsStay
        <4> SUFFICES ASSUME NEW c \in cfdRows
                     PROVE  cft[c] # None /\ cft[c].rows >= cft[c].rows
          BY DEF CfdsStay
        <4>1. c \in Cfd /\ cft[c] \in DefTable \cup {None}
          BY DEF IInv, TypeOK, DbTypeOK
        <4> QED
          BY <4>1 DEF IInv, DatabaseOK, CfdTables, DefTable
      <3>3. SameLocals(q) /\ SameWork(q)
        BY <2>2 DEF SameWork
      <3> QED
        BY <3>1, <3>2, <3>3, FrameProcess
    <2> QED
      BY <2>1, <2>2
  <1>3. ExclusiveDefinition'
    <2>1. ASSUME NEW q \in Proc, NEW e \in Enum, FillsEnum(q, e)'
          PROVE  FillsEnum(q, e)
      BY <2>1 DEF SameLocals, FillsEnum, CurEnum
    <2>2. ASSUME NEW q \in Proc, NEW c \in Cfd, FillsCfd(q, c)'
          PROVE  FillsCfd(q, c)
      BY <2>2 DEF SameLocals, FillsCfd, CurCfd
    <2> QED
      BY <2>1, <2>2 DEF IInv, ExclusiveDefinition
  <1> QED
    BY <1>1, <1>2, <1>3 DEF IInv

(* A program that ends: it knows nothing any more. *)
LEMMA LeaveTypes ==
    ASSUME IInv, NEW p \in Proc, Leave(p),
           fresh' \in [Proc -> BOOLEAN], known' \in [Proc -> SUBSET SysTables]
    PROVE  /\ ProcTypeOK' /\ HeadsTypeOK'
           /\ \A q \in Proc \ {p} : SameLocals(q)
  <1>0. ProcTypeOK /\ HeadsTypeOK
    BY DEF IInv, TypeOK
  <1>1. ProcTypeOK'
    BY <1>0 DEF ProcTypeOK, PcValues, Leave
  <1>2. HeadsTypeOK'
    <2>1. hEnum' \in [Proc -> [Enum -> DefTable \cup {None}]]
      BY <1>0 DEF HeadsTypeOK, NoHeads, Leave
    <2>2. hCfd' \in [Proc -> [Cfd -> DefTable \cup {None}]]
      BY <1>0 DEF HeadsTypeOK, NoHeads, Leave
    <2>3. err' \in [Proc -> BOOLEAN] /\ cut' \in [Proc -> BOOLEAN]
      BY <1>0 DEF HeadsTypeOK, Leave
    <2> QED
      BY <2>1, <2>2, <2>3 DEF HeadsTypeOK
  <1>3. \A q \in Proc \ {p} : SameLocals(q)
    BY <1>0 DEF ProcTypeOK, HeadsTypeOK, Leave, SameLocals
  <1> QED
    BY <1>1, <1>2, <1>3

LEMMA LeaveProcess ==
    ASSUME IInv, NEW p \in Proc, Leave(p)
    PROVE  /\ ProcessOK(p)'
           /\ \A e \in Enum : ~FillsEnum(p, e)'
           /\ \A c \in Cfd : ~FillsCfd(p, c)'
  <1>1. pc'[p] = "idle" /\ hCfd'[p] = NoHeads(Cfd)
    BY DEF IInv, TypeOK, ProcTypeOK, HeadsTypeOK, Leave
  <1>2. LocalsOK(p)' /\ SysKnown(p)'
    BY <1>1 DEF LocalsOK, SysKnown, EnumPc, CfdPc, MkPc, RmPc, LoaderPc, EditorPc
  <1>3. EnumProgress(p)' /\ CfdProgress(p)' /\ EnumsBefore(p)'
    BY <1>1 DEF EnumProgress, CfdProgress, EnumsBefore, EnumPc, CfdPc
  <1>4. HeadsArePrefixes(p)'
    BY <1>1 DEF HeadsArePrefixes, NoHeads
  <1>5. \A e \in Enum : ~FillsEnum(p, e)'
    BY <1>1 DEF FillsEnum
  <1>6. \A c \in Cfd : ~FillsCfd(p, c)'
    BY <1>1 DEF FillsCfd
  <1> QED
    BY <1>2, <1>3, <1>4, <1>5, <1>6 DEF ProcessOK

LEMMA ExitIInv ==
    ASSUME IInv, NEW p \in Proc, Exit(p), UNCHANGED db
    PROVE  IInv'
  <1>1. Leave(p) /\ fresh' \in [Proc -> BOOLEAN] /\ known' \in [Proc -> SUBSET SysTables]
    BY DEF Exit, IInv, TypeOK, HeadsTypeOK
  <1>2. TypeOK'
    BY <1>1, LeaveTypes DEF IInv, TypeOK, DbTypeOK, db
  <1>3. CatRowHasCfd' /\ ColumnsDescribed'
    BY DEF IInv, DatabaseOK, CatRowHasCfd, ColumnsDescribed, db
  <1> QED
    BY <1>1, <1>2, <1>3, LeaveTypes, LeaveProcess, FrameStep DEF db

LEMMA ConnTypes ==
    ASSUME IInv, NEW p \in Proc,
           \/ UNCHANGED conn
           \/ Refresh(p)
           \/ \E t \in SUBSET SysTables : ChangeSchema(p, t)
    PROVE  fresh' \in [Proc -> BOOLEAN] /\ known' \in [Proc -> SUBSET SysTables]
  <1>0. /\ fresh \in [Proc -> BOOLEAN] /\ known \in [Proc -> SUBSET SysTables]
        /\ sys \in SUBSET SysTables
    BY DEF IInv, TypeOK, DbTypeOK, HeadsTypeOK
  <1>1. CASE UNCHANGED conn
    BY <1>0, <1>1 DEF conn
  <1>2. CASE Refresh(p)
    BY <1>0, <1>2 DEF Refresh
  <1>3. CASE \E t \in SUBSET SysTables : ChangeSchema(p, t)
    BY <1>0, <1>3 DEF ChangeSchema
  <1> QED
    BY <1>1, <1>2, <1>3

(* A step that leaves the database alone, after which p fills nothing. *)
LEMMA QuietStep ==
    ASSUME IInv, TypeOK', NEW p \in Proc, ProcessOK(p)',
           \A q \in Proc \ {p} : SameLocals(q),
           UNCHANGED db,
           pc'[p] \notin {"addEnum", "addElem", "addCfd", "dropCft", "addField"}
    PROVE  IInv'
  <1>1. (\A e \in Enum : ~FillsEnum(p, e)') /\ (\A c \in Cfd : ~FillsCfd(p, c)')
    BY DEF FillsEnum, FillsCfd
  <1>2. CatRowHasCfd' /\ ColumnsDescribed'
    BY DEF IInv, DatabaseOK, CatRowHasCfd, ColumnsDescribed, db
  <1> QED
    BY <1>1, <1>2, FrameStep DEF db

-----------------------------------------------------------------------------
(* Steps that leave the database alone. *)

LEMMA OpenLoaderIInv ==
    ASSUME IInv, NEW p \in Proc, NEW s \in SpecFile, OpenLoader(p, s)
    PROVE  IInv'
  <1> USE DEF OpenLoader, Goto, heads, args, db
  <1>0. ProcTypeOK /\ HeadsTypeOK /\ ProcessOK(p)
    BY DEF IInv, TypeOK
  <1>1. fresh' \in [Proc -> BOOLEAN] /\ known' \in [Proc -> SUBSET SysTables]
    BY ConnTypes
  <1>2. TypeOK'
    BY <1>0, <1>1 DEF IInv, TypeOK, DbTypeOK, ProcTypeOK, HeadsTypeOK, PcValues, LoaderPc
  <1>3. \A q \in Proc \ {p} : SameLocals(q)
    BY <1>0 DEF ProcTypeOK, SameLocals
  <1>4. pc'[p] \in {"start", "readEnums"} /\ cur'[p] = s /\ hCfd'[p] = hCfd[p]
    BY <1>0 DEF ProcTypeOK
  <1>5. ProcessOK(p)'
    BY <1>0, <1>4 DEF ProcessOK, LocalsOK, SysKnown, EnumProgress, CfdProgress,
       EnumsBefore, HeadsArePrefixes, EnumPc, CfdPc, MkPc, RmPc, LoaderPc, EditorPc
  <1> QED
    BY <1>2, <1>3, <1>4, <1>5, QuietStep

LEMMA OpenEditorIInv ==
    ASSUME IInv, NEW p \in Proc, OpenEditor(p)
    PROVE  IInv'
  <1> USE DEF OpenEditor, Goto, args, db
  <1>0. ProcTypeOK /\ HeadsTypeOK /\ ProcessOK(p)
    BY DEF IInv, TypeOK
  <1>1. fresh' \in [Proc -> BOOLEAN] /\ known' \in [Proc -> SUBSET SysTables]
    BY ConnTypes
  <1>2. TypeOK'
    BY <1>0, <1>1 DEF IInv, TypeOK, DbTypeOK, ProcTypeOK, HeadsTypeOK, PcValues
  <1>3. \A q \in Proc \ {p} : SameLocals(q)
    BY <1>0 DEF ProcTypeOK, SameLocals
  <1>4. pc'[p] = "readEnums" /\ hCfd'[p] = hCfd[p]
    BY <1>0 DEF ProcTypeOK
  <1>5. ProcessOK(p)'
    BY <1>0, <1>4 DEF ProcessOK, LocalsOK, SysKnown, EnumProgress, CfdProgress,
       EnumsBefore, HeadsArePrefixes, EnumPc, CfdPc, MkPc, RmPc, LoaderPc, EditorPc
  <1> QED
    BY <1>2, <1>3, <1>4, <1>5, QuietStep

LEMMA DbStartIInv ==
    ASSUME IInv, NEW p \in Proc, DbStart(p)
    PROVE  IInv'
  <1> USE DEF DbStart, Goto, heads, args, db
  <1>0. ProcTypeOK /\ HeadsTypeOK /\ ProcessOK(p)
    BY DEF IInv, TypeOK
  <1>1. fresh' \in [Proc -> BOOLEAN] /\ known' \in [Proc -> SUBSET SysTables]
    BY ConnTypes
  <1>2. TypeOK'
    BY <1>0, <1>1 DEF IInv, TypeOK, DbTypeOK, ProcTypeOK, HeadsTypeOK, PcValues, LoaderPc
  <1>3. \A q \in Proc \ {p} : SameLocals(q)
    BY <1>0 DEF ProcTypeOK, SameLocals
  <1>4. /\ pc'[p] \in {"readEnums", "mkEnumList"} /\ hCfd'[p] = hCfd[p]
        /\ cur'[p] = cur[p] /\ pc[p] = "start"
    BY <1>0 DEF ProcTypeOK
  <1>5. ProcessOK(p)'
    BY <1>0, <1>4 DEF ProcessOK, LocalsOK, SysKnown, EnumProgress, CfdProgress,
       EnumsBefore, HeadsArePrefixes, EnumPc, CfdPc, MkPc, RmPc, LoaderPc, EditorPc
  <1> QED
    BY <1>2, <1>3, <1>4, <1>5, QuietStep

LEMMA ReadEnumsIInv ==
    ASSUME IInv, NEW p \in Proc, ReadEnums(p)
    PROVE  IInv'
  <1> USE DEF ReadEnums, Goto, args, db
  <1>0. DbTypeOK /\ ProcTypeOK /\ HeadsTypeOK /\ ProcessOK(p)
    BY DEF IInv, TypeOK
  <1>1. CASE Exit(p)
    BY <1>1, ExitIInv
  <1>2. CASE /\ Goto(p, "readCfds") /\ Refresh(p)
             /\ hEnum' = [hEnum EXCEPT ![p] =
                   [e \in Enum |-> IF enumRows[e] > 0 THEN endef[e] ELSE None]]
             /\ UNCHANGED <<cur, pos, row, err, hCfd, cut, args>>
    <2>1. fresh' \in [Proc -> BOOLEAN] /\ known' \in [Proc -> SUBSET SysTables]
      BY <1>2, ConnTypes
    <2>2. HeadsTypeOK'
      BY <1>0, <1>2, <2>1 DEF DbTypeOK, HeadsTypeOK
    <2>3. TypeOK'
      BY <1>0, <1>2, <2>2 DEF TypeOK, DbTypeOK, ProcTypeOK, PcValues
    <2>4. \A q \in Proc \ {p} : SameLocals(q)
      BY <1>0, <1>2 DEF ProcTypeOK, SameLocals
    <2>5. pc'[p] = "readCfds" /\ hCfd'[p] = hCfd[p]
      BY <1>0, <1>2 DEF ProcTypeOK
    <2>6. ProcessOK(p)'
      BY <1>0, <2>5 DEF ProcessOK, LocalsOK, SysKnown, EnumProgress, CfdProgress,
         EnumsBefore, HeadsArePrefixes, EnumPc, CfdPc, MkPc, RmPc, LoaderPc, EditorPc
    <2> QED
      BY <2>3, <2>4, <2>5, <2>6, QuietStep
  <1> QED
    BY <1>1, <1>2

(* The list read is a prefix of the database by the reader's own checks; a *)
(* reader that passes them has seen cfd_list, hence all system tables.     *)
LEMMA ReadCfdsIInv ==
    ASSUME IInv, NEW p \in Proc, ReadCfds(p)
    PROVE  IInv'
  <1> USE DEF ReadCfds, Goto, args, db
  <1>0. DbTypeOK /\ ProcTypeOK /\ HeadsTypeOK /\ ProcessOK(p)
    BY DEF IInv, TypeOK
  <1>1. CASE Exit(p)
    BY <1>1, ExitIInv
  <1>2. CASE /\ CfdsReadable(p)
             /\ hCfd' = [hCfd EXCEPT ![p] =
                   [c \in Cfd |-> IF c \in cfdRows THEN cft[c] ELSE None]]
             /\ Goto(p, IF cur[p] = None THEN "readCats" ELSE "parse")
             /\ Refresh(p)
             /\ UNCHANGED <<cur, pos, row, err, hEnum, cut, args>>
    <2>1. fresh' \in [Proc -> BOOLEAN] /\ known' \in [Proc -> SUBSET SysTables]
      BY <1>2, ConnTypes
    <2>2. HeadsTypeOK'
      BY <1>0, <1>2, <2>1 DEF DbTypeOK, HeadsTypeOK
    <2>3. TypeOK'
      BY <1>0, <1>2, <2>2 DEF TypeOK, DbTypeOK, ProcTypeOK, PcValues, LoaderPc, EditorPc
    <2>4. \A q \in Proc \ {p} : SameLocals(q)
      BY <1>0, <1>2 DEF ProcTypeOK, HeadsTypeOK, SameLocals
    <2>5. /\ pc'[p] \in {"readCats", "parse"}
          /\ pc'[p] = "parse" => cur'[p] \in SpecFile
      BY <1>0, <1>2 DEF ProcTypeOK
    <2>6. LocalsOK(p)' /\ SysKnown(p)'
      BY <1>2, <2>5 DEF LocalsOK, SysKnown, EnumPc, CfdPc, MkPc, RmPc,
         LoaderPc, EditorPc, CfdsReadable
    <2>7. EnumProgress(p)' /\ CfdProgress(p)' /\ EnumsBefore(p)'
      BY <2>5 DEF EnumProgress, CfdProgress, EnumsBefore, EnumPc, CfdPc
    <2>8. HeadsArePrefixes(p)'
      <3> SUFFICES ASSUME NEW c \in Cfd, hCfd'[p][c] # None
                   PROVE  /\ c \in cfdRows
                          /\ cft[c].spec = hCfd'[p][c].spec
                          /\ hCfd'[p][c].rows \in 1..cft[c].rows
        BY DEF HeadsArePrefixes
      <3>1. c \in cfdRows /\ hCfd'[p][c] = cft[c]
        BY <1>0, <1>2 DEF HeadsTypeOK
      <3>2. cft[c] \in DefTable /\ cft[c].rows > 0
        BY <1>0, <1>2, <3>1 DEF DbTypeOK, CfdsReadable, CfdReadable
      <3> QED
        BY <3>1, <3>2 DEF DefTable
    <2>9. ProcessOK(p)'
      BY <2>6, <2>7, <2>8 DEF ProcessOK
    <2> QED
      BY <2>3, <2>4, <2>5, <2>9, QuietStep
  <1> QED
    BY <1>1, <1>2

LEMMA ReadyIInv ==
    ASSUME IInv, NEW p \in Proc, Ready(p), pc[p] = "readCats", UNCHANGED db
    PROVE  IInv'
  <1> USE DEF Ready, Goto, args, db
  <1>0. ProcTypeOK /\ HeadsTypeOK /\ ProcessOK(p)
    BY DEF IInv, TypeOK
  <1>1. fresh' \in [Proc -> BOOLEAN] /\ known' \in [Proc -> SUBSET SysTables]
    BY ConnTypes
  <1>2. TypeOK'
    BY <1>0, <1>1 DEF IInv, TypeOK, DbTypeOK, ProcTypeOK, HeadsTypeOK, PcValues, EditorPc
  <1>3. \A q \in Proc \ {p} : SameLocals(q)
    BY <1>0 DEF ProcTypeOK, SameLocals
  <1>4. pc'[p] = "ready" /\ hCfd'[p] = hCfd[p]
    BY <1>0 DEF ProcTypeOK
  <1>5. ProcessOK(p)'
    BY <1>0, <1>4 DEF ProcessOK, LocalsOK, SysKnown, EnumProgress, CfdProgress,
       EnumsBefore, HeadsArePrefixes, EnumPc, CfdPc, MkPc, RmPc, LoaderPc, EditorPc
  <1> QED
    BY <1>2, <1>3, <1>4, <1>5, QuietStep

LEMMA ReadCatsIInv ==
    ASSUME IInv, NEW p \in Proc, ReadCats(p)
    PROVE  IInv'
  BY ReadyIInv, ExitIInv DEF ReadCats

LEMMA MkCatIInv ==
    ASSUME IInv, NEW p \in Proc, NEW k \in Cat, NEW c \in Cfd, MkCat(p, k, c)
    PROVE  IInv'
  <1> USE DEF MkCat, Goto, heads, conn, db
  <1>0. ProcTypeOK /\ HeadsTypeOK /\ ProcessOK(p)
    BY DEF IInv, TypeOK
  <1>2. TypeOK'
    BY <1>0 DEF IInv, TypeOK, DbTypeOK, ProcTypeOK, HeadsTypeOK, PcValues, EditorPc
  <1>3. \A q \in Proc \ {p} : SameLocals(q)
    BY <1>0 DEF ProcTypeOK, SameLocals
  <1>4. /\ pc[p] \in {"ready", "mk"} /\ pc'[p] = "addCat" /\ hCfd'[p] = hCfd[p]
        /\ argCat'[p] = k /\ argCfd'[p] = c /\ hCfd[p][c] # None
    BY <1>0 DEF ProcTypeOK
  <1>5. ProcessOK(p)'
    BY <1>0, <1>4 DEF ProcessOK, LocalsOK, SysKnown, EnumProgress, CfdProgress,
       EnumsBefore, HeadsArePrefixes, EnumPc, CfdPc, MkPc, RmPc, LoaderPc, EditorPc
  <1> QED
    BY <1>2, <1>3, <1>4, <1>5, QuietStep

LEMMA RmCatIInv ==
    ASSUME IInv, NEW p \in Proc, NEW k \in Cat, RmCat(p, k)
    PROVE  IInv'
  <1> USE DEF RmCat, Goto, heads, conn, db
  <1>0. ProcTypeOK /\ HeadsTypeOK /\ ProcessOK(p)
    BY DEF IInv, TypeOK
  <1>2. TypeOK'
    BY <1>0 DEF IInv, TypeOK, DbTypeOK, ProcTypeOK, HeadsTypeOK, PcValues, EditorPc
  <1>3. \A q \in Proc \ {p} : SameLocals(q)
    BY <1>0 DEF ProcTypeOK, SameLocals
  <1>4. /\ pc[p] \in {"ready", "rm"} /\ pc'[p] = "getCfd" /\ hCfd'[p] = hCfd[p]
        /\ argCat'[p] = k
    BY <1>0 DEF ProcTypeOK
  <1>5. ProcessOK(p)'
    BY <1>0, <1>4 DEF ProcessOK, LocalsOK, SysKnown, EnumProgress, CfdProgress,
       EnumsBefore, HeadsArePrefixes, EnumPc, CfdPc, MkPc, RmPc, LoaderPc, EditorPc
  <1> QED
    BY <1>2, <1>3, <1>4, <1>5, QuietStep

-----------------------------------------------------------------------------
(* The commands of fedit.                                                  *)

(* On to the next name. *)
LEMMA NextNameIInv ==
    ASSUME IInv, NEW p \in Proc, NextMk(p) \/ NextRm(p), pc[p] \in EditorPc,
           UNCHANGED <<sys, enumRows, endef, cfdRows, cft>>,
           DbTypeOK', CatRowHasCfd', ColumnsDescribed',
           \/ UNCHANGED conn
           \/ Refresh(p)
           \/ \E t \in SUBSET SysTables : ChangeSchema(p, t)
    PROVE  IInv'
  <1> USE DEF NextMk, NextRm, Goto, heads
  <1>0. ProcTypeOK /\ HeadsTypeOK /\ ProcessOK(p)
    BY DEF IInv, TypeOK
  <1>1. fresh' \in [Proc -> BOOLEAN] /\ known' \in [Proc -> SUBSET SysTables]
    BY ConnTypes
  <1>2. ProcTypeOK' /\ HeadsTypeOK'
    BY <1>0, <1>1 DEF ProcTypeOK, HeadsTypeOK, PcValues, EditorPc
  <1>3. \A q \in Proc \ {p} : SameLocals(q)
    BY <1>0 DEF ProcTypeOK, SameLocals
  <1>4. pc'[p] \in {"mk", "rm"} /\ hCfd'[p] = hCfd[p]
    BY <1>0 DEF ProcTypeOK
  <1>5. ProcessOK(p)'
    BY <1>0, <1>4 DEF ProcessOK, LocalsOK, SysKnown, EnumProgress, CfdProgress,
       EnumsBefore, HeadsArePrefixes, EnumPc, CfdPc, MkPc, RmPc, LoaderPc, EditorPc
  <1>6. (\A e \in Enum : ~FillsEnum(p, e)') /\ (\A c \in Cfd : ~FillsCfd(p, c)')
    BY <1>4 DEF FillsEnum, FillsCfd
  <1> QED
    BY <1>2, <1>3, <1>5, <1>6, FrameStep DEF TypeOK

(* On to the next statement of the same command. *)
LEMMA NextStatementIInv ==
    ASSUME IInv, NEW p \in Proc, NEW l \in MkPc \cup RmPc, Goto(p, l),
           pc[p] \in EditorPc,
           l \in MkPc => pc[p] \in MkPc,
           l \in RmPc => pc[p] \in RmPc,
           UNCHANGED <<sys, enumRows, endef, cfdRows, cft, cur, pos, row,
                       heads, argCat>>,
           argCfd' \in [Proc -> Cfd \cup {None}],
           \A q \in Proc : q # p => argCfd'[q] = argCfd[q],
           l \in MkPc => argCfd' = argCfd,
           DbTypeOK', CatRowHasCfd', ColumnsDescribed',
           \/ UNCHANGED conn
           \/ Refresh(p)
           \/ \E t \in SUBSET SysTables : ChangeSchema(p, t)
    PROVE  IInv'
  <1> USE DEF Goto, heads
  <1>0. ProcTypeOK /\ HeadsTypeOK /\ ProcessOK(p)
    BY DEF IInv, TypeOK
  <1>1. fresh' \in [Proc -> BOOLEAN] /\ known' \in [Proc -> SUBSET SysTables]
    BY ConnTypes
  <1>2. ProcTypeOK' /\ HeadsTypeOK'
    BY <1>0, <1>1 DEF ProcTypeOK, HeadsTypeOK, PcValues, EditorPc, MkPc, RmPc
  <1>3. \A q \in Proc \ {p} : SameLocals(q)
    BY <1>0 DEF ProcTypeOK, SameLocals
  <1>4. pc'[p] = l
    BY <1>0 DEF ProcTypeOK
  <1>5. LocalsOK(p)' /\ SysKnown(p)'
    BY <1>0, <1>4 DEF ProcessOK, LocalsOK, SysKnown, EnumPc, CfdPc, MkPc, RmPc,
       LoaderPc, EditorPc
  <1>6. EnumProgress(p)' /\ CfdProgress(p)' /\ EnumsBefore(p)'
    BY <1>4 DEF EnumProgress, CfdProgress, EnumsBefore, EnumPc, CfdPc, MkPc, RmPc
  <1>7. HeadsArePrefixes(p)'
    BY <1>0 DEF ProcessOK, HeadsArePrefixes
  <1>8. (\A e \in Enum : ~FillsEnum(p, e)') /\ (\A c \in Cfd : ~FillsCfd(p, c)')
    BY <1>4 DEF FillsEnum, FillsCfd, MkPc, RmPc
  <1>9. ProcessOK(p)'
    BY <1>5, <1>6, <1>7 DEF ProcessOK
  <1> QED
    BY <1>2, <1>3, <1>8, <1>9, FrameStep DEF TypeOK

LEMMA AddCatRowIInv ==
    ASSUME IInv, NEW p \in Proc, AddCatRow(p)
    PROVE  IInv'
  <1> USE DEF AddCatRow, args
  <1>0. DbTypeOK /\ ProcTypeOK /\ ProcessOK(p) /\ CatRowHasCfd /\ ColumnsDescribed
    BY DEF IInv, TypeOK, DatabaseOK
  <1>1. argCat[p] \in Cat /\ argCfd[p] \in cfdRows /\ argCfd[p] \in Cfd
    BY <1>0 DEF ProcessOK, LocalsOK, HeadsArePrefixes, MkPc
  <1>2. DbTypeOK'
    BY <1>0, <1>1 DEF DbTypeOK
  <1>3. CatRowHasCfd'
    BY <1>0, <1>1 DEF CatRowHasCfd, DbTypeOK
  <1>4. ColumnsDescribed'
    BY <1>0 DEF ColumnsDescribed
  <1>5. argCfd' \in [Proc -> Cfd \cup {None}]
    BY <1>0 DEF ProcTypeOK
  <1> QED
    BY <1>2, <1>3, <1>4, <1>5, NextStatementIInv DEF MkPc, RmPc, EditorPc

LEMMA IncRefIInv ==
    ASSUME IInv, NEW p \in Proc, IncRef(p)
    PROVE  IInv'
  <1> USE DEF IncRef, args
  <1>0. DbTypeOK /\ ProcTypeOK /\ CatRowHasCfd /\ ColumnsDescribed
    BY DEF IInv, TypeOK, DatabaseOK
  <1>2. DbTypeOK'
    BY <1>0 DEF DbTypeOK
  <1>3. CatRowHasCfd' /\ ColumnsDescribed'
    BY <1>0 DEF CatRowHasCfd, ColumnsDescribed
  <1>4. argCfd' \in [Proc -> Cfd \cup {None}]
    BY <1>0 DEF ProcTypeOK
  <1> QED
    BY <1>2, <1>3, <1>4, NextStatementIInv DEF MkPc, RmPc, EditorPc

(* The columns come from the lists in memory, which are prefixes of what   *)
(* the database holds.                                                     *)
LEMMA CreateCatTableIInv ==
    ASSUME IInv, NEW p \in Proc, CreateCatTable(p)
    PROVE  IInv'
  <1> USE DEF CreateCatTable
  <1>0. /\ DbTypeOK /\ ProcTypeOK /\ HeadsTypeOK /\ ProcessOK(p)
        /\ CatRowHasCfd /\ ColumnsDescribed
    BY DEF IInv, TypeOK, DatabaseOK
  <1> DEFINE c == argCfd[p]
             t == Columns(p, c)
  <1>1. argCat[p] \in Cat /\ c \in Cfd /\ hCfd[p][c] # None
    BY <1>0 DEF ProcessOK, LocalsOK, MkPc
  <1>2. /\ c \in cfdRows /\ cft[c].spec = hCfd[p][c].spec
        /\ hCfd[p][c].rows \in 1..cft[c].rows /\ cft[c] # None
    BY <1>0, <1>1 DEF ProcessOK, HeadsArePrefixes, IInv, DatabaseOK, CfdTables
  <1>3. hCfd[p][c] \in DefTable /\ cut[p] \in BOOLEAN
    BY <1>0, <1>1 DEF HeadsTypeOK
  <1>4. t \in CatTable /\ t.cfd = c /\ t.spec = hCfd[p][c].spec /\ t.fields = hCfd[p][c].rows
    <2>1. {i \in 1..hCfd[p][c].rows :
              Fields[hCfd[p][c].spec][c][i] # None
                /\ HasOther(p, Fields[hCfd[p][c].spec][c][i])} \in SUBSET Nat
      BY <1>3 DEF DefTable
    <2> QED
      BY <1>1, <1>3, <2>1 DEF Columns, CatTable, DefTable
  <1>5. DbTypeOK'
    BY <1>0, <1>1, <1>4 DEF DbTypeOK
  <1>6. CatRowHasCfd'
    BY <1>0 DEF CatRowHasCfd
  <1>7. ColumnsDescribed'
    BY <1>0, <1>1, <1>2, <1>4 DEF ColumnsDescribed, DbTypeOK
  <1>8. Refresh(p) \/ \E s \in SUBSET SysTables : ChangeSchema(p, s)
    BY <1>0 DEF DbTypeOK
  <1> QED
    BY <1>5, <1>6, <1>7, <1>8, NextNameIInv DEF EditorPc

LEMMA GetCfdNameIInv ==
    ASSUME IInv, NEW p \in Proc, GetCfdName(p)
    PROVE  IInv'
  <1> USE DEF GetCfdName, db
  <1>0. DbTypeOK /\ ProcTypeOK /\ ProcessOK(p) /\ CatRowHasCfd /\ ColumnsDescribed
    BY DEF IInv, TypeOK, DatabaseOK
  <1>1. DbTypeOK' /\ CatRowHasCfd' /\ ColumnsDescribed'
    BY <1>0 DEF DbTypeOK, CatRowHasCfd, ColumnsDescribed
  <1>2. CASE Exit(p)
    BY <1>2, ExitIInv
  <1>3. CASE /\ argCfd' = [argCfd EXCEPT ![p] = catRow[argCat[p]]]
             /\ Goto(p, "delCat")
             /\ UNCHANGED <<cur, pos, row, heads, argCat>>
             /\ Refresh(p)
    <2>1. argCat[p] \in Cat
      BY <1>0 DEF ProcessOK, LocalsOK, RmPc
    <2>2. argCfd' \in [Proc -> Cfd \cup {None}]
      BY <1>0, <1>3, <2>1 DEF ProcTypeOK, DbTypeOK
    <2>3. \A q \in Proc : q # p => argCfd'[q] = argCfd[q]
      BY <1>0, <1>3 DEF ProcTypeOK
    <2> QED
      BY <1>1, <1>3, <2>2, <2>3, NextStatementIInv DEF MkPc, RmPc, EditorPc
  <1> QED
    BY <1>2, <1>3

LEMMA DeleteCatRowIInv ==
    ASSUME IInv, NEW p \in Proc, DeleteCatRow(p)
    PROVE  IInv'
  <1> USE DEF DeleteCatRow, args
  <1>0. DbTypeOK /\ ProcTypeOK /\ CatRowHasCfd /\ ColumnsDescribed
    BY DEF IInv, TypeOK, DatabaseOK
  <1>2. DbTypeOK'
    BY <1>0 DEF DbTypeOK
  <1>3. CatRowHasCfd'
    BY <1>0 DEF CatRowHasCfd, DbTypeOK
  <1>4. ColumnsDescribed'
    BY <1>0 DEF ColumnsDescribed
  <1>5. argCfd' \in [Proc -> Cfd \cup {None}]
    BY <1>0 DEF ProcTypeOK
  <1> QED
    BY <1>2, <1>3, <1>4, <1>5, NextStatementIInv DEF MkPc, RmPc, EditorPc

LEMMA DropCatTableIInv ==
    ASSUME IInv, NEW p \in Proc, DropCatTable(p)
    PROVE  IInv'
  <1> USE DEF DropCatTable, args
  <1>0. DbTypeOK /\ ProcTypeOK /\ CatRowHasCfd /\ ColumnsDescribed
    BY DEF IInv, TypeOK, DatabaseOK
  <1>2. DbTypeOK'
    BY <1>0 DEF DbTypeOK
  <1>3. CatRowHasCfd'
    BY <1>0 DEF CatRowHasCfd
  <1>4. ColumnsDescribed'
    BY <1>0 DEF ColumnsDescribed, DbTypeOK
  <1>5. sys \in SUBSET SysTables
    BY <1>0 DEF DbTypeOK
  <1>6. CASE Exit(p) /\ UNCHANGED ctab
    BY <1>6, ExitIInv DEF db
  <1>7. CASE /\ ChangeSchema(p, sys)
             /\ Goto(p, "decRef") /\ UNCHANGED <<cur, pos, row, heads, args>>
    <2>1. argCfd' \in [Proc -> Cfd \cup {None}]
      BY <1>0, <1>7 DEF ProcTypeOK
    <2> QED
      BY <1>2, <1>3, <1>4, <1>5, <1>7, <2>1, NextStatementIInv DEF MkPc, RmPc, EditorPc
  <1> QED
    BY <1>6, <1>7

LEMMA DecRefIInv ==
    ASSUME IInv, NEW p \in Proc, DecRef(p)
    PROVE  IInv'
  <1> USE DEF DecRef
  <1>0. DbTypeOK /\ CatRowHasCfd /\ ColumnsDescribed
    BY DEF IInv, TypeOK, DatabaseOK
  <1>2. DbTypeOK'
    BY <1>0 DEF DbTypeOK
  <1>3. CatRowHasCfd' /\ ColumnsDescribed'
    BY <1>0 DEF CatRowHasCfd, ColumnsDescribed
  <1> QED
    BY <1>2, <1>3, NextNameIInv DEF EditorPc

-----------------------------------------------------------------------------
(* The loader.                                                             *)

(* A step of p that writes to the database, where no other process works.  *)
LEMMA WriteStep ==
    ASSUME IInv, TypeOK', DatabaseOK', NEW p \in Proc, ProcessOK(p)',
           \A q \in Proc \ {p} : SameLocals(q) /\ SameWork(q),
           sys \subseteq sys', EnumsStay, CfdsStay,
           \A e \in Enum : FillsEnum(p, e)' =>
               \A q \in Proc \ {p} : ~FillsEnum(q, e),
           \A c \in Cfd : FillsCfd(p, c)' =>
               \A q \in Proc \ {p} : ~FillsCfd(q, c)
    PROVE  IInv'
  <1>1. \A q \in Proc : ProcessOK(q)'
    BY FrameProcess
  <1>2. ExclusiveDefinition'
    <2>1. ASSUME NEW q \in Proc \ {p}, NEW e \in Enum, FillsEnum(q, e)'
          PROVE  FillsEnum(q, e)
      BY <2>1 DEF SameLocals, FillsEnum, CurEnum
    <2>2. ASSUME NEW q \in Proc \ {p}, NEW c \in Cfd, FillsCfd(q, c)'
          PROVE  FillsCfd(q, c)
      BY <2>2 DEF SameLocals, FillsCfd, CurCfd
    <2>3. \A q, r \in Proc, e \in Enum :
             FillsEnum(q, e)' /\ FillsEnum(r, e)' => q = r
      BY <2>1 DEF IInv, ExclusiveDefinition
    <2>4. \A q, r \in Proc, c \in Cfd :
             FillsCfd(q, c)' /\ FillsCfd(r, c)' => q = r
      BY <2>2 DEF IInv, ExclusiveDefinition
    <2> QED
      BY <2>3, <2>4 DEF ExclusiveDefinition
  <1> QED
    BY <1>1, <1>2 DEF IInv

(* Where the definitions are not touched. *)
LEMMA DefinitionsStay ==
    ASSUME IInv
    PROVE  /\ UNCHANGED <<enumRows, endef>> => EnumsStay
           /\ UNCHANGED <<cfdRows, cft>> => CfdsStay
  <1>1. ASSUME UNCHANGED <<enumRows, endef>> PROVE EnumsStay
    BY <1>1 DEF EnumsStay, EnumComplete
  <1>2. ASSUME UNCHANGED <<cfdRows, cft>>, NEW c \in cfdRows
        PROVE  cft[c] # None /\ cft[c].rows >= cft[c].rows
    <2>1. c \in Cfd /\ cft[c] \in DefTable \cup {None}
      BY DEF IInv, TypeOK, DbTypeOK
    <2> QED
      BY <2>1 DEF IInv, DatabaseOK, CfdTables, DefTable
  <1> QED
    BY <1>1, <1>2 DEF CfdsStay

(* What a step of p with no definition to fill leaves behind. *)
Settled(p) ==
    /\ ProcTypeOK' /\ HeadsTypeOK'
    /\ \A q \in Proc \ {p} : SameLocals(q)
    /\ ProcessOK(p)'
    /\ \A e \in Enum : ~FillsEnum(p, e)'
    /\ \A c \in Cfd : ~FillsCfd(p, c)'

LEMMA ExitSettled ==
    ASSUME IInv, NEW p \in Proc, Exit(p)
    PROVE  Settled(p)
  <1>1. Leave(p) /\ fresh' \in [Proc -> BOOLEAN] /\ known' \in [Proc -> SUBSET SysTables]
    BY DEF Exit, IInv, TypeOK, HeadsTypeOK
  <1> QED
    BY <1>1, LeaveTypes, LeaveProcess DEF Settled

LEMMA CfdLoopSettled ==
    ASSUME IInv, DbTypeOK', CfdsStay, "cfd_list" \in sys',
           NEW p \in Proc, NEW i \in Nat \ {0}, CfdLoop(p, i),
           NEW s \in SpecFile, cur[p] = s,
           \A j \in 1..Len(SpecEnums[s]) : EnumComplete(s, SpecEnums[s][j])'
    PROVE  Settled(p)
  <1> USE DEF CfdLoop
  <1>0. ProcTypeOK /\ HeadsTypeOK
    BY DEF IInv, TypeOK
  <1>1. CASE Exit(p)
    BY <1>1, ExitSettled
  <1>2. CASE /\ i <= Len(SpecCfds[s]) /\ Goto(p, "mkCft")
             /\ pos' = [pos EXCEPT ![p] = i]
             /\ row' = [row EXCEPT ![p] = 1]
             /\ UNCHANGED <<conn, cur, heads, args>>
    <2> USE <1>2 DEF Goto, heads, args, conn
    <2>1. ProcTypeOK' /\ HeadsTypeOK'
      BY <1>0 DEF ProcTypeOK, HeadsTypeOK, PcValues, LoaderPc
    <2>2. \A q \in Proc \ {p} : SameLocals(q)
      BY <1>0 DEF ProcTypeOK, SameLocals
    <2>3. /\ pc'[p] = "mkCft" /\ cur'[p] = s /\ pos'[p] = i /\ row'[p] = 1
          /\ hCfd'[p] = hCfd[p]
      BY <1>0 DEF ProcTypeOK
    <2>4. LocalsOK(p)'
      <3>1. SpecCfds[s][i] \in Cfd /\ i \in 1..Len(SpecCfds[s])
        BY SpecShape
      <3>2. Len(Fields[s][SpecCfds[s][i]]) \in Nat \ {0}
        BY <3>1, SpecShape
      <3> QED
        BY <2>3, <3>1, <3>2 DEF LocalsOK, EnumPc, CfdPc, MkPc, RmPc, CurCfd
    <2>5. SysKnown(p)'
      BY <2>3 DEF SysKnown
    <2>6. EnumProgress(p)' /\ CfdProgress(p)'
      BY <2>3 DEF EnumProgress, CfdProgress
    <2>7. EnumsBefore(p)'
      <3> SUFFICES ASSUME NEW j \in 1..Len(SpecEnums[s])
                   PROVE  EnumComplete(s, SpecEnums[s][j])'
        BY <2>3 DEF EnumsBefore, EnumPc, EnumComplete
      <3> QED
        OBVIOUS
    <2>8. HeadsArePrefixes(p)'
      BY <2>3, HeadsStay
    <2>9. (\A e \in Enum : ~FillsEnum(p, e)') /\ (\A c \in Cfd : ~FillsCfd(p, c)')
      BY <2>3 DEF FillsEnum, FillsCfd
    <2> QED
      BY <2>1, <2>2, <2>4, <2>5, <2>6, <2>7, <2>8, <2>9 DEF Settled, ProcessOK
  <1> QED
    BY <1>1, <1>2

LEMMA EnumLoopSettled ==
    ASSUME IInv, DbTypeOK', CfdsStay, "cfd_list" \in sys',
           NEW p \in Proc, NEW i \in Nat \ {0}, EnumLoop(p, i),
           NEW s \in SpecFile, cur[p] = s,
           \A j \in 1..Len(SpecEnums[s]) :
               j < i => EnumComplete(s, SpecEnums[s][j])'
    PROVE  Settled(p)
  <1> USE DEF EnumLoop
  <1>0. ProcTypeOK /\ HeadsTypeOK
    BY DEF IInv, TypeOK
  <1>1. CASE i > Len(SpecEnums[s]) /\ CfdLoop(p, 1)
    <2>1. \A j \in 1..Len(SpecEnums[s]) : EnumComplete(s, SpecEnums[s][j])'
      BY <1>1, SpecShape
    <2> QED
      BY <1>1, <2>1, CfdLoopSettled
  <1>2. CASE /\ i <= Len(SpecEnums[s]) /\ Goto(p, "mkEndef")
             /\ pos' = [pos EXCEPT ![p] = i]
             /\ row' = [row EXCEPT ![p] = 1]
             /\ UNCHANGED <<conn, cur, heads, args>>
    <2> USE <1>2 DEF Goto, heads, args, conn
    <2>1. ProcTypeOK' /\ HeadsTypeOK'
      BY <1>0 DEF ProcTypeOK, HeadsTypeOK, PcValues, LoaderPc
    <2>2. \A q \in Proc \ {p} : SameLocals(q)
      BY <1>0 DEF ProcTypeOK, SameLocals
    <2>3. /\ pc'[p] = "mkEndef" /\ cur'[p] = s /\ pos'[p] = i /\ row'[p] = 1
          /\ hCfd'[p] = hCfd[p]
      BY <1>0 DEF ProcTypeOK
    <2>4. LocalsOK(p)'
      <3>1. SpecEnums[s][i] \in Enum /\ i \in 1..Len(SpecEnums[s])
        BY SpecShape
      <3>2. Len(Elems[s][SpecEnums[s][i]]) \in Nat \ {0}
        BY <3>1, SpecShape
      <3> QED
        BY <2>3, <3>1, <3>2 DEF LocalsOK, EnumPc, CfdPc, MkPc, RmPc, CurEnum
    <2>5. SysKnown(p)'
      BY <2>3 DEF SysKnown
    <2>6. EnumProgress(p)' /\ CfdProgress(p)'
      BY <2>3 DEF EnumProgress, CfdProgress
    <2>7. EnumsBefore(p)'
      <3> SUFFICES ASSUME NEW j \in 1..(i - 1)
                   PROVE  EnumComplete(s, SpecEnums[s][j])'
        BY <2>3 DEF EnumsBefore, CfdPc, EnumComplete
      <3>1. j \in 1..Len(SpecEnums[s]) /\ j < i
        BY SpecShape
      <3> QED
        BY <3>1
    <2>8. HeadsArePrefixes(p)'
      BY <2>3, HeadsStay
    <2>9. (\A e \in Enum : ~FillsEnum(p, e)') /\ (\A c \in Cfd : ~FillsCfd(p, c)')
      BY <2>3 DEF FillsEnum, FillsCfd
    <2> QED
      BY <2>1, <2>2, <2>4, <2>5, <2>6, <2>7, <2>8, <2>9 DEF Settled, ProcessOK
  <1> QED
    BY <1>1, <1>2

LEMMA ParseIInv ==
    ASSUME IInv, NEW p \in Proc, Parse(p)
    PROVE  IInv'
  <1> USE DEF Parse, db
  <1>1. CASE Exit(p)
    BY <1>1, ExitIInv
  <1>2. CASE EnumLoop(p, 1)
    <2>1. cur[p] \in SpecFile /\ "cfd_list" \in sys /\ DbTypeOK
      BY DEF IInv, TypeOK, ProcessOK, LocalsOK, SysKnown, LoaderPc
    <2>2. DbTypeOK'
      BY <2>1 DEF DbTypeOK
    <2>3. Settled(p)
      BY <1>2, <2>1, <2>2, DefinitionsStay, EnumLoopSettled
    <2>4. CatRowHasCfd' /\ ColumnsDescribed'
      BY DEF IInv, DatabaseOK, CatRowHasCfd, ColumnsDescribed
    <2> QED
      BY <2>2, <2>3, <2>4, FrameStep DEF Settled, TypeOK
  <1> QED
    BY <1>1, <1>2

LEMMA CreateSysIInv ==
    ASSUME IInv, NEW p \in Proc, InitDbTables(p)
    PROVE  IInv'
  <1> USE DEF heads, args
  <1>0. DbTypeOK /\ ProcTypeOK /\ HeadsTypeOK /\ ProcessOK(p) /\ DatabaseOK
    BY DEF IInv, TypeOK
  <1>1. PICK here \in {"mkEnumList", "mkCatList", "mkCfdList"},
             table \in SysTables,
             next \in {"mkCatList", "mkCfdList", "readEnums"} :
          /\ CreateSys(p, here, table, next)
          /\ \/ table = "enum_list" /\ next = "mkCatList"
             \/ here = "mkCatList" /\ table = "cat_list" /\ next = "mkCfdList"
             \/ here = "mkCfdList" /\ table = "cfd_list" /\ next = "readEnums"
    BY DEF InitDbTables, SysTables
  <1>2. CASE Exit(p) /\ UNCHANGED sys
    BY <1>1, <1>2, ExitIInv DEF CreateSys, db
  <1>3. CASE /\ sys' = sys \cup {table}
             /\ ChangeSchema(p, sys \cup {table})
             /\ Goto(p, next)
             /\ UNCHANGED <<cur, pos, row, heads, args>>
    <2> USE <1>1, <1>3 DEF CreateSys, Goto
    <2>1. fresh' \in [Proc -> BOOLEAN] /\ known' \in [Proc -> SUBSET SysTables]
      <3>1. sys \cup {table} \in SUBSET SysTables
        BY <1>0 DEF DbTypeOK
      <3> QED
        BY <3>1, ConnTypes
    <2>2. DbTypeOK'
      BY <1>0 DEF DbTypeOK
    <2>3. ProcTypeOK' /\ HeadsTypeOK'
      BY <1>0, <2>1 DEF ProcTypeOK, HeadsTypeOK, PcValues, LoaderPc
    <2>4. pc[p] = here /\ pc'[p] = next /\ cur'[p] = cur[p] /\ hCfd'[p] = hCfd[p]
      BY <1>0 DEF ProcTypeOK
    <2>5. cur[p] \in SpecFile
      BY <1>0, <2>4 DEF ProcessOK, LocalsOK, LoaderPc
    <2>6. SysInOrder'
      BY <1>0, <2>4 DEF DatabaseOK, SysInOrder, ProcessOK, SysKnown
    <2>7. DatabaseOK'
      BY <1>0, <2>6 DEF DatabaseOK, EnumTables, CfdTables, EnumComplete,
         CatRowHasCfd, ColumnsDescribed
    <2>8. \A q \in Proc \ {p} : SameLocals(q) /\ SameWork(q)
      BY <1>0 DEF ProcTypeOK, SameLocals, SameWork
    <2>9. LocalsOK(p)' /\ SysKnown(p)' /\ EnumProgress(p)' /\ CfdProgress(p)'
            /\ EnumsBefore(p)'
      BY <2>4, <2>5 DEF LocalsOK, SysKnown, EnumProgress, CfdProgress,
         EnumsBefore, EnumPc, CfdPc, MkPc, RmPc, LoaderPc, EditorPc
    <2>10. ProcessOK(p)'
      BY <2>2, <2>4, <2>9, DefinitionsStay, HeadsStay DEF ProcessOK
    <2>11. (\A e \in Enum : ~FillsEnum(p, e)') /\ (\A c \in Cfd : ~FillsCfd(p, c)')
      BY <2>4 DEF FillsEnum, FillsCfd
    <2> QED
      BY <2>2, <2>3, <2>7, <2>8, <2>10, <2>11, DefinitionsStay, WriteStep DEF TypeOK
  <1> QED
    BY <1>1, <1>2, <1>3 DEF CreateSys

(* A step on one enumeration that was not complete. *)
LEMMA EnumStep ==
    ASSUME IInv, NEW p \in Proc, NEW e0 \in Enum,
           \A q \in Proc \ {p} : ~FillsEnum(q, e0),
           \A s \in SpecFile : ~EnumComplete(s, e0),
           \A e \in Enum \ {e0} : enumRows'[e] = enumRows[e] /\ endef'[e] = endef[e],
           enumRows'[e0] > 0 => endef'[e0] # None,
           enumRows'[e0] \in 0..1,
           DbTypeOK',
           UNCHANGED <<sys, cfdRows, refcount, cft, catRow, ctab>>
    PROVE  /\ EnumsStay /\ CfdsStay /\ DatabaseOK'
           /\ \A q \in Proc \ {p} : SameWork(q)
  <1>0. DatabaseOK /\ DbTypeOK
    BY DEF IInv, TypeOK
  <1>1. EnumsStay
    BY DEF EnumsStay, EnumComplete
  <1>2. ASSUME NEW q \in Proc \ {p} PROVE SameWork(q)
    <2>1. pc[q] \in {"addEnum", "addElem"} => CurEnum(q) \in Enum \ {e0}
      BY CurInRange DEF IInv, ProcessOK, EnumPc, FillsEnum
    <2> QED
      BY <2>1 DEF SameWork
  <1>3. EnumTables'
    BY <1>0 DEF DatabaseOK, EnumTables, DbTypeOK
  <1>4. CfdTables'
    <2> SUFFICES ASSUME NEW c \in Cfd, cft[c] # None,
                        NEW i \in 1..Len(SpecEnums[cft[c].spec])
                 PROVE  EnumComplete(cft[c].spec, SpecEnums[cft[c].spec][i])'
      BY <1>0 DEF DatabaseOK, CfdTables
    <2>1. cft[c].spec \in SpecFile
      BY <1>0 DEF DbTypeOK, DefTable
    <2>2. SpecEnums[cft[c].spec][i] \in Enum
      BY <2>1, SpecShape
    <2>3. EnumComplete(cft[c].spec, SpecEnums[cft[c].spec][i])
      BY <1>0 DEF DatabaseOK, CfdTables
    <2> QED
      BY <1>1, <2>1, <2>2, <2>3 DEF EnumsStay, EnumComplete
  <1>5. SysInOrder' /\ CatRowHasCfd' /\ ColumnsDescribed'
    BY <1>0 DEF DatabaseOK, SysInOrder, CatRowHasCfd, ColumnsDescribed
  <1> QED
    BY <1>1, <1>2, <1>3, <1>4, <1>5, DefinitionsStay DEF DatabaseOK

(* Only one process fills an enumeration. *)
LEMMA EnumWriter ==
    ASSUME IInv, NEW p \in Proc, pc[p] \in EnumPc
    PROVE  /\ CurEnum(p) \in Enum /\ cur[p] \in SpecFile
           /\ pos[p] \in 1..Len(SpecEnums[cur[p]])
           /\ row[p] \in 1..Len(Elems[cur[p]][CurEnum(p)])
           /\ Len(Elems[cur[p]][CurEnum(p)]) \in Nat
           /\ "cfd_list" \in sys
           /\ pc[p] # "mkEndef" => \A q \in Proc \ {p} : ~FillsEnum(q, CurEnum(p))
  <1>1. ProcessOK(p) /\ LocalsOK(p) /\ SysKnown(p)
    BY DEF IInv, ProcessOK
  <1>2. CurEnum(p) \in Enum /\ cur[p] \in SpecFile
    BY <1>1, CurInRange
  <1>3. pc[p] # "mkEndef" => FillsEnum(p, CurEnum(p))
    BY DEF FillsEnum, EnumPc
  <1> QED
    BY <1>1, <1>2, <1>3, SpecShape DEF LocalsOK, SysKnown, IInv, ExclusiveDefinition

LEMMA CreateEndefIInv ==
    ASSUME IInv, NEW p \in Proc, CreateEndef(p)
    PROVE  IInv'
  <1> USE DEF CreateEndef
  <1>0. DbTypeOK /\ ProcTypeOK /\ HeadsTypeOK /\ ProcessOK(p)
    BY DEF IInv, TypeOK
  <1>1. CASE Exit(p) /\ UNCHANGED endef
    BY <1>1, ExitIInv DEF db
  <1>2. CASE /\ endef[CurEnum(p)] = None
             /\ endef' = [endef EXCEPT ![CurEnum(p)] = [spec |-> cur[p], rows |-> 0]]
             /\ ChangeSchema(p, sys)
             /\ Goto(p, "addEnum")
             /\ UNCHANGED <<cur, pos, row, heads, args>>
    <2> USE <1>2 DEF Goto, heads, args
    <2> DEFINE e0 == CurEnum(p)
    <2>1. e0 \in Enum /\ cur[p] \in SpecFile
      BY EnumWriter DEF EnumPc
    <2>2. \A q \in Proc : ~FillsEnum(q, e0)
      BY DEF IInv, ProcessOK, EnumProgress, FillsEnum
    <2>3. enumRows[e0] = 0
      BY <1>0, <2>1 DEF IInv, DatabaseOK, EnumTables, DbTypeOK
    <2>4. DbTypeOK'
      BY <1>0, <2>1 DEF DbTypeOK, DefTable
    <2>5. fresh' \in [Proc -> BOOLEAN] /\ known' \in [Proc -> SUBSET SysTables]
      BY <1>0, ConnTypes DEF DbTypeOK
    <2>6. ProcTypeOK' /\ HeadsTypeOK'
      BY <1>0, <2>5 DEF ProcTypeOK, HeadsTypeOK, PcValues, LoaderPc
    <2>7. /\ EnumsStay /\ CfdsStay /\ DatabaseOK'
          /\ \A q \in Proc \ {p} : SameWork(q)
      <3>1. /\ \A s \in SpecFile : ~EnumComplete(s, e0)
            /\ \A e \in Enum \ {e0} : endef'[e] = endef[e]
            /\ enumRows'[e0] = 0
        BY <1>0, <2>3 DEF EnumComplete, DbTypeOK
      <3> HIDE DEF e0
      <3> QED
        BY <2>1, <2>2, <2>4, <3>1, EnumStep
    <2>8. \A q \in Proc \ {p} : SameLocals(q)
      BY <1>0 DEF ProcTypeOK, SameLocals
    <2>9. /\ pc'[p] = "addEnum" /\ cur'[p] = cur[p] /\ pos'[p] = pos[p]
          /\ row'[p] = row[p] /\ hCfd'[p] = hCfd[p] /\ CurEnum(p)' = e0
          /\ endef'[e0] = [spec |-> cur[p], rows |-> 0] /\ enumRows'[e0] = 0
      BY <1>0, <2>1, <2>3 DEF ProcTypeOK, CurEnum, DbTypeOK
    <2>10. LocalsOK(p)' /\ SysKnown(p)'
      BY <1>0, <2>9 DEF ProcessOK, LocalsOK, SysKnown, EnumPc, CfdPc, MkPc,
         RmPc, LoaderPc, EditorPc
    <2>11. EnumProgress(p)' /\ CfdProgress(p)'
      <3>1. endef'[e0] # None
        BY <1>0, <2>1, <2>9, SchemaConstants DEF DbTypeOK
      <3>2. row[p] = 1
        BY <1>0 DEF ProcessOK, EnumsBefore, EnumPc
      <3> QED
        BY <2>9, <3>1, <3>2 DEF EnumProgress, CfdProgress
    <2>12. EnumsBefore(p)'
      <3> SUFFICES ASSUME NEW i \in 1..(pos[p] - 1)
                   PROVE  row[p] = 1 /\ EnumComplete(cur[p], SpecEnums[cur[p]][i])'
        BY <2>9, <1>0 DEF EnumsBefore, EnumPc, CfdPc, ProcessOK
      <3>1. EnumComplete(cur[p], SpecEnums[cur[p]][i]) /\ row[p] = 1
        BY <1>0 DEF ProcessOK, EnumsBefore, EnumPc
      <3>2. SpecEnums[cur[p]][i] \in Enum
        BY <2>1, EnumWriter, SpecShape DEF EnumPc
      <3> QED
        BY <2>1, <2>7, <2>9, <3>1, <3>2 DEF EnumsStay, EnumComplete
    <2>13. HeadsArePrefixes(p)'
      BY <2>4, <2>7, <2>9, HeadsStay
    <2>14. ProcessOK(p)'
      BY <2>10, <2>11, <2>12, <2>13 DEF ProcessOK
    <2>15. /\ \A e \in Enum : FillsEnum(p, e)' => e = e0
           /\ \A c \in Cfd : ~FillsCfd(p, c)'
      BY <2>9 DEF FillsEnum, FillsCfd
    <2> QED
      BY <2>2, <2>4, <2>6, <2>7, <2>8, <2>14, <2>15, WriteStep DEF TypeOK
  <1> QED
    BY <1>1, <1>2

LEMMA AddEnumRowIInv ==
    ASSUME IInv, NEW p \in Proc, AddEnumRow(p)
    PROVE  IInv'
  <1> USE DEF AddEnumRow, Goto, heads, args
  <1>0. DbTypeOK /\ ProcTypeOK /\ HeadsTypeOK /\ ProcessOK(p)
    BY DEF IInv, TypeOK
  <1> DEFINE e0 == CurEnum(p)
  <1>1. /\ e0 \in Enum /\ cur[p] \in SpecFile
        /\ \A q \in Proc \ {p} : ~FillsEnum(q, e0)
    BY EnumWriter DEF EnumPc
  <1>2. /\ enumRows[e0] = 0 /\ endef[e0] # None /\ endef[e0].spec = cur[p]
        /\ endef[e0].rows = 0 /\ row[p] = 1
    BY <1>0 DEF ProcessOK, EnumProgress
  <1>3. DbTypeOK' /\ enumRows'[e0] = 1
    BY <1>0, <1>1, <1>2 DEF DbTypeOK
  <1>4. fresh' \in [Proc -> BOOLEAN] /\ known' \in [Proc -> SUBSET SysTables]
    BY ConnTypes
  <1>5. ProcTypeOK' /\ HeadsTypeOK'
    BY <1>0, <1>4 DEF ProcTypeOK, HeadsTypeOK, PcValues, LoaderPc
  <1>6. /\ EnumsStay /\ CfdsStay /\ DatabaseOK'
        /\ \A q \in Proc \ {p} : SameWork(q)
    <2>1. /\ \A s \in SpecFile : ~EnumComplete(s, e0)
          /\ \A e \in Enum \ {e0} : enumRows'[e] = enumRows[e]
          /\ enumRows'[e0] \in 0..1
      BY <1>0, <1>2, <1>3 DEF EnumComplete, DbTypeOK
    <2> HIDE DEF e0
    <2> QED
      BY <1>1, <1>2, <1>3, <2>1, EnumStep
  <1>7. \A q \in Proc \ {p} : SameLocals(q)
    BY <1>0 DEF ProcTypeOK, SameLocals
  <1>8. /\ pc'[p] = "addElem" /\ cur'[p] = cur[p] /\ pos'[p] = pos[p]
        /\ row'[p] = row[p] /\ hCfd'[p] = hCfd[p] /\ CurEnum(p)' = e0
    BY <1>0 DEF ProcTypeOK, CurEnum
  <1>9. LocalsOK(p)' /\ SysKnown(p)'
    BY <1>0, <1>8 DEF ProcessOK, LocalsOK, SysKnown, EnumPc, CfdPc, MkPc,
       RmPc, LoaderPc, EditorPc
  <1>10. EnumProgress(p)' /\ CfdProgress(p)'
    BY <1>2, <1>3, <1>8 DEF EnumProgress, CfdProgress
  <1>11. EnumsBefore(p)'
    <2> SUFFICES ASSUME NEW i \in 1..(pos[p] - 1)
                 PROVE  EnumComplete(cur[p], SpecEnums[cur[p]][i])'
      BY <1>8, <1>0 DEF EnumsBefore, EnumPc, CfdPc, ProcessOK
    <2>1. EnumComplete(cur[p], SpecEnums[cur[p]][i])
      BY <1>0 DEF ProcessOK, EnumsBefore, EnumPc
    <2>2. SpecEnums[cur[p]][i] \in Enum
      BY <1>1, EnumWriter, SpecShape DEF EnumPc
    <2> QED
      BY <1>1, <1>6, <1>8, <2>1, <2>2 DEF EnumsStay, EnumComplete
  <1>12. HeadsArePrefixes(p)'
    BY <1>3, <1>6, <1>8, HeadsStay
  <1>13. ProcessOK(p)'
    BY <1>9, <1>10, <1>11, <1>12 DEF ProcessOK
  <1>14. /\ \A e \in Enum : FillsEnum(p, e)' => e = e0
         /\ \A c \in Cfd : ~FillsCfd(p, c)'
    BY <1>8 DEF FillsEnum, FillsCfd
  <1> QED
    BY <1>1, <1>3, <1>5, <1>6, <1>7, <1>13, <1>14, WriteStep DEF TypeOK

(* After the last element of an enumeration it is complete, and so are     *)
(* those before it: CFDs are written on top of all of them.                *)
LEMMA AddElemIInv ==
    ASSUME IInv, NEW p \in Proc, AddElem(p)
    PROVE  IInv'
  <1> USE DEF AddElem
  <1>0. DbTypeOK /\ ProcTypeOK /\ HeadsTypeOK /\ ProcessOK(p)
    BY DEF IInv, TypeOK
  <1>1. CASE Exit(p) /\ UNCHANGED endef
    BY <1>1, ExitIInv DEF db
  <1>2. CASE /\ endef' = [endef EXCEPT ![CurEnum(p)].rows = @ + 1]
             /\ \/ /\ row[p] < Len(Elems[cur[p]][CurEnum(p)])
                   /\ row' = [row EXCEPT ![p] = @ + 1]
                   /\ UNCHANGED <<conn, pc, cur, pos, heads, args>>
                \/ /\ row[p] >= Len(Elems[cur[p]][CurEnum(p)])
                   /\ EnumLoop(p, pos[p] + 1)
    <2> DEFINE e0 == CurEnum(p)
               s0 == cur[p]
    <2>1. /\ e0 \in Enum /\ s0 \in SpecFile /\ "cfd_list" \in sys
          /\ row[p] \in 1..Len(Elems[s0][e0]) /\ Len(Elems[s0][e0]) \in Nat
          /\ pos[p] \in 1..Len(SpecEnums[s0])
          /\ \A q \in Proc \ {p} : ~FillsEnum(q, e0)
      BY EnumWriter DEF EnumPc
    <2>2. /\ enumRows[e0] = 1 /\ endef[e0] # None /\ endef[e0].spec = s0
          /\ endef[e0].rows = row[p] - 1
      BY <1>0 DEF ProcessOK, EnumProgress
    <2>3. /\ endef[e0] \in DefTable
          /\ endef'[e0] = [endef[e0] EXCEPT !.rows = @ + 1]
      BY <1>0, <1>2, <2>1, <2>2 DEF DbTypeOK
    <2>4. /\ endef'[e0] \in DefTable /\ endef'[e0] # None
          /\ endef'[e0].spec = s0 /\ endef'[e0].rows = row[p]
      BY <2>1, <2>2, <2>3, SchemaConstants DEF DefTable
    <2>5. DbTypeOK'
      <3>1. endef' \in [Enum -> DefTable \cup {None}]
        BY <1>0, <1>2, <2>1, <2>4 DEF DbTypeOK
      <3> QED
        BY <1>0, <3>1 DEF DbTypeOK
    <2>6. /\ EnumsStay /\ CfdsStay /\ DatabaseOK'
          /\ \A q \in Proc \ {p} : SameWork(q)
      <3>1. \A e \in Enum \ {e0} : endef'[e] = endef[e]
        BY <1>0, <1>2, <2>1 DEF DbTypeOK
      <3>2. \A s \in SpecFile : ~EnumComplete(s, e0)
        BY <2>1, <2>2 DEF EnumComplete
      <3>3. enumRows'[e0] = 1
        BY <2>2
      <3> HIDE DEF e0
      <3> QED
        BY <2>1, <2>4, <2>5, <3>1, <3>2, <3>3, EnumStep
    <2>7. \A i \in 1..(pos[p] - 1) : EnumComplete(s0, SpecEnums[s0][i])
      BY <1>0 DEF ProcessOK, EnumsBefore, EnumPc
    <2>8. ASSUME NEW s \in SpecFile, s = s0, NEW i \in 1..(pos[p] - 1)
          PROVE  EnumComplete(s, SpecEnums[s][i])'
      <3>1. SpecEnums[s][i] \in Enum
        BY <2>1, <2>8, SpecShape
      <3> QED
        BY <2>6, <2>7, <2>8, <3>1 DEF EnumsStay
    <2>9. CASE /\ row[p] < Len(Elems[s0][e0])
               /\ row' = [row EXCEPT ![p] = @ + 1]
               /\ UNCHANGED <<conn, pc, cur, pos, heads, args>>
      <3> USE DEF heads, args, conn
      <3>1. ProcTypeOK' /\ HeadsTypeOK'
        BY <1>0, <2>9 DEF ProcTypeOK, HeadsTypeOK
      <3>2. \A q \in Proc \ {p} : SameLocals(q)
        BY <1>0, <2>9 DEF ProcTypeOK, SameLocals
      <3>3. /\ pc'[p] = "addElem" /\ row'[p] = row[p] + 1 /\ CurEnum(p)' = e0
            /\ cur'[p] = cur[p] /\ pos'[p] = pos[p] /\ hCfd'[p] = hCfd[p]
        BY <1>0, <2>9 DEF ProcTypeOK, CurEnum
      <3>4. LocalsOK(p)' /\ SysKnown(p)'
        BY <1>0, <2>1, <2>9, <3>3 DEF ProcessOK, LocalsOK, SysKnown, EnumPc, CfdPc,
           MkPc, RmPc, LoaderPc, EditorPc
      <3>5. EnumProgress(p)' /\ CfdProgress(p)'
        BY <2>1, <2>2, <2>4, <3>3 DEF EnumProgress, CfdProgress
      <3>6. EnumsBefore(p)'
        <4> SUFFICES ASSUME NEW s \in SpecFile, s = s0, NEW i \in 1..(pos[p] - 1)
                     PROVE  EnumComplete(s, SpecEnums[s][i])'
          BY <2>1, <3>3 DEF EnumsBefore, EnumPc, CfdPc, EnumComplete
        <4> QED
          BY <2>8
      <3>7. HeadsArePrefixes(p)'
        BY <2>5, <2>6, <3>3, HeadsStay
      <3>8. ProcessOK(p)'
        BY <3>4, <3>5, <3>6, <3>7 DEF ProcessOK
      <3>9. /\ \A e \in Enum : FillsEnum(p, e)' => e = e0
            /\ \A c \in Cfd : ~FillsCfd(p, c)'
        BY <3>3 DEF FillsEnum, FillsCfd
      <3> QED
        BY <2>1, <2>5, <2>6, <3>1, <3>2, <3>8, <3>9, WriteStep DEF TypeOK
    <2>10. CASE row[p] >= Len(Elems[s0][e0]) /\ EnumLoop(p, pos[p] + 1)
      <3>2. ASSUME NEW s \in SpecFile, s = s0, NEW j \in 1..Len(SpecEnums[s]),
                   j < pos[p] + 1
            PROVE  EnumComplete(s, SpecEnums[s][j])'
        <4>1. CASE j < pos[p]
          BY <2>1, <2>8, <3>2, <4>1
        <4>2. CASE j = pos[p]
          <5>1. SpecEnums[s][j] = e0
            BY <3>2, <4>2 DEF CurEnum
          <5>2. enumRows'[e0] = 1 /\ endef'[e0].rows = Len(Elems[s][e0])
            BY <2>1, <2>2, <2>4, <2>10, <3>2
          <5> QED
            BY <2>4, <3>2, <5>1, <5>2 DEF EnumComplete
        <4> QED
          BY <2>1, <3>2, <4>1, <4>2
      <3>3. Settled(p)
        BY <2>1, <2>5, <2>6, <2>10, <3>2, EnumLoopSettled
      <3> QED
        BY <2>5, <2>6, <3>3, WriteStep DEF Settled, TypeOK
    <2> QED
      BY <1>2, <2>9, <2>10
  <1> QED
    BY <1>1, <1>2

(* A step on one CFD that is not listed, or that gains a row. *)
LEMMA CfdStep ==
    ASSUME IInv, NEW p \in Proc, NEW c0 \in Cfd,
           \A q \in Proc \ {p} : ~FillsCfd(q, c0),
           \A c \in Cfd \ {c0} : /\ cft'[c] = cft[c]
                                 /\ c \in cfdRows' <=> c \in cfdRows,
           c0 \in cfdRows => /\ c0 \in cfdRows'
                             /\ cft'[c0].spec = cft[c0].spec
                             /\ cft'[c0].rows >= cft[c0].rows,
           c0 \in cfdRows' => cft'[c0] # None,
           cft'[c0] # None =>
               /\ cft'[c0].rows \in 0..Len(Fields[cft'[c0].spec][c0])
               /\ \A i \in 1..Len(SpecEnums[cft'[c0].spec]) :
                     EnumComplete(cft'[c0].spec, SpecEnums[cft'[c0].spec][i]),
           DbTypeOK',
           UNCHANGED <<sys, enumRows, endef, catRow, ctab>>
    PROVE  /\ EnumsStay /\ CfdsStay /\ DatabaseOK'
           /\ \A q \in Proc \ {p} : SameWork(q)
  <1>0. DatabaseOK /\ DbTypeOK
    BY DEF IInv, TypeOK
  <1>1. CfdsStay
    <2> SUFFICES ASSUME NEW c \in cfdRows
                 PROVE  /\ c \in cfdRows' /\ cft'[c] # None
                        /\ cft'[c].spec = cft[c].spec /\ cft'[c].rows >= cft[c].rows
      BY DEF CfdsStay
    <2>1. CASE c = c0
      BY <2>1
    <2>2. CASE c # c0
      <3>1. c \in Cfd /\ cft[c] \in DefTable /\ cft[c] # None
        BY <1>0 DEF DbTypeOK, DatabaseOK, CfdTables
      <3> QED
        BY <2>2, <3>1 DEF DefTable
    <2> QED
      BY <2>1, <2>2
  <1>2. ASSUME NEW q \in Proc \ {p} PROVE SameWork(q)
    <2>1. pc[q] \in {"addCfd", "dropCft", "addField"} => CurCfd(q) \in Cfd \ {c0}
      BY CurInRange DEF IInv, ProcessOK, CfdPc, FillsCfd
    <2> QED
      BY <2>1 DEF SameWork
  <1>3. CfdTables'
    <2>1. ASSUME NEW c \in cfdRows' PROVE cft'[c] # None
      <3>1. c \in Cfd
        BY DEF DbTypeOK
      <3> QED
        BY <1>0, <3>1 DEF DatabaseOK, CfdTables
    <2>2. ASSUME NEW c \in Cfd, cft'[c] # None
          PROVE  /\ cft'[c].rows \in 0..Len(Fields[cft'[c].spec][c])
                 /\ \A i \in 1..Len(SpecEnums[cft'[c].spec]) :
                       EnumComplete(cft'[c].spec, SpecEnums[cft'[c].spec][i])
      BY <1>0, <2>2 DEF DatabaseOK, CfdTables
    <2> QED
      BY <2>1, <2>2 DEF CfdTables, EnumComplete
  <1>4. CatRowHasCfd'
    BY <1>0, <1>1 DEF DatabaseOK, CatRowHasCfd, CfdsStay
  <1>5. ColumnsDescribed'
    <2> SUFFICES ASSUME NEW k \in Cat, ctab[k] # None
                 PROVE  /\ ctab[k].cfd \in cfdRows' /\ cft'[ctab[k].cfd] # None
                        /\ cft'[ctab[k].cfd].spec = ctab[k].spec
                        /\ ctab[k].fields \in 1..cft'[ctab[k].cfd].rows
      BY DEF ColumnsDescribed
    <2>1. /\ ctab[k].cfd \in cfdRows
          /\ cft[ctab[k].cfd].spec = ctab[k].spec
          /\ ctab[k].fields \in 1..cft[ctab[k].cfd].rows
      BY <1>0 DEF DatabaseOK, ColumnsDescribed
    <2>2. cft[ctab[k].cfd] \in DefTable /\ cft'[ctab[k].cfd] \in DefTable
      BY <1>0, <1>1, <2>1 DEF DbTypeOK, DatabaseOK, CfdTables, CfdsStay
    <2> QED
      BY <1>1, <2>1, <2>2 DEF CfdsStay, DefTable
  <1>6. SysInOrder' /\ EnumTables'
    BY <1>0 DEF DatabaseOK, SysInOrder, EnumTables
  <1> QED
    BY <1>1, <1>2, <1>3, <1>4, <1>5, <1>6, DefinitionsStay DEF DatabaseOK

(* Only one process fills a CFD. *)
LEMMA CfdWriter ==
    ASSUME IInv, NEW p \in Proc, pc[p] \in CfdPc
    PROVE  /\ CurCfd(p) \in Cfd /\ cur[p] \in SpecFile
           /\ pos[p] \in 1..Len(SpecCfds[cur[p]])
           /\ row[p] \in 1..Len(Fields[cur[p]][CurCfd(p)])
           /\ Len(Fields[cur[p]][CurCfd(p)]) \in Nat \ {0}
           /\ "cfd_list" \in sys
           /\ \A i \in 1..Len(SpecEnums[cur[p]]) :
                 EnumComplete(cur[p], SpecEnums[cur[p]][i])
           /\ pc[p] # "mkCft" => \A q \in Proc \ {p} : ~FillsCfd(q, CurCfd(p))
  <1>1. ProcessOK(p) /\ LocalsOK(p) /\ SysKnown(p) /\ EnumsBefore(p)
    BY DEF IInv, ProcessOK
  <1>2. CurCfd(p) \in Cfd /\ cur[p] \in SpecFile
    BY <1>1, CurInRange
  <1>3. pc[p] # "mkCft" => FillsCfd(p, CurCfd(p))
    BY DEF FillsCfd, CfdPc
  <1> QED
    BY <1>1, <1>2, <1>3, SpecShape
       DEF LocalsOK, SysKnown, EnumsBefore, IInv, ExclusiveDefinition

(* The step before leaves p on the same CFD, at l. *)
LEMMA CfdMoves ==
    ASSUME IInv, NEW p \in Proc, pc[p] \in CfdPc, NEW l \in CfdPc, pc' = [pc EXCEPT ![p] = l],
           UNCHANGED <<sys, enumRows, endef, cur, pos, hCfd, argCat, argCfd>>,
           row' \in [Proc -> Nat \ {0}],
           row'[p] \in 1..Len(Fields[cur[p]][CurCfd(p)]),
           row'[p] = 1 \/ l = "addField",
           \A q \in Proc : q # p => row'[q] = row[q],
           DbTypeOK', CfdsStay
    PROVE  /\ pc'[p] = l /\ CurCfd(p)' = CurCfd(p)
           /\ ProcTypeOK'
           /\ \A q \in Proc \ {p} : SameLocals(q)
           /\ LocalsOK(p)' /\ SysKnown(p)' /\ EnumProgress(p)'
           /\ EnumsBefore(p)' /\ HeadsArePrefixes(p)'
           /\ \A e \in Enum : ~FillsEnum(p, e)'
           /\ \A c \in Cfd : FillsCfd(p, c)' => c = CurCfd(p)
  <1>0. ProcTypeOK /\ ProcessOK(p)
    BY DEF IInv, TypeOK
  <1>1. pc'[p] = l /\ CurCfd(p)' = CurCfd(p)
    BY <1>0 DEF ProcTypeOK, CurCfd
  <1>2. ProcTypeOK'
    BY <1>0 DEF ProcTypeOK, PcValues, LoaderPc, CfdPc
  <1>3. \A q \in Proc \ {p} : SameLocals(q)
    BY <1>0 DEF ProcTypeOK, SameLocals
  <1>4. LocalsOK(p)' /\ SysKnown(p)' /\ EnumProgress(p)'
    BY <1>0, <1>1, CfdWriter DEF LocalsOK, SysKnown, EnumProgress, EnumPc, CfdPc,
       MkPc, RmPc, EditorPc
  <1>5. EnumsBefore(p)'
    BY <1>1, CfdWriter DEF EnumsBefore, EnumPc, CfdPc, EnumComplete
  <1>6. HeadsArePrefixes(p)'
    BY HeadsStay
  <1>7. /\ \A e \in Enum : ~FillsEnum(p, e)'
        /\ \A c \in Cfd : FillsCfd(p, c)' => c = CurCfd(p)
    BY <1>1 DEF FillsEnum, FillsCfd, CfdPc
  <1> QED
    BY <1>1, <1>2, <1>3, <1>4, <1>5, <1>6, <1>7

LEMMA CreateCftIInv ==
    ASSUME IInv, NEW p \in Proc, CreateCft(p)
    PROVE  IInv'
  <1> USE DEF CreateCft
  <1>0. DbTypeOK /\ ProcTypeOK /\ HeadsTypeOK /\ ProcessOK(p)
    BY DEF IInv, TypeOK
  <1>1. CASE Exit(p) /\ UNCHANGED cft
    BY <1>1, ExitIInv DEF db
  <1>2. CASE /\ cft[CurCfd(p)] = None
             /\ cft' = [cft EXCEPT ![CurCfd(p)] = [spec |-> cur[p], rows |-> 0]]
             /\ ChangeSchema(p, sys)
             /\ Goto(p, "addCfd")
             /\ UNCHANGED <<cur, pos, row, heads, args>>
    <2> USE <1>2 DEF Goto, heads, args
    <2> DEFINE c0 == CurCfd(p)
    <2>1. /\ c0 \in Cfd /\ cur[p] \in SpecFile
          /\ row[p] = 1 /\ row[p] \in 1..Len(Fields[cur[p]][c0])
          /\ Len(Fields[cur[p]][c0]) \in Nat
          /\ \A i \in 1..Len(SpecEnums[cur[p]]) :
                EnumComplete(cur[p], SpecEnums[cur[p]][i])
      BY <1>0, CfdWriter DEF CfdPc, ProcessOK, EnumsBefore
    <2>2. \A q \in Proc : ~FillsCfd(q, c0)
      BY DEF IInv, ProcessOK, CfdProgress, FillsCfd
    <2>3. c0 \notin cfdRows
      BY DEF IInv, DatabaseOK, CfdTables
    <2>4. cft'[c0] = [spec |-> cur[p], rows |-> 0] /\ cft'[c0] \in DefTable
      BY <1>0, <2>1 DEF DbTypeOK, DefTable
    <2>5. DbTypeOK'
      BY <1>0, <2>1, <2>4 DEF DbTypeOK
    <2>6. fresh' \in [Proc -> BOOLEAN] /\ known' \in [Proc -> SUBSET SysTables]
      BY <1>0, ConnTypes DEF DbTypeOK
    <2>7. HeadsTypeOK'
      BY <1>0, <2>6 DEF HeadsTypeOK
    <2>8. /\ EnumsStay /\ CfdsStay /\ DatabaseOK'
          /\ \A q \in Proc \ {p} : SameWork(q)
      <3>1. \A c \in Cfd \ {c0} : cft'[c] = cft[c]
        BY <1>0 DEF DbTypeOK
      <3>2. /\ cft'[c0].rows \in 0..Len(Fields[cft'[c0].spec][c0])
            /\ \A i \in 1..Len(SpecEnums[cft'[c0].spec]) :
                  EnumComplete(cft'[c0].spec, SpecEnums[cft'[c0].spec][i])
        BY <2>1, <2>4
      <3> HIDE DEF c0
      <3> QED
        BY <2>1, <2>2, <2>3, <2>5, <3>1, <3>2, CfdStep
    <2>9. /\ pc'[p] = "addCfd" /\ CurCfd(p)' = c0 /\ ProcTypeOK'
          /\ \A q \in Proc \ {p} : SameLocals(q)
          /\ LocalsOK(p)' /\ SysKnown(p)' /\ EnumProgress(p)'
          /\ EnumsBefore(p)' /\ HeadsArePrefixes(p)'
          /\ \A e \in Enum : ~FillsEnum(p, e)'
          /\ \A c \in Cfd : FillsCfd(p, c)' => c = c0
      BY <1>0, <2>1, <2>5, <2>8, CfdMoves DEF CfdPc, ProcTypeOK
    <2>10. CfdProgress(p)'
      <3>1. cft'[c0] # None
        BY <2>1, <2>4, SchemaConstants
      <3> QED
        BY <2>1, <2>3, <2>4, <2>9, <3>1 DEF CfdProgress
    <2> QED
      BY <2>2, <2>5, <2>7, <2>8, <2>9, <2>10, WriteStep DEF TypeOK, ProcessOK
  <1> QED
    BY <1>1, <1>2

LEMMA AddCfdRowIInv ==
    ASSUME IInv, NEW p \in Proc, AddCfdRow(p)
    PROVE  IInv'
  <1> USE DEF AddCfdRow, Goto, heads, args, conn
  <1>0. DbTypeOK /\ ProcTypeOK /\ HeadsTypeOK /\ ProcessOK(p)
    BY DEF IInv, TypeOK
  <1> DEFINE c0 == CurCfd(p)
  <1>1. /\ c0 \in Cfd /\ cur[p] \in SpecFile
        /\ row[p] \in 1..Len(Fields[cur[p]][c0])
        /\ \A q \in Proc \ {p} : ~FillsCfd(q, c0)
    BY CfdWriter DEF CfdPc
  <1>2. /\ c0 \notin cfdRows /\ cft[c0] # None /\ cft[c0].spec = cur[p]
        /\ cft[c0].rows = 0 /\ row[p] = 1
    BY <1>0 DEF ProcessOK, CfdProgress
  <1>3. DbTypeOK' /\ HeadsTypeOK'
    BY <1>0, <1>1 DEF DbTypeOK, HeadsTypeOK
  <1>4. /\ EnumsStay /\ CfdsStay /\ DatabaseOK'
        /\ \A q \in Proc \ {p} : SameWork(q)
    <2>1. /\ cft[c0].rows \in 0..Len(Fields[cft[c0].spec][c0])
          /\ \A i \in 1..Len(SpecEnums[cft[c0].spec]) :
                EnumComplete(cft[c0].spec, SpecEnums[cft[c0].spec][i])
      BY <1>1, <1>2 DEF IInv, DatabaseOK, CfdTables
    <2>2. \A c \in Cfd \ {c0} : c \in cfdRows' <=> c \in cfdRows
      OBVIOUS
    <2> HIDE DEF c0
    <2> QED
      BY <1>1, <1>2, <1>3, <2>1, <2>2, CfdStep
  <1>5. /\ pc'[p] = "addField" /\ CurCfd(p)' = c0 /\ ProcTypeOK'
        /\ \A q \in Proc \ {p} : SameLocals(q)
        /\ LocalsOK(p)' /\ SysKnown(p)' /\ EnumProgress(p)'
        /\ EnumsBefore(p)' /\ HeadsArePrefixes(p)'
        /\ \A e \in Enum : ~FillsEnum(p, e)'
        /\ \A c \in Cfd : FillsCfd(p, c)' => c = c0
    BY <1>0, <1>1, <1>3, <1>4, CfdMoves DEF CfdPc, ProcTypeOK
  <1>6. CfdProgress(p)'
    BY <1>2, <1>5 DEF CfdProgress
  <1> QED
    BY <1>1, <1>3, <1>4, <1>5, <1>6, WriteStep DEF TypeOK, ProcessOK

LEMMA DropCftIInv ==
    ASSUME IInv, NEW p \in Proc, DropCft(p)
    PROVE  IInv'
  <1> USE DEF DropCft
  <1>0. DbTypeOK /\ ProcTypeOK /\ HeadsTypeOK /\ ProcessOK(p)
    BY DEF IInv, TypeOK
  <1> DEFINE c0 == CurCfd(p)
  <1>1. c0 \in Cfd /\ \A q \in Proc \ {p} : ~FillsCfd(q, c0)
    BY CfdWriter DEF CfdPc
  <1>2. c0 \notin cfdRows
    BY <1>0 DEF ProcessOK, CfdProgress
  <1>3. DbTypeOK' /\ cft'[c0] = None
    BY <1>0, <1>1 DEF DbTypeOK
  <1>4. /\ EnumsStay /\ CfdsStay /\ DatabaseOK'
        /\ \A q \in Proc \ {p} : SameWork(q)
    <2>1. \A c \in Cfd \ {c0} : cft'[c] = cft[c]
      BY <1>0 DEF DbTypeOK
    <2> HIDE DEF c0
    <2> QED
      BY <1>1, <1>2, <1>3, <2>1, CfdStep
  <1>5. fresh' \in [Proc -> BOOLEAN] /\ known' \in [Proc -> SUBSET SysTables]
    BY <1>0 DEF HeadsTypeOK
  <1> QED
    BY <1>3, <1>4, <1>5, LeaveTypes, LeaveProcess, WriteStep DEF TypeOK

LEMMA AddFieldIInv ==
    ASSUME IInv, NEW p \in Proc, AddField(p)
    PROVE  IInv'
  <1> USE DEF AddField
  <1>0. DbTypeOK /\ ProcTypeOK /\ HeadsTypeOK /\ ProcessOK(p)
    BY DEF IInv, TypeOK
  <1> DEFINE c0 == CurCfd(p)
             s0 == cur[p]
  <1>1. /\ c0 \in Cfd /\ s0 \in SpecFile /\ "cfd_list" \in sys
        /\ row[p] \in 1..Len(Fields[s0][c0]) /\ Len(Fields[s0][c0]) \in Nat
        /\ pos[p] \in 1..Len(SpecCfds[s0])
        /\ \A i \in 1..Len(SpecEnums[s0]) : EnumComplete(s0, SpecEnums[s0][i])
        /\ \A q \in Proc \ {p} : ~FillsCfd(q, c0)
    BY CfdWriter DEF CfdPc
  <1>2. /\ c0 \in cfdRows /\ cft[c0] # None /\ cft[c0].spec = s0
        /\ cft[c0].rows = row[p] - 1
    BY <1>0 DEF ProcessOK, CfdProgress
  <1>3. cft[c0] \in DefTable /\ cft'[c0] = [cft[c0] EXCEPT !.rows = @ + 1]
    BY <1>0, <1>1, <1>2 DEF DbTypeOK
  <1>4. /\ cft'[c0] \in DefTable /\ cft'[c0] # None
        /\ cft'[c0].spec = s0 /\ cft'[c0].rows = row[p]
    BY <1>1, <1>2, <1>3, SchemaConstants DEF DefTable
  <1>5. DbTypeOK'
    <2>1. cft' \in [Cfd -> DefTable \cup {None}]
      BY <1>0, <1>1, <1>4 DEF DbTypeOK
    <2> QED
      BY <1>0, <2>1 DEF DbTypeOK
  <1>6. /\ EnumsStay /\ CfdsStay /\ DatabaseOK'
        /\ \A q \in Proc \ {p} : SameWork(q)
    <2>1. \A c \in Cfd \ {c0} : cft'[c] = cft[c]
      BY <1>0 DEF DbTypeOK
    <2>2. /\ cft'[c0].rows \in 0..Len(Fields[cft'[c0].spec][c0])
          /\ cft'[c0].rows >= cft[c0].rows
          /\ \A i \in 1..Len(SpecEnums[cft'[c0].spec]) :
                EnumComplete(cft'[c0].spec, SpecEnums[cft'[c0].spec][i])
      BY <1>1, <1>2, <1>4
    <2> HIDE DEF c0
    <2> QED
      BY <1>1, <1>2, <1>4, <1>5, <2>1, <2>2, CfdStep
  <1>7. CASE /\ row[p] < Len(Fields[s0][c0])
             /\ row' = [row EXCEPT ![p] = @ + 1]
             /\ UNCHANGED <<conn, pc, cur, pos, heads, args>>
    <2> USE <1>7 DEF heads, args, conn
    <2>1. HeadsTypeOK'
      BY <1>0 DEF HeadsTypeOK
    <2>2. /\ row' \in [Proc -> Nat \ {0}] /\ row'[p] = row[p] + 1
          /\ row'[p] \in 1..Len(Fields[s0][c0])
          /\ \A q \in Proc : q # p => row'[q] = row[q]
          /\ pc' = [pc EXCEPT ![p] = "addField"]
      BY <1>0, <1>1 DEF ProcTypeOK
    <2>3. /\ pc'[p] = "addField" /\ CurCfd(p)' = c0 /\ ProcTypeOK'
          /\ \A q \in Proc \ {p} : SameLocals(q)
          /\ LocalsOK(p)' /\ SysKnown(p)' /\ EnumProgress(p)'
          /\ EnumsBefore(p)' /\ HeadsArePrefixes(p)'
          /\ \A e \in Enum : ~FillsEnum(p, e)'
          /\ \A c \in Cfd : FillsCfd(p, c)' => c = c0
      BY <1>5, <1>6, <2>2, CfdMoves DEF CfdPc
    <2>4. CfdProgress(p)'
      BY <1>1, <1>2, <1>4, <2>2, <2>3 DEF CfdProgress
    <2> QED
      BY <1>1, <1>5, <1>6, <2>1, <2>3, <2>4, WriteStep DEF TypeOK, ProcessOK
  <1>8. CASE CfdLoop(p, pos[p] + 1)
    <2>1. ASSUME NEW s \in SpecFile, s = s0, NEW j \in 1..Len(SpecEnums[s])
          PROVE  EnumComplete(s, SpecEnums[s][j])'
      BY <1>1, <2>1, SpecShape, <1>6 DEF EnumsStay
    <2>2. Settled(p)
      BY <1>1, <1>5, <1>6, <1>8, <2>1, CfdLoopSettled
    <2> QED
      BY <1>5, <1>6, <2>2, WriteStep DEF Settled, TypeOK
  <1> QED
    BY <1>7, <1>8

-----------------------------------------------------------------------------
(* Failures, and the theorems.                                             *)

(* What the loops have read of a table is at most the table. *)
LEMMA CutRows ==
    ASSUME NEW N, NEW table,
           \A n \in N : table[n] \in DefTable,
           NEW rows \in CutReads(N, table), NEW n \in N
    PROVE  rows[n] \in Nat /\ rows[n] <= table[n].rows
  <1>1. rows \in [N -> UNION {0..table[m].rows : m \in N}] /\ rows[n] <= table[n].rows
    BY DEF CutReads
  <1>2. PICK m \in N : rows[n] \in 0..table[m].rows
    BY <1>1
  <1>3. table[m].rows \in Nat
    BY DEF DefTable
  <1> QED
    BY <1>1, <1>2, <1>3

LEMMA StatementFailsIInv ==
    ASSUME IInv, NEW p \in Proc, StatementFails(p)
    PROVE  IInv'
  <1> USE DEF StatementFails, db
  <1>0. DbTypeOK /\ ProcTypeOK /\ HeadsTypeOK /\ ProcessOK(p) /\ DatabaseOK
    BY DEF IInv, TypeOK
  <1>1. DbTypeOK' /\ CatRowHasCfd' /\ ColumnsDescribed'
    BY <1>0 DEF DbTypeOK, DatabaseOK, CatRowHasCfd, ColumnsDescribed
  <1>2. CASE Exit(p)
    BY <1>2, ExitIInv
  <1>3. CASE pc[p] = "readCats" /\ Ready(p)
    BY <1>3, ReadyIInv
  <1>4. CASE pc[p] \in EditorPc /\ NextMk(p) /\ UNCHANGED conn
    BY <1>1, <1>4, NextNameIInv
  <1>5. CASE /\ pc[p] = "addCfd" /\ Goto(p, "dropCft")
             /\ UNCHANGED <<conn, cur, pos, row, heads, args>>
    <2> USE <1>5 DEF Goto, heads, args, conn
    <2>1. HeadsTypeOK'
      BY <1>0 DEF HeadsTypeOK
    <2>2. /\ pc'[p] = "dropCft" /\ CurCfd(p)' = CurCfd(p) /\ ProcTypeOK'
          /\ \A q \in Proc \ {p} : SameLocals(q)
          /\ LocalsOK(p)' /\ SysKnown(p)' /\ EnumProgress(p)'
          /\ EnumsBefore(p)' /\ HeadsArePrefixes(p)'
          /\ \A e \in Enum : ~FillsEnum(p, e)'
          /\ \A c \in Cfd : FillsCfd(p, c)' => c = CurCfd(p)
      <3>1. row[p] = 1 /\ row[p] \in 1..Len(Fields[cur[p]][CurCfd(p)])
        BY <1>0, CfdWriter DEF CfdPc, ProcessOK, EnumsBefore
      <3> QED
        BY <1>0, <1>1, <3>1, DefinitionsStay, CfdMoves DEF CfdPc, ProcTypeOK
    <2>3. CfdProgress(p)'
      BY <1>0, <2>2 DEF ProcessOK, CfdProgress
    <2>4. \A c \in Cfd : FillsCfd(p, c)' => FillsCfd(p, c)
      BY <2>2 DEF FillsCfd
    <2> QED
      BY <1>1, <2>1, <2>2, <2>3, <2>4, FrameStep DEF TypeOK, ProcessOK
  <1> QED
    BY <1>2, <1>3, <1>4, <1>5 DEF EditorPc

(* Lists that were cut short are still what p may hold: of the enumerations *)
(* IInv asks only the type, of the CFDs a prefix with a field at least.    *)
LEMMA CutEnumsIInv ==
    ASSUME IInv, NEW p \in Proc, CutEnums(p), UNCHANGED db
    PROVE  IInv'
  <1> USE DEF Goto, args
  <1>0. DbTypeOK /\ ProcTypeOK /\ HeadsTypeOK /\ ProcessOK(p)
    BY DEF IInv, TypeOK
  <1>1. PICK rows \in CutReads(ListedEnums, endef) :
           hEnum' = [hEnum EXCEPT ![p] =
              [e \in Enum |-> IF e \in ListedEnums
                              THEN [endef[e] EXCEPT !.rows = rows[e]] ELSE None]]
    BY DEF CutEnums
  <1>2. fresh' \in [Proc -> BOOLEAN] /\ known' \in [Proc -> SUBSET SysTables]
    BY ConnTypes DEF CutEnums
  <1>3. ASSUME NEW e \in ListedEnums PROVE [endef[e] EXCEPT !.rows = rows[e]] \in DefTable
    <2>1. endef[e] \in DefTable /\ endef[e].rows \in Nat
      BY <1>0, <1>3 DEF CutEnums, ListedEnums, DbTypeOK, DefTable
    <2>2. rows[e] \in Nat
      BY <1>0, <1>1, <1>3, CutRows DEF CutEnums, ListedEnums, DbTypeOK
    <2> QED
      BY <2>1, <2>2 DEF DefTable
  <1>4. HeadsTypeOK'
    <2>1. [e \in Enum |-> IF e \in ListedEnums
                          THEN [endef[e] EXCEPT !.rows = rows[e]] ELSE None]
             \in [Enum -> DefTable \cup {None}]
      BY <1>3
    <2>2. hEnum' \in [Proc -> [Enum -> DefTable \cup {None}]]
      BY <1>0, <1>1, <2>1 DEF HeadsTypeOK
    <2> QED
      BY <1>0, <1>2, <2>2 DEF CutEnums, HeadsTypeOK
  <1>5. TypeOK'
    BY <1>0, <1>4 DEF CutEnums, TypeOK, DbTypeOK, ProcTypeOK, PcValues, db
  <1>6. \A q \in Proc \ {p} : SameLocals(q)
    BY <1>0 DEF CutEnums, ProcTypeOK, SameLocals
  <1>7. pc'[p] = "readCfds" /\ hCfd'[p] = hCfd[p]
    BY <1>0 DEF CutEnums, ProcTypeOK
  <1>8. ProcessOK(p)'
    BY <1>0, <1>7 DEF ProcessOK, LocalsOK, SysKnown, EnumProgress, CfdProgress, db,
       EnumsBefore, HeadsArePrefixes, EnumPc, CfdPc, MkPc, RmPc, LoaderPc, EditorPc
  <1> QED
    BY <1>5, <1>6, <1>7, <1>8, QuietStep

LEMMA CutCfdsIInv ==
    ASSUME IInv, NEW p \in Proc, CutCfds(p), UNCHANGED db
    PROVE  IInv'
  <1> USE DEF Goto, args
  <1>0. DbTypeOK /\ ProcTypeOK /\ HeadsTypeOK /\ ProcessOK(p)
    BY DEF IInv, TypeOK
  <1>1. PICK rows \in CutReads(cfdRows, cft) :
           /\ \A c \in cfdRows : rows[c] > 0
           /\ hCfd' = [hCfd EXCEPT ![p] =
                 [c \in Cfd |-> IF c \in cfdRows
                                THEN [cft[c] EXCEPT !.rows = rows[c]] ELSE None]]
    BY DEF CutCfds
  <1>2. fresh' \in [Proc -> BOOLEAN] /\ known' \in [Proc -> SUBSET SysTables]
    BY ConnTypes DEF CutCfds
  <1>3. ASSUME NEW c \in cfdRows
        PROVE  /\ cft[c] \in DefTable /\ rows[c] \in 1..cft[c].rows
               /\ [cft[c] EXCEPT !.rows = rows[c]] \in DefTable
               /\ [cft[c] EXCEPT !.rows = rows[c]].spec = cft[c].spec
               /\ [cft[c] EXCEPT !.rows = rows[c]].rows = rows[c]
    <2>1. cft[c] \in DefTable /\ cft[c].rows \in Nat
      BY <1>0, <1>3 DEF CutCfds, DbTypeOK, DefTable
    <2>2. rows[c] \in Nat /\ rows[c] <= cft[c].rows /\ rows[c] > 0
      BY <1>0, <1>1, <1>3, CutRows DEF CutCfds, DbTypeOK
    <2> QED
      BY <2>1, <2>2 DEF DefTable
  <1>4. HeadsTypeOK'
    <2>1. [c \in Cfd |-> IF c \in cfdRows
                         THEN [cft[c] EXCEPT !.rows = rows[c]] ELSE None]
             \in [Cfd -> DefTable \cup {None}]
      BY <1>3
    <2>2. hCfd' \in [Proc -> [Cfd -> DefTable \cup {None}]]
      BY <1>0, <1>1, <2>1 DEF HeadsTypeOK
    <2> QED
      BY <1>0, <1>2, <2>2 DEF CutCfds, HeadsTypeOK
  <1>5. TypeOK'
    BY <1>0, <1>4 DEF CutCfds, TypeOK, DbTypeOK, ProcTypeOK, PcValues, LoaderPc, EditorPc, db
  <1>6. \A q \in Proc \ {p} : SameLocals(q)
    BY <1>0 DEF CutCfds, ProcTypeOK, HeadsTypeOK, SameLocals
  <1>7. /\ pc'[p] \in {"readCats", "parse"}
        /\ pc'[p] = "parse" => cur'[p] \in SpecFile
    BY <1>0 DEF CutCfds, ProcTypeOK
  <1>8. LocalsOK(p)' /\ SysKnown(p)'
    BY <1>7 DEF CutCfds, LocalsOK, SysKnown, EnumPc, CfdPc, MkPc, RmPc, LoaderPc, EditorPc, db
  <1>9. EnumProgress(p)' /\ CfdProgress(p)' /\ EnumsBefore(p)'
    BY <1>7 DEF EnumProgress, CfdProgress, EnumsBefore, EnumPc, CfdPc
  <1>10. HeadsArePrefixes(p)'
    <2> SUFFICES ASSUME NEW c \in Cfd, hCfd'[p][c] # None
                 PROVE  /\ c \in cfdRows
                        /\ cft[c].spec = hCfd'[p][c].spec
                        /\ hCfd'[p][c].rows \in 1..cft[c].rows
      BY DEF HeadsArePrefixes, db
    <2>1. c \in cfdRows /\ hCfd'[p][c] = [cft[c] EXCEPT !.rows = rows[c]]
      BY <1>0, <1>1 DEF HeadsTypeOK
    <2> QED
      BY <1>3, <2>1
  <1>11. ProcessOK(p)'
    BY <1>8, <1>9, <1>10 DEF ProcessOK
  <1> QED
    BY <1>5, <1>6, <1>7, <1>11, QuietStep

(* The empty database and idle programs. *)
LEMMA InitIInv == Init => IInv
  <1> SUFFICES ASSUME Init PROVE IInv
    OBVIOUS
  <1> USE DEF Init
  <1>1. DbTypeOK /\ ProcTypeOK
    BY DEF DbTypeOK, ProcTypeOK, PcValues
  <1>2. HeadsTypeOK
    BY DEF HeadsTypeOK, NoHeads
  <1>3. DatabaseOK
    BY DEF DatabaseOK, SysInOrder, EnumTables, CfdTables, CatRowHasCfd, ColumnsDescribed
  <1>4. ExclusiveDefinition
    BY DEF ExclusiveDefinition, FillsEnum, FillsCfd
  <1>5. ASSUME NEW p \in Proc PROVE ProcessOK(p)
    BY DEF ProcessOK, LocalsOK, SysKnown, EnumProgress, CfdProgress, EnumsBefore,
       HeadsArePrefixes, EnumPc, CfdPc, MkPc, RmPc, LoaderPc, EditorPc, NoHeads
  <1> QED
    BY <1>1, <1>2, <1>3, <1>4, <1>5 DEF IInv, TypeOK

LEMMA StutterIInv == ASSUME IInv, UNCHANGED vars PROVE IInv'
  <1> USE DEF vars
  <1>1. TypeOK'
    BY DEF IInv, TypeOK, DbTypeOK, ProcTypeOK, HeadsTypeOK
  <1>2. DatabaseOK'
    BY DEF IInv, DatabaseOK, SysInOrder, EnumTables, CfdTables, EnumComplete,
       CatRowHasCfd, ColumnsDescribed
  <1>3. ExclusiveDefinition'
    BY DEF IInv, ExclusiveDefinition, FillsEnum, FillsCfd, CurEnum, CurCfd
  <1>4. ASSUME NEW q \in Proc PROVE ProcessOK(q)'
    BY <1>1, DefinitionsStay, FrameProcess DEF SameLocals, SameWork
  <1> QED
    BY <1>1, <1>2, <1>3, <1>4 DEF IInv

LEMMA NextIInv == IInv /\ [Next]_vars => IInv'
  <1> SUFFICES ASSUME IInv, [Next]_vars PROVE IInv'
    OBVIOUS
  <1>1. ASSUME NEW p \in Proc, User(p) PROVE IInv'
    <2>1. CASE Quit(p)
      BY <2>1, ExitIInv DEF Quit
    <2> QED
      BY <1>1, <2>1, OpenLoaderIInv, OpenEditorIInv, MkCatIInv, RmCatIInv DEF User
  <1>2. ASSUME NEW p \in Proc, Load(p) PROVE IInv'
    BY <1>2, DbStartIInv, CreateSysIInv, ParseIInv, CreateEndefIInv,
       AddEnumRowIInv, AddElemIInv, CreateCftIInv, AddCfdRowIInv, DropCftIInv,
       AddFieldIInv DEF Load
  <1>3. ASSUME NEW p \in Proc, Read(p) PROVE IInv'
    BY <1>3, ReadEnumsIInv, ReadCfdsIInv, ReadCatsIInv DEF Read
  <1>4. ASSUME NEW p \in Proc, Edit(p) PROVE IInv'
    BY <1>4, AddCatRowIInv, IncRefIInv, CreateCatTableIInv, GetCfdNameIInv,
       DeleteCatRowIInv, DropCatTableIInv, DecRefIInv DEF Edit
  <1>5. ASSUME NEW p \in Proc, Fail(p) PROVE IInv'
    BY <1>5, ExitIInv, StatementFailsIInv, CutEnumsIInv, CutCfdsIInv
       DEF Fail, Crash, ReadCutShort
  <1> QED
    BY <1>1, <1>2, <1>3, <1>4, <1>5, StutterIInv DEF Next, Work

(* The invariant of SchemaInv holds in every reachable state: whatever     *)
(* order the programs' statements take, whoever dies or fails where.       *)
THEOREM Invariant == Spec => []IInv
  BY InitIInv, NextIInv, PTL DEF Spec

(* Every variable keeps its type; no program indexes its lists out of range.*)
THEOREM TypeCorrect == Spec => []TypeOK
  <1>1. IInv => TypeOK
    BY DEF IInv
  <1> QED
    BY <1>1, Invariant, PTL

(* What the lists of the database name has a table. *)
THEOREM ListsHaveTables == Spec => []ListedHasTable
  <1>1. IInv => ListedHasTable
    BY DEF IInv, DatabaseOK, EnumTables, CfdTables, ListedHasTable
  <1> QED
    BY <1>1, Invariant, PTL

(* No enumeration is listed twice, although no constraint of the database  *)
(* forbids it.                                                             *)
THEOREM NoDuplicateEnum == Spec => []EnumListedOnce
  <1>1. IInv => EnumListedOnce
    BY DEF IInv, DatabaseOK, EnumTables, EnumListedOnce
  <1> QED
    BY <1>1, Invariant, PTL

(* CREATE TABLE works as a lock: a definition has one writer at most. *)
THEOREM OneWriter == Spec => []ExclusiveDefinition
  <1>1. IInv => ExclusiveDefinition
    BY DEF IInv
  <1> QED
    BY <1>1, Invariant, PTL

(* A field that names an enumeration finds it complete, in the version of  *)
(* its own specification file.                                             *)
THEOREM FieldsFindEnums == Spec => []FieldsResolve
  <1>1. IInv => FieldsResolve
    <2> SUFFICES ASSUME IInv, NEW c \in Cfd, cft[c] # None,
                        NEW i \in 1..cft[c].rows,
                        Fields[cft[c].spec][c][i] # None
                 PROVE  EnumComplete(cft[c].spec, Fields[cft[c].spec][c][i])
      BY DEF FieldsResolve
    <2> DEFINE s == cft[c].spec
    <2>1. s \in SpecFile /\ cft[c].rows \in Nat
      BY DEF IInv, TypeOK, DbTypeOK, DefTable
    <2>2. /\ cft[c].rows \in 0..Len(Fields[s][c])
          /\ \A j \in 1..Len(SpecEnums[s]) : EnumComplete(s, SpecEnums[s][j])
      BY DEF IInv, DatabaseOK, CfdTables
    <2>3. i \in 1..Len(Fields[s][c])
      BY <2>1, <2>2, SpecShape
    <2>4. \E j \in 1..Len(SpecEnums[s]) : SpecEnums[s][j] = Fields[s][c][i]
      <3> HIDE DEF s
      <3>1. Fields[s][c][i] # None
        BY DEF s
      <3> QED
        BY <2>1, <2>3, <3>1, FieldEnum
    <2> QED
      BY <2>2, <2>4
  <1> QED
    BY <1>1, Invariant, PTL

(* Whoever writes definitions or edits catalogues has all system tables. *)
THEOREM WritersHaveSchema == Spec => []WriterHasSchema
  <1>1. IInv => WriterHasSchema
    BY DEF IInv, TypeOK, DbTypeOK, DatabaseOK, SysInOrder, ProcessOK, SysKnown,
       WriterHasSchema, EnumPc, CfdPc, EditorPc, SysTables
  <1> QED
    BY <1>1, Invariant, PTL

(* A catalogue's row names a listed CFD, and every column of a catalogue   *)
(* table is described by the field table it was made from.                 *)
THEOREM CataloguesDescribed == Spec => [](CatRowHasCfd /\ ColumnsDescribed)
  <1>1. IInv => CatRowHasCfd /\ ColumnsDescribed
    BY DEF IInv, DatabaseOK
  <1> QED
    BY <1>1, Invariant, PTL

(* What ListedOnlyGrows says of one step. *)
GrowsStep ==
    \A c \in cfdRows :
        /\ c \in cfdRows'
        /\ cft'[c] # None
        /\ cft'[c].spec = cft[c].spec
        /\ cft'[c].rows >= cft[c].rows
        /\ refcount'[c] >= refcount[c]
              \/ \E p \in Proc : pc[p] = "decRef" /\ argCfd[p] = c

Released(c) ==
    refcount'[c] >= refcount[c] \/ \E p \in Proc : pc[p] = "decRef" /\ argCfd[p] = c

LEMMA SameGrows ==
    ASSUME IInv, UNCHANGED <<cfdRows, cft>>, \A c \in cfdRows : Released(c)
    PROVE  GrowsStep
  <1> SUFFICES ASSUME NEW c \in cfdRows
               PROVE  cft[c] # None /\ cft[c].rows >= cft[c].rows
    BY DEF GrowsStep, Released
  <1>1. c \in Cfd /\ cft[c] \in DefTable /\ cft[c] # None
    BY DEF IInv, TypeOK, DbTypeOK, DatabaseOK, CfdTables
  <1> QED
    BY <1>1 DEF DefTable

LEMMA LoadGrows ==
    ASSUME IInv, NEW p \in Proc,
           CreateCft(p) \/ AddCfdRow(p) \/ DropCft(p) \/ AddField(p)
    PROVE  GrowsStep
  <1>0. DbTypeOK /\ ProcessOK(p) /\ CfdTables
    BY DEF IInv, TypeOK, DatabaseOK
  <1> SUFFICES ASSUME NEW c \in cfdRows
               PROVE  /\ c \in cfdRows'
                      /\ cft'[c] # None
                      /\ cft'[c].spec = cft[c].spec
                      /\ cft'[c].rows >= cft[c].rows
                      /\ refcount'[c] >= refcount[c]
    BY DEF GrowsStep
  <1>1. c \in Cfd /\ refcount[c] \in Int /\ cft[c] \in DefTable /\ cft[c] # None
    BY <1>0 DEF DbTypeOK, CfdTables
  <1>2. CurCfd(p) \in Cfd
    BY CfdWriter DEF CreateCft, AddCfdRow, DropCft, AddField, CfdPc
  <1>3. CASE CreateCft(p)
    <2>1. cft'[c] = cft[c] /\ c \in cfdRows' /\ refcount'[c] = refcount[c]
      BY <1>0, <1>1, <1>2, <1>3 DEF CreateCft, DbTypeOK
    <2> QED
      BY <1>1, <2>1 DEF DefTable
  <1>4. CASE AddCfdRow(p)
    <2>1. CurCfd(p) \notin cfdRows
      BY <1>0, <1>4 DEF AddCfdRow, ProcessOK, CfdProgress
    <2>2. cft'[c] = cft[c] /\ c \in cfdRows' /\ refcount'[c] = refcount[c]
      BY <1>0, <1>1, <1>2, <1>4, <2>1 DEF AddCfdRow, DbTypeOK
    <2> QED
      BY <1>1, <2>2 DEF DefTable
  <1>5. CASE DropCft(p)
    <2>1. CurCfd(p) \notin cfdRows
      BY <1>0, <1>5 DEF DropCft, ProcessOK, CfdProgress
    <2>2. cft'[c] = cft[c] /\ c \in cfdRows' /\ refcount'[c] = refcount[c]
      BY <1>0, <1>1, <1>2, <1>5, <2>1 DEF DropCft, DbTypeOK
    <2> QED
      BY <1>1, <2>2 DEF DefTable
  <1>6. CASE AddField(p)
    <2>1. cft'[c] = cft[c] \/ cft'[c] = [cft[c] EXCEPT !.rows = @ + 1]
      BY <1>0, <1>1, <1>2, <1>6 DEF AddField, DbTypeOK
    <2>2. c \in cfdRows' /\ refcount'[c] = refcount[c]
      BY <1>6 DEF AddField
    <2>3. /\ cft'[c] \in DefTable
          /\ cft'[c].spec = cft[c].spec
          /\ cft'[c].rows >= cft[c].rows
      BY <1>1, <2>1 DEF DefTable
    <2>4. cft'[c] # None
      BY <2>3, SchemaConstants DEF DefTable
    <2> QED
      BY <1>1, <2>2, <2>3, <2>4
  <1> QED
    BY <1>3, <1>4, <1>5, <1>6

LEMMA NextGrows == IInv /\ [Next]_vars => GrowsStep
  <1> SUFFICES ASSUME IInv, [Next]_vars PROVE GrowsStep
    OBVIOUS
  <1>0. DbTypeOK
    BY DEF IInv, TypeOK
  <1>a. \A c \in cfdRows : c \in Cfd /\ refcount[c] \in Int
    BY <1>0 DEF DbTypeOK
  <1>1. ASSUME NEW p \in Proc, IncRef(p) \/ DecRef(p) PROVE GrowsStep
    <2>1. ASSUME NEW c \in cfdRows, IncRef(p) PROVE Released(c)
      BY <1>a, <2>1 DEF IncRef, Released
    <2>2. ASSUME NEW c \in cfdRows, DecRef(p) PROVE Released(c)
      BY <1>a, <2>2 DEF DecRef, Released
    <2>3. UNCHANGED <<cfdRows, cft>>
      BY <1>1 DEF IncRef, DecRef
    <2> QED
      BY <1>1, <2>1, <2>2, <2>3, SameGrows
  <1>2. CASE UNCHANGED <<cfdRows, cft, refcount>>
    <2>1. \A c \in cfdRows : Released(c)
      BY <1>a, <1>2 DEF Released
    <2> QED
      BY <1>2, <2>1, SameGrows
  <1>3. ASSUME NEW p \in Proc, User(p) PROVE UNCHANGED <<cfdRows, cft, refcount>>
    BY <1>3 DEF User, OpenLoader, OpenEditor, Quit, MkCat, RmCat, db
  <1>4. ASSUME NEW p \in Proc,
               DbStart(p) \/ InitDbTables(p) \/ Parse(p)
                 \/ CreateEndef(p) \/ AddEnumRow(p) \/ AddElem(p)
        PROVE  UNCHANGED <<cfdRows, cft, refcount>>
    BY <1>4 DEF DbStart, InitDbTables, CreateSys, Parse, CreateEndef, AddEnumRow,
       AddElem, db
  <1>5. ASSUME NEW p \in Proc, Read(p) PROVE UNCHANGED <<cfdRows, cft, refcount>>
    BY <1>5 DEF Read, ReadEnums, ReadCfds, ReadCats, db
  <1>6. ASSUME NEW p \in Proc,
               AddCatRow(p) \/ CreateCatTable(p) \/ GetCfdName(p)
                 \/ DeleteCatRow(p) \/ DropCatTable(p)
        PROVE  UNCHANGED <<cfdRows, cft, refcount>>
    BY <1>6 DEF AddCatRow, CreateCatTable, GetCfdName, DeleteCatRow, DropCatTable, db
  <1>7. ASSUME NEW p \in Proc, Fail(p) PROVE UNCHANGED <<cfdRows, cft, refcount>>
    BY <1>7 DEF Fail, StatementFails, ReadCutShort, Crash, db
  <1>8. ASSUME UNCHANGED vars PROVE UNCHANGED <<cfdRows, cft, refcount>>
    BY <1>8 DEF vars
  <1> QED
    BY <1>1, <1>2, <1>3, <1>4, <1>5, <1>6, <1>7, <1>8, LoadGrows
       DEF Next, Work, Load, Edit

(* A CFD that is listed stays listed with all its fields, and only rmcat   *)
(* lowers its refcount: no INSERT OR REPLACE resets it.                    *)
THEOREM DefinitionsGrow == Spec => ListedOnlyGrows
  <1>1. IInv /\ [Next]_vars => [GrowsStep]_vars
    BY NextGrows
  <1> QED
    BY <1>1, Invariant, PTL DEF Spec, ListedOnlyGrows, GrowsStep

-----------------------------------------------------------------------------
(* An incomplete CFD is being written.                                     *)

FillPc == {"addCfd", "dropCft", "addField"}

(* A field table is dropped after a failure only, hence while nothing has  *)
(* failed no loader leaves its CFD behind.                                 *)
NoneDropped == ~faulted => \A p \in Proc : pc[p] # "dropCft"

CfdInv == NoneDropped /\ CfdPartialOnlyInFlight

CfdDone(c) == CfdComplete(cft[c].spec, c)

(* The processes other than p stay where they are. *)
OthersStay(p) ==
    \A q \in Proc \ {p} :
        /\ pc'[q] = pc[q]
        /\ cur'[q] = cur[q]
        /\ pos'[q] = pos[q]

(* A step of a process that fills no CFD, and starts none. *)
LEMMA ElsewhereCfdInv ==
    ASSUME CfdInv, NEW p \in Proc, ~faulted => pc[p] \notin FillPc, OthersStay(p),
           pc'[p] # "dropCft", faulted' = faulted, UNCHANGED <<cfdRows, cft>>
    PROVE  CfdInv'
  <1> SUFFICES ASSUME ~faulted PROVE CfdInv'
    BY DEF CfdInv, NoneDropped, CfdPartialOnlyInFlight
  <1>1. \A q \in Proc : pc'[q] # "dropCft"
    BY DEF CfdInv, NoneDropped, OthersStay
  <1>2. ASSUME NEW c \in Cfd, NEW q \in Proc, FillsCfd(q, c) PROVE FillsCfd(q, c)'
    BY <1>2 DEF FillsCfd, FillPc, OthersStay, CurCfd
  <1>3. ASSUME NEW c \in Cfd, cft[c] # None
        PROVE  CfdDone(c)' \/ \E q \in Proc : FillsCfd(q, c)'
    BY <1>2, <1>3 DEF CfdInv, CfdPartialOnlyInFlight, CfdComplete, CfdDone
  <1> QED
    BY <1>1, <1>3 DEF CfdInv, NoneDropped, CfdPartialOnlyInFlight, CfdComplete, CfdDone

(* A step of a process that starts, lists or fills the CFD c0. *)
LEMMA WriterCfdInv ==
    ASSUME CfdInv, ~faulted, NEW p \in Proc, NEW c0 \in Cfd, OthersStay(p),
           pc'[p] # "dropCft", faulted' = faulted,
           \A c \in Cfd : FillsCfd(p, c) => c = c0,
           \A c \in Cfd \ {c0} : cft'[c] = cft[c] /\ (c \in cfdRows => c \in cfdRows'),
           CfdDone(c0)' \/ FillsCfd(p, c0)'
    PROVE  CfdInv'
  <1>1. \A q \in Proc : pc'[q] # "dropCft"
    BY DEF CfdInv, NoneDropped, OthersStay
  <1>2. ASSUME NEW c \in Cfd \ {c0}, NEW q \in Proc, FillsCfd(q, c) PROVE FillsCfd(q, c)'
    BY <1>2 DEF FillsCfd, OthersStay, CurCfd
  <1>3. ASSUME NEW c \in Cfd, cft'[c] # None
        PROVE  CfdDone(c)' \/ \E q \in Proc : FillsCfd(q, c)'
    <2>1. CASE c = c0
      BY <2>1
    <2>2. CASE c # c0
      BY <1>2, <1>3, <2>2 DEF CfdInv, CfdPartialOnlyInFlight, CfdComplete, CfdDone
    <2> QED
      BY <2>1, <2>2
  <1> QED
    BY <1>1, <1>3 DEF CfdInv, NoneDropped, CfdPartialOnlyInFlight, CfdComplete, CfdDone

LEMMA CreateCftCfdInv ==
    ASSUME IInv, CfdInv, NEW p \in Proc, CreateCft(p), faulted' = faulted
    PROVE  CfdInv'
  <1> USE DEF CreateCft
  <1>0. DbTypeOK /\ ProcTypeOK
    BY DEF IInv, TypeOK
  <1>1. CASE Exit(p) /\ UNCHANGED cft
    <2>1. OthersStay(p) /\ pc'[p] # "dropCft"
      BY <1>0, <1>1 DEF Exit, Leave, OthersStay, ProcTypeOK
    <2> QED
      BY <1>1, <2>1, ElsewhereCfdInv DEF FillPc
  <1>2. CASE /\ cft' = [cft EXCEPT ![CurCfd(p)] = [spec |-> cur[p], rows |-> 0]]
             /\ Goto(p, "addCfd")
             /\ UNCHANGED <<cur, pos>>
    <2>1. PICK c0 \in Cfd : CurCfd(p) = c0
      BY CfdWriter DEF CfdPc
    <2>2. OthersStay(p) /\ pc'[p] = "addCfd" /\ CurCfd(p)' = c0
      BY <1>0, <1>2, <2>1 DEF Goto, OthersStay, ProcTypeOK, CurCfd
    <2>3. \A c \in Cfd : FillsCfd(p, c) => c = c0
      BY <2>1 DEF FillsCfd
    <2>4. \A c \in Cfd \ {c0} : cft'[c] = cft[c]
      BY <1>0, <1>2, <2>1 DEF DbTypeOK
    <2>5. FillsCfd(p, c0)'
      BY <2>2 DEF FillsCfd
    <2>6. CASE faulted
      BY <2>6 DEF CfdInv, NoneDropped, CfdPartialOnlyInFlight
    <2>7. CASE ~faulted
      BY <2>1, <2>2, <2>3, <2>4, <2>5, <2>7, WriterCfdInv
    <2> QED
      BY <2>6, <2>7
  <1> QED
    BY <1>1, <1>2

LEMMA AddCfdRowCfdInv ==
    ASSUME IInv, CfdInv, NEW p \in Proc, AddCfdRow(p), faulted' = faulted
    PROVE  CfdInv'
  <1> USE DEF AddCfdRow
  <1>0. ProcTypeOK
    BY DEF IInv, TypeOK
  <1>1. PICK c0 \in Cfd : CurCfd(p) = c0
    BY CfdWriter DEF CfdPc
  <1>2. OthersStay(p) /\ pc'[p] = "addField" /\ CurCfd(p)' = c0
    BY <1>0, <1>1 DEF Goto, OthersStay, ProcTypeOK, CurCfd
  <1>3. (\A c \in Cfd : FillsCfd(p, c) => c = c0) /\ FillsCfd(p, c0)'
    BY <1>1, <1>2 DEF FillsCfd
  <1>4. CASE faulted
    BY <1>4 DEF CfdInv, NoneDropped, CfdPartialOnlyInFlight
  <1>5. CASE ~faulted
    <2>1. \A c \in Cfd \ {c0} : cft'[c] = cft[c] /\ (c \in cfdRows => c \in cfdRows')
      BY <1>1
    <2> QED
      BY <1>1, <1>2, <1>3, <1>5, <2>1, WriterCfdInv
  <1> QED
    BY <1>4, <1>5

(* The last field completes the CFD before its loader goes on. *)
LEMMA AddFieldCfdInv ==
    ASSUME IInv, CfdInv, NEW p \in Proc, AddField(p), faulted' = faulted
    PROVE  CfdInv'
  <1> USE DEF AddField
  <1>0. DbTypeOK /\ ProcTypeOK /\ ProcessOK(p)
    BY DEF IInv, TypeOK
  <1> DEFINE s0 == cur[p]
  <1>1. PICK c0 \in Cfd :
           /\ CurCfd(p) = c0
           /\ row[p] \in 1..Len(Fields[s0][c0]) /\ Len(Fields[s0][c0]) \in Nat
    BY CfdWriter DEF CfdPc
  <1>2. /\ c0 \in cfdRows /\ cft[c0] # None /\ cft[c0].spec = s0
        /\ cft[c0].rows = row[p] - 1
    BY <1>0, <1>1 DEF ProcessOK, CfdProgress
  <1>3. cft[c0] \in DefTable /\ cft'[c0] = [cft[c0] EXCEPT !.rows = @ + 1]
    BY <1>0, <1>1, <1>2 DEF DbTypeOK
  <1>4. /\ cft'[c0] # None /\ cft'[c0].spec = s0 /\ cft'[c0].rows = row[p]
    BY <1>1, <1>2, <1>3, SchemaConstants DEF DefTable
  <1>5. \A c \in Cfd \ {c0} : cft'[c] = cft[c]
    BY <1>0, <1>1 DEF DbTypeOK
  <1>6. \A c \in Cfd : FillsCfd(p, c) => c = c0
    BY <1>1 DEF FillsCfd
  <1>7. CASE /\ row[p] < Len(Fields[s0][c0])
             /\ UNCHANGED <<pc, cur, pos>>
    <2>1. OthersStay(p) /\ pc'[p] = "addField" /\ FillsCfd(p, c0)'
      BY <1>1, <1>7 DEF OthersStay, FillsCfd, CurCfd
    <2> QED
      BY <1>1, <1>5, <1>6, <2>1, WriterCfdInv
         DEF CfdInv, NoneDropped, CfdPartialOnlyInFlight
  <1>8. CASE row[p] >= Len(Fields[s0][c0]) /\ CfdLoop(p, pos[p] + 1)
    <2>1. OthersStay(p) /\ pc'[p] # "dropCft"
      BY <1>0, <1>8 DEF CfdLoop, Exit, Leave, Goto, OthersStay, ProcTypeOK
    <2>2. cft'[c0].rows = Len(Fields[s0][c0])
      BY <1>1, <1>4, <1>8
    <2>3. CfdDone(c0)'
      BY <1>2, <1>4, <2>2 DEF CfdComplete, CfdDone
    <2>4. CASE faulted
      BY <2>4 DEF CfdInv, NoneDropped, CfdPartialOnlyInFlight
    <2>5. CASE ~faulted
      BY <1>1, <1>5, <1>6, <2>1, <2>3, <2>5, WriterCfdInv
    <2> QED
      BY <2>4, <2>5
  <1> QED
    BY <1>1, <1>7, <1>8

LEMMA NextCfdInv == IInv /\ CfdInv /\ [Next]_vars => CfdInv'
  <1> SUFFICES ASSUME IInv, CfdInv, [Next]_vars PROVE CfdInv'
    OBVIOUS
  <1>0. ProcTypeOK
    BY DEF IInv, TypeOK
  <1> USE DEF OthersStay, ProcTypeOK, FillPc, heads, args
  <1>1. ASSUME NEW p \in Proc, User(p) PROVE CfdInv'
    <2>1. /\ pc[p] \notin FillPc /\ OthersStay(p) /\ pc'[p] # "dropCft"
          /\ faulted' = faulted /\ UNCHANGED <<cfdRows, cft>>
      BY <1>0, <1>1 DEF User, OpenLoader, OpenEditor, Quit, MkCat, RmCat, Resting,
         Exit, Leave, Goto, db
    <2> QED
      BY <2>1, ElsewhereCfdInv
  <1>2. ASSUME NEW p \in Proc, DbStart(p) \/ InitDbTables(p) \/ Parse(p), faulted' = faulted
        PROVE  CfdInv'
    <2>1. /\ pc[p] \notin FillPc /\ OthersStay(p) /\ pc'[p] # "dropCft"
          /\ UNCHANGED <<cfdRows, cft>>
      BY <1>0, <1>2 DEF DbStart, InitDbTables, CreateSys, Parse, EnumLoop, CfdLoop,
         Exit, Leave, Goto, db
    <2> QED
      BY <1>2, <2>1, ElsewhereCfdInv
  <1>3. ASSUME NEW p \in Proc, CreateEndef(p) \/ AddEnumRow(p) \/ AddElem(p),
               faulted' = faulted
        PROVE  CfdInv'
    <2>1. /\ pc[p] \notin FillPc /\ OthersStay(p) /\ pc'[p] # "dropCft"
          /\ UNCHANGED <<cfdRows, cft>>
      BY <1>0, <1>3 DEF CreateEndef, AddEnumRow, AddElem, EnumLoop, CfdLoop,
         Exit, Leave, Goto
    <2> QED
      BY <1>3, <2>1, ElsewhereCfdInv
  <1>4. ASSUME NEW p \in Proc, Read(p), faulted' = faulted PROVE CfdInv'
    <2>1. /\ pc[p] \notin FillPc /\ OthersStay(p) /\ pc'[p] # "dropCft"
          /\ UNCHANGED <<cfdRows, cft>>
      BY <1>0, <1>4 DEF Read, ReadEnums, ReadCfds, ReadCats, Ready, Exit, Leave, Goto, db
    <2> QED
      BY <1>4, <2>1, ElsewhereCfdInv
  <1>5. ASSUME NEW p \in Proc, Edit(p), faulted' = faulted PROVE CfdInv'
    <2>1. /\ pc[p] \notin FillPc /\ OthersStay(p) /\ pc'[p] # "dropCft"
          /\ UNCHANGED <<cfdRows, cft>>
      BY <1>0, <1>5 DEF Edit, AddCatRow, IncRef, CreateCatTable, GetCfdName,
         DeleteCatRow, DropCatTable, DecRef, NextMk, NextRm, Exit, Leave, Goto, db
    <2> QED
      BY <1>5, <2>1, ElsewhereCfdInv
  <1>6. ASSUME NEW p \in Proc, DropCft(p), faulted' = faulted PROVE CfdInv'
    BY <1>6 DEF DropCft, CfdInv, NoneDropped, CfdPartialOnlyInFlight
  <1>7. ASSUME NEW p \in Proc, Fail(p) PROVE CfdInv'
    BY <1>7 DEF Fail, StatementFails, ReadCutShort, Crash, CfdInv, NoneDropped, CfdPartialOnlyInFlight
  <1>8. ASSUME UNCHANGED vars PROVE CfdInv'
    BY <1>8 DEF vars, CfdInv, NoneDropped, CfdPartialOnlyInFlight, CfdComplete, CfdDone,
       FillsCfd, CurCfd
  <1> QED
    BY <1>1, <1>2, <1>3, <1>4, <1>5, <1>6, <1>7, <1>8,
       CreateCftCfdInv, AddCfdRowCfdInv, AddFieldCfdInv
       DEF Next, Work, Load

(* Until something fails, a CFD that is not complete has a process that    *)
(* writes it, however the loaders race.                                    *)
THEOREM IncompleteIsWritten == Spec => []CfdPartialOnlyInFlight
  <1>1. Init => CfdInv
    BY DEF Init, CfdInv, NoneDropped, CfdPartialOnlyInFlight
  <1>2. CfdInv => CfdPartialOnlyInFlight
    BY DEF CfdInv
  <1> QED
    BY <1>1, <1>2, NextCfdInv, Invariant, PTL DEF Spec


-----------------------------------------------------------------------------
(***************************************************************************)
(* Proofs about catalogues, for every set of processes, files and names.   *)
(*                                                                         *)
(* No catalogue table lacks an oth_ column.  What a session reads is two   *)
(* lists, one after the other, and a loader may write in between; ColInv   *)
(* says why the enumerations of a CFD in memory are complete nevertheless. *)
(*                                                                         *)
(* No CFD is counted less often than it is used, as long as the commands of*)
(* two fedits do not overlap and nothing fails; RefInv says what a command *)
(* that is under way owes the count.                                       *)
(***************************************************************************)

(* The processes other than p keep what they know, but their schema may    *)
(* expire.                                                                 *)
OthersKeep(p) ==
    \A q \in Proc \ {p} :
        /\ pc'[q] = pc[q]
        /\ hEnum'[q] = hEnum[q]
        /\ hCfd'[q] = hCfd[q]
        /\ cut'[q] = cut[q]
        /\ known'[q] = known[q]
        /\ fresh'[q] = fresh[q] \/ ~fresh'[q]

(* No field table appears. *)
DefsKeep ==
    \A c \in Cfd : cft'[c] # None => cft[c] # None /\ cft'[c].spec = cft[c].spec

(* p reads neither list in this step, and may lose both. *)
OwnMoves(p) ==
    /\ pc'[p] # "readCfds"
    /\ \/ \A c \in Cfd : hCfd'[p][c] = None
       \/ /\ hCfd'[p] = hCfd[p]
          /\ hEnum'[p] = hEnum[p]
          /\ cut'[p] = cut[p]
          /\ pc'[p] \in EarlyPc => pc[p] \in EarlyPc

(* A complete enumeration is not written. *)
EndefKeeps ==
    \A s \in SpecFile, e \in Enum : EnumComplete(s, e) => endef'[e] = endef[e]

-----------------------------------------------------------------------------
(* What a field refers to. *)
LEMMA FieldType ==
    ASSUME NEW s \in SpecFile, NEW c \in Cfd, NEW i \in 1..Len(Fields[s][c]),
           Fields[s][c][i] # None
    PROVE  Fields[s][c][i] \in Enum
  BY FieldEnum, SpecShape

(* The enumeration of a field whose CFD has a table. *)
LEMMA ListedEnum ==
    ASSUME IInv, NEW c \in Cfd, cft[c] # None,
           NEW i \in 1..Len(Fields[cft[c].spec][c]), Fields[cft[c].spec][c][i] # None
    PROVE  /\ cft[c].spec \in SpecFile
           /\ Fields[cft[c].spec][c][i] \in Enum
           /\ EnumComplete(cft[c].spec, Fields[cft[c].spec][c][i])
  <1>1. cft[c].spec \in SpecFile
    BY DEF IInv, TypeOK, DbTypeOK, DefTable
  <1>2. PICK j \in 1..Len(SpecEnums[cft[c].spec]) :
           SpecEnums[cft[c].spec][j] = Fields[cft[c].spec][c][i]
    BY <1>1, FieldEnum
  <1>3. EnumComplete(cft[c].spec, SpecEnums[cft[c].spec][j])
    BY DEF IInv, DatabaseOK, CfdTables
  <1> QED
    BY <1>1, <1>2, <1>3, SpecShape

(* The enumeration of a column's field. *)
LEMMA ColumnEnum ==
    ASSUME IInv, NEW k \in Cat, ctab[k] # None, NEW i \in 1..ctab[k].fields,
           Fields[ctab[k].spec][ctab[k].cfd][i] # None
    PROVE  /\ ctab[k].spec \in SpecFile
           /\ Fields[ctab[k].spec][ctab[k].cfd][i] \in Enum
           /\ EnumComplete(ctab[k].spec, Fields[ctab[k].spec][ctab[k].cfd][i])
  <1> DEFINE c == ctab[k].cfd
  <1>1. /\ c \in Cfd /\ cft[c] # None /\ cft[c].spec = ctab[k].spec
        /\ ctab[k].fields \in 1..cft[c].rows
    BY DEF IInv, DatabaseOK, ColumnsDescribed, TypeOK, DbTypeOK, CatTable
  <1>2. /\ cft[c].spec \in SpecFile
        /\ cft[c].rows \in 0..Len(Fields[cft[c].spec][c])
        /\ Len(Fields[cft[c].spec][c]) \in Nat
    BY <1>1, SpecShape DEF IInv, DatabaseOK, CfdTables, TypeOK, DbTypeOK, DefTable
  <1> HIDE DEF c
  <1>3. i \in 1..Len(Fields[cft[c].spec][c])
    <2> DEFINE n == ctab[k].fields
               r == cft[c].rows
               l == Len(Fields[cft[c].spec][c])
    <2>1. n \in 1..r /\ r \in 0..l /\ l \in Nat /\ i \in 1..n
      BY <1>1, <1>2
    <2> HIDE DEF n, r, l
    <2>2. i \in 1..l
      BY <2>1
    <2> QED
      BY <2>2 DEF l
  <1>4. Fields[cft[c].spec][c][i] # None
    BY <1>1 DEF c
  <1> QED
    BY <1>1, <1>3, <1>4, ListedEnum DEF c

-----------------------------------------------------------------------------
(* What a step leaves of ColInv. *)

LEMMA HoldsKeeps ==
    ASSUME NEW q \in Proc, HoldsWhole(q), hEnum'[q] = hEnum[q], hCfd'[q] = hCfd[q],
           cut'[q] = cut[q]
    PROVE  HoldsWhole(q)'
  <1>1. ASSUME ~cut[q], NEW c \in Cfd, hCfd'[q][c] # None,
               NEW i \in 1..hCfd'[q][c].rows,
               Fields[hCfd'[q][c].spec][c][i] # None
        PROVE  Whole(q, hCfd[q][c].spec, Fields[hCfd[q][c].spec][c][i])
    BY <1>1 DEF HoldsWhole
  <1>2. ASSUME ~cut[q], NEW c \in Cfd, hCfd'[q][c] # None,
               NEW i \in 1..hCfd'[q][c].rows,
               Fields[hCfd'[q][c].spec][c][i] # None
        PROVE  /\ hEnum'[q][Fields[hCfd'[q][c].spec][c][i]] # None
               /\ hEnum'[q][Fields[hCfd'[q][c].spec][c][i]].spec = hCfd'[q][c].spec
               /\ hEnum'[q][Fields[hCfd'[q][c].spec][c][i]].rows
                      = Len(Elems[hCfd'[q][c].spec][Fields[hCfd'[q][c].spec][c][i]])
    <2>1. Whole(q, hCfd[q][c].spec, Fields[hCfd[q][c].spec][c][i])
      BY <1>1, <1>2
    <2> QED
      BY <2>1, Zenon DEF Whole
  <1> QED
    BY <1>2, Zenon DEF HoldsWhole, Whole

LEMMA FrameMemory ==
    ASSUME ColInv, DbTypeOK', NEW p \in Proc, OthersKeep(p), NEW q \in Proc \ {p},
           DefsKeep \/ ~fresh'[q]
    PROVE  MemoryOK(q)'
  <1> USE DEF OthersKeep
  <1>1. MemoryOK(q)
    BY DEF ColInv
  <1>2. pc'[q] \in EarlyPc => \A c \in Cfd : hCfd'[q][c] = None
    BY <1>1 DEF MemoryOK
  <1>3. HoldsWhole(q)'
    <2>1. /\ HoldsWhole(q) /\ hEnum'[q] = hEnum[q] /\ hCfd'[q] = hCfd[q]
          /\ cut'[q] = cut[q]
      BY <1>1 DEF MemoryOK
    <2> QED
      BY <2>1, HoldsKeeps, Zenon
  <1>4. ASSUME pc[q] = "readCfds" PROVE ReadsWhole(q)'
    <2>1. "cfd_list" \notin known[q] => \A e \in Enum : hEnum[q][e] = None
      BY <1>1, <1>4 DEF MemoryOK, ReadsWhole
    <2>2. CASE ~fresh'[q] /\ "cfd_list" \in known[q]
      BY <2>2 DEF ReadsWhole, Expired
    <2>3. CASE "cfd_list" \notin known[q]
      <3>1. ASSUME NEW c \in Cfd, cft'[c] # None,
                   NEW i \in 1..Len(Fields[cft'[c].spec][c]),
                   Fields[cft'[c].spec][c][i] # None
            PROVE  hEnum[q][Fields[cft'[c].spec][c][i]] = None
        <4>1. cft'[c].spec \in SpecFile
          BY <3>1 DEF DbTypeOK, DefTable
        <4> QED
          BY <2>1, <2>3, <3>1, <4>1, FieldType
      <3> QED
        BY <2>1, <2>3, <3>1 DEF ReadsWhole
    <2>6. CASE cut[q] /\ "cfd_list" \in known[q]
      BY <2>6 DEF ReadsWhole
    <2>4. CASE ~cut[q] /\ DefsKeep /\ fresh'[q] = fresh[q] /\ "cfd_list" \in known[q]
      <3>1. CASE Expired(q, "cfd_list")
        BY <2>4, <3>1 DEF ReadsWhole, Expired
      <3>2. CASE ~Expired(q, "cfd_list")
        <4>1. ASSUME NEW c \in Cfd, cft[c] # None,
                     NEW i \in 1..Len(Fields[cft[c].spec][c]),
                     Fields[cft[c].spec][c][i] # None,
                     hEnum[q][Fields[cft[c].spec][c][i]] # None
              PROVE  Whole(q, cft[c].spec, Fields[cft[c].spec][c][i])
          <5>1. ReadsWhole(q)
            BY <1>1 DEF MemoryOK
          <5> QED
            BY <1>4, <2>4, <3>2, <4>1, <5>1, Zenon DEF ReadsWhole
        <4>2. ASSUME NEW c \in Cfd, cft'[c] # None,
                     NEW i \in 1..Len(Fields[cft'[c].spec][c]),
                     Fields[cft'[c].spec][c][i] # None,
                     hEnum[q][Fields[cft'[c].spec][c][i]] # None
              PROVE  Whole(q, cft'[c].spec, Fields[cft'[c].spec][c][i])
          BY <2>4, <4>1, <4>2 DEF DefsKeep
        <4>3. ASSUME NEW c \in Cfd, cft'[c] # None,
                     NEW i \in 1..Len(Fields[cft'[c].spec][c]),
                     Fields[cft'[c].spec][c][i] # None,
                     hEnum'[q][Fields[cft'[c].spec][c][i]] # None
              PROVE  /\ hEnum'[q][Fields[cft'[c].spec][c][i]] # None
                     /\ hEnum'[q][Fields[cft'[c].spec][c][i]].spec = cft'[c].spec
                     /\ hEnum'[q][Fields[cft'[c].spec][c][i]].rows
                            = Len(Elems[cft'[c].spec][Fields[cft'[c].spec][c][i]])
          <5>1. hEnum'[q] = hEnum[q]
            OBVIOUS
          <5>2. Whole(q, cft'[c].spec, Fields[cft'[c].spec][c][i])
            BY <4>2, <4>3, <5>1
          <5> QED
            BY <5>1, <5>2, Zenon DEF Whole
        <4>4. "cfd_list" \in known'[q]
          BY <2>4
        <4> QED
          BY <4>3, <4>4, Zenon DEF ReadsWhole, Whole
      <3> QED
        BY <3>1, <3>2
    <2>5. (fresh'[q] = fresh[q] \/ ~fresh'[q]) /\ (DefsKeep \/ ~fresh'[q])
      OBVIOUS
    <2> QED
      BY ONLY <2>2, <2>3, <2>4, <2>5, <2>6, Zenon
  <1>5. pc[q] # "readCfds" => ReadsWhole(q)'
    BY DEF ReadsWhole
  <1> QED
    BY <1>2, <1>3, <1>4, <1>5 DEF MemoryOK

LEMMA OwnMemory ==
    ASSUME ColInv, NEW p \in Proc, OwnMoves(p)
    PROVE  MemoryOK(p)'
  <1>1. MemoryOK(p)
    BY DEF ColInv
  <1>2. ReadsWhole(p)'
    BY DEF OwnMoves, ReadsWhole
  <1>3. CASE \A c \in Cfd : hCfd'[p][c] = None
    BY <1>2, <1>3 DEF MemoryOK, HoldsWhole
  <1>4. CASE /\ hCfd'[p] = hCfd[p]
             /\ hEnum'[p] = hEnum[p]
             /\ cut'[p] = cut[p]
             /\ pc'[p] \in EarlyPc => pc[p] \in EarlyPc
    <2>1. HoldsWhole(p)'
      <3>1. HoldsWhole(p)
        BY <1>1 DEF MemoryOK
      <3> QED
        BY <1>4, <3>1, HoldsKeeps, Zenon
    <2>2. pc[p] \in EarlyPc => \A c \in Cfd : hCfd[p][c] = None
      BY <1>1 DEF MemoryOK
    <2>3. pc'[p] \in EarlyPc => \A c \in Cfd : hCfd'[p][c] = None
      <3> SUFFICES ASSUME pc'[p] \in EarlyPc, NEW c \in Cfd PROVE hCfd'[p][c] = None
        OBVIOUS
      <3>1. pc[p] \in EarlyPc /\ hCfd'[p] = hCfd[p]
        BY <1>4
      <3> QED
        BY <2>2, <3>1
    <2> QED
      BY <1>2, <2>1, <2>3, Zenon DEF MemoryOK
  <1> QED
    BY <1>3, <1>4, Zenon DEF OwnMoves

LEMMA ColumnsKeep ==
    ASSUME IInv, ColInv, EndefKeeps, \A k \in Cat : ctab'[k] = ctab[k] \/ ctab'[k] = None
    PROVE  OtherColumnPresent'
  <1> SUFFICES ASSUME NEW k \in Cat, ctab'[k] # None, ~ctab'[k].cut,
                      NEW i \in 1..ctab[k].fields,
                      Fields[ctab[k].spec][ctab[k].cfd][i] # None,
                      NEW e, e = Fields[ctab[k].spec][ctab[k].cfd][i],
                      \E r \in 1..endef'[e].rows : Elems[endef'[e].spec][e][r]
               PROVE  i \in ctab[k].other
    BY Zenon DEF OtherColumnPresent, HasOtherColumns
  <1>1. endef'[e] = endef[e]
    BY ColumnEnum, Zenon DEF EndefKeeps
  <1> QED
    BY <1>1, Zenon DEF ColInv, OtherColumnPresent, HasOtherColumns

(* A step that makes no catalogue table and reads neither list. *)
LEMMA MoveStep ==
    ASSUME IInv, ColInv, DbTypeOK', NEW p \in Proc, OthersKeep(p), OwnMoves(p), EndefKeeps,
           DefsKeep \/ \A q \in Proc \ {p} : ~fresh'[q],
           \A k \in Cat : ctab'[k] = ctab[k] \/ ctab'[k] = None,
           sys \subseteq sys', enumRows' = enumRows \/ "cfd_list" \in sys
    PROVE  ColInv'
  <1>1. OtherColumnPresent'
    BY ColumnsKeep
  <1>2. \A q \in Proc : MemoryOK(q)'
    BY FrameMemory, OwnMemory
  <1> QED
    BY <1>1, <1>2 DEF ColInv

(* Nothing but processes moves. *)
LEMMA QuietColInv ==
    ASSUME IInv, ColInv, NEW p \in Proc, OthersKeep(p), OwnMoves(p),
           UNCHANGED <<sys, enumRows, endef, cft, ctab>>, DbTypeOK'
    PROVE  ColInv'
  BY MoveStep DEF EndefKeeps, DefsKeep

LEMMA ExitMoves ==
    ASSUME IInv, NEW p \in Proc, Exit(p)
    PROVE  OthersKeep(p) /\ OwnMoves(p)
  <1>1. ProcTypeOK /\ HeadsTypeOK
    BY DEF IInv, TypeOK
  <1>2. OthersKeep(p)
    BY <1>1 DEF Exit, Leave, OthersKeep, ProcTypeOK, HeadsTypeOK
  <1>3. pc'[p] = "idle" /\ hCfd'[p] = NoHeads(Cfd)
    BY <1>1 DEF Exit, Leave, ProcTypeOK, HeadsTypeOK
  <1> QED
    BY <1>2, <1>3 DEF OwnMoves, NoHeads

(* A step of p that leaves the lists, at a later statement or the same. *)
LEMMA GoMoves ==
    ASSUME IInv, NEW p \in Proc, NEW l, pc' = [pc EXCEPT ![p] = l],
           l # "readCfds", l \in EarlyPc => pc[p] \in EarlyPc,
           UNCHANGED <<hEnum, hCfd, cut>>,
           UNCHANGED conn \/ Refresh(p) \/ \E t : ChangeSchema(p, t)
    PROVE  OthersKeep(p) /\ OwnMoves(p)
  <1>1. ProcTypeOK /\ HeadsTypeOK
    BY DEF IInv, TypeOK
  <1>2. pc'[p] = l /\ \A q \in Proc \ {p} : pc'[q] = pc[q]
    BY <1>1 DEF ProcTypeOK
  <1>3. ASSUME NEW q \in Proc \ {p}
        PROVE  known'[q] = known[q] /\ (fresh'[q] = fresh[q] \/ ~fresh'[q])
    BY <1>1 DEF conn, Refresh, ChangeSchema, HeadsTypeOK
  <1> QED
    BY <1>2, <1>3 DEF OthersKeep, OwnMoves

LEMMA LoopMoves ==
    ASSUME IInv, NEW p \in Proc, NEW i, EnumLoop(p, i) \/ CfdLoop(p, i)
    PROVE  OthersKeep(p) /\ OwnMoves(p)
  <1>1. ASSUME NEW j, CfdLoop(p, j) PROVE OthersKeep(p) /\ OwnMoves(p)
    BY <1>1, ExitMoves, GoMoves DEF CfdLoop, Goto, heads, EarlyPc
  <1>2. CASE EnumLoop(p, i) /\ Goto(p, "mkEndef") /\ UNCHANGED <<conn, heads>>
    BY <1>2, GoMoves DEF Goto, heads, EarlyPc
  <1> QED
    BY <1>1, <1>2 DEF EnumLoop

-----------------------------------------------------------------------------
(* Steps that change no definition. *)

LEMMA UserColInv ==
    ASSUME IInv, ColInv, DbTypeOK', NEW p \in Proc, User(p)
    PROVE  ColInv'
  <1>1. OthersKeep(p) /\ OwnMoves(p)
    <2>1. ASSUME NEW s, OpenLoader(p, s) PROVE OthersKeep(p) /\ OwnMoves(p)
      BY <2>1, GoMoves DEF OpenLoader, Goto, heads, EarlyPc
    <2>2. CASE OpenEditor(p)
      BY <2>2, GoMoves DEF OpenEditor, Goto, EarlyPc
    <2>3. CASE Quit(p)
      BY <2>3, ExitMoves DEF Quit
    <2>4. ASSUME NEW k, NEW c, MkCat(p, k, c) PROVE OthersKeep(p) /\ OwnMoves(p)
      BY <2>4, GoMoves DEF MkCat, Goto, heads, EarlyPc
    <2>5. ASSUME NEW k, RmCat(p, k) PROVE OthersKeep(p) /\ OwnMoves(p)
      BY <2>5, GoMoves DEF RmCat, Goto, heads, EarlyPc
    <2> QED
      BY <2>1, <2>2, <2>3, <2>4, <2>5 DEF User
  <1>2. UNCHANGED db
    BY DEF User, OpenLoader, OpenEditor, Quit, MkCat, RmCat
  <1> QED
    BY <1>1, <1>2, QuietColInv DEF db

LEMMA QuietLoadColInv ==
    ASSUME IInv, ColInv, DbTypeOK', NEW p \in Proc,
           DbStart(p) \/ Parse(p) \/ AddCfdRow(p) \/ ReadCats(p)
    PROVE  ColInv'
  <1>1. CASE DbStart(p)
    BY <1>1, GoMoves, QuietColInv DEF DbStart, Goto, heads, EarlyPc, db
  <1>2. CASE Parse(p)
    BY <1>2, LoopMoves, ExitMoves, QuietColInv DEF Parse, db
  <1>3. CASE AddCfdRow(p)
    BY <1>3, GoMoves, QuietColInv DEF AddCfdRow, Goto, heads, EarlyPc
  <1>4. CASE ReadCats(p)
    <2>1. Ready(p) => OthersKeep(p) /\ OwnMoves(p)
      BY GoMoves DEF Ready, Goto, EarlyPc
    <2> QED
      BY <1>4, <2>1, ExitMoves, QuietColInv DEF ReadCats, db
  <1> QED
    BY <1>1, <1>2, <1>3, <1>4

LEMMA QuietEditColInv ==
    ASSUME IInv, ColInv, DbTypeOK', NEW p \in Proc,
           AddCatRow(p) \/ IncRef(p) \/ GetCfdName(p) \/ DeleteCatRow(p) \/ DecRef(p)
    PROVE  ColInv'
  <1>1. CASE AddCatRow(p) \/ IncRef(p) \/ DeleteCatRow(p)
    BY <1>1, GoMoves, QuietColInv
       DEF AddCatRow, IncRef, DeleteCatRow, Goto, heads, EarlyPc
  <1>2. CASE GetCfdName(p)
    BY <1>2, GoMoves, ExitMoves, QuietColInv DEF GetCfdName, Goto, heads, EarlyPc, db
  <1>3. CASE DecRef(p)
    BY <1>3, GoMoves, QuietColInv DEF DecRef, NextRm, Goto, heads, EarlyPc
  <1> QED
    BY <1>1, <1>2, <1>3

LEMMA FailureColInv ==
    ASSUME IInv, ColInv, DbTypeOK', NEW p \in Proc, StatementFails(p) \/ Crash(p)
    PROVE  ColInv'
  <1>1. CASE Exit(p)
    BY <1>1, ExitMoves, QuietColInv DEF StatementFails, Crash, db
  <1>2. CASE Ready(p)
    <2>1. OthersKeep(p) /\ OwnMoves(p)
      BY <1>2, GoMoves DEF Ready, Goto, EarlyPc
    <2> QED
      BY <2>1, QuietColInv DEF StatementFails, Crash, db
  <1>3. CASE \/ Goto(p, "dropCft") /\ UNCHANGED <<conn, heads>>
             \/ NextMk(p) /\ UNCHANGED conn
    <2>1. OthersKeep(p) /\ OwnMoves(p)
      BY <1>3, GoMoves DEF NextMk, Goto, heads, EarlyPc
    <2> QED
      BY <2>1, QuietColInv DEF StatementFails, Crash, db
  <1> QED
    BY <1>1, <1>2, <1>3 DEF StatementFails, Crash

-----------------------------------------------------------------------------
(* Steps that change definitions. *)

LEMMA SysColInv ==
    ASSUME IInv, ColInv, DbTypeOK', NEW p \in Proc, InitDbTables(p)
    PROVE  ColInv'
  <1> SUFFICES ASSUME NEW here, NEW table, NEW next,
                      CreateSys(p, here, table, next),
                      here \in EarlyPc, next # "readCfds"
               PROVE  ColInv'
    BY DEF InitDbTables, EarlyPc
  <1>1. CASE Exit(p) /\ UNCHANGED sys
    BY <1>1, ExitMoves, QuietColInv DEF CreateSys
  <1>2. CASE /\ sys' = sys \cup {table}
             /\ ChangeSchema(p, sys \cup {table})
             /\ Goto(p, next)
             /\ UNCHANGED <<cur, pos, row, heads, args>>
    <2>1. OthersKeep(p) /\ OwnMoves(p)
      BY <1>2, GoMoves DEF CreateSys, Goto, heads
    <2>2. EndefKeeps /\ DefsKeep /\ UNCHANGED <<ctab, enumRows>>
      BY DEF CreateSys, EndefKeeps, DefsKeep
    <2> QED
      BY <1>2, <2>1, <2>2, MoveStep
  <1> QED
    BY <1>1, <1>2 DEF CreateSys

(* A step on the enumeration e0 of p, which is not complete. *)
LEMMA EnumColInv ==
    ASSUME IInv, ColInv, DbTypeOK', NEW p \in Proc, OthersKeep(p), OwnMoves(p),
           \A s \in SpecFile : ~EnumComplete(s, CurEnum(p)),
           \A e \in Enum : e # CurEnum(p) => endef'[e] = endef[e],
           UNCHANGED <<sys, cft, ctab>>, enumRows' = enumRows \/ "cfd_list" \in sys
    PROVE  ColInv'
  <1>1. EndefKeeps
    BY DEF EndefKeeps
  <1>2. DefsKeep
    BY DEF DefsKeep
  <1> QED
    BY <1>1, <1>2, MoveStep

LEMMA EndefColInv ==
    ASSUME IInv, ColInv, DbTypeOK', NEW p \in Proc,
           CreateEndef(p) \/ AddEnumRow(p) \/ AddElem(p)
    PROVE  ColInv'
  <1>0. DbTypeOK /\ ProcessOK(p)
    BY DEF IInv, TypeOK
  <1>1. CASE CreateEndef(p)
    <2>1. CASE Exit(p) /\ UNCHANGED endef
      BY <1>1, <2>1, ExitMoves, QuietColInv DEF CreateEndef
    <2>2. CASE /\ endef[CurEnum(p)] = None
               /\ endef' = [endef EXCEPT ![CurEnum(p)] = [spec |-> cur[p], rows |-> 0]]
               /\ ChangeSchema(p, sys)
               /\ Goto(p, "addEnum")
               /\ UNCHANGED heads
      <3>1. OthersKeep(p) /\ OwnMoves(p)
        BY <2>2, GoMoves DEF Goto, heads, EarlyPc
      <3>2. \A e \in Enum : e # CurEnum(p) => endef'[e] = endef[e]
        BY <1>0, <2>2 DEF DbTypeOK
      <3>3. \A s \in SpecFile : ~EnumComplete(s, CurEnum(p))
        BY <2>2 DEF EnumComplete
      <3> QED
        BY <1>1, <3>1, <3>2, <3>3, EnumColInv DEF CreateEndef
    <2> QED
      BY <1>1, <2>1, <2>2 DEF CreateEndef
  <1>2. CASE AddEnumRow(p)
    <2>1. OthersKeep(p) /\ OwnMoves(p)
      BY <1>2, GoMoves DEF AddEnumRow, Goto, heads, EarlyPc
    <2>2. "cfd_list" \in sys
      BY <1>0, <1>2 DEF AddEnumRow, ProcessOK, SysKnown, EnumPc
    <2>3. EndefKeeps /\ DefsKeep /\ UNCHANGED <<sys, ctab>>
      BY <1>2 DEF AddEnumRow, EndefKeeps, DefsKeep
    <2> QED
      BY <2>1, <2>2, <2>3, MoveStep
  <1>3. CASE AddElem(p)
    <2>1. CASE ~fresh[p] /\ Exit(p) /\ UNCHANGED endef
      BY <1>3, <2>1, ExitMoves, QuietColInv DEF AddElem
    <2>2. CASE /\ endef' = [endef EXCEPT ![CurEnum(p)].rows = @ + 1]
               /\ \/ UNCHANGED <<conn, pc, heads>>
                  \/ EnumLoop(p, pos[p] + 1)
      <3>1. ASSUME UNCHANGED <<conn, pc, heads>> PROVE OthersKeep(p) /\ OwnMoves(p)
        <4>1. pc' = [pc EXCEPT ![p] = "addElem"]
          BY <1>3, <3>1 DEF AddElem, IInv, TypeOK, ProcTypeOK
        <4> QED
          BY <3>1, <4>1, GoMoves DEF EarlyPc, heads
      <3>2. OthersKeep(p) /\ OwnMoves(p)
        BY <2>2, <3>1, LoopMoves
      <3>3. \A e \in Enum : e # CurEnum(p) => endef'[e] = endef[e]
        BY <1>0, <2>2 DEF DbTypeOK
      <3>4. \A s \in SpecFile : ~EnumComplete(s, CurEnum(p))
        <4>1. /\ CurEnum(p) \in Enum /\ cur[p] \in SpecFile
              /\ row[p] \in 1..Len(Elems[cur[p]][CurEnum(p)])
          BY <1>0, <1>3, CurInRange DEF AddElem, ProcessOK, LocalsOK, EnumPc
        <4>2. endef[CurEnum(p)].spec = cur[p] /\ endef[CurEnum(p)].rows = row[p] - 1
          BY <1>0, <1>3 DEF AddElem, ProcessOK, EnumProgress
        <4>3. Len(Elems[cur[p]][CurEnum(p)]) \in Nat
          BY <4>1, SpecShape
        <4>4. Len(Elems[cur[p]][CurEnum(p)]) # row[p] - 1
          BY <4>1, <4>3
        <4> QED
          BY <4>2, <4>4 DEF EnumComplete
      <3> QED
        BY <1>3, <3>2, <3>3, <3>4, EnumColInv DEF AddElem
    <2> QED
      BY <1>3, <2>1, <2>2 DEF AddElem
  <1> QED
    BY <1>1, <1>2, <1>3

LEMMA CftColInv ==
    ASSUME IInv, ColInv, DbTypeOK', NEW p \in Proc, CreateCft(p) \/ DropCft(p) \/ AddField(p)
    PROVE  ColInv'
  <1>0. DbTypeOK /\ ProcTypeOK /\ HeadsTypeOK /\ ProcessOK(p)
    BY DEF IInv, TypeOK
  <1>1. EndefKeeps /\ UNCHANGED <<sys, enumRows, ctab>>
    BY DEF EndefKeeps, CreateCft, DropCft, AddField
  <1>2. CASE CreateCft(p)
    <2>1. CASE Exit(p) /\ UNCHANGED cft
      BY <1>1, <1>2, <2>1, ExitMoves, MoveStep DEF DefsKeep
    <2>2. CASE ChangeSchema(p, sys) /\ Goto(p, "addCfd") /\ UNCHANGED heads
      <3>1. OthersKeep(p) /\ OwnMoves(p)
        BY <2>2, GoMoves DEF Goto, heads, EarlyPc
      <3>2. \A q \in Proc \ {p} : ~fresh'[q]
        BY <2>2 DEF ChangeSchema
      <3> QED
        BY <1>1, <3>1, <3>2, MoveStep
    <2> QED
      BY <1>2, <2>1, <2>2 DEF CreateCft
  <1>3. CASE DropCft(p)
    <2>1. OthersKeep(p)
      BY <1>0, <1>3 DEF DropCft, Leave, OthersKeep, ProcTypeOK, HeadsTypeOK
    <2>2. pc'[p] = "idle" /\ hCfd'[p] = NoHeads(Cfd)
      BY <1>0, <1>3 DEF DropCft, Leave, ProcTypeOK, HeadsTypeOK
    <2>3. OwnMoves(p)
      BY <2>2 DEF OwnMoves, NoHeads
    <2>4. \A q \in Proc \ {p} : ~fresh'[q]
      BY <1>3 DEF DropCft
    <2> QED
      BY <1>1, <2>1, <2>3, <2>4, MoveStep
  <1>4. CASE AddField(p)
    <2>1. OthersKeep(p) /\ OwnMoves(p)
      <3>1. CASE UNCHANGED <<conn, pc, heads>>
        <4>1. pc' = [pc EXCEPT ![p] = "addField"]
          BY <1>0, <1>4, <3>1 DEF AddField, ProcTypeOK
        <4> QED
          BY <3>1, <4>1, GoMoves DEF EarlyPc, heads
      <3> QED
        BY <1>4, <3>1, LoopMoves DEF AddField
    <2>2. DefsKeep
      <3>1. CurCfd(p) \in Cfd /\ cft[CurCfd(p)] # None /\ cft[CurCfd(p)] \in DefTable
        BY <1>0, <1>4, CfdWriter DEF AddField, CfdPc, ProcessOK, CfdProgress, DbTypeOK
      <3>2. \A c \in Cfd : c # CurCfd(p) => cft'[c] = cft[c]
        BY <1>0, <1>4 DEF AddField, DbTypeOK
      <3>3. cft'[CurCfd(p)] = [cft[CurCfd(p)] EXCEPT !.rows = @ + 1]
        BY <1>0, <1>4, <3>1 DEF AddField, DbTypeOK
      <3>4. cft'[CurCfd(p)].spec = cft[CurCfd(p)].spec
        BY <3>1, <3>3 DEF DefTable
      <3> QED
        BY <3>1, <3>2, <3>4 DEF DefsKeep
    <2> QED
      BY <1>1, <2>1, <2>2, MoveStep
  <1> QED
    BY <1>2, <1>3, <1>4

LEMMA DropCatColInv ==
    ASSUME IInv, ColInv, DbTypeOK', NEW p \in Proc, DropCatTable(p)
    PROVE  ColInv'
  <1>1. OthersKeep(p) /\ OwnMoves(p)
    BY GoMoves, ExitMoves DEF DropCatTable, Goto, heads, EarlyPc
  <1>2. \A k \in Cat : ctab'[k] = ctab[k] \/ ctab'[k] = None
    BY DEF DropCatTable, IInv, TypeOK, DbTypeOK
  <1>3. EndefKeeps /\ DefsKeep /\ UNCHANGED <<sys, enumRows>>
    BY DEF DropCatTable, EndefKeeps, DefsKeep
  <1> QED
    BY <1>1, <1>2, <1>3, MoveStep

-----------------------------------------------------------------------------
(* The reads, the making of a catalogue table, and the theorem.            *)

(* What p reads first is complete wherever a field table refers to it. *)
LEMMA ReadEnumsColInv ==
    ASSUME IInv, ColInv, DbTypeOK', NEW p \in Proc, ReadEnums(p)
    PROVE  ColInv'
  <1>0. /\ DbTypeOK /\ ProcTypeOK /\ HeadsTypeOK
        /\ UNCHANGED <<sys, enumRows, endef, cft, ctab>>
    BY DEF IInv, TypeOK, ReadEnums, db
  <1>1. CASE Exit(p)
    BY <1>0, <1>1, ExitMoves, QuietColInv
  <1>2. CASE /\ hEnum' = [hEnum EXCEPT ![p] =
                   [e \in Enum |-> IF enumRows[e] > 0 THEN endef[e] ELSE None]]
             /\ Goto(p, "readCfds")
             /\ Refresh(p)
             /\ UNCHANGED <<hCfd, cut>>
    <2>1. /\ OthersKeep(p) /\ pc'[p] = "readCfds"
          /\ known'[p] = sys
          /\ \A e \in Enum : hEnum'[p][e] = IF enumRows[e] > 0 THEN endef[e] ELSE None
      BY <1>0, <1>2 DEF Goto, Refresh, OthersKeep, ProcTypeOK, HeadsTypeOK
    <2>2. \A q \in Proc \ {p} : MemoryOK(q)'
      BY <1>0, <2>1, FrameMemory DEF DefsKeep
    <2>3. \A c \in Cfd : hCfd[p][c] = None
      BY DEF ColInv, MemoryOK, ReadEnums, EarlyPc
    <2>4. "cfd_list" \notin sys => \A e \in Enum : hEnum'[p][e] = None
      BY <2>1 DEF ColInv
    <2>5. ASSUME NEW c \in Cfd, cft[c] # None,
                 NEW i \in 1..Len(Fields[cft[c].spec][c]),
                 Fields[cft[c].spec][c][i] # None
          PROVE  Whole(p, cft[c].spec, Fields[cft[c].spec][c][i])'
      <3>1. EnumComplete(cft[c].spec, Fields[cft[c].spec][c][i])
        BY <2>5, ListedEnum
      <3>2. Fields[cft[c].spec][c][i] \in Enum
        BY <2>5, ListedEnum
      <3>3. hEnum'[p][Fields[cft[c].spec][c][i]] = endef[Fields[cft[c].spec][c][i]]
        BY <2>1, <3>1, <3>2 DEF EnumComplete
      <3> QED
        BY <1>0, <3>1, <3>3, Zenon DEF Whole, EnumComplete
    <2>6. ReadsWhole(p)'
      BY <1>0, <2>1, <2>4, <2>5, Zenon DEF ReadsWhole
    <2>7. MemoryOK(p)'
      BY <1>2, <2>3, <2>6 DEF MemoryOK, HoldsWhole
    <2>8. OtherColumnPresent'
      BY <1>0, ColumnsKeep DEF EndefKeeps
    <2> QED
      BY <1>0, <2>2, <2>7, <2>8 DEF ColInv
  <1> QED
    BY <1>1, <1>2 DEF ReadEnums

(* p gets here with a schema that has not expired. *)
LEMMA ReadCfdsColInv ==
    ASSUME IInv, ColInv, DbTypeOK', NEW p \in Proc, ReadCfds(p)
    PROVE  ColInv'
  <1>0. /\ DbTypeOK /\ ProcTypeOK /\ HeadsTypeOK
        /\ UNCHANGED <<sys, enumRows, endef, cft, ctab>>
    BY DEF IInv, TypeOK, ReadCfds, db
  <1>1. CASE Exit(p)
    BY <1>0, <1>1, ExitMoves, QuietColInv
  <1>2. CASE /\ CfdsReadable(p)
             /\ hCfd' = [hCfd EXCEPT ![p] =
                   [c \in Cfd |-> IF c \in cfdRows THEN cft[c] ELSE None]]
             /\ Goto(p, IF cur[p] = None THEN "readCats" ELSE "parse")
             /\ Refresh(p)
             /\ UNCHANGED <<hEnum, cut>>
    <2>1. /\ OthersKeep(p) /\ pc'[p] \in {"readCats", "parse"}
          /\ \A c \in Cfd : hCfd'[p][c] = IF c \in cfdRows THEN cft[c] ELSE None
      BY <1>0, <1>2 DEF Goto, Refresh, OthersKeep, ProcTypeOK, HeadsTypeOK
    <2>2. \A q \in Proc \ {p} : MemoryOK(q)'
      BY <1>0, <2>1, FrameMemory DEF DefsKeep
    <2>3. ReadsWhole(p) /\ pc[p] = "readCfds" /\ ~Expired(p, "cfd_list")
      BY <1>2 DEF ColInv, MemoryOK, ReadCfds, CfdsReadable
    <2>4. ASSUME ~cut[p], NEW c \in Cfd, hCfd'[p][c] # None,
                 NEW i \in 1..hCfd'[p][c].rows,
                 Fields[hCfd'[p][c].spec][c][i] # None
          PROVE  Whole(p, hCfd'[p][c].spec, Fields[hCfd'[p][c].spec][c][i])
      <3>1. c \in cfdRows /\ hCfd'[p][c] = cft[c] /\ cft[c] # None
        BY <2>1, <2>4
      <3>2. /\ cft[c].rows \in 0..Len(Fields[cft[c].spec][c])
            /\ Len(Fields[cft[c].spec][c]) \in Nat
        BY <1>0, <3>1, SpecShape DEF IInv, DatabaseOK, CfdTables, DbTypeOK, DefTable
      <3>3. i \in 1..cft[c].rows /\ Fields[cft[c].spec][c][i] # None
        BY <2>4, <3>1
      <3>4. i \in 1..Len(Fields[cft[c].spec][c])
        BY <3>2, <3>3
      <3>5. hEnum[p][Fields[cft[c].spec][c][i]] # None
        BY <1>2, <3>1, <3>3, Zenon DEF CfdsReadable, CfdReadable
      <3>6. Whole(p, cft[c].spec, Fields[cft[c].spec][c][i])
        BY <2>3, <2>4, <3>1, <3>3, <3>4, <3>5, Zenon DEF ReadsWhole
      <3> QED
        BY <3>1, <3>6
    <2>5. ASSUME NEW s, NEW e PROVE Whole(p, s, e) <=> Whole(p, s, e)'
      BY <1>2 DEF Whole
    <2>6. HoldsWhole(p)'
      BY <1>2, <2>4, <2>5, Zenon DEF HoldsWhole
    <2>7. MemoryOK(p)'
      BY <2>1, <2>6 DEF MemoryOK, ReadsWhole, EarlyPc
    <2>8. OtherColumnPresent'
      BY <1>0, ColumnsKeep DEF EndefKeeps
    <2> QED
      BY <1>0, <2>2, <2>7, <2>8 DEF ColInv
  <1> QED
    BY <1>1, <1>2 DEF ReadCfds

(* From a list that was cut short nothing is claimed. *)
LEMMA CutColInv ==
    ASSUME IInv, ColInv, DbTypeOK', NEW p \in Proc, ReadCutShort(p)
    PROVE  ColInv'
  <1>0. /\ DbTypeOK /\ ProcTypeOK /\ HeadsTypeOK
        /\ UNCHANGED <<sys, enumRows, endef, cft, ctab>>
    BY DEF IInv, TypeOK, ReadCutShort, db
  <1>1. OtherColumnPresent'
    BY <1>0, ColumnsKeep DEF EndefKeeps
  <1>2. CASE CutEnums(p)
    <2>1. /\ OthersKeep(p) /\ pc'[p] = "readCfds" /\ cut'[p]
          /\ known'[p] = sys
      BY <1>0, <1>2 DEF CutEnums, Goto, Refresh, OthersKeep, ProcTypeOK, HeadsTypeOK
    <2>2. \A q \in Proc \ {p} : MemoryOK(q)'
      BY <1>0, <2>1, FrameMemory DEF DefsKeep
    <2>3. \A c \in Cfd : hCfd'[p][c] = None
      BY <1>2 DEF CutEnums, ColInv, MemoryOK, EarlyPc
    <2>4. "cfd_list" \notin sys => \A e \in Enum : hEnum'[p][e] = None
      BY <1>0, <1>2 DEF CutEnums, ColInv, ListedEnums, HeadsTypeOK
    <2>5. MemoryOK(p)'
      BY <1>0, <2>1, <2>3, <2>4 DEF MemoryOK, ReadsWhole, HoldsWhole
    <2> QED
      BY <1>0, <1>1, <2>2, <2>5 DEF ColInv
  <1>3. CASE CutCfds(p)
    <2>1. PICK rows \in CutReads(cfdRows, cft) :
             /\ \A c \in cfdRows :
                   \A i \in 1..rows[c] :
                      Fields[cft[c].spec][c][i] # None =>
                          hEnum[p][Fields[cft[c].spec][c][i]] # None
             /\ hCfd' = [hCfd EXCEPT ![p] =
                   [c \in Cfd |-> IF c \in cfdRows
                                  THEN [cft[c] EXCEPT !.rows = rows[c]] ELSE None]]
      BY <1>3 DEF CutCfds
    <2>2. /\ OthersKeep(p) /\ pc'[p] \in {"readCats", "parse"}
          /\ cut'[p] = cut[p] /\ hEnum'[p] = hEnum[p]
      BY <1>0, <1>3 DEF CutCfds, Goto, Refresh, OthersKeep, ProcTypeOK, HeadsTypeOK
    <2>3. \A q \in Proc \ {p} : MemoryOK(q)'
      BY <1>0, <2>2, FrameMemory DEF DefsKeep
    <2>4. ReadsWhole(p) /\ pc[p] = "readCfds" /\ ~Expired(p, "cfd_list")
      BY <1>3 DEF ColInv, MemoryOK, CutCfds
    <2>5. ASSUME ~cut[p], NEW c \in Cfd, hCfd'[p][c] # None,
                 NEW i \in 1..hCfd'[p][c].rows,
                 Fields[hCfd'[p][c].spec][c][i] # None
          PROVE  Whole(p, hCfd'[p][c].spec, Fields[hCfd'[p][c].spec][c][i])
      <3>1. /\ c \in cfdRows /\ cft[c] \in DefTable
            /\ hCfd'[p][c] = [cft[c] EXCEPT !.rows = rows[c]]
        BY <1>0, <1>3, <2>1, <2>5 DEF CutCfds, HeadsTypeOK, DbTypeOK
      <3>2. hCfd'[p][c].spec = cft[c].spec /\ hCfd'[p][c].rows = rows[c]
        BY <3>1 DEF DefTable
      <3>3. /\ cft[c].rows \in 0..Len(Fields[cft[c].spec][c])
            /\ Len(Fields[cft[c].spec][c]) \in Nat
            /\ cft[c] # None
        BY <1>0, <1>3, <3>1, SpecShape DEF CutCfds, IInv, DatabaseOK, CfdTables, DefTable
      <3>4. rows[c] \in Nat /\ rows[c] <= cft[c].rows
        <4>1. \A d \in cfdRows : cft[d] \in DefTable
          BY <1>0, <1>3 DEF CutCfds, DbTypeOK
        <4> QED
          BY <3>1, <4>1, CutRows
      <3>5. i \in 1..rows[c] /\ Fields[cft[c].spec][c][i] # None
        BY <2>5, <3>2
      <3>6. i \in 1..Len(Fields[cft[c].spec][c])
        BY <3>3, <3>4, <3>5
      <3>7. hEnum[p][Fields[cft[c].spec][c][i]] # None
        BY <2>1, <3>1, <3>5, Zenon
      <3>8. Whole(p, cft[c].spec, Fields[cft[c].spec][c][i])
        BY <2>4, <2>5, <3>1, <3>3, <3>5, <3>6, <3>7, Zenon DEF ReadsWhole
      <3> QED
        BY <3>2, <3>8
    <2>6. ASSUME NEW s, NEW e PROVE Whole(p, s, e) <=> Whole(p, s, e)'
      BY <2>2 DEF Whole
    <2>7. HoldsWhole(p)'
      BY <2>2, <2>5, <2>6, Zenon DEF HoldsWhole
    <2>8. MemoryOK(p)'
      BY <2>2, <2>7 DEF MemoryOK, ReadsWhole, EarlyPc
    <2> QED
      BY <1>0, <1>1, <2>3, <2>8 DEF ColInv
  <1> QED
    BY <1>2, <1>3 DEF ReadCutShort

(* The table gets the columns of the lists in memory, which are complete. *)
LEMMA CreateCatColInv ==
    ASSUME IInv, ColInv, DbTypeOK', NEW p \in Proc, CreateCatTable(p)
    PROVE  ColInv'
  <1>0. /\ DbTypeOK /\ ProcessOK(p)
        /\ UNCHANGED <<sys, enumRows, endef, cft>>
    BY DEF IInv, TypeOK, CreateCatTable
  <1>1. OthersKeep(p) /\ OwnMoves(p)
    BY GoMoves DEF CreateCatTable, NextMk, Goto, heads, EarlyPc
  <1>2. CASE UNCHANGED ctab
    BY <1>0, <1>1, <1>2, QuietColInv
  <1>3. CASE ctab' = [ctab EXCEPT ![argCat[p]] = Columns(p, argCfd[p])]
    <2>1. \A q \in Proc : MemoryOK(q)'
      BY <1>0, <1>1, FrameMemory, OwnMemory DEF DefsKeep
    <2>2. PICK k0 \in Cat, c0 \in Cfd :
             argCat[p] = k0 /\ argCfd[p] = c0 /\ hCfd[p][c0] # None
      BY <1>0 DEF CreateCatTable, ProcessOK, LocalsOK, MkPc
    <2>3. PICK s0 \in SpecFile, n \in Nat, l \in Nat :
             /\ hCfd[p][c0].spec = s0 /\ hCfd[p][c0].rows = n
             /\ cft[c0] # None /\ cft[c0].spec = s0
             /\ l = Len(Fields[s0][c0]) /\ n <= l
      <3>1. /\ c0 \in cfdRows /\ cft[c0] # None
            /\ cft[c0].spec = hCfd[p][c0].spec /\ hCfd[p][c0].rows \in 1..cft[c0].rows
            /\ cft[c0].spec \in SpecFile
        BY <1>0, <2>2
           DEF ProcessOK, HeadsArePrefixes, IInv, DatabaseOK, CfdTables, DbTypeOK, DefTable
      <3>2. /\ cft[c0].rows \in 0..Len(Fields[cft[c0].spec][c0])
            /\ Len(Fields[cft[c0].spec][c0]) \in Nat
        BY <3>1, SpecShape DEF IInv, DatabaseOK, CfdTables
      <3> DEFINE n == hCfd[p][c0].rows
                 r == cft[c0].rows
                 l == Len(Fields[cft[c0].spec][c0])
      <3>3. n \in 1..r /\ r \in 0..l /\ l \in Nat
        BY <3>1, <3>2
      <3> HIDE DEF n, r, l
      <3>4. n \in Nat /\ n <= l
        BY <3>3
      <3> QED
        BY <3>1, <3>3, <3>4 DEF n, l
    <2>4. PICK t : t = Columns(p, c0)
      OBVIOUS
    <2>5. t.cfd = c0 /\ t.spec = s0 /\ t.fields = n
      BY <2>3, <2>4 DEF Columns
    <2>6. ASSUME ~t.cut, NEW i \in 1..n, Fields[s0][c0][i] # None,
                 \E r \in 1..endef[Fields[s0][c0][i]].rows :
                     Elems[endef[Fields[s0][c0][i]].spec][Fields[s0][c0][i]][r]
          PROVE  i \in t.other
      <3>1. i \in 1..l
        BY <2>3
      <3>2. EnumComplete(s0, Fields[s0][c0][i])
        BY <2>3, <2>6, <3>1, ListedEnum
      <3>3. Whole(p, s0, Fields[s0][c0][i])
        <4>1. HoldsWhole(p) /\ ~cut[p]
          BY <2>4, <2>6 DEF ColInv, MemoryOK, Columns
        <4>2. i \in 1..hCfd[p][c0].rows /\ Fields[hCfd[p][c0].spec][c0][i] # None
          BY <2>3, <2>6
        <4>3. Whole(p, hCfd[p][c0].spec, Fields[hCfd[p][c0].spec][c0][i])
          BY <2>2, <4>1, <4>2, Zenon DEF HoldsWhole
        <4> QED
          BY <2>3, <4>3
      <3>4. HasOther(p, Fields[s0][c0][i])
        BY <2>6, <3>2, <3>3, Zenon DEF HasOther, Whole, EnumComplete
      <3>5. t.other = {j \in 1..n : Fields[s0][c0][j] # None /\ HasOther(p, Fields[s0][c0][j])}
        BY <2>3, <2>4 DEF Columns
      <3> QED
        BY <2>6, <3>4, <3>5, Zenon
    <2>7. ctab'[k0] = t /\ \A k \in Cat : k # k0 => ctab'[k] = ctab[k]
      BY <1>0, <1>3, <2>2, <2>4 DEF DbTypeOK
    <2>8. ASSUME NEW k \in Cat, ctab'[k] # None, ~ctab'[k].cut,
                 NEW i \in 1..ctab'[k].fields,
                 Fields[ctab'[k].spec][ctab'[k].cfd][i] # None,
                 \E r \in 1..endef[Fields[ctab'[k].spec][ctab'[k].cfd][i]].rows :
                     Elems[endef[Fields[ctab'[k].spec][ctab'[k].cfd][i]].spec]
                          [Fields[ctab'[k].spec][ctab'[k].cfd][i]][r]
          PROVE  i \in ctab'[k].other
      <3>1. CASE k = k0
        <4>1. ctab'[k].cfd = c0 /\ ctab'[k].spec = s0 /\ ctab'[k].fields = n
          BY <2>5, <2>7, <3>1
        <4> QED
          BY <2>6, <2>7, <2>8, <3>1, <4>1, Zenon
      <3>2. CASE k # k0
        <4>1. ctab'[k] = ctab[k]
          BY <2>7, <3>2
        <4> QED
          BY <2>8, <4>1, Zenon DEF ColInv, OtherColumnPresent, HasOtherColumns
      <3> QED
        BY <3>1, <3>2
    <2>9. OtherColumnPresent'
      BY <1>0, <2>8, Zenon DEF OtherColumnPresent, HasOtherColumns
    <2> QED
      BY <1>0, <2>1, <2>9 DEF ColInv
  <1> QED
    BY <1>2, <1>3 DEF CreateCatTable

LEMMA NextColInv == IInv /\ IInv' /\ ColInv /\ [Next]_vars => ColInv'
  <1> SUFFICES ASSUME IInv, DbTypeOK', ColInv, [Next]_vars PROVE ColInv'
    BY DEF IInv, TypeOK
  <1>1. ASSUME NEW p \in Proc, User(p) \/ Fail(p) PROVE ColInv'
    BY <1>1, UserColInv, FailureColInv, CutColInv DEF Fail
  <1>2. ASSUME NEW p \in Proc, Load(p) PROVE ColInv'
    BY <1>2, QuietLoadColInv, SysColInv, EndefColInv, CftColInv DEF Load
  <1>3. ASSUME NEW p \in Proc, Read(p) PROVE ColInv'
    BY <1>3, ReadEnumsColInv, ReadCfdsColInv, QuietLoadColInv DEF Read
  <1>4. ASSUME NEW p \in Proc, Edit(p) PROVE ColInv'
    BY <1>4, QuietEditColInv, CreateCatColInv, DropCatColInv DEF Edit
  <1>5. ASSUME UNCHANGED vars PROVE ColInv'
    <2>1. UNCHANGED <<sys, enumRows, endef, cft, ctab, pc, hEnum, hCfd, cut, known, fresh>>
      BY <1>5 DEF vars
    <2>2. OtherColumnPresent'
      BY <2>1, ColumnsKeep DEF EndefKeeps
    <2>3. ASSUME NEW p \in Proc PROVE MemoryOK(p)'
      <3>1. MemoryOK(p) /\ HoldsWhole(p)'
        BY <2>1, HoldsKeeps DEF ColInv, MemoryOK
      <3>2. ReadsWhole(p)'
        BY <2>1, <3>1, Zenon DEF MemoryOK, ReadsWhole, Whole, Expired
      <3> QED
        BY <2>1, <3>1, <3>2 DEF MemoryOK
    <2> QED
      BY <2>1, <2>2, <2>3 DEF ColInv
  <1> QED
    BY <1>1, <1>2, <1>3, <1>4, <1>5 DEF Next, Work

(* Every field whose enumeration has an other element has its oth_ column, *)
(* although mkcat works from lists read while others were writing.         *)
THEOREM OtherColumns == Spec => []OtherColumnPresent
  <1>1. Init => ColInv
    <2> SUFFICES ASSUME Init PROVE ColInv
      OBVIOUS
    <2>1. \A e \in Enum : enumRows[e] = 0
      BY DEF Init
    <2>2. OtherColumnPresent
      BY DEF Init, OtherColumnPresent
    <2>3. ASSUME NEW p \in Proc PROVE MemoryOK(p)
      <3>1. pc[p] = "idle"
        BY DEF Init
      <3>2. \A c \in Cfd : hCfd[p][c] = None
        BY DEF Init, NoHeads
      <3>3. ReadsWhole(p)
        BY <3>1 DEF ReadsWhole
      <3>4. HoldsWhole(p)
        BY <3>2, Zenon DEF HoldsWhole
      <3> QED
        BY <3>2, <3>3, <3>4, Zenon DEF MemoryOK
    <2> QED
      BY <2>1, <2>2, <2>3 DEF ColInv
  <1>2. ColInv => OtherColumnPresent
    BY DEF ColInv
  <1> QED
    BY <1>1, <1>2, NextColInv, Invariant, PTL DEF Spec

-----------------------------------------------------------------------------
(* Reference counts. *)

(* p takes a step that neither adds nor removes a row of cat_list, and     *)
(* neither pays nor incurs what it owes a count.                           *)
Owes(p) ==
    /\ \A q \in Proc \ {p} :
          /\ pc'[q] = pc[q]
          /\ argCat'[q] = argCat[q]
          /\ argCfd'[q] = argCfd[q]
    /\ pc[p] # "incRef" /\ pc'[p] \notin {"incRef", "delCat"}
    /\ pc'[p] \in {"dropCat", "decRef"} =>
          pc[p] \in {"dropCat", "decRef"} /\ argCfd'[p] = argCfd[p]

LEMMA RefsFinite ==
    ASSUME IsFiniteSet(Cat), NEW c
    PROVE  IsFiniteSet(Refs(c)) /\ Cardinality(Refs(c)) \in Nat
  BY FS_Subset, FS_CardinalityType DEF Refs

LEMMA RowsOfCfd ==
    ASSUME IsFiniteSet(Cat), NEW c, UNCHANGED catRow
    PROVE  Refs(c)' = Refs(c)
  BY DEF Refs

(* The counts and rows are as they were: what p owed it owes, or less.     *)
LEMMA OwedStays ==
    ASSUME NEW p \in Proc, Owes(p), NEW c \in Cfd
    PROVE  /\ Adding(c)' = Adding(c)
           /\ Adding(c) \in 0..1 /\ Removing(c) \in 0..1 /\ Removing(c)' \in 0..1
           /\ Removing(c)' <= Removing(c)
  <1>1. (\E q \in Proc : pc'[q] = "incRef" /\ argCfd'[q] = c)
            <=> (\E q \in Proc : pc[q] = "incRef" /\ argCfd[q] = c)
    BY DEF Owes
  <1>2. (\E q \in Proc : pc'[q] \in {"dropCat", "decRef"} /\ argCfd'[q] = c)
            => (\E q \in Proc : pc[q] \in {"dropCat", "decRef"} /\ argCfd[q] = c)
    BY DEF Owes
  <1> QED
    BY <1>1, <1>2 DEF Adding, Removing

LEMMA QuietRefInv ==
    ASSUME IsFiniteSet(Cat), IInv, RefInv, NEW p \in Proc, Owes(p),
           UNCHANGED <<catRow, refcount>>, cfdRows \subseteq cfdRows',
           faulted' = faulted \/ faulted'
    PROVE  RefInv'
  <1>1. ASSUME NEW q \in Proc
        PROVE  /\ pc'[q] = "delCat" => argCfd'[q] = catRow'[argCat'[q]]
               /\ pc'[q] \in {"delCat", "dropCat", "decRef"}
                     => argCfd'[q] \in cfdRows' \cup {None}
    BY DEF RefInv, Owes
  <1>2. ASSUME ~faulted', NEW c \in Cfd PROVE Covered(c)'
    <2>1. refcount[c] + Adding(c) >= Cardinality(Refs(c)) + Removing(c)
      BY <1>2 DEF RefInv, Covered
    <2>2. refcount[c] \in Int /\ Cardinality(Refs(c)) \in Nat
      BY RefsFinite DEF IInv, TypeOK, DbTypeOK
    <2>3. refcount'[c] = refcount[c] /\ Refs(c)' = Refs(c)
      BY RowsOfCfd
    <2> QED
      BY <2>1, <2>2, <2>3, OwedStays DEF Covered
  <1> QED
    BY <1>1, <1>2 DEF RefInv

(* Steps of the loader and the readers, of users, and those of a command   *)
(* that neither change cat_list nor a count.                               *)
LEMMA QuietStepsRefInv ==
    ASSUME IsFiniteSet(Cat), IInv, RefInv, NEW p \in Proc, UNCHANGED faulted,
           \/ User(p) \/ Read(p) \/ DbStart(p) \/ InitDbTables(p) \/ Parse(p)
           \/ CreateEndef(p) \/ AddEnumRow(p) \/ AddElem(p)
           \/ CreateCft(p) \/ DropCft(p) \/ AddField(p)
           \/ CreateCatTable(p) \/ DropCatTable(p)
    PROVE  RefInv'
  <1>0. pc \in [Proc -> PcValues] /\ argCat \in [Proc -> Cat \cup {None}]
        /\ argCfd \in [Proc -> Cfd \cup {None}]
    BY DEF IInv, TypeOK, ProcTypeOK
  <1>1. CASE User(p)
    <2>1. UNCHANGED <<catRow, refcount, cfdRows>>
      BY <1>1 DEF User, OpenLoader, OpenEditor, Quit, MkCat, RmCat, db
    <2>2. Owes(p)
      BY <1>0, <1>1 DEF User, OpenLoader, OpenEditor, Quit, MkCat, RmCat, Owes,
         Goto, Exit, Leave, args, Resting
    <2> QED
      BY <2>1, <2>2, QuietRefInv
  <1>2. CASE Read(p)
    <2>1. UNCHANGED <<catRow, refcount, cfdRows>>
      BY <1>2 DEF Read, ReadEnums, ReadCfds, ReadCats, db
    <2>2. Owes(p)
      BY <1>0, <1>2 DEF Read, ReadEnums, ReadCfds, ReadCats, Ready, Owes,
         Goto, Exit, Leave, args
    <2> QED
      BY <2>1, <2>2, QuietRefInv
  <1>3. CASE DbStart(p) \/ InitDbTables(p) \/ Parse(p)
    <2>1. UNCHANGED <<catRow, refcount, cfdRows>>
      BY <1>3 DEF DbStart, InitDbTables, CreateSys, Parse, db
    <2>2. Owes(p)
      BY <1>0, <1>3 DEF DbStart, InitDbTables, CreateSys, Parse, EnumLoop, CfdLoop,
         Owes, Goto, Exit, Leave, args
    <2> QED
      BY <2>1, <2>2, QuietRefInv
  <1>4. CASE CreateEndef(p) \/ AddEnumRow(p) \/ AddElem(p)
    <2>1. UNCHANGED <<catRow, refcount, cfdRows>>
      BY <1>4 DEF CreateEndef, AddEnumRow, AddElem
    <2>2. Owes(p)
      BY <1>0, <1>4 DEF CreateEndef, AddEnumRow, AddElem, EnumLoop, CfdLoop,
         Owes, Goto, Exit, Leave, args
    <2> QED
      BY <2>1, <2>2, QuietRefInv
  <1>5. CASE CreateCft(p) \/ DropCft(p) \/ AddField(p)
    <2>1. UNCHANGED <<catRow, refcount, cfdRows>>
      BY <1>5 DEF CreateCft, DropCft, AddField
    <2>2. Owes(p)
      BY <1>0, <1>5 DEF CreateCft, DropCft, AddField, CfdLoop,
         Owes, Goto, Exit, Leave, args
    <2> QED
      BY <2>1, <2>2, QuietRefInv
  <1>6. CASE CreateCatTable(p) \/ DropCatTable(p)
    <2>1. UNCHANGED <<catRow, refcount, cfdRows>>
      BY <1>6 DEF CreateCatTable, DropCatTable
    <2>2. Owes(p)
      BY <1>0, <1>6 DEF CreateCatTable, DropCatTable, NextMk,
         Owes, Goto, Exit, Leave, args
    <2> QED
      BY <2>1, <2>2, QuietRefInv
  <1> QED
    BY <1>1, <1>2, <1>3, <1>4, <1>5, <1>6

(* A failure ends the promise; what else RefInv says survives it.          *)
LEMMA FailureRefInv ==
    ASSUME IInv, RefInv, NEW p \in Proc, Fail(p)
    PROVE  RefInv'
  <1>0. pc \in [Proc -> PcValues] /\ argCat \in [Proc -> Cat \cup {None}]
        /\ argCfd \in [Proc -> Cfd \cup {None}]
    BY DEF IInv, TypeOK, ProcTypeOK
  <1>1. faulted' /\ UNCHANGED <<catRow, cfdRows>>
    BY DEF Fail, StatementFails, ReadCutShort, CutEnums, CutCfds, Crash, db
  <1>2. ASSUME NEW q \in Proc \ {p}
        PROVE  pc'[q] = pc[q] /\ argCat'[q] = argCat[q] /\ argCfd'[q] = argCfd[q]
    BY <1>0 DEF Fail, StatementFails, ReadCutShort, CutEnums, CutCfds, Crash,
       Exit, Leave, Goto, Ready, NextMk, args
  <1>3. pc'[p] \notin {"delCat", "dropCat", "decRef"}
    BY <1>0 DEF Fail, StatementFails, ReadCutShort, CutEnums, CutCfds, Crash,
       Exit, Leave, Goto, Ready, NextMk
  <1> QED
    BY <1>1, <1>2, <1>3 DEF RefInv

(* The INSERT OR REPLACE into cfd_list sets to 0 a count that is not owed  *)
(* anything and that no catalogue relies on.                               *)
LEMMA AddCfdRowRefInv ==
    ASSUME IsFiniteSet(Cat), IInv, RefInv, NEW p \in Proc, AddCfdRow(p), UNCHANGED faulted
    PROVE  RefInv'
  <1>0. pc \in [Proc -> PcValues] /\ refcount \in [Cfd -> Int] /\ CatRowHasCfd
        /\ catRow \in [Cat -> Cfd \cup {None}]
    BY DEF IInv, TypeOK, ProcTypeOK, DbTypeOK, DatabaseOK
  <1>1. PICK c0 \in Cfd : CurCfd(p) = c0
    BY CfdWriter DEF AddCfdRow, CfdPc
  <1>2. c0 \notin cfdRows
    BY <1>1 DEF AddCfdRow, IInv, ProcessOK, CfdProgress
  <1>3. refcount' = [refcount EXCEPT ![c0] = 0] /\ UNCHANGED catRow
        /\ cfdRows \subseteq cfdRows'
    BY <1>1 DEF AddCfdRow
  <1>4. Owes(p)
    BY <1>0 DEF AddCfdRow, Owes, Goto, args
  <1>5. ASSUME NEW q \in Proc
        PROVE  /\ pc'[q] = "delCat" => argCfd'[q] = catRow'[argCat'[q]]
               /\ pc'[q] \in {"delCat", "dropCat", "decRef"}
                     => argCfd'[q] \in cfdRows' \cup {None}
    BY <1>3, <1>4 DEF RefInv, Owes
  <1>6. Refs(c0) = {}
    <2>1. \A k \in Cat : catRow[k] = c0 => c0 = None
      BY <1>0, <1>2 DEF CatRowHasCfd
    <2>2. c0 # None
      BY <1>1, SchemaConstants
    <2> QED
      BY <2>1, <2>2 DEF Refs
  <1>7. Removing(c0) = 0
    BY <1>1, <1>2, SchemaConstants DEF RefInv, Removing
  <1>8. ASSUME ~faulted', NEW c \in Cfd PROVE Covered(c)'
    <2>1. Refs(c)' = Refs(c) /\ Cardinality(Refs(c)) \in Nat
      BY <1>3, RowsOfCfd, RefsFinite
    <2>2. CASE c = c0
      <3>1. Cardinality(Refs(c)) = 0
        BY <1>6, <2>2, FS_EmptySet
      <3>2. refcount'[c] = 0
        BY <1>0, <1>3, <2>2
      <3> QED
        BY <1>4, <1>7, <2>1, <2>2, <3>1, <3>2, OwedStays DEF Covered
    <2>3. CASE c # c0
      <3>1. refcount[c] + Adding(c) >= Cardinality(Refs(c)) + Removing(c)
        BY <1>8 DEF RefInv, Covered
      <3>2. refcount'[c] = refcount[c] /\ refcount[c] \in Int
        BY <1>0, <1>3, <2>3
      <3> QED
        BY <1>4, <2>1, <3>1, <3>2, OwedStays DEF Covered
    <2> QED
      BY <2>2, <2>3
  <1> QED
    BY <1>5, <1>8 DEF RefInv

-----------------------------------------------------------------------------
(* The statements of mkcat and rmcat.  No other command is under way, and  *)
(* so no other process owes a count.                                       *)

Command == MkPc \cup RmPc

(* What p alone owes; the others stay where they are. *)
LEMMA OwedByOne ==
    ASSUME OneCommand, NEW p \in Proc, pc[p] \in Command, NEW c
    PROVE  /\ Adding(c) = IF pc[p] = "incRef" /\ argCfd[p] = c THEN 1 ELSE 0
           /\ Removing(c) = IF pc[p] \in {"dropCat", "decRef"} /\ argCfd[p] = c THEN 1 ELSE 0
  <1>1. ASSUME NEW q \in Proc, pc[q] \in {"incRef", "dropCat", "decRef"} PROVE q = p
    BY <1>1 DEF OneCommand, Command, MkPc, RmPc
  <1> QED
    BY <1>1 DEF Adding, Removing

(* After its step p owes a, and is owed r. *)
LEMMA OwedAfter ==
    ASSUME OneCommand, NEW p \in Proc, pc[p] \in Command, NEW c,
           \A q \in Proc \ {p} : pc'[q] = pc[q]
    PROVE  /\ Adding(c)' = IF pc'[p] = "incRef" /\ argCfd'[p] = c THEN 1 ELSE 0
           /\ Removing(c)' = IF pc'[p] \in {"dropCat", "decRef"} /\ argCfd'[p] = c
                             THEN 1 ELSE 0
  <1>1. ASSUME NEW q \in Proc, pc'[q] \in {"incRef", "dropCat", "decRef"} PROVE q = p
    BY <1>1 DEF OneCommand, Command, MkPc, RmPc
  <1> QED
    BY <1>1 DEF Adding, Removing

(* What the command of p knows of the row it removes is what RefInv says;  *)
(* no other process has a command.                                         *)
LEMMA OnlyCommand ==
    ASSUME RefInv, OneCommand, NEW p \in Proc, pc[p] \in Command,
           \A q \in Proc \ {p} : pc'[q] = pc[q],
           pc'[p] = "delCat" => argCfd'[p] = catRow'[argCat'[p]],
           pc'[p] \in {"delCat", "dropCat", "decRef"} => argCfd'[p] \in cfdRows' \cup {None},
           ~faulted' => \A c \in Cfd : Covered(c)'
    PROVE  RefInv'
  <1>1. ASSUME NEW q \in Proc, pc'[q] \in {"delCat", "dropCat", "decRef"} PROVE q = p
    BY <1>1 DEF OneCommand, Command, MkPc, RmPc
  <1> QED
    BY <1>1 DEF RefInv

LEMMA AddCatRowRefInv ==
    ASSUME IsFiniteSet(Cat), IInv, RefInv, OneCommand, NEW p \in Proc, AddCatRow(p),
           UNCHANGED faulted
    PROVE  RefInv'
  <1>0. pc \in [Proc -> PcValues] /\ refcount \in [Cfd -> Int]
        /\ catRow \in [Cat -> Cfd \cup {None}] /\ pc[p] = "addCat" /\ pc[p] \in Command
    BY DEF IInv, TypeOK, ProcTypeOK, DbTypeOK, AddCatRow, Command, MkPc
  <1>1. PICK k0 \in Cat, c0 \in Cfd : argCat[p] = k0 /\ argCfd[p] = c0
    BY <1>0 DEF IInv, ProcessOK, LocalsOK, MkPc
  <1>2. /\ catRow' = [catRow EXCEPT ![k0] = c0]
        /\ pc' = [pc EXCEPT ![p] = "incRef"]
        /\ UNCHANGED <<refcount, argCfd, argCat>>
    BY <1>1 DEF AddCatRow, Goto, args
  <1>3. ASSUME ~faulted', NEW c \in Cfd PROVE Covered(c)'
    <2>1. refcount[c] + Adding(c) >= Cardinality(Refs(c)) + Removing(c)
      BY <1>3 DEF RefInv, Covered
    <2>2. Adding(c) = 0 /\ Removing(c) = 0
      BY <1>0, OwedByOne
    <2>3. Removing(c)' = 0 /\ Adding(c)' = IF c0 = c THEN 1 ELSE 0
      BY <1>0, <1>1, <1>2, OwedAfter
    <2>4. IsFiniteSet(Refs(c)) /\ Cardinality(Refs(c)) \in Nat /\ refcount[c] \in Int
      BY <1>0, RefsFinite
    <2>5. CASE c = c0
      <3>1. Refs(c)' = Refs(c) \cup {k0}
        BY <1>0, <1>1, <1>2, <2>5 DEF Refs
      <3>2. Cardinality(Refs(c) \cup {k0}) \in {Cardinality(Refs(c)), Cardinality(Refs(c)) + 1}
        BY <2>4, FS_AddElement
      <3> QED
        BY <1>2, <2>1, <2>2, <2>3, <2>4, <2>5, <3>1, <3>2 DEF Covered
    <2>6. CASE c # c0
      <3>1. Refs(c)' = Refs(c) \ {k0}
        BY <1>0, <1>1, <1>2, <2>6 DEF Refs
      <3>2. Cardinality(Refs(c) \ {k0}) \in {Cardinality(Refs(c)), Cardinality(Refs(c)) - 1}
        BY <2>4, FS_RemoveElement
      <3> QED
        BY <1>2, <2>1, <2>2, <2>3, <2>4, <2>6, <3>1, <3>2 DEF Covered
    <2> QED
      BY <2>5, <2>6
  <1> QED
    BY <1>0, <1>2, <1>3, OnlyCommand

LEMMA IncRefRefInv ==
    ASSUME IsFiniteSet(Cat), IInv, RefInv, OneCommand, NEW p \in Proc, IncRef(p),
           UNCHANGED faulted
    PROVE  RefInv'
  <1>0. pc \in [Proc -> PcValues] /\ refcount \in [Cfd -> Int]
        /\ pc[p] = "incRef" /\ pc[p] \in Command
    BY DEF IInv, TypeOK, ProcTypeOK, DbTypeOK, IncRef, Command, MkPc
  <1>1. PICK c0 \in Cfd : argCfd[p] = c0 /\ hCfd[p][c0] # None
    BY <1>0 DEF IInv, ProcessOK, LocalsOK, MkPc
  <1>2. c0 \in cfdRows
    BY <1>1 DEF IInv, ProcessOK, HeadsArePrefixes
  <1>3. /\ refcount' = [c \in Cfd |-> IF c = c0 THEN refcount[c] + 1 ELSE refcount[c]]
        /\ pc' = [pc EXCEPT ![p] = "mkCatTab"]
        /\ UNCHANGED <<catRow, argCfd, argCat>>
    BY <1>1, <1>2 DEF IncRef, Goto, args
  <1>4. ASSUME ~faulted', NEW c \in Cfd PROVE Covered(c)'
    <2>1. refcount[c] + Adding(c) >= Cardinality(Refs(c)) + Removing(c)
      BY <1>4 DEF RefInv, Covered
    <2>2. Removing(c) = 0 /\ Adding(c) = IF c0 = c THEN 1 ELSE 0
      BY <1>0, <1>1, OwedByOne
    <2>3. Removing(c)' = 0 /\ Adding(c)' = 0
      BY <1>0, <1>3, OwedAfter
    <2>4. Cardinality(Refs(c)) \in Nat /\ refcount[c] \in Int /\ Refs(c)' = Refs(c)
      BY <1>0, <1>3, RefsFinite, RowsOfCfd
    <2>5. refcount'[c] = IF c = c0 THEN refcount[c] + 1 ELSE refcount[c]
      BY <1>3
    <2> QED
      BY <2>1, <2>2, <2>3, <2>4, <2>5 DEF Covered
  <1> QED
    BY <1>0, <1>3, <1>4, OnlyCommand

(* No row of the catalogue: NULL, which rmcat goes on with. *)
LEMMA GetCfdNameRefInv ==
    ASSUME IsFiniteSet(Cat), IInv, RefInv, OneCommand, NEW p \in Proc, GetCfdName(p),
           UNCHANGED faulted
    PROVE  RefInv'
  <1>0. pc \in [Proc -> PcValues] /\ refcount \in [Cfd -> Int] /\ CatRowHasCfd
        /\ catRow \in [Cat -> Cfd \cup {None}] /\ argCfd \in [Proc -> Cfd \cup {None}]
        /\ pc[p] = "getCfd" /\ pc[p] \in Command
    BY DEF IInv, TypeOK, ProcTypeOK, DbTypeOK, DatabaseOK, GetCfdName, Command, RmPc
  <1>1. PICK k0 \in Cat : argCat[p] = k0
    BY <1>0 DEF IInv, ProcessOK, LocalsOK, RmPc
  <1>2. /\ UNCHANGED <<catRow, refcount, cfdRows>>
        /\ \A q \in Proc \ {p} : pc'[q] = pc[q]
        /\ pc'[p] \in {"delCat", "idle"}
    BY <1>0 DEF GetCfdName, Goto, Exit, Leave, db
  <1>3. pc'[p] = "delCat" => argCat'[p] = k0 /\ argCfd'[p] = catRow[k0]
    BY <1>0, <1>1 DEF GetCfdName, Goto, Exit, Leave
  <1>4. catRow[k0] \in cfdRows \cup {None}
    BY <1>0, <1>1 DEF CatRowHasCfd
  <1>5. ASSUME ~faulted', NEW c \in Cfd PROVE Covered(c)'
    <2>1. refcount[c] + Adding(c) >= Cardinality(Refs(c)) + Removing(c)
      BY <1>5 DEF RefInv, Covered
    <2>2. Removing(c) = 0 /\ Adding(c) = 0
      BY <1>0, OwedByOne
    <2>3. Removing(c)' = 0 /\ Adding(c)' = 0
      BY <1>0, <1>2, OwedAfter
    <2>4. Refs(c)' = Refs(c)
      BY <1>2, RowsOfCfd
    <2> QED
      BY <1>2, <2>1, <2>2, <2>3, <2>4 DEF Covered
  <1> QED
    BY <1>0, <1>2, <1>3, <1>4, <1>5, OnlyCommand

LEMMA DeleteCatRowRefInv ==
    ASSUME IsFiniteSet(Cat), IInv, RefInv, OneCommand, NEW p \in Proc, DeleteCatRow(p),
           UNCHANGED faulted
    PROVE  RefInv'
  <1>0. pc \in [Proc -> PcValues] /\ refcount \in [Cfd -> Int]
        /\ catRow \in [Cat -> Cfd \cup {None}]
        /\ pc[p] = "delCat" /\ pc[p] \in Command
    BY DEF IInv, TypeOK, ProcTypeOK, DbTypeOK, DeleteCatRow, Command, RmPc
  <1>1. PICK k0 \in Cat : argCat[p] = k0
    BY <1>0 DEF IInv, ProcessOK, LocalsOK, RmPc
  <1>2. argCfd[p] = catRow[k0] /\ argCfd[p] \in cfdRows \cup {None}
    BY <1>0, <1>1 DEF RefInv
  <1>3. /\ catRow' = [catRow EXCEPT ![k0] = None]
        /\ pc' = [pc EXCEPT ![p] = "dropCat"]
        /\ UNCHANGED <<refcount, argCfd, argCat, cfdRows>>
    BY <1>1 DEF DeleteCatRow, Goto, args
  <1>4. ASSUME ~faulted', NEW c \in Cfd PROVE Covered(c)'
    <2>0. c # None
      BY SchemaConstants
    <2>1. refcount[c] + Adding(c) >= Cardinality(Refs(c)) + Removing(c)
      BY <1>4 DEF RefInv, Covered
    <2>2. Adding(c) = 0 /\ Removing(c) = 0
      BY <1>0, OwedByOne
    <2>3. Adding(c)' = 0 /\ Removing(c)' = IF catRow[k0] = c THEN 1 ELSE 0
      BY <1>0, <1>2, <1>3, OwedAfter
    <2>4. IsFiniteSet(Refs(c)) /\ Cardinality(Refs(c)) \in Nat /\ refcount[c] \in Int
      BY <1>0, RefsFinite
    <2>5. Refs(c)' = Refs(c) \ {k0} /\ (catRow[k0] = c <=> k0 \in Refs(c))
      BY <1>0, <1>1, <1>3, <2>0 DEF Refs
    <2>6. Cardinality(Refs(c) \ {k0})
              = IF k0 \in Refs(c) THEN Cardinality(Refs(c)) - 1 ELSE Cardinality(Refs(c))
      BY <2>4, FS_RemoveElement
    <2> QED
      BY <1>3, <2>1, <2>2, <2>3, <2>4, <2>5, <2>6 DEF Covered
  <1> QED
    BY <1>0, <1>2, <1>3, <1>4, OnlyCommand

LEMMA DecRefRefInv ==
    ASSUME IsFiniteSet(Cat), IInv, RefInv, OneCommand, NEW p \in Proc, DecRef(p),
           UNCHANGED faulted
    PROVE  RefInv'
  <1>0. pc \in [Proc -> PcValues] /\ refcount \in [Cfd -> Int]
        /\ pc[p] = "decRef" /\ pc[p] \in Command
    BY DEF IInv, TypeOK, ProcTypeOK, DbTypeOK, DecRef, Command, RmPc
  <1>1. /\ UNCHANGED <<catRow, cfdRows>>
        /\ pc' = [pc EXCEPT ![p] = "rm"]
    BY DEF DecRef, NextRm, Goto
  <1>2. ASSUME ~faulted', NEW c \in Cfd PROVE Covered(c)'
    <2>1. refcount[c] + Adding(c) >= Cardinality(Refs(c)) + Removing(c)
      BY <1>2 DEF RefInv, Covered
    <2>2. Adding(c) = 0 /\ Removing(c) = IF argCfd[p] = c THEN 1 ELSE 0
      BY <1>0, OwedByOne
    <2>3. Removing(c)' = 0 /\ Adding(c)' = 0
      BY <1>0, <1>1, OwedAfter
    <2>4. Cardinality(Refs(c)) \in Nat /\ refcount[c] \in Int /\ Refs(c)' = Refs(c)
      BY <1>0, <1>1, RefsFinite, RowsOfCfd
    <2>5. refcount'[c] >= IF c = argCfd[p] THEN refcount[c] - 1 ELSE refcount[c]
      BY <2>4 DEF DecRef
    <2>6. refcount'[c] \in Int
      BY <2>4 DEF DecRef
    <2> QED
      BY <2>1, <2>2, <2>3, <2>4, <2>5, <2>6 DEF Covered
  <1> QED
    BY <1>0, <1>1, <1>2, OnlyCommand

LEMMA NextRefInv ==
    ASSUME IsFiniteSet(Cat), IInv, RefInv, OneCommand, [Next]_vars
    PROVE  RefInv'
  <1>1. ASSUME NEW p \in Proc, User(p) PROVE RefInv'
    BY <1>1, QuietStepsRefInv DEF User
  <1>2. ASSUME NEW p \in Proc, Load(p), UNCHANGED faulted PROVE RefInv'
    BY <1>2, QuietStepsRefInv, AddCfdRowRefInv DEF Load
  <1>3. ASSUME NEW p \in Proc, Read(p), UNCHANGED faulted PROVE RefInv'
    BY <1>3, QuietStepsRefInv
  <1>4. ASSUME NEW p \in Proc, Edit(p), UNCHANGED faulted PROVE RefInv'
    BY <1>4, QuietStepsRefInv, AddCatRowRefInv, IncRefRefInv, GetCfdNameRefInv,
       DeleteCatRowRefInv, DecRefRefInv DEF Edit
  <1>5. CASE UNCHANGED vars
    BY <1>5 DEF vars, RefInv, Covered, Adding, Removing, Refs
  <1> QED
    BY <1>1, <1>2, <1>3, <1>4, <1>5, FailureRefInv DEF Next, Work

(* As long as nothing fails and the commands of two fedits do not overlap, *)
(* a CFD is never counted less often than catalogues use it, except between*)
(* the INSERT and the UPDATE of mkcat (new_catalog): whoever loads or reads*)
(* meanwhile, and although neither command is a transaction.               *)
THEOREM RefcountsCover ==
    ASSUME IsFiniteSet(Cat)
    PROVE  Spec /\ []OneCommand => [](~faulted => RefcountCovers)
  <1>1. Init => RefInv
    <2> SUFFICES ASSUME Init PROVE RefInv
      OBVIOUS
    <2>1. ASSUME NEW c \in Cfd PROVE Covered(c)
      <3>1. Refs(c) = {}
        BY SchemaConstants DEF Init, Refs
      <3>2. Cardinality(Refs(c)) = 0
        BY <3>1, FS_EmptySet
      <3>3. refcount[c] = 0 /\ Adding(c) = 0 /\ Removing(c) = 0
        BY DEF Init, Adding, Removing
      <3> QED
        BY <3>2, <3>3 DEF Covered
    <2> QED
      BY <2>1 DEF Init, RefInv
  <1>2. IInv /\ RefInv /\ OneCommand => (~faulted => RefcountCovers)
    <2> SUFFICES ASSUME IInv, RefInv, OneCommand, ~faulted, NEW c \in Cfd
                 PROVE  refcount[c] + Cardinality({p \in Proc : pc[p] = "incRef" /\ argCfd[p] = c})
                            >= Cardinality(Refs(c))
      BY DEF RefcountCovers
    <2>1. refcount[c] + Adding(c) >= Cardinality(Refs(c)) + Removing(c)
      BY DEF RefInv, Covered
    <2>2. Cardinality(Refs(c)) \in Nat /\ refcount[c] \in Int /\ Removing(c) \in 0..1
      BY RefsFinite DEF IInv, TypeOK, DbTypeOK, Removing
    <2> DEFINE P == {p \in Proc : pc[p] = "incRef" /\ argCfd[p] = c}
    <2>3. CASE P = {}
      <3>1. Adding(c) = 0
        BY <2>3 DEF Adding
      <3>2. Cardinality(P) = 0
        BY <2>3, FS_EmptySet
      <3> QED
        BY <2>1, <2>2, <3>1, <3>2
    <2>4. CASE P # {}
      <3>1. PICK p \in Proc : pc[p] = "incRef" /\ argCfd[p] = c
        BY <2>4
      <3>2. P = {p}
        BY <3>1 DEF OneCommand, MkPc
      <3>3. Adding(c) = 1
        BY <3>1 DEF Adding
      <3>4. Cardinality(P) = 1
        BY <3>2, FS_Singleton
      <3> HIDE DEF P
      <3>5. refcount[c] + Cardinality(P) >= Cardinality(Refs(c))
        BY <2>1, <2>2, <3>3, <3>4
      <3> QED
        BY <3>5 DEF P
    <2> QED
      BY <2>3, <2>4
  <1>3. IInv /\ RefInv /\ OneCommand /\ [Next]_vars => RefInv'
    BY NextRefInv
  <1> QED
    BY <1>1, <1>2, <1>3, Invariant, PTL DEF Spec

=============================================================================
