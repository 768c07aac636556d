---------------------------- MODULE IndexerProofs ----------------------------
(* Proofs about Indexer: types, and CurrentIsLeftAlone for any number of   *)
(* findex processes and files.                                             *)
EXTENDS Indexer, TLAPS

(* Version numbers are those of writes that happened, file times are past. *)
PastVersions ==
    /\ \A x \in File : content[x] # None => content[x] <= writes
    /\ \A x \in File : entry[x] # None /\ entry[x].ver # None => entry[x].ver <= writes
    /\ \A p \in Proc : fields[p] # None => fields[p] <= writes

PastTimes == \A x \in File : mtime[x] <= clock

(* The row that a process is about to write carries a time at which the    *)
(* content it shows was there.                                             *)
StampCovers ==
    \A p \in Proc :
        pc[p] = "insert" /\ fields[p] # None /\ fields[p] = content[cur[p]]
            => mtime[cur[p]] <= stamp[p]

RowsCover ==
    \A x \in File :
        entry[x] # None /\ content[x] # None /\ entry[x].ver = content[x]
            => mtime[x] <= entry[x].upd

IInv == IndexerTypeOK /\ PastVersions /\ PastTimes /\ StampCovers /\ RowsCover

-----------------------------------------------------------------------------
LEMMA InitIInv == Init => IInv
  <1> SUFFICES ASSUME Init PROVE IInv
    OBVIOUS
  <1>1. IndexerTypeOK
    BY IndexerConstants DEF Init, IndexerTypeOK, NoStat
  <1>2. PastVersions /\ PastTimes /\ StampCovers /\ RowsCover
    BY IndexerConstants DEF Init, PastVersions, PastTimes, StampCovers, RowsCover
  <1> QED
    BY <1>1, <1>2 DEF IInv

-----------------------------------------------------------------------------
(* Types. *)

LEMMA ErrType ==
    ASSUME IndexerTypeOK, NEW p \in Proc,
           SetErr(p, TRUE) \/ SetErr(p, FALSE) \/ UNCHANGED err
    PROVE  err' \in [Proc -> BOOLEAN]
  <1>1. err \in [Proc -> BOOLEAN]
    BY DEF IndexerTypeOK
  <1>2. ASSUME NEW b \in BOOLEAN PROVE [err EXCEPT ![p] = b] \in [Proc -> BOOLEAN]
    BY <1>1
  <1> QED
    BY <1>1, <1>2 DEF SetErr

LEMMA FailuresType ==
    ASSUME IndexerTypeOK, Fails \/ UNCHANGED failures PROVE failures' \in Nat
  BY DEF IndexerTypeOK, Fails

LEMMA WorldType == ASSUME IndexerTypeOK, World PROVE IndexerTypeOK'
  <1>1. CASE Tick
    BY <1>1 DEF IndexerTypeOK, Tick, mem
  <1>2. ASSUME NEW x \in File, Write(x) PROVE IndexerTypeOK'
    BY <1>2 DEF IndexerTypeOK, Write, mem
  <1>3. ASSUME NEW x \in File, Remove(x) PROVE IndexerTypeOK'
    BY <1>3 DEF IndexerTypeOK, Remove, mem
  <1> QED
    BY <1>1, <1>2, <1>3 DEF World

LEMMA NextFileType ==
    ASSUME IndexerTypeOK, NEW p \in Proc, NextFile(p),
           cur[p] \in File
    PROVE  /\ pc' \in [Proc -> {"idle", "list", "args", "visit", "recheck",
                                "extract", "prepare", "insert"}]
           /\ cur' \in [Proc -> File \cup {None}]
           /\ fields' \in [Proc -> Nat \cup {None}]
           /\ stamp' \in [Proc -> Nat]
           /\ stat' \in [Proc -> [File -> Nat]]
           /\ todo' \in [Proc -> SUBSET File]
           /\ \A q \in Proc : pc'[q] \in {"recheck", "extract", "prepare", "insert"}
                                => cur'[q] \in File
  BY DEF IndexerTypeOK, NextFile, Goto

LEMMA LeaveType ==
    ASSUME IndexerTypeOK, NEW p \in Proc, Leave(p), failures' \in Nat
    PROVE  IndexerTypeOK'
  BY DEF IndexerTypeOK, Leave, Goto, SetErr, NoStat, world

LEMMA VisitType ==
    ASSUME IndexerTypeOK, NEW p \in Proc, NEW x \in File, Visit(p, x)
    PROVE  IndexerTypeOK'
  <1>1. /\ UNCHANGED <<world, entry, fields, stamp, overlap>>
        /\ SetErr(p, FALSE) \/ UNCHANGED err
        /\ Fails \/ UNCHANGED failures
    BY DEF Visit
  <1>2. err' \in [Proc -> BOOLEAN] /\ failures' \in Nat
    BY <1>1, ErrType, FailuresType
  <1>3. todo' \in [Proc -> SUBSET File] /\ stat' \in [Proc -> [File -> Nat]]
    <2>1. stat' = stat \/ stat' = [stat EXCEPT ![p] = [stat[p] EXCEPT ![x] = 0]]
      BY DEF Visit
    <2>2. stat \in [Proc -> [File -> Nat]] /\ [stat[p] EXCEPT ![x] = 0] \in [File -> Nat]
      BY DEF IndexerTypeOK
    <2>3. stat' \in [Proc -> [File -> Nat]]
      BY <2>1, <2>2
    <2>4. todo' \in [Proc -> SUBSET File]
      BY DEF IndexerTypeOK, Visit
    <2> QED
      BY <2>3, <2>4
  <1>4. /\ pc' \in [Proc -> {"idle", "list", "args", "visit", "recheck",
                             "extract", "prepare", "insert"}]
        /\ cur' \in [Proc -> File \cup {None}]
        /\ \A q \in Proc : pc'[q] \in {"recheck", "extract", "prepare", "insert"}
                              => cur'[q] \in File
    <2>1. CASE cur' = [cur EXCEPT ![p] = x] /\ Goto(p, "recheck")
      BY <2>1 DEF IndexerTypeOK, Goto
    <2>2. CASE UNCHANGED <<cur, pc>>
      BY <2>2 DEF IndexerTypeOK
    <2> QED
      BY <2>1, <2>2 DEF Visit
  <1> QED
    BY <1>1, <1>2, <1>3, <1>4 DEF IndexerTypeOK, world

LEMMA ExtractType ==
    ASSUME IndexerTypeOK, NEW p \in Proc, Extract(p) PROVE IndexerTypeOK'
  <1>0. /\ cur[p] \in File
        /\ UNCHANGED <<world, entry, overlap>>
    BY DEF IndexerTypeOK, Extract
  <1>1. ASSUME NEW v \in Nat \cup {None}, Extracted(p, v), pc[p] = "extract"
        PROVE  IndexerTypeOK'
    BY <1>0, <1>1 DEF IndexerTypeOK, Extracted, Goto, world
  <1>2. ASSUME NextFile(p), err' \in [Proc -> BOOLEAN], failures' \in Nat
        PROVE  IndexerTypeOK'
    BY <1>0, <1>2, NextFileType DEF IndexerTypeOK, world
  <1>3. content[cur[p]] \in Nat \cup {None} /\ None \in Nat \cup {None}
    BY <1>0 DEF IndexerTypeOK
  <1>4. \/ pc[p] = "extract" /\ (Extracted(p, None) \/ Extracted(p, content[cur[p]]))
        \/ /\ NextFile(p)
           /\ SetErr(p, TRUE) \/ UNCHANGED err
           /\ Fails \/ UNCHANGED failures
    BY DEF Extract
  <1> QED
    BY <1>1, <1>2, <1>3, <1>4, ErrType, FailuresType

LEMMA PrepareType ==
    ASSUME IndexerTypeOK, NEW p \in Proc, Prepare(p) PROVE IndexerTypeOK'
  <1>0. cur[p] \in File /\ UNCHANGED <<world, entry, overlap>>
    BY DEF IndexerTypeOK, Prepare
  <1>1. CASE NextFile(p) /\ Fails /\ SetErr(p, TRUE)
    BY <1>0, <1>1, NextFileType, ErrType, FailuresType DEF IndexerTypeOK, world
  <1>2. CASE ~(NextFile(p) /\ Fails /\ SetErr(p, TRUE))
    BY <1>0, <1>2 DEF IndexerTypeOK, Prepare, Goto, world
  <1> QED
    BY <1>1, <1>2

LEMMA InsertType ==
    ASSUME IndexerTypeOK, NEW p \in Proc, Insert(p) PROVE IndexerTypeOK'
  <1>0. cur[p] \in File /\ UNCHANGED world /\ NextFile(p)
    BY DEF IndexerTypeOK, Insert
  <1>1. [ver |-> fields[p], upd |-> stamp[p], ctime |-> stamp[p]] \in Row
    BY DEF IndexerTypeOK, Row
  <1>2. entry' \in [File -> Row \cup {None}]
    BY <1>0, <1>1 DEF IndexerTypeOK, Insert
  <1>3. overlap' \in [File -> BOOLEAN]
    BY <1>0 DEF IndexerTypeOK, Insert
  <1>4. err' \in [Proc -> BOOLEAN] /\ failures' \in Nat
    BY ErrType, FailuresType DEF Insert
  <1> QED
    BY <1>0, <1>2, <1>3, <1>4, NextFileType DEF IndexerTypeOK, world

LEMMA NextType == IndexerTypeOK /\ [Next]_vars => IndexerTypeOK'
  <1> SUFFICES ASSUME IndexerTypeOK, [Next]_vars PROVE IndexerTypeOK'
    OBVIOUS
  <1>1. ASSUME NEW p \in Proc, Start(p) PROVE IndexerTypeOK'
    BY <1>1 DEF IndexerTypeOK, Start, Goto, SetErr, world, mem
  <1>2. ASSUME NEW p \in Proc, NEW files \in Targets, List(p, files)
        PROVE  IndexerTypeOK'
    BY <1>2, IndexerConstants DEF IndexerTypeOK, List, Goto, world
  <1>3. ASSUME NEW p \in Proc, EndOfList(p) PROVE IndexerTypeOK'
    BY <1>3 DEF IndexerTypeOK, EndOfList, Goto, world, mem
  <1>4. ASSUME NEW p \in Proc, Recheck(p) PROVE IndexerTypeOK'
    <2>1. err' \in [Proc -> BOOLEAN] /\ failures' \in Nat
      BY <1>4, ErrType, FailuresType DEF Recheck
    <2> QED
      BY <1>4, <2>1 DEF IndexerTypeOK, Recheck, Goto, world, mem
  <1>5. ASSUME NEW p \in Proc, Finish(p) \/ Crash(p) PROVE IndexerTypeOK'
    BY <1>5, LeaveType DEF Finish, Crash, Fails, IndexerTypeOK
  <1>6. CASE UNCHANGED vars
    BY <1>6 DEF IndexerTypeOK, vars
  <1> QED
    BY <1>1, <1>2, <1>3, <1>4, <1>5, <1>6, WorldType, VisitType, ExtractType,
       PrepareType, InsertType DEF Next, Run, Work

(* The types of the state of findex and of its catalogue. *)
THEOREM TypeCorrect == Spec => []IndexerTypeOK
  <1>1. Init => IndexerTypeOK
    BY InitIInv DEF IInv
  <1> QED
    BY <1>1, NextType, PTL DEF Spec

-----------------------------------------------------------------------------
(* Rows show what was there. *)

Covered == PastVersions /\ PastTimes /\ StampCovers /\ RowsCover

LEMMA WorldCovered == ASSUME IInv, World PROVE Covered'
  <1> USE DEF PastVersions, PastTimes, StampCovers, RowsCover
  <1>0. IndexerTypeOK /\ Covered
    BY DEF IInv, Covered
  <1>1. CASE Tick
    BY <1>0, <1>1 DEF Tick, mem, Covered, IndexerTypeOK
  <1>2. ASSUME NEW x \in File, Write(x) PROVE Covered'
    <2>1. /\ content' = [content EXCEPT ![x] = writes + 1]
          /\ mtime' = [mtime EXCEPT ![x] = clock]
          /\ writes' = writes + 1
          /\ UNCHANGED <<clock, entry, pc, cur, fields, stamp>>
      BY <1>2 DEF Write, mem
    <2>2. PastVersions' /\ PastTimes'
      BY <1>0, <2>1 DEF Covered, IndexerTypeOK, Row
    <2>3. StampCovers'
      <3> SUFFICES ASSUME NEW p \in Proc, pc[p] = "insert", fields[p] # None,
                          fields[p] = content'[cur[p]]
                   PROVE  mtime'[cur[p]] <= stamp[p]
        BY <2>1
      <3>1. cur[p] \in File /\ fields[p] \in Nat /\ fields[p] <= writes /\ writes \in Nat
        BY <1>0 DEF Covered, IndexerTypeOK
      <3>2. cur[p] # x
        BY <1>0, <2>1, <3>1 DEF IndexerTypeOK
      <3> QED
        BY <1>0, <2>1, <3>1, <3>2 DEF Covered, IndexerTypeOK
    <2>4. RowsCover'
      <3> SUFFICES ASSUME NEW y \in File, entry[y] # None, content'[y] # None,
                          entry[y].ver = content'[y]
                   PROVE  mtime'[y] <= entry[y].upd
        BY <2>1
      <3>1. CASE y = x
        <4>1. entry[y].ver = writes + 1 /\ writes \in Nat
          BY <1>0, <2>1, <3>1 DEF IndexerTypeOK
        <4>2. entry[y].ver # None /\ entry[y].ver <= writes
          BY <1>0, <4>1, IndexerConstants DEF Covered
        <4> QED
          BY <4>1, <4>2
      <3>2. CASE y # x
        BY <1>0, <2>1, <3>2 DEF Covered, IndexerTypeOK
      <3> QED
        BY <3>1, <3>2
    <2> QED
      BY <2>2, <2>3, <2>4 DEF Covered
  <1>3. ASSUME NEW x \in File, Remove(x) PROVE Covered'
    BY <1>0, <1>3 DEF Remove, mem, Covered, IndexerTypeOK
  <1> QED
    BY <1>1, <1>2, <1>3 DEF World

(* A step that leaves the world and the rows alone, and no process newly   *)
(* about to insert.                                                        *)
LEMMA QuietCovered ==
    ASSUME IInv, UNCHANGED <<clock, content, mtime, writes, entry>>,
           \A q \in Proc : fields'[q] = None \/ fields'[q] = fields[q],
           \A q \in Proc : pc'[q] = "insert" =>
               /\ pc[q] = "insert"
               /\ fields'[q] = fields[q] /\ cur'[q] = cur[q] /\ stamp'[q] = stamp[q]
    PROVE  Covered'
  BY DEF IInv, Covered, PastVersions, PastTimes, StampCovers, RowsCover

LEMMA NextFileCovered ==
    ASSUME IInv, NEW p \in Proc, NextFile(p), UNCHANGED <<world, entry>>
    PROVE  Covered'
  <1>1. \A q \in Proc : fields'[q] = None \/ fields'[q] = fields[q]
    BY DEF NextFile, IInv, IndexerTypeOK
  <1>2. \A q \in Proc : pc'[q] = "insert" =>
            /\ pc[q] = "insert"
            /\ fields'[q] = fields[q] /\ cur'[q] = cur[q] /\ stamp'[q] = stamp[q]
    BY DEF NextFile, Goto, IInv, IndexerTypeOK
  <1> QED
    BY <1>1, <1>2, QuietCovered DEF world

LEMMA LeaveCovered ==
    ASSUME IInv, NEW p \in Proc, Leave(p) PROVE Covered'
  <1>1. \A q \in Proc : fields'[q] = None \/ fields'[q] = fields[q]
    BY DEF Leave, IInv, IndexerTypeOK
  <1>2. \A q \in Proc : pc'[q] = "insert" =>
            /\ pc[q] = "insert"
            /\ fields'[q] = fields[q] /\ cur'[q] = cur[q] /\ stamp'[q] = stamp[q]
    BY DEF Leave, Goto, IInv, IndexerTypeOK
  <1> QED
    BY <1>1, <1>2, QuietCovered DEF Leave, world

(* Steps before the extraction, which keep fields and stamps. *)
LEMMA BeforeCovered ==
    ASSUME IInv, NEW p \in Proc,
           \/ Start(p) \/ EndOfList(p) \/ Recheck(p)
           \/ \E files \in Targets : List(p, files)
           \/ \E x \in File : Visit(p, x)
    PROVE  Covered'
  <1>1. UNCHANGED <<world, entry, fields, stamp>>
    BY DEF Start, EndOfList, Recheck, List, Visit, mem
  <1>2. \A q \in Proc : pc'[q] = "insert" => pc[q] = "insert" /\ cur'[q] = cur[q]
    <2>0. pc \in [Proc -> {"idle", "list", "args", "visit", "recheck",
                          "extract", "prepare", "insert"}]
      BY DEF IInv, IndexerTypeOK
    <2>1. CASE Start(p) \/ EndOfList(p) \/ Recheck(p) \/ \E files \in Targets : List(p, files)
      BY <2>0, <2>1 DEF Start, EndOfList, Recheck, List, Goto, mem
    <2>2. ASSUME NEW x \in File, Visit(p, x)
          PROVE  \A q \in Proc : pc'[q] = "insert" => pc[q] = "insert" /\ cur'[q] = cur[q]
      BY <2>0, <2>2 DEF Visit, Goto, IInv, IndexerTypeOK
    <2> QED
      BY <2>1, <2>2
  <1> QED
    BY <1>1, <1>2, QuietCovered DEF world

LEMMA ExtractCovered == ASSUME IInv, NEW p \in Proc, Extract(p) PROVE Covered'
  <1>0. UNCHANGED <<world, entry>> /\ cur[p] \in File /\ pc[p] = "extract"
    BY DEF Extract, IInv, IndexerTypeOK
  <1>1. CASE NextFile(p)
    BY <1>0, <1>1, NextFileCovered
  <1>2. ASSUME NEW v, v = None \/ v = content[cur[p]], Extracted(p, v) PROVE Covered'
    <2>1. v # None => v <= writes
      BY <1>0, <1>2 DEF IInv, PastVersions
    <2>2. \A q \in Proc : fields'[q] # None => fields'[q] <= writes
      BY <1>2, <2>1 DEF Extracted, IInv, IndexerTypeOK, PastVersions
    <2>3. \A q \in Proc : pc'[q] = "insert" =>
              pc[q] = "insert" /\ fields'[q] = fields[q] /\ cur'[q] = cur[q] /\ stamp'[q] = stamp[q]
      BY <1>0, <1>2 DEF Extracted, Goto, IInv, IndexerTypeOK
    <2> QED
      BY <1>0, <2>2, <2>3
         DEF IInv, Covered, PastVersions, PastTimes, StampCovers, RowsCover, world
  <1> QED
    BY <1>1, <1>2 DEF Extract

LEMMA PrepareCovered == ASSUME IInv, NEW p \in Proc, Prepare(p) PROVE Covered'
  <1>0. UNCHANGED <<world, entry>> /\ cur[p] \in File
    BY DEF Prepare, IInv, IndexerTypeOK
  <1>1. CASE NextFile(p)
    BY <1>0, <1>1, NextFileCovered
  <1>2. CASE stamp' = [stamp EXCEPT ![p] = clock] /\ Goto(p, "insert")
              /\ UNCHANGED <<todo, stat, cur, fields, err, failures>>
    <2>1. StampCovers'
      BY <1>0, <1>2 DEF StampCovers, IInv, IndexerTypeOK, PastTimes, Goto, world
    <2> QED
      BY <1>0, <1>2, <2>1 DEF IInv, Covered, PastVersions, PastTimes, RowsCover, world
  <1> QED
    BY <1>1, <1>2 DEF Prepare

LEMMA InsertCovered == ASSUME IInv, NEW p \in Proc, Insert(p) PROVE Covered'
  <1>0. /\ UNCHANGED world /\ NextFile(p) /\ cur[p] \in File /\ pc[p] = "insert"
        /\ IndexerTypeOK
    BY DEF Insert, IInv, IndexerTypeOK
  <1>1. CASE UNCHANGED entry
    BY <1>0, <1>1, NextFileCovered
  <1>2. CASE entry' = [entry EXCEPT ![cur[p]] =
                 [ver |-> fields[p], upd |-> stamp[p], ctime |-> stamp[p]]]
    <2>1. /\ \A q \in Proc : fields'[q] = None \/ fields'[q] = fields[q]
          /\ \A q \in Proc : pc'[q] = "insert" =>
                pc[q] = "insert" /\ fields'[q] = fields[q] /\ cur'[q] = cur[q] /\ stamp'[q] = stamp[q]
      BY <1>0 DEF NextFile, Goto, IndexerTypeOK
    <2>2. StampCovers' /\ PastTimes'
      BY <1>0, <2>1 DEF IInv, StampCovers, PastTimes, world
    <2>3. \A x \in File : \/ entry'[x] = entry[x]
                          \/ /\ x = cur[p]
                             /\ entry'[x].ver = fields[p]
                             /\ entry'[x].upd = stamp[p]
      BY <1>0, <1>2 DEF IndexerTypeOK
    <2>4. PastVersions'
      BY <1>0, <2>1, <2>3 DEF IInv, PastVersions, world
    <2>5. RowsCover'
      BY <1>0, <2>3 DEF IInv, RowsCover, StampCovers, world
    <2> QED
      BY <2>2, <2>4, <2>5 DEF Covered
  <1> QED
    BY <1>1, <1>2 DEF Insert

LEMMA NextIInv == IInv /\ [Next]_vars => IInv'
  <1> SUFFICES ASSUME IInv, [Next]_vars PROVE IInv'
    OBVIOUS
  <1>1. IndexerTypeOK'
    BY NextType DEF IInv
  <1>2. ASSUME UNCHANGED vars PROVE Covered'
    <2>1. /\ UNCHANGED <<clock, content, mtime, writes, entry, fields>>
          /\ UNCHANGED <<pc, cur, stamp>>
      BY <1>2 DEF vars
    <2> QED
      BY <2>1, QuietCovered
  <1>3. ASSUME NEW p \in Proc, Run(p) \/ Crash(p) PROVE Covered'
    BY <1>3, BeforeCovered, ExtractCovered, PrepareCovered, InsertCovered, LeaveCovered
       DEF Run, Work, Finish, Crash
  <1>4. Covered'
    BY <1>2, <1>3, WorldCovered DEF Next
  <1> QED
    BY <1>1, <1>4 DEF IInv, Covered

(* However many findex run and fail, a row that shows what its file holds  *)
(* is not found changed: its lastupdate covers the st_mtime.               *)
THEOREM CurrentLeftAlone == Spec => []CurrentIsLeftAlone
  <1>1. IInv => CurrentIsLeftAlone
    <2> SUFFICES ASSUME IInv, NEW x \in File, Exists(x), Current(x)
                 PROVE  ~Changed(x, mtime[x])
      BY DEF CurrentIsLeftAlone
    <2>1. entry[x] # None /\ mtime[x] <= entry[x].upd
      BY DEF IInv, RowsCover, Exists, Current
    <2>2. mtime[x] \in Nat /\ entry[x].upd \in Nat
      BY <2>1 DEF IInv, IndexerTypeOK, Row
    <2> QED
      BY <2>1, <2>2 DEF Changed
  <1> QED
    BY <1>1, InitIInv, NextIInv, PTL DEF Spec
=============================================================================
