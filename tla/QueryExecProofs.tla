-------------------------- MODULE QueryExecProofs ---------------------------
(***************************************************************************)
(* Proofs about QueryExec: the life of a statement, the query a match      *)
(* searches, the rows on the operand stack and the fields of a row, for    *)
(* any queries, programs, columns, stack size and results.                 *)
(***************************************************************************)
EXTENDS QueryExec, Recursion, SequenceTheorems

(* The parts of the type invariant the two properties need. *)
ControlOK ==
    /\ phase \in [Query -> {"new", "init", "more", "finished"}]
    /\ stmt \in [Query -> {"null", "open", "final"}]
    /\ searched \in [Query -> Query \cup {None}]

ControlInv == ControlOK /\ StatementLifecycle /\ SearchesOwnRegex

LEMMA InitControl == Init => ControlInv
  BY DEF Init, ControlInv, ControlOK, StatementLifecycle, SearchesOwnRegex

(* What a change of one query does to the invariant. *)
LEMMA OneQuery ==
    ASSUME ControlInv, NEW q \in Query,
           NEW ph \in {"new", "init", "more", "finished"},
           NEW st \in {"null", "open", "final"},
           NEW se \in {None, q},
           phase' = [phase EXCEPT ![q] = ph],
           stmt' = [stmt EXCEPT ![q] = st],
           searched' = [searched EXCEPT ![q] = se],
           ph = "more" => st = "open",
           ph = "finished" => st # "open",
           ph = "new" => st = "null"
    PROVE  ControlInv'
  BY DEF ControlInv, ControlOK, StatementLifecycle, SearchesOwnRegex

LEMMA Unchanged ==
    ASSUME ControlInv, UNCHANGED <<phase, stmt, searched>>
    PROVE  ControlInv'
  BY DEF ControlInv, ControlOK, StatementLifecycle, SearchesOwnRegex

(* A failed step ends the query and its statement. *)
LEMMA FailControl ==
    ASSUME ControlInv, NEW q \in Query, NEW se \in {None, q},
           searched' = [searched EXCEPT ![q] = se], StepFails(q)
    PROVE  ControlInv'
  <1>1. phase' = [phase EXCEPT ![q] = "finished"]
    BY DEF StepFails
  <1>2. stmt' = [stmt EXCEPT ![q] = IF stmt[q] = "open" THEN "final" ELSE stmt[q]]
    BY DEF StepFails
  <1>3. stmt[q] \in {"null", "open", "final"}
    BY DEF ControlInv, ControlOK
  <1> DEFINE st == IF stmt[q] = "open" THEN "final" ELSE stmt[q]
  <1>4. st \in {"null", "open", "final"} /\ st # "open"
    BY <1>3
  <1>5. stmt' = [stmt EXCEPT ![q] = st]
    BY <1>2
  <1> HIDE DEF st
  <1> QED
    BY <1>1, <1>4, <1>5, OneQuery

LEMMA StepControl ==
    ASSUME ControlInv, NEW q \in Query, NEW se \in {None, q},
           searched' = [searched EXCEPT ![q] = se], StepOpen(q)
    PROVE  ControlInv'
  <1>1. CASE /\ phase' = [phase EXCEPT ![q] = "more"]
             /\ stmt' = [stmt EXCEPT ![q] = "open"]
    BY <1>1, OneQuery
  <1>2. CASE /\ phase' = [phase EXCEPT ![q] = "finished"]
             /\ stmt' = [stmt EXCEPT ![q] = "final"]
    BY <1>2, OneQuery
  <1>3. CASE StepFails(q)
    BY <1>3, FailControl
  <1> QED
    BY <1>1, <1>2, <1>3 DEF StepOpen

(* A match searches the query that the step made current. *)
LEMMA MatchCurrent ==
    ASSUME NEW q \in Query, curq' = q, Match(q)
    PROVE  \E se \in {None, q} : searched' = [searched EXCEPT ![q] = se]
  BY DEF Match

LEMMA StepInv ==
    ASSUME ControlInv, NEW q \in Query, Step(q)
    PROVE  ControlInv'
  <1>1. CASE UNCHANGED <<phase, stmt, stack, fetched, curq, searched, kept>>
    BY <1>1, Unchanged
  <1>2. CASE /\ curq' = q
             /\ Match(q)
             /\ IF stmt[q] = "open" THEN StepOpen(q) ELSE StepFails(q)
    <2>1. PICK se \in {None, q} : searched' = [searched EXCEPT ![q] = se]
      BY <1>2, MatchCurrent
    <2> QED
      BY <1>2, <2>1, StepControl, FailControl
  <1> QED
    BY <1>1, <1>2 DEF Step

(* An error before the first row leaves the query to be started again. *)
LEMMA InitFailsInv ==
    ASSUME ControlInv, NEW q \in Query, NEW code,
           NEW st \in {"null", "open", "final"}, InitFails(q, code, st)
    PROVE  ControlInv'
  <1>1. searched' = [searched EXCEPT ![q] = searched[q]] /\ searched[q] \in {None, q}
    BY DEF InitFails, ControlInv, ControlOK, SearchesOwnRegex
  <1>2. phase' = [phase EXCEPT ![q] = "init"] /\ stmt' = [stmt EXCEPT ![q] = st]
    BY DEF InitFails
  <1> QED
    BY <1>1, <1>2, OneQuery

LEMMA InitExecInv ==
    ASSUME ControlInv, NEW q \in Query, InitExec(q)
    PROVE  ControlInv'
  <1>1. stmt[q] \in {"null", "open", "final"}
    BY DEF ControlInv, ControlOK
  <1>2. CASE Match(q) /\ StepOpen(q)
    <2>1. PICK se \in {None, q} : searched' = [searched EXCEPT ![q] = se]
      BY <1>2, MatchCurrent DEF InitExec
    <2> QED
      BY <1>2, <2>1, StepControl
  <1>3. CASE \E code, st : st \in {stmt[q], "null", "open"} /\ InitFails(q, code, st)
    BY <1>1, <1>3, InitFailsInv
  <1> QED
    BY <1>2, <1>3 DEF InitExec

LEMMA DestroyInv ==
    ASSUME ControlInv, NEW q \in Query, Destroy(q)
    PROVE  ControlInv'
  BY OneQuery DEF Destroy

LEMMA NextControl == ControlInv /\ [Next]_vars => ControlInv'
  <1> SUFFICES ASSUME ControlInv, [Next]_vars PROVE ControlInv'
    OBVIOUS
  <1>1. ASSUME NEW q \in Query, Fetch(q) PROVE ControlInv'
    BY <1>1, StepInv, InitExecInv DEF Fetch, Qne
  <1>2. ASSUME NEW q \in Query, New(q) \/ Pop(q) PROVE ControlInv'
    BY <1>2, Unchanged DEF New, Pop
  <1>3. CASE UNCHANGED vars
    BY <1>3, Unchanged DEF vars
  <1> QED
    BY <1>1, <1>2, <1>3, DestroyInv DEF Next

LEMMA ControlInvariant == Spec => []ControlInv
  BY InitControl, NextControl, PTL DEF Spec

(* No call of fdbfs_query_step uses a finalized statement, and a query     *)
(* that is over has released its own.                                      *)
THEOREM StatementsLive == Spec => []StatementLifecycle
  BY ControlInvariant, PTL DEF ControlInv

(* fdbfs_db_regex_func searches the query that is stepped, however the     *)
(* queries of one fdbfs_t are interleaved.                                 *)
THEOREM RegexOfOwnQuery == Spec => []SearchesOwnRegex
  BY ControlInvariant, PTL DEF ControlInv

-----------------------------------------------------------------------------
(***************************************************************************)
(* The loop over the columns of a row.                                     *)
(***************************************************************************)
Field == [name : Column, value : Column, other : Column \cup {None}]

Gathered ==
    {s \in [fields : Seq(Field), waits : BOOLEAN, pops : Nat, bad : BOOLEAN] :
        s.waits => s.fields # <<>>}

LastField(s) == s.fields[Len(s.fields)]

(* What one turn makes of the fields: see TakeColumn.                      *)
Skipped(p, s, c, t) == (s.bad \/ (p.all /\ c = Id)) /\ t = s

Completed(s, c, t) ==
    /\ ~s.bad /\ s.waits /\ c = OtherOf[LastField(s).name]
    /\ t.fields = [s.fields EXCEPT ![Len(s.fields)] = [@ EXCEPT !.other = c]]
    /\ ~t.waits /\ ~t.bad

Overwritten(s, c, t) ==
    /\ ~s.bad /\ s.waits /\ c # OtherOf[LastField(s).name]
    /\ t.fields = [s.fields EXCEPT ![Len(s.fields)] = [@ EXCEPT !.value = c]]
    /\ t.waits /\ ~t.bad

Added(s, c, t) ==
    /\ ~s.bad /\ ~s.waits /\ c \in Std \cup Elem
    /\ t.fields = Append(s.fields, NewField(c))
    /\ t.waits = Waits(c) /\ ~t.bad

LEMMA LastChanged ==
    ASSUME NEW fs \in Seq(Field), fs # <<>>, NEW f \in Field, NEW gs,
           gs = [fs EXCEPT ![Len(fs)] = f]
    PROVE  /\ gs \in Seq(Field) /\ gs # <<>> /\ Len(gs) = Len(fs)
           /\ Len(fs) \in 1..Len(fs)
           /\ \A j \in 1..Len(fs) : gs[j] = IF j = Len(fs) THEN f ELSE fs[j]
  <1>1. Len(fs) \in Nat \ {0} /\ Len(<<>>) = 0
    BY EmptySeq
  <1>2. PICK l \in 1..Len(fs) : l = Len(fs)
    BY <1>1
  <1>3. gs \in Seq(Field) /\ Len(gs) = Len(fs)
        /\ \A j \in 1..Len(fs) : gs[j] = IF j = l THEN f ELSE fs[j]
    BY <1>2, ExceptSeq
  <1> QED
    BY <1>1, <1>2, <1>3

LEMMA TakeCases ==
    ASSUME NEW p \in Program, NEW s \in Gathered, NEW c \in Column,
           NEW t, t = TakeColumn(p, s, c)
    PROVE  /\ t \in Gathered
           /\ p.all => t.pops = s.pops
           /\ Skipped(p, s, c, t) \/ Completed(s, c, t) \/ Overwritten(s, c, t)
                \/ Added(s, c, t) \/ t.bad
  <1>1. /\ s.fields \in Seq(Field) /\ s.waits \in BOOLEAN /\ s.pops \in Nat
        /\ s.bad \in BOOLEAN
        /\ s.waits => s.fields # <<>>
    BY DEF Gathered
  <1>2. PICK fs \in Seq(Field) : fs = s.fields
    BY <1>1
  <1>3. PICK l \in Nat : l = Len(fs)
    BY <1>2
  <1>4. p.all \in BOOLEAN
    BY QueryConstants
  <1> DEFINE pops == IF p.all THEN s.pops ELSE s.pops + 1
  <1>5. pops \in Nat
    BY <1>1
  <1>6. CASE s.bad \/ (p.all /\ c = Id)
    <2>1. t = s
      BY <1>6 DEF TakeColumn
    <2> QED
      BY <1>6, <2>1 DEF Skipped
  <1>7. CASE ~s.bad /\ ~(p.all /\ c = Id) /\ s.waits /\ c = OtherOf[fs[l].name]
    <2> DEFINE gs == [fs EXCEPT ![l] = [@ EXCEPT !.other = c]]
    <2>1. fs # <<>> /\ fs[l] \in Field
      <3>1. fs # <<>>
        BY <1>1, <1>2, <1>7
      <3>2. Len(fs) \in Nat \ {0}
        BY <3>1, EmptySeq
      <3> QED
        BY <1>3, <3>1, <3>2
    <2>2. t = [fields |-> gs, waits |-> FALSE, pops |-> pops, bad |-> FALSE]
      BY <1>1, <1>2, <1>3, <1>7 DEF TakeColumn, Gathered
    <2>3. gs \in Seq(Field) /\ gs # <<>>
      <3>1. PICK f \in Field : f = [fs[l] EXCEPT !.other = c]
        BY <2>1 DEF Field
      <3>2. gs = [fs EXCEPT ![Len(fs)] = f]
        BY <1>3, <3>1
      <3> HIDE DEF gs
      <3> QED
        BY <2>1, <3>2, LastChanged
    <2> HIDE DEF gs, pops
    <2>4. t \in Gathered
      BY <1>5, <2>2, <2>3 DEF Gathered
    <2>5. Completed(s, c, t)
      BY <1>2, <1>3, <1>7, <2>2 DEF Completed, LastField, gs
    <2> QED
      BY <2>2, <2>4, <2>5 DEF pops
  <1>8. CASE ~s.bad /\ ~(p.all /\ c = Id) /\ s.waits /\ c # OtherOf[fs[l].name]
    <2> DEFINE gs == [fs EXCEPT ![l] = [@ EXCEPT !.value = c]]
    <2>1. fs # <<>> /\ fs[l] \in Field
      <3>1. fs # <<>>
        BY <1>1, <1>2, <1>8
      <3>2. Len(fs) \in Nat \ {0}
        BY <3>1, EmptySeq
      <3> QED
        BY <1>3, <3>1, <3>2
    <2>2. t = [fields |-> gs, waits |-> TRUE, pops |-> pops, bad |-> FALSE]
      BY <1>1, <1>2, <1>3, <1>8 DEF TakeColumn, Gathered
    <2>3. gs \in Seq(Field) /\ gs # <<>>
      <3>1. PICK f \in Field : f = [fs[l] EXCEPT !.value = c]
        BY <2>1 DEF Field
      <3>2. gs = [fs EXCEPT ![Len(fs)] = f]
        BY <1>3, <3>1
      <3> HIDE DEF gs
      <3> QED
        BY <2>1, <3>2, LastChanged
    <2> HIDE DEF gs, pops
    <2>4. t \in Gathered
      BY <1>5, <2>2, <2>3 DEF Gathered
    <2>5. Overwritten(s, c, t)
      BY <1>2, <1>3, <1>8, <2>2 DEF Overwritten, LastField, gs
    <2> QED
      BY <2>2, <2>4, <2>5 DEF pops
  <1>9. CASE ~s.bad /\ ~(p.all /\ c = Id) /\ ~s.waits /\ c \in Std \cup Elem
    <2>1. t = [fields |-> Append(fs, NewField(c)), waits |-> Waits(c), pops |-> pops, bad |-> FALSE]
      BY <1>1, <1>2, <1>9 DEF TakeColumn, Gathered
    <2>2. NewField(c) \in Field
      BY DEF NewField, Field
    <2>3. Append(fs, NewField(c)) \in Seq(Field) /\ Append(fs, NewField(c)) # <<>>
      <3>1. Append(fs, NewField(c)) \in Seq(Field) /\ Len(Append(fs, NewField(c))) = Len(fs) + 1
        BY <2>2
      <3> QED
        BY <1>3, <3>1, EmptySeq
    <2>4. Waits(c) \in BOOLEAN
      BY DEF Waits
    <2> HIDE DEF pops
    <2>5. t \in Gathered
      BY <1>5, <2>1, <2>3, <2>4 DEF Gathered
    <2>6. Added(s, c, t)
      BY <1>2, <1>9, <2>1 DEF Added
    <2> QED
      BY <2>1, <2>5, <2>6 DEF pops
  <1>10. CASE ~s.bad /\ ~(p.all /\ c = Id) /\ ~s.waits /\ c \notin Std \cup Elem
    <2>1. t = [fields |-> fs, waits |-> FALSE, pops |-> pops, bad |-> TRUE]
      BY <1>1, <1>2, <1>10 DEF TakeColumn, Gathered
    <2> HIDE DEF pops
    <2>2. t \in Gathered
      BY <1>5, <2>1 DEF Gathered
    <2> QED
      BY <2>1, <2>2 DEF pops
  <1> QED
    BY <1>6, <1>7, <1>8, <1>9, <1>10, <1>2, <1>3

(* The column is in a field, or left out.                                  *)
Here(p, j, fields) == (p.all /\ p.cols[j] = Id) \/ Delivered(p.cols[j], fields)

(* After i columns of a result in the order of the table: all are in the   *)
(* fields, and only the enumeration read last can be waiting.              *)
Taken(p, i, s) ==
    /\ s \in Gathered
    /\ p.all => s.pops = 0
    /\ Paired(p) /\ ~s.bad =>
          /\ \A j \in 1..i : Here(p, j, s.fields)
          /\ s.waits =>
                /\ i # 0 /\ p.cols[i] \in Elem /\ OtherOf[p.cols[i]] # None
                /\ LastField(s) = NewField(p.cols[i])

LEMMA ColsTyped ==
    ASSUME NEW p \in Program
    PROVE  p.cols \in Seq(Column) /\ Len(p.cols) \in Nat /\ p.all \in BOOLEAN
BY QueryConstants

(* An oth_ column fills the field that waits for it.                       *)
LEMMA CompletedDelivers ==
    ASSUME NEW s \in Gathered, NEW e \in Elem, NEW c \in Column, NEW t,
           LastField(s) = NewField(e), c = OtherOf[e], Completed(s, c, t)
    PROVE  /\ Delivered(c, t.fields)
           /\ \A d \in Column : Delivered(d, s.fields) => Delivered(d, t.fields)
  <1>1. PICK fs \in Seq(Field) : fs = s.fields
    BY DEF Gathered
  <1>2. fs # <<>>
    BY <1>1 DEF Gathered, Completed
  <1>3. PICK l \in 1..Len(fs) : l = Len(fs)
    <2>1. Len(fs) \in Nat \ {0}
      BY <1>2, EmptySeq
    <2> QED
      BY <2>1
  <1>4. fs[l] = NewField(e)
    BY <1>1, <1>3 DEF LastField
  <1>5. PICK f \in Field : f = [fs[l] EXCEPT !.other = c]
    <2>1. fs[l] \in Field
      BY <1>3
    <2> QED
      BY <2>1 DEF Field
  <1>6. f.name = e /\ f.value = e /\ f.other = c
    BY <1>4, <1>5 DEF NewField
  <1>7. PICK gs : gs = t.fields
    OBVIOUS
  <1>8. gs = [fs EXCEPT ![Len(fs)] = f]
    BY <1>1, <1>3, <1>5, <1>7 DEF Completed
  <1>9. /\ gs \in Seq(Field) /\ Len(gs) = Len(fs)
        /\ \A j \in 1..Len(fs) : gs[j] = IF j = Len(fs) THEN f ELSE fs[j]
    BY <1>2, <1>8, LastChanged
  <1>10. DOMAIN gs = 1..Len(fs) /\ DOMAIN fs = 1..Len(fs)
    BY <1>9
  <1>11. gs[l] = f
    BY <1>3, <1>9
  <1>12. Delivered(c, gs)
    BY <1>3, <1>6, <1>10, <1>11 DEF Delivered
  <1>13. ASSUME NEW d \in Column, Delivered(d, fs) PROVE Delivered(d, gs)
    <2>1. PICK i \in 1..Len(fs) :
             \/ fs[i].name = d /\ fs[i].value = d
             \/ fs[i].other = d /\ fs[i].name \in Elem /\ OtherOf[fs[i].name] = d
      BY <1>10, <1>13 DEF Delivered
    <2>2. CASE i # l
      <3>1. gs[i] = fs[i]
        BY <1>3, <1>9, <2>2
      <3> QED
        BY <1>10, <2>1, <3>1 DEF Delivered
    <2>3. CASE i = l
      <3>1. d # None
        BY DEF Column
      <3>2. fs[i].name = e /\ fs[i].value = e /\ fs[i].other = None
        BY <1>4, <2>3 DEF NewField
      <3>3. d = e
        BY <2>1, <3>1, <3>2
      <3> QED
        BY <1>3, <1>6, <1>10, <1>11, <3>3 DEF Delivered
    <2> QED
      BY <2>2, <2>3
  <1> QED
    BY <1>1, <1>7, <1>12, <1>13

(* A new field leaves the others as they are.                              *)
LEMMA AddedDelivers ==
    ASSUME NEW s \in Gathered, NEW c \in Column, NEW t, Added(s, c, t)
    PROVE  /\ Delivered(c, t.fields)
           /\ \A d \in Column : Delivered(d, s.fields) => Delivered(d, t.fields)
           /\ LastField(t) = NewField(c)
  <1>1. PICK fs \in Seq(Field) : fs = s.fields
    BY DEF Gathered
  <1>2. PICK f \in Field : f = NewField(c)
    BY DEF NewField, Field
  <1>3. PICK gs : gs = t.fields
    OBVIOUS
  <1>4. gs = Append(fs, f)
    BY <1>1, <1>2, <1>3 DEF Added
  <1>5. PICK l \in Nat : l = Len(fs)
    OBVIOUS
  <1>6. /\ Len(gs) = l + 1 /\ DOMAIN gs = 1..(l + 1) /\ DOMAIN fs = 1..l
        /\ gs[l + 1] = f /\ \A i \in 1..l : gs[i] = fs[i]
    BY <1>4, <1>5
  <1>7. f.name = c /\ f.value = c
    BY <1>2 DEF NewField
  <1>8. l + 1 \in DOMAIN gs /\ DOMAIN fs \subseteq DOMAIN gs
    BY <1>6
  <1>9. Delivered(c, gs)
    BY <1>6, <1>7, <1>8 DEF Delivered
  <1>10. ASSUME NEW d \in Column, Delivered(d, fs) PROVE Delivered(d, gs)
    <2>1. PICK i \in DOMAIN fs :
             \/ fs[i].name = d /\ fs[i].value = d
             \/ fs[i].other = d /\ fs[i].name \in Elem /\ OtherOf[fs[i].name] = d
      BY <1>10 DEF Delivered
    <2>2. gs[i] = fs[i] /\ i \in DOMAIN gs
      BY <1>6, <1>8
    <2> QED
      BY <2>1, <2>2 DEF Delivered
  <1>11. LastField(t) = f
    BY <1>3, <1>6 DEF LastField
  <1> QED
    BY <1>1, <1>2, <1>3, <1>9, <1>10, <1>11

LEMMA TurnTakes ==
    ASSUME NEW p \in Program, NEW i \in 0..(Len(p.cols) - 1), NEW s, Taken(p, i, s),
           NEW t, t = TakeColumn(p, s, p.cols[i + 1])
    PROVE  Taken(p, i + 1, t)
  <1>1. p.cols \in Seq(Column) /\ Len(p.cols) \in Nat
    BY ColsTyped
  <1>2. i + 1 \in 1..Len(p.cols) /\ i \in Nat
    BY <1>1
  <1>3. PICK c \in Column : c = p.cols[i + 1]
    BY <1>1, <1>2
  <1>4. s \in Gathered /\ (p.all => s.pops = 0)
    BY DEF Taken
  <1>5. /\ t \in Gathered /\ (p.all => t.pops = s.pops)
        /\ Skipped(p, s, c, t) \/ Completed(s, c, t) \/ Overwritten(s, c, t)
             \/ Added(s, c, t) \/ t.bad
    BY <1>3, <1>4, TakeCases
  <1>6. ASSUME Paired(p), ~t.bad
        PROVE  /\ \A j \in 1..(i + 1) : Here(p, j, t.fields)
               /\ t.waits =>
                    /\ i + 1 # 0 /\ p.cols[i + 1] \in Elem /\ OtherOf[p.cols[i + 1]] # None
                    /\ LastField(t) = NewField(p.cols[i + 1])
    <2>1. ~s.bad
      BY <1>5, <1>6 DEF Skipped, Completed, Overwritten, Added
    <2>2. \A j \in 1..i : Here(p, j, s.fields)
      BY <1>6, <2>1 DEF Taken
    <2>3. s.waits => /\ p.cols[i] \in Elem /\ c = OtherOf[p.cols[i]] /\ c # Id
                     /\ LastField(s) = NewField(p.cols[i])
      <3> SUFFICES ASSUME s.waits
                   PROVE  /\ p.cols[i] \in Elem /\ c = OtherOf[p.cols[i]] /\ c # Id
                          /\ LastField(s) = NewField(p.cols[i])
        OBVIOUS
      <3>1. /\ i # 0 /\ p.cols[i] \in Elem /\ OtherOf[p.cols[i]] # None
            /\ LastField(s) = NewField(p.cols[i])
        BY <1>6, <2>1 DEF Taken
      <3>2. i \in 1..Len(p.cols) /\ i < Len(p.cols)
        BY <1>1, <1>2, <3>1
      <3>3. c = OtherOf[p.cols[i]]
        BY <1>3, <1>6, <3>1, <3>2 DEF Paired
      <3> QED
        BY <3>1, <3>3, QueryConstants
    <2>4. \A j \in 1..i : p.cols[j] \in Column
      BY <1>1, <1>2
    <2>5. \A j \in 1..(i + 1) : j \in 1..i \/ j = i + 1
      BY <1>2
    <2>6. CASE Skipped(p, s, c, t)
      <3>1. t = s /\ p.all /\ c = Id
        BY <2>1, <2>6 DEF Skipped
      <3>2. ~t.waits
        BY <2>3, <3>1
      <3>3. Here(p, i + 1, t.fields)
        BY <1>3, <3>1 DEF Here
      <3> QED
        BY <2>2, <2>5, <3>1, <3>2, <3>3
    <2>7. CASE Completed(s, c, t)
      <3>1. PICK e \in Elem : LastField(s) = NewField(e) /\ c = OtherOf[e]
        BY <2>3, <2>7 DEF Completed
      <3>2. /\ Delivered(c, t.fields)
            /\ \A d \in Column : Delivered(d, s.fields) => Delivered(d, t.fields)
        BY <1>4, <2>7, <3>1, CompletedDelivers
      <3>3. \A j \in 1..i : Here(p, j, t.fields)
        BY <2>2, <2>4, <3>2 DEF Here
      <3>4. Here(p, i + 1, t.fields)
        BY <1>3, <3>2 DEF Here
      <3>5. ~t.waits
        BY <2>7 DEF Completed
      <3> QED
        BY <2>5, <3>3, <3>4, <3>5
    <2>8. CASE Overwritten(s, c, t)
      <3>1. s.waits /\ c # OtherOf[LastField(s).name]
        BY <2>8 DEF Overwritten
      <3>2. LastField(s).name = p.cols[i]
        BY <2>3, <3>1 DEF NewField
      <3> QED
        BY <2>3, <3>1, <3>2
    <2>9. CASE Added(s, c, t)
      <3>1. /\ Delivered(c, t.fields) /\ LastField(t) = NewField(c)
            /\ \A d \in Column : Delivered(d, s.fields) => Delivered(d, t.fields)
        BY <1>4, <2>9, AddedDelivers
      <3>2. \A j \in 1..i : Here(p, j, t.fields)
        BY <2>2, <2>4, <3>1 DEF Here
      <3>3. Here(p, i + 1, t.fields)
        BY <1>3, <3>1 DEF Here
      <3>4. t.waits => c \in Elem /\ OtherOf[c] # None
        BY <2>9 DEF Added, Waits
      <3>5. i + 1 # 0
        BY <1>2
      <3> QED
        BY <1>3, <2>5, <3>1, <3>2, <3>3, <3>4, <3>5
    <2> QED
      BY <1>5, <1>6, <2>6, <2>7, <2>8, <2>9
  <1> QED
    BY <1>4, <1>5, <1>6 DEF Taken

LEMMA AssembledTaken ==
    ASSUME NEW p \in Program
    PROVE  Taken(p, Len(p.cols), Assembled(p))
  <1> DEFINE n == Len(p.cols)
             step == [z \in Gathered \X (1..n) |-> TakeColumn(p, z[1], p.cols[z[2]])]
             w[i \in 0..n] == IF i = 0 THEN NoFields ELSE TakeColumn(p, w[i - 1], p.cols[i])
  <1>1. p.cols \in Seq(Column) /\ n \in Nat
    BY ColsTyped
  <1>2. NoFields \in Gathered
    BY DEF NoFields, Gathered
  <1>3. step \in [Gathered \X (1..n) -> Gathered]
    <2>1. ASSUME NEW s \in Gathered, NEW i \in 1..n PROVE TakeColumn(p, s, p.cols[i]) \in Gathered
      <3>1. p.cols[i] \in Column
        BY <1>1
      <3> QED
        BY <3>1, TakeCases
    <2> QED
      BY <2>1
  <1>4. \E v : IsLoop(v, n, Gathered, NoFields, step)
    <2> HIDE DEF step, n
    <2> QED
      BY <1>1, <1>2, <1>3, LoopExists
  <1>5. PICK v : IsLoop(v, n, Gathered, NoFields, step)
    BY <1>4
  <1>6. /\ v \in [0..n -> Gathered] /\ v[0] = NoFields
        /\ \A i \in 1..n : v[i] = TakeColumn(p, v[i - 1], p.cols[i])
    <2>1. v \in [0..n -> Gathered] /\ v[0] = NoFields
          /\ \A i \in 1..n : v[i] = step[<<v[i - 1], i>>]
      BY <1>5 DEF IsLoop
    <2>2. \A i \in 1..n : v[i - 1] \in Gathered
      BY <1>1, <2>1
    <2> QED
      BY <2>1, <2>2
  <1>7. v = [i \in 0..n |-> IF i = 0 THEN NoFields ELSE TakeColumn(p, v[i - 1], p.cols[i])]
    BY <1>1, <1>6
  <1>8. w = [i \in 0..n |-> IF i = 0 THEN NoFields ELSE TakeColumn(p, w[i - 1], p.cols[i])]
    BY <1>7
  <1>9. Assembled(p) = w[n]
    BY DEF Assembled
  <1> HIDE DEF w, step
  <1> DEFINE T == {i \in 0..n : Taken(p, i, w[i])}
  <1>10. 0 \in T
    <2>1. w[0] = NoFields
      BY <1>1, <1>8
    <2>2. Taken(p, 0, NoFields)
      BY <1>2 DEF Taken, NoFields
    <2> QED
      BY <1>1, <2>1, <2>2
  <1>11. \A i \in 0..(n - 1) : i \in T => i + 1 \in T
    <2> SUFFICES ASSUME NEW i \in 0..(n - 1), Taken(p, i, w[i])
                 PROVE  i + 1 \in 0..n /\ Taken(p, i + 1, w[i + 1])
      OBVIOUS
    <2>1. i + 1 \in 0..n /\ i + 1 # 0 /\ (i + 1) - 1 = i
      BY <1>1
    <2>2. w[i + 1] = TakeColumn(p, w[i], p.cols[i + 1])
      BY <1>8, <2>1
    <2> QED
      BY <2>1, <2>2, TurnTakes
  <1>12. n \in T
    <2> HIDE DEF T
    <2>1. 0..n \subseteq T
      BY <1>1, <1>10, <1>11, InductionTo
    <2> QED
      BY <1>1, <2>1
  <1> QED
    BY <1>9, <1>12

(* What fdbfs_query_step makes of the columns of a program.                *)
LEMMA AssembledIs ==
    ASSUME NEW p \in Program
    PROVE  /\ Assembled(p).fields \in Seq(Field) /\ Assembled(p).pops \in Nat
           /\ Assembled(p).bad \in BOOLEAN
           /\ p.all => Assembled(p).pops = 0
           /\ Paired(p) /\ ~Assembled(p).bad => Complete(p, Assembled(p).fields)
  <1>1. PICK a : a = Assembled(p)
    OBVIOUS
  <1>2. Taken(p, Len(p.cols), a)
    BY <1>1, AssembledTaken
  <1>3. a \in Gathered /\ (p.all => a.pops = 0)
    BY <1>2 DEF Taken
  <1>4. a.fields \in Seq(Field) /\ a.pops \in Nat /\ a.bad \in BOOLEAN
    BY <1>3 DEF Gathered
  <1>5. ASSUME Paired(p), ~a.bad PROVE Complete(p, a.fields)
    <2>1. \A j \in 1..Len(p.cols) : Here(p, j, a.fields)
      BY <1>2, <1>5 DEF Taken
    <2>2. DOMAIN p.cols = 1..Len(p.cols)
      BY ColsTyped
    <2> QED
      BY <2>1, <2>2 DEF Here, Complete
  <1> QED
    BY <1>1, <1>3, <1>4, <1>5

-----------------------------------------------------------------------------
(***************************************************************************)
(* The operand stack.                                                      *)
(***************************************************************************)

(* A query at ph with program p, stack st, f rows fetched, last result r   *)
(* and rows k announced.  While there may be more rows, all above one that *)
(* was announced were, too: what the end of the result pushes is last.     *)
QueryFits(p, ph, st, f, r, k) ==
    /\ p = None => st = <<>> /\ k = {}
    /\ k \subseteq 1..f
    /\ k # {} /\ r = "next" => ph = "more"
    /\ p # None /\ StackClean(p) =>
          /\ RowsOn(st) = k
          /\ Ascending(st)
          /\ ph # "finished" =>
                \A i, j \in DOMAIN st : i < j /\ st[i].row \in k => st[j].row \in k
    /\ p # None /\ Paired(p) =>
          \A i \in DOMAIN st : st[i].row # None => Complete(p, st[i].fields)

QueryInv ==
    /\ QueryTypeOK
    /\ \A q \in Query : QueryFits(prog[q], phase[q], stack[q], fetched[q], ret[q], kept[q])

Stack == {st \in Seq(Cell) : Len(st) <= StackSize}

(* A call for one query.                                                   *)
Becomes(q, p, ph, sm, st, f, r, se, k, cu) ==
    /\ prog' = [prog EXCEPT ![q] = p] /\ phase' = [phase EXCEPT ![q] = ph]
    /\ stmt' = [stmt EXCEPT ![q] = sm] /\ stack' = [stack EXCEPT ![q] = st]
    /\ fetched' = [fetched EXCEPT ![q] = f] /\ ret' = [ret EXCEPT ![q] = r]
    /\ searched' = [searched EXCEPT ![q] = se] /\ kept' = [kept EXCEPT ![q] = k]
    /\ curq' = cu

LEMMA OneQueryFits ==
    ASSUME QueryInv, NEW q \in Query,
           NEW p \in Program \cup {None}, NEW ph \in {"new", "init", "more", "finished"},
           NEW sm \in {"null", "open", "final"}, NEW st \in Stack, NEW f \in 0..MaxRows,
           NEW r \in Codes, NEW se \in Query \cup {None}, NEW k, k \subseteq 1..MaxRows,
           NEW cu \in Query \cup {None}, Becomes(q, p, ph, sm, st, f, r, se, k, cu),
           QueryFits(p, ph, st, f, r, k)
    PROVE  QueryInv'
  <1>1. QueryTypeOK
    BY DEF QueryInv
  <1>2. QueryTypeOK'
    <2>1. prog' \in [Query -> Program \cup {None}] /\ kept' \in [Query -> SUBSET (1..MaxRows)]
      BY <1>1 DEF QueryTypeOK, Becomes
    <2>2. /\ phase' \in [Query -> {"new", "init", "more", "finished"}]
          /\ stmt' \in [Query -> {"null", "open", "final"}]
      BY <1>1 DEF QueryTypeOK, Becomes
    <2>3. stack' \in [Query -> Seq(Cell)] /\ \A o \in Query : Len(stack'[o]) <= StackSize
      BY <1>1 DEF QueryTypeOK, Stack, Becomes
    <2>4. /\ fetched' \in [Query -> 0..MaxRows] /\ ret' \in [Query -> Codes]
          /\ searched' \in [Query -> Query \cup {None}]
      BY <1>1 DEF QueryTypeOK, Becomes
    <2> QED
      BY <2>1, <2>2, <2>3, <2>4 DEF QueryTypeOK, Becomes
  <1>3. ASSUME NEW o \in Query
        PROVE  QueryFits(prog'[o], phase'[o], stack'[o], fetched'[o], ret'[o], kept'[o])
    <2>1. CASE o = q
      <3>1. /\ prog'[o] = p /\ phase'[o] = ph /\ stack'[o] = st /\ fetched'[o] = f
            /\ ret'[o] = r /\ kept'[o] = k
        BY <1>1, <2>1 DEF QueryTypeOK, Becomes
      <3> QED
        BY <3>1
    <2>2. CASE o # q
      <3>1. /\ prog'[o] = prog[o] /\ phase'[o] = phase[o] /\ stack'[o] = stack[o]
            /\ fetched'[o] = fetched[o] /\ ret'[o] = ret[o] /\ kept'[o] = kept[o]
        BY <1>1, <2>2 DEF QueryTypeOK, Becomes
      <3>2. QueryFits(prog[o], phase[o], stack[o], fetched[o], ret[o], kept[o])
        BY DEF QueryInv
      <3> QED
        BY <3>1, <3>2
    <2> QED
      BY <2>1, <2>2
  <1> QED
    BY <1>2, <1>3 DEF QueryInv

(* What is below a row when it is pushed: names, and cells that were in    *)
(* the same place before; with SELECT * the stack as it was.               *)
LEMMA LeftIs ==
    ASSUME NEW p \in Program, NEW st \in Stack, NEW n \in Nat, NEW left,
           left = PopCells(PushNames(p, st), n)
    PROVE  /\ left \in Stack
           /\ \A i \in DOMAIN left :
                 left[i] = NameCell \/ (i \in DOMAIN st /\ left[i] = st[i])
           /\ p.all /\ n = 0 => left = st
  <1>1. st \in Seq(Cell) /\ Len(st) \in Nat /\ Len(st) <= StackSize /\ StackSize \in Nat
    BY QueryConstants DEF Stack
  <1>2. PICK l \in Nat : l = Len(st)
    BY <1>1
  <1>3. NameCell \in Cell
    BY DEF NameCell, Cell
  <1> DEFINE m == IF p.all THEN 0
                  ELSE IF Len(p.cols) < StackSize - l THEN Len(p.cols) ELSE StackSize - l
             names == [i \in 1..m |-> NameCell]
  <1>4. m \in Nat /\ l + m <= StackSize
    BY <1>1, <1>2, ColsTyped
  <1>5. PushNames(p, st) = st \o names
    BY <1>2 DEF PushNames
  <1>6. names \in Seq(Cell) /\ Len(names) = m /\ \A i \in 1..m : names[i] = NameCell
    <2> HIDE DEF m
    <2> QED
      BY <1>3, <1>4
  <1>7. PICK all : all = st \o names
    OBVIOUS
  <1> HIDE DEF names
  <1>8. /\ all \in Seq(Cell) /\ Len(all) = l + m
        /\ \A i \in 1..(l + m) : all[i] = IF i <= l THEN st[i] ELSE names[i - l]
    <2> HIDE DEF m
    <2>1. /\ st \o names \in Seq(Cell) /\ Len(st \o names) = Len(st) + Len(names)
          /\ \A i \in 1..(Len(st) + Len(names)) : (st \o names)[i] =
                IF i <= Len(st) THEN st[i] ELSE names[i - Len(st)]
      BY <1>1, <1>6, ConcatProperties
    <2> QED
      BY <1>2, <1>6, <1>7, <2>1
  <1> HIDE DEF m
  <1>9. DOMAIN st = 1..l
    BY <1>1, <1>2
  <1>10. \A i \in 1..(l + m) : all[i] = NameCell \/ (i \in DOMAIN st /\ all[i] = st[i])
    <2> SUFFICES ASSUME NEW i \in 1..(l + m), i > l PROVE all[i] = NameCell
      BY <1>4, <1>8, <1>9
    <2>1. i - l \in 1..m
      BY <1>4
    <2> QED
      BY <1>4, <1>6, <1>8, <2>1
  <1>11. CASE n >= l + m
    <2>1. left = <<>>
      BY <1>5, <1>7, <1>8, <1>11 DEF PopCells
    <2>2. left \in Stack /\ DOMAIN left = {}
      BY <1>1, <2>1 DEF Stack
    <2>3. n = 0 => st = <<>>
      <3>1. n = 0 => Len(st) = 0
        BY <1>2, <1>4, <1>11
      <3> QED
        BY <1>1, <3>1, EmptySeq
    <2> QED
      BY <2>1, <2>2, <2>3
  <1>12. CASE n < l + m
    <2>1. left = SubSeq(all, 1, l + m - n)
      BY <1>4, <1>5, <1>7, <1>8, <1>12 DEF PopCells
    <2>2. l + m - n \in 1..(l + m)
      BY <1>4, <1>12
    <2>3. \A i \in 1..(l + m - n) : all[i] \in Cell
      BY <1>8, <2>2
    <2>4. /\ left \in Seq(Cell) /\ Len(left) = l + m - n
          /\ \A i \in 1..(l + m - n) : left[i] = all[i]
      <3>1. PICK e \in 1..(l + m) : e = l + m - n
        BY <2>2
      <3>2. /\ SubSeq(all, 1, e) \in Seq(Cell) /\ Len(SubSeq(all, 1, e)) = e
            /\ \A i \in 1..e : SubSeq(all, 1, e)[i] = all[i]
        BY <2>3, <3>1
      <3> QED
        BY <2>1, <3>1, <3>2
    <2>5. left \in Stack /\ DOMAIN left = 1..(l + m - n)
      BY <1>1, <1>4, <1>12, <2>4 DEF Stack
    <2>6. \A i \in DOMAIN left : i \in 1..(l + m)
      BY <1>4, <2>5
    <2>7. \A i \in DOMAIN left : left[i] = NameCell \/ (i \in DOMAIN st /\ left[i] = st[i])
      BY <1>10, <2>4, <2>5, <2>6
    <2>8. ASSUME p.all, n = 0 PROVE left = st
      <3>1. m = 0
        BY <2>8 DEF m
      <3>2. Len(left) = Len(st) /\ \A i \in 1..Len(left) : left[i] = st[i]
        BY <1>2, <1>8, <2>4, <2>8, <3>1
      <3> QED
        BY <1>1, <2>4, <3>2, SeqEqual
    <2> QED
      BY <2>5, <2>7, <2>8
  <1> QED
    BY <1>4, <1>11, <1>12

LEMMA RowsAre ==
    ASSUME NEW st
    PROVE  \A n : n \in RowsOn(st) <=> n # None /\ n # 0 /\ \E i \in DOMAIN st : st[i].row = n
BY DEF RowsOn

(* Names are pushed and as many cells popped: no row goes.                 *)
LEMMA LeftFits ==
    ASSUME NEW p \in Program, NEW ph, NEW st \in Stack, NEW f \in Nat, NEW r, NEW k,
           QueryFits(p, ph, st, f, r, k), ph # "finished", p.keeps \/ k = {},
           NEW n \in Nat, p.all => n = 0, NEW left, left = PopCells(PushNames(p, st), n),
           NEW next, NEW g \in Nat, f <= g, NEW code, code = "next" => next = "more"
    PROVE  left \in Stack /\ QueryFits(p, next, left, g, code, k)
  <1>1. /\ left \in Stack
        /\ \A i \in DOMAIN left :
              left[i] = NameCell \/ (i \in DOMAIN st /\ left[i] = st[i])
        /\ p.all /\ n = 0 => left = st
    BY LeftIs
  <1>2. p # None /\ p.all \in BOOLEAN
    BY QueryConstants
  <1>3. k \subseteq 1..g
    BY DEF QueryFits
  <1>4. NameCell.row = None
    BY DEF NameCell
  <1>5. ASSUME StackClean(p)
        PROVE  /\ RowsOn(left) = k
               /\ Ascending(left)
               /\ \A i, j \in DOMAIN left : i < j /\ left[i].row \in k => left[j].row \in k
    <2>1. CASE p.all
      <3>1. left = st
        BY <1>1, <2>1
      <3> QED
        BY <1>2, <1>5, <3>1 DEF QueryFits
    <2>2. CASE ~p.all
      <3>1. k = {} /\ RowsOn(st) = {}
        BY <1>2, <1>5, <2>2 DEF StackClean, QueryFits
      <3>2. RowsOn(left) = {}
        <4> SUFFICES ASSUME NEW m, m \in RowsOn(left) PROVE FALSE
          OBVIOUS
        <4>1. PICK i \in DOMAIN left : left[i].row = m /\ m # None /\ m # 0
          BY RowsAre
        <4>2. i \in DOMAIN st /\ st[i].row = m
          BY <1>1, <1>4, <4>1
        <4> QED
          BY <3>1, <4>1, <4>2, RowsAre
      <3> QED
        BY <3>1, <3>2 DEF Ascending
    <2> QED
      BY <2>1, <2>2
  <1>6. ASSUME Paired(p), NEW i \in DOMAIN left, left[i].row # None
        PROVE  Complete(p, left[i].fields)
    <2>1. i \in DOMAIN st /\ left[i] = st[i]
      BY <1>1, <1>4, <1>6
    <2> QED
      BY <1>2, <1>6, <2>1 DEF QueryFits
  <1> QED
    BY <1>1, <1>2, <1>3, <1>5, <1>6 DEF QueryFits

(* The row is pushed, or at the end of the result the list without values. *)
LEMMA PushFits ==
    ASSUME NEW p \in Program, NEW left \in Stack, NEW f \in 0..MaxRows, NEW r, NEW k,
           QueryFits(p, "more", left, f, r, k), Len(left) < StackSize,
           NEW fields \in Seq(Field), Paired(p) => Complete(p, fields), NEW n \in 0..MaxRows,
           NEW st, st = Append(left, RowCell(n, fields)), n = 0 \/ n = f + 1
    PROVE  /\ st \in Stack
           /\ n = 0 => QueryFits(p, "finished", st, f, "finished", k)
           /\ n # 0 => QueryFits(p, "more", st, n, "next", k \cup {n})
  <1>1. PICK c \in Cell : c = RowCell(n, fields)
    BY DEF RowCell, Cell, Field
  <1>2. c.row = n /\ c.fields = fields
    BY <1>1 DEF RowCell
  <1>3. left \in Seq(Cell)
    BY DEF Stack
  <1>4. PICK l \in Nat : l = Len(left)
    BY <1>3
  <1>5. st = Append(left, c)
    BY <1>1
  <1>6. /\ st \in Seq(Cell) /\ Len(st) = l + 1 /\ DOMAIN st = 1..(l + 1) /\ DOMAIN left = 1..l
        /\ st[l + 1] = c /\ \A i \in 1..l : st[i] = left[i]
    BY <1>3, <1>4, <1>5
  <1>7. st \in Stack
    BY <1>4, <1>6, QueryConstants DEF Stack
  <1>8. p # None /\ MaxRows \in Nat /\ None \notin Nat /\ f \in Nat
    BY QueryConstants
  <1>9. k \subseteq 1..f
    BY DEF QueryFits
  <1>10. ASSUME Paired(p), NEW i \in DOMAIN st, st[i].row # None
         PROVE  Complete(p, st[i].fields)
    <2>1. CASE i = l + 1
      BY <1>2, <1>6, <1>10, <2>1
    <2>2. CASE i # l + 1
      <3>1. i \in DOMAIN left /\ st[i] = left[i]
        BY <1>6, <2>2
      <3> QED
        BY <1>8, <1>10, <3>1 DEF QueryFits
    <2> QED
      BY <2>1, <2>2
  <1> DEFINE m == IF n = 0 THEN k ELSE k \cup {n}
  <1>11. ASSUME StackClean(p)
         PROVE  /\ RowsOn(st) = m
                /\ Ascending(st)
                /\ n # 0 => \A i, j \in DOMAIN st : i < j /\ st[i].row \in m => st[j].row \in m
    <2>1. /\ RowsOn(left) = k /\ Ascending(left)
          /\ \A i, j \in DOMAIN left : i < j /\ left[i].row \in k => left[j].row \in k
      BY <1>8, <1>11 DEF QueryFits
    <2>2. RowsOn(st) = m
      <3>1. ASSUME NEW x \in RowsOn(st) PROVE x \in m
        <4>1. PICK i \in DOMAIN st : st[i].row = x /\ x # None /\ x # 0
          BY RowsAre
        <4>2. CASE i = l + 1
          BY <1>2, <1>6, <4>1, <4>2
        <4>3. CASE i # l + 1
          <5>1. i \in DOMAIN left /\ left[i].row = x
            BY <1>6, <4>1, <4>3
          <5> QED
            BY <2>1, <4>1, <5>1, RowsAre
        <4> QED
          BY <4>2, <4>3
      <3>2. ASSUME NEW x \in m PROVE x \in RowsOn(st)
        <4>1. CASE x \in k
          <5>1. PICK i \in DOMAIN left : left[i].row = x /\ x # None /\ x # 0
            BY <2>1, <4>1, RowsAre
          <5>2. i \in DOMAIN st /\ st[i].row = x
            BY <1>4, <1>6, <5>1
          <5> QED
            BY <5>1, <5>2, RowsAre
        <4>2. CASE x \notin k
          <5>1. x = n /\ n # 0 /\ n # None
            BY <1>8, <3>2, <4>2
          <5>2. l + 1 \in DOMAIN st /\ st[l + 1].row = x
            BY <1>2, <1>4, <1>6, <5>1
          <5> QED
            BY <5>1, <5>2, RowsAre
        <4> QED
          BY <4>1, <4>2
      <3> QED
        BY <3>1, <3>2
    <2>3. ASSUME NEW i \in DOMAIN st, NEW j \in DOMAIN st, i < j,
                 st[i].row \in RowsOn(st), st[j].row \in RowsOn(st)
          PROVE  st[i].row < st[j].row
      <3>1. i \in 1..l /\ i \in DOMAIN left /\ st[i] = left[i]
        BY <1>6, <2>3
      <3>2. left[i].row \in RowsOn(left)
        BY <2>3, <3>1, RowsAre
      <3>3. CASE j = l + 1
        <4>1. st[j].row = n /\ n # 0
          BY <1>2, <1>6, <2>3, <3>3, RowsAre
        <4>2. left[i].row \in 1..f
          BY <1>9, <2>1, <3>2
        <4> QED
          BY <1>8, <3>1, <4>1, <4>2
      <3>4. CASE j # l + 1
        <4>1. j \in DOMAIN left /\ st[j] = left[j]
          BY <1>6, <3>4
        <4>2. left[j].row \in RowsOn(left)
          BY <2>3, <4>1, RowsAre
        <4> QED
          BY <2>1, <2>3, <3>1, <3>2, <4>1, <4>2 DEF Ascending
      <3> QED
        BY <3>3, <3>4
    <2>4. ASSUME n # 0, NEW i \in DOMAIN st, NEW j \in DOMAIN st, i < j, st[i].row \in m
          PROVE  st[j].row \in m
      <3>1. i \in DOMAIN left /\ st[i] = left[i]
        BY <1>6, <2>4
      <3>2. CASE j = l + 1
        BY <1>2, <1>6, <2>4, <3>2
      <3>3. CASE j # l + 1
        <4>1. j \in DOMAIN left /\ st[j] = left[j]
          BY <1>6, <3>3
        <4>2. left[i].row \in k
          <5>1. left[i].row \in RowsOn(st)
            BY <2>2, <2>4, <3>1
          <5> QED
            BY <2>1, <3>1, <5>1, RowsAre
        <4> QED
          BY <2>1, <2>4, <3>1, <4>1, <4>2
      <3> QED
        BY <3>2, <3>3
    <2> HIDE DEF m
    <2> QED
      BY <2>2, <2>3, <2>4 DEF Ascending
  <1>12. CASE n = 0
    BY <1>7, <1>8, <1>9, <1>10, <1>11, <1>12 DEF QueryFits
  <1>13. CASE n # 0
    <2>1. k \cup {n} \subseteq 1..n
      BY <1>8, <1>9, <1>13
    <2> QED
      BY <1>7, <1>8, <1>10, <1>11, <1>13, <2>1 DEF QueryFits
  <1> QED
    BY <1>12, <1>13

LEMMA InvTyped ==
    ASSUME QueryInv, NEW q \in Query
    PROVE  /\ prog[q] \in Program \cup {None}
           /\ phase[q] \in {"new", "init", "more", "finished"}
           /\ stmt[q] \in {"null", "open", "final"}
           /\ stack[q] \in Stack /\ fetched[q] \in 0..MaxRows /\ ret[q] \in Codes
           /\ searched[q] \in Query \cup {None} /\ kept[q] \in SUBSET (1..MaxRows)
           /\ QueryFits(prog[q], phase[q], stack[q], fetched[q], ret[q], kept[q])
BY DEF QueryInv, QueryTypeOK, Stack

LEMMA DeliverKeeps ==
    ASSUME QueryInv, NEW q \in Query, prog[q] # None, phase[q] # "finished",
           prog[q].keeps \/ kept[q] = {},
           NEW n \in 0..MaxRows, n = 0 \/ n = fetched[q] + 1, Deliver(q, n),
           NEW se \in Query \cup {None}, NEW sm \in {"null", "open", "final"},
           prog' = prog, curq' = q, searched' = [searched EXCEPT ![q] = se],
           stmt' = [stmt EXCEPT ![q] = sm],
           phase' = [phase EXCEPT ![q] = IF n = 0 THEN "finished" ELSE "more"],
           fetched' = [fetched EXCEPT ![q] = IF n = 0 THEN fetched[q] ELSE n]
    PROVE  QueryInv'
  <1>1. PICK p \in Program : p = prog[q]
    BY InvTyped
  <1>2. PICK st \in Stack : st = stack[q]
    BY InvTyped
  <1>3. PICK f \in 0..MaxRows : f = fetched[q]
    BY InvTyped
  <1>4. PICK k \in SUBSET (1..MaxRows) : k = kept[q]
    BY InvTyped
  <1>5. PICK a : a = Assembled(p)
    OBVIOUS
  <1>6. /\ a.fields \in Seq(Field) /\ a.pops \in Nat /\ a.bad \in BOOLEAN
        /\ p.all => a.pops = 0
        /\ Paired(p) /\ ~a.bad => Complete(p, a.fields)
    BY <1>5, AssembledIs
  <1>7. PICK left : left = PopCells(PushNames(p, st), a.pops)
    OBVIOUS
  <1>8. PICK r, now : now = phase[q] /\ now # "finished" /\ QueryFits(p, now, st, f, r, k)
    BY <1>1, <1>2, <1>3, <1>4, InvTyped
  <1> DEFINE ph == IF n = 0 THEN "finished" ELSE "more"
             g == IF n = 0 THEN f ELSE n
             pushes == ~a.bad /\ Len(left) < StackSize
             code == IF a.bad THEN "noSuchElem"
                     ELSE IF ~pushes THEN "stackFull"
                     ELSE IF n = 0 THEN "finished" ELSE "next"
             top == IF pushes THEN Append(left, RowCell(n, a.fields)) ELSE left
             more == IF pushes /\ n # 0 THEN k \cup {n} ELSE k
  <1>9. /\ ret' = [ret EXCEPT ![q] = code] /\ stack' = [stack EXCEPT ![q] = top]
        /\ kept' = [kept EXCEPT ![q] = more]
    BY <1>1, <1>2, <1>4, <1>5, <1>6, <1>7 DEF Deliver, Fits
  <1>17. PICK pops \in Nat : pops = a.pops /\ (p.all => pops = 0)
    BY <1>6
  <1>18. left = PopCells(PushNames(p, st), pops) /\ (p.keeps \/ k = {})
    BY <1>1, <1>4, <1>7, <1>17
  <1>10. f \in Nat /\ g \in 0..MaxRows /\ g \in Nat /\ f <= g /\ MaxRows \in Nat
    BY <1>3, QueryConstants
  <1>11. \A next, c : (c = "next" => next = "more") =>
              left \in Stack /\ QueryFits(p, next, left, g, c, k)
    <2> HIDE DEF g
    <2> QED
      BY <1>8, <1>10, <1>17, <1>18, LeftFits
  <1>12. left \in Stack /\ QueryFits(p, "more", left, f, "finished", k)
    BY <1>8, <1>10, <1>17, <1>18, LeftFits
  <1>13. top \in Stack /\ QueryFits(p, ph, top, g, code, more)
    <2>1. CASE pushes
      <3>1. /\ top \in Stack
            /\ n = 0 => QueryFits(p, "finished", top, f, "finished", k)
            /\ n # 0 => QueryFits(p, "more", top, n, "next", k \cup {n})
        BY <1>3, <1>6, <1>12, <2>1, PushFits
      <3> QED
        BY <2>1, <3>1
    <2>2. CASE ~pushes
      BY <1>11, <2>2
    <2> QED
      BY <2>1, <2>2
  <1>14. more \subseteq 1..MaxRows
    BY <1>10
  <1>15. code \in Codes /\ ph \in {"new", "init", "more", "finished"}
    BY DEF Codes
  <1>16. /\ prog' = [prog EXCEPT ![q] = p] /\ phase' = [phase EXCEPT ![q] = ph]
         /\ fetched' = [fetched EXCEPT ![q] = g]
    BY <1>1, <1>3 DEF QueryInv, QueryTypeOK
  <1> HIDE DEF ph, g, code, top, more
  <1>19. PICK cu \in Query \cup {None} : curq' = cu
    OBVIOUS
  <1>20. Becomes(q, p, ph, sm, top, g, code, se, more, cu)
    BY <1>9, <1>16, <1>19 DEF Becomes
  <1> QED
    BY <1>10, <1>13, <1>14, <1>15, <1>20, OneQueryFits

(* A call that fails or that finds nothing to do.                          *)
LEMMA CodeKeeps ==
    ASSUME QueryInv, NEW q \in Query, NEW ph \in {"new", "init", "more", "finished"},
           NEW sm \in {"null", "open", "final"}, NEW code \in Codes, code # "next",
           NEW se \in Query \cup {None}, curq' \in Query \cup {None},
           ph # "finished" => phase[q] # "finished",
           UNCHANGED <<prog, stack, fetched, kept>>,
           phase' = [phase EXCEPT ![q] = ph], stmt' = [stmt EXCEPT ![q] = sm],
           ret' = [ret EXCEPT ![q] = code], searched' = [searched EXCEPT ![q] = se]
    PROVE  QueryInv'
  <1>1. QueryFits(prog[q], phase[q], stack[q], fetched[q], ret[q], kept[q])
    BY InvTyped
  <1>2. QueryFits(prog[q], ph, stack[q], fetched[q], code, kept[q])
    BY <1>1 DEF QueryFits
  <1>3. /\ prog' = [prog EXCEPT ![q] = prog[q]] /\ stack' = [stack EXCEPT ![q] = stack[q]]
        /\ fetched' = [fetched EXCEPT ![q] = fetched[q]] /\ kept' = [kept EXCEPT ![q] = kept[q]]
    BY DEF QueryInv, QueryTypeOK
  <1>4. PICK cu \in Query \cup {None} : curq' = cu
    OBVIOUS
  <1>5. /\ prog[q] \in Program \cup {None} /\ stack[q] \in Stack /\ fetched[q] \in 0..MaxRows
        /\ kept[q] \subseteq 1..MaxRows
    BY InvTyped
  <1>6. Becomes(q, prog[q], ph, sm, stack[q], fetched[q], code, se, kept[q], cu)
    BY <1>3, <1>4 DEF Becomes
  <1> QED
    BY <1>2, <1>5, <1>6, OneQueryFits

LEMMA StepFailsKeeps ==
    ASSUME QueryInv, NEW q \in Query, StepFails(q), curq' = q, prog' = prog,
           NEW se \in Query \cup {None}, searched' = [searched EXCEPT ![q] = se]
    PROVE  QueryInv'
  <1>1. PICK sm \in {"null", "open", "final"} : stmt' = [stmt EXCEPT ![q] = sm]
    BY InvTyped DEF StepFails
  <1>2. "error" \in Codes
    BY DEF Codes
  <1> QED
    BY <1>1, <1>2, CodeKeeps DEF StepFails

LEMMA StepOpenKeeps ==
    ASSUME QueryInv, NEW q \in Query, prog[q] # None, phase[q] # "finished",
           prog[q].keeps \/ kept[q] = {}, StepOpen(q), curq' = q, prog' = prog,
           NEW se \in Query \cup {None}, searched' = [searched EXCEPT ![q] = se]
    PROVE  QueryInv'
  <1>1. PICK f \in 0..MaxRows : f = fetched[q]
    BY InvTyped
  <1>2. MaxRows \in Nat
    BY QueryConstants
  <1>3. CASE /\ f < MaxRows /\ fetched' = [fetched EXCEPT ![q] = f + 1]
             /\ phase' = [phase EXCEPT ![q] = "more"] /\ stmt' = [stmt EXCEPT ![q] = "open"]
             /\ Deliver(q, f + 1)
    <2>1. PICK n \in 0..MaxRows : n = f + 1 /\ n # 0
      BY <1>2, <1>3
    <2> QED
      BY <1>1, <1>3, <2>1, DeliverKeeps
  <1>4. CASE /\ phase' = [phase EXCEPT ![q] = "finished"] /\ stmt' = [stmt EXCEPT ![q] = "final"]
             /\ Deliver(q, 0) /\ fetched' = fetched
    <2>1. 0 \in 0..MaxRows /\ fetched' = [fetched EXCEPT ![q] = fetched[q]]
      BY <1>2, <1>4 DEF QueryInv, QueryTypeOK
    <2> QED
      BY <1>4, <2>1, DeliverKeeps
  <1>5. CASE StepFails(q)
    BY <1>5, StepFailsKeeps
  <1> QED
    BY <1>1, <1>3, <1>4, <1>5 DEF StepOpen

LEMMA MatchTyped ==
    ASSUME NEW q \in Query, curq' = q, Match(q)
    PROVE  \E se \in Query \cup {None} : searched' = [searched EXCEPT ![q] = se]
BY MatchCurrent

LEMMA StepKeeps ==
    ASSUME QueryInv, NEW q \in Query, prog[q].keeps \/ kept[q] = {}, Step(q)
    PROVE  QueryInv'
  <1>1. CASE /\ phase[q] \in {"new", "finished"}
             /\ ret' = [ret EXCEPT ![q] = IF phase[q] = "new" THEN "uninit" ELSE "finished"]
             /\ UNCHANGED <<phase, stmt, stack, fetched, curq, searched, kept>>
    <2>1. PICK code \in Codes : code # "next" /\ ret' = [ret EXCEPT ![q] = code]
      BY <1>1 DEF Codes
    <2>2. /\ phase' = [phase EXCEPT ![q] = phase[q]] /\ stmt' = [stmt EXCEPT ![q] = stmt[q]]
          /\ searched' = [searched EXCEPT ![q] = searched[q]] /\ curq' \in Query \cup {None}
      BY <1>1 DEF QueryInv, QueryTypeOK
    <2>3. UNCHANGED <<prog, stack, fetched, kept>>
      BY <1>1 DEF Step
    <2> QED
      BY <2>1, <2>2, <2>3, InvTyped, CodeKeeps
  <1>2. CASE /\ phase[q] \in {"init", "more"}
             /\ curq' = q
             /\ Match(q)
             /\ IF stmt[q] = "open" THEN StepOpen(q) ELSE StepFails(q)
    <2>1. PICK se \in Query \cup {None} : searched' = [searched EXCEPT ![q] = se]
      BY <1>2, MatchTyped
    <2>2. prog' = prog /\ prog[q] # None
      BY DEF Step
    <2> QED
      BY <1>2, <2>1, <2>2, StepOpenKeeps, StepFailsKeeps
  <1> QED
    BY <1>1, <1>2 DEF Step

LEMMA InitExecKeeps ==
    ASSUME QueryInv, NEW q \in Query, prog[q] # None, phase[q] \in {"new", "init"},
           prog[q].keeps \/ kept[q] = {}, InitExec(q)
    PROVE  QueryInv'
  <1>1. curq' = q /\ prog' = prog
    BY DEF InitExec
  <1>2. CASE Match(q) /\ StepOpen(q)
    <2>1. PICK se \in Query \cup {None} : searched' = [searched EXCEPT ![q] = se]
      BY <1>1, <1>2, MatchTyped
    <2> QED
      BY <1>1, <1>2, <2>1, StepOpenKeeps
  <1>3. CASE \E code \in {"noSuchCat", "noColumns", "error"} :
             \E sm \in {stmt[q], "null", "open"} : InitFails(q, code, sm)
    <2>1. PICK code \in {"noSuchCat", "noColumns", "error"}, sm \in {stmt[q], "null", "open"} :
             InitFails(q, code, sm)
      BY <1>3
    <2>2. /\ phase' = [phase EXCEPT ![q] = "init"] /\ stmt' = [stmt EXCEPT ![q] = sm]
          /\ ret' = [ret EXCEPT ![q] = code] /\ UNCHANGED <<stack, fetched, searched, kept>>
      BY <2>1 DEF InitFails
    <2>3. searched' = [searched EXCEPT ![q] = searched[q]]
      BY <2>2 DEF QueryInv, QueryTypeOK
    <2>4. code \in Codes /\ code # "next" /\ sm \in {"null", "open", "final"}
      BY InvTyped DEF Codes
    <2> QED
      BY <1>1, <2>2, <2>3, <2>4, InvTyped, CodeKeeps
  <1> QED
    BY <1>2, <1>3 DEF InitExec

(* The cell that is popped is the row that was announced last, or none.    *)
LEMMA FrontFits ==
    ASSUME NEW p \in Program, NEW ph, NEW st \in Stack, st # <<>>, NEW f \in 0..MaxRows,
           NEW r, NEW k, QueryFits(p, ph, st, f, r, k)
    PROVE  /\ Front(st) \in Stack
           /\ QueryFits(p, ph, Front(st), f, r, k \ {Last(st).row})
  <1>1. st \in Seq(Cell) /\ Len(st) \in Nat \ {0} /\ Len(st) <= StackSize /\ StackSize \in Nat
    BY QueryConstants, EmptySeq DEF Stack
  <1>2. PICK l \in Nat : l + 1 = Len(st)
    <2>1. PICK n \in Nat \ {0} : n = Len(st)
      BY <1>1
    <2>2. n - 1 \in Nat /\ (n - 1) + 1 = n
      OBVIOUS
    <2> QED
      BY <2>1, <2>2
  <1>3. PICK fr : fr = Front(st)
    OBVIOUS
  <1>4. /\ fr \in Seq(Cell) /\ Len(fr) = l /\ \A i \in 1..l : fr[i] = st[i]
    <2>1. fr = SubSeq(st, 1, l)
      BY <1>2, <1>3 DEF Front
    <2>2. \A i \in 1..l : st[i] \in Cell
      BY <1>1, <1>2
    <2> QED
      BY <1>2, <2>1, <2>2, SubSeqProperties
  <1>5. fr \in Stack /\ DOMAIN fr = 1..l /\ DOMAIN st = 1..(l + 1)
    BY <1>1, <1>2, <1>4 DEF Stack
  <1>6. PICK x : x = Last(st).row /\ x = st[l + 1].row
    BY <1>2 DEF Last
  <1>7. l + 1 \in DOMAIN st /\ \A i \in DOMAIN fr : i \in DOMAIN st /\ i < l + 1 /\ fr[i] = st[i]
    BY <1>4, <1>5
  <1>8. p # None /\ k \subseteq 1..f /\ None \notin Nat /\ f \in Nat
    BY QueryConstants DEF QueryFits
  <1>9. ASSUME StackClean(p)
        PROVE  /\ RowsOn(fr) = k \ {x}
               /\ Ascending(fr)
               /\ ph # "finished" => \A i, j \in DOMAIN fr :
                     i < j /\ fr[i].row \in k \ {x} => fr[j].row \in k \ {x}
    <2>1. /\ RowsOn(st) = k /\ Ascending(st)
          /\ ph # "finished" =>
                \A i, j \in DOMAIN st : i < j /\ st[i].row \in k => st[j].row \in k
      BY <1>8, <1>9 DEF QueryFits
    <2>2. \A i \in DOMAIN fr : fr[i].row \in k => fr[i].row # x
      <3> SUFFICES ASSUME NEW i \in DOMAIN fr, fr[i].row \in k, fr[i].row = x PROVE FALSE
        OBVIOUS
      <3>1. st[i].row = x /\ x \in k /\ i < l + 1 /\ i \in DOMAIN st
        BY <1>7
      <3>2. st[i].row < st[l + 1].row
        BY <1>6, <1>7, <2>1, <3>1 DEF Ascending
      <3>3. x \in 1..f /\ f \in Nat
        BY <1>8, <3>1
      <3>4. x < x
        BY <1>6, <3>1, <3>2
      <3> QED
        BY <3>3, <3>4
    <2>3. \A i \in DOMAIN fr : fr[i].row \in RowsOn(st) <=> fr[i].row \in RowsOn(fr)
      BY <1>7, RowsAre
    <2>4. RowsOn(fr) = k \ {x}
      <3>1. ASSUME NEW y \in RowsOn(fr) PROVE y \in k \ {x}
        <4>1. PICK i \in DOMAIN fr : fr[i].row = y
          BY RowsAre
        <4> QED
          BY <2>1, <2>2, <2>3, <4>1
      <3>2. ASSUME NEW y \in k \ {x} PROVE y \in RowsOn(fr)
        <4>1. PICK i \in DOMAIN st : st[i].row = y
          BY <2>1, <3>2, RowsAre
        <4>2. i # l + 1
          BY <1>6, <3>2, <4>1
        <4>3. i \in DOMAIN fr
          BY <1>5, <4>2
        <4> QED
          BY <1>7, <2>1, <2>3, <3>2, <4>1, <4>3
      <3> QED
        BY <3>1, <3>2
    <2>5. Ascending(fr)
      BY <1>7, <2>1, <2>3 DEF Ascending
    <2>6. ASSUME ph # "finished", NEW i \in DOMAIN fr, NEW j \in DOMAIN fr, i < j,
                 fr[i].row \in k \ {x}
          PROVE  fr[j].row \in k \ {x}
      BY <1>7, <2>1, <2>2, <2>6
    <2> QED
      BY <2>4, <2>5, <2>6
  <1>10. ASSUME Paired(p), NEW i \in DOMAIN fr, fr[i].row # None
         PROVE  Complete(p, fr[i].fields)
    BY <1>7, <1>8, <1>10 DEF QueryFits
  <1>11. k \ {x} # {} /\ r = "next" => ph = "more"
    BY DEF QueryFits
  <1>12. QueryFits(p, ph, fr, f, r, k \ {x})
    BY <1>8, <1>9, <1>10, <1>11 DEF QueryFits
  <1> QED
    BY <1>3, <1>5, <1>6, <1>12

LEMMA PopKeeps ==
    ASSUME QueryInv, NEW q \in Query, Pop(q)
    PROVE  QueryInv'
  <1>1. PICK p \in Program : p = prog[q]
    BY InvTyped DEF Pop
  <1>2. PICK st \in Stack : st = stack[q] /\ st # <<>>
    BY InvTyped DEF Pop
  <1>3. PICK k : k = kept[q] /\ k \subseteq 1..MaxRows
    BY InvTyped
  <1>4. PICK f \in 0..MaxRows : f = fetched[q]
    BY InvTyped
  <1>5. PICK fr, m : fr = Front(st) /\ m = k \ {Last(st).row}
    OBVIOUS
  <1>6. QueryFits(p, phase[q], st, f, ret[q], k)
    BY <1>1, <1>2, <1>3, <1>4, InvTyped
  <1>7. fr \in Stack /\ QueryFits(p, phase[q], fr, f, ret[q], m)
    BY <1>2, <1>5, <1>6, FrontFits
  <1>8. PICK cu \in Query \cup {None} : cu = curq
    BY DEF QueryInv, QueryTypeOK
  <1>9. Becomes(q, p, phase[q], stmt[q], fr, f, ret[q], searched[q], m, cu)
    BY <1>1, <1>2, <1>3, <1>4, <1>5, <1>8 DEF Pop, Becomes, QueryInv, QueryTypeOK
  <1>10. m \subseteq 1..MaxRows
    BY <1>3, <1>5
  <1>11. /\ phase[q] \in {"new", "init", "more", "finished"} /\ ret[q] \in Codes
         /\ stmt[q] \in {"null", "open", "final"} /\ searched[q] \in Query \cup {None}
    BY InvTyped
  <1> QED
    BY <1>11, <1>7, <1>9, <1>10, OneQueryFits

(* A query that is new has an empty stack.                                 *)
LEMMA EmptyFits ==
    ASSUME NEW p \in Program \cup {None}, NEW ph, NEW f, NEW r
    PROVE  QueryFits(p, ph, <<>>, f, r, {}) /\ <<>> \in Stack
  <1>1. <<>> \in Stack
    BY QueryConstants DEF Stack
  <1>2. RowsOn(<<>>) = {} /\ Ascending(<<>>)
    BY DEF RowsOn, Ascending
  <1> QED
    BY <1>1, <1>2 DEF QueryFits

LEMMA NewKeeps ==
    ASSUME QueryInv, NEW q \in Query, New(q)
    PROVE  QueryInv'
  <1>1. PICK p \in Program : prog' = [prog EXCEPT ![q] = p]
    BY DEF New
  <1>2. QueryFits(None, phase[q], stack[q], fetched[q], ret[q], kept[q])
    BY InvTyped DEF New
  <1>3. stack[q] = <<>> /\ kept[q] = {}
    BY <1>2 DEF QueryFits
  <1>4. QueryFits(p, phase[q], <<>>, fetched[q], ret[q], {}) /\ <<>> \in Stack
    BY EmptyFits
  <1>5. PICK cu \in Query \cup {None} : cu = curq
    BY DEF QueryInv, QueryTypeOK
  <1>6. Becomes(q, p, phase[q], stmt[q], <<>>, fetched[q], ret[q], searched[q], {}, cu)
    BY <1>1, <1>3, <1>5 DEF New, Becomes, QueryInv, QueryTypeOK
  <1>7. {} \subseteq 1..MaxRows
    OBVIOUS
  <1>8. /\ phase[q] \in {"new", "init", "more", "finished"} /\ ret[q] \in Codes
         /\ stmt[q] \in {"null", "open", "final"} /\ searched[q] \in Query \cup {None}
         /\ fetched[q] \in 0..MaxRows
    BY InvTyped
  <1> QED
    BY <1>8, <1>4, <1>6, <1>7, OneQueryFits

LEMMA DestroyKeeps ==
    ASSUME QueryInv, NEW q \in Query, Destroy(q)
    PROVE  QueryInv'
  <1>1. QueryFits(None, "new", <<>>, 0, None, {}) /\ <<>> \in Stack
    BY EmptyFits
  <1>2. PICK cu \in Query \cup {None} : cu = curq
    BY DEF QueryInv, QueryTypeOK
  <1>3. Becomes(q, None, "new", "null", <<>>, 0, None, None, {}, cu)
    BY <1>2 DEF Destroy, Becomes
  <1>4. None \in Codes /\ 0 \in 0..MaxRows /\ {} \subseteq 1..MaxRows
    BY QueryConstants DEF Codes
  <1> QED
    BY <1>1, <1>3, <1>4, OneQueryFits

LEMMA InitQueries == Init => QueryInv
  <1> SUFFICES ASSUME Init PROVE QueryInv
    OBVIOUS
  <1>1. <<>> \in Seq(Cell) /\ Len(<<>>) <= StackSize /\ MaxRows \in Nat
    BY QueryConstants
  <1>2. QueryTypeOK
    BY <1>1 DEF Init, QueryTypeOK, Codes
  <1>3. ASSUME NEW q \in Query
        PROVE  QueryFits(prog[q], phase[q], stack[q], fetched[q], ret[q], kept[q])
    <2>1. prog[q] = None /\ stack[q] = <<>> /\ kept[q] = {}
      BY DEF Init
    <2> QED
      BY <2>1, EmptyFits
  <1> QED
    BY <1>2, <1>3 DEF QueryInv

LEMMA NextQueries == QueryInv /\ [Next]_vars => QueryInv'
  <1> SUFFICES ASSUME QueryInv, [Next]_vars PROVE QueryInv'
    OBVIOUS
  <1>1. ASSUME NEW q \in Query, Fetch(q) PROVE QueryInv'
    <2>1. prog[q] # None /\ (prog[q].keeps \/ kept[q] = {})
      BY <1>1 DEF Fetch
    <2>2. CASE Step(q)
      BY <2>1, <2>2, StepKeeps
    <2>3. CASE phase[q] \in {"new", "init"} /\ InitExec(q)
      BY <2>1, <2>3, InitExecKeeps
    <2> QED
      BY <1>1, <2>2, <2>3 DEF Fetch, Qne
  <1>2. CASE UNCHANGED vars
    BY <1>2 DEF vars, QueryInv, QueryTypeOK
  <1> QED
    BY <1>1, <1>2, NewKeeps, PopKeeps, DestroyKeeps DEF Next

LEMMA QueryInvariant == Spec => []QueryInv
  BY InitQueries, NextQueries, PTL DEF Spec

(* The operand stack never holds more cells than query_new was told to     *)
(* make room for, whatever is pushed by step and left by the application;  *)
(* with the types of everything else.                                      *)
THEOREM QueryTypeCorrect == Spec => []QueryTypeOK
  BY QueryInvariant, PTL DEF QueryInv

(* Above a row that was announced lie later ones alone, so that the last   *)
(* is on top.                                                              *)
LEMMA TopIsLatest ==
    ASSUME NEW p \in Program, NEW st \in Stack, NEW f \in 0..MaxRows, NEW k,
           StackClean(p), QueryFits(p, "more", st, f, "next", k), k # {}
    PROVE  Last(st).row = Max(k)
  <1>1. /\ RowsOn(st) = k /\ Ascending(st) /\ k \subseteq 1..f
        /\ \A i, j \in DOMAIN st : i < j /\ st[i].row \in k => st[j].row \in k
    BY QueryConstants DEF QueryFits
  <1>2. st \in Seq(Cell)
    BY DEF Stack
  <1>3. PICK l \in Nat : l = Len(st)
    BY <1>2
  <1>4. DOMAIN st = 1..l
    BY <1>2, <1>3
  <1>5. PICK i \in DOMAIN st : st[i].row \in k
    BY <1>1, RowsAre
  <1>6. l \in DOMAIN st /\ i <= l
    BY <1>4, <1>5
  <1>7. PICK x : x = st[l].row
    OBVIOUS
  <1>8. x \in k
    BY <1>1, <1>4, <1>5, <1>6, <1>7
  <1>9. ASSUME NEW y \in k PROVE x >= y
    <2>1. PICK j \in DOMAIN st : st[j].row = y
      BY <1>1, RowsAre
    <2>2. j = l \/ j < l
      BY <1>4
    <2>3. j < l => y < x
      BY <1>1, <1>6, <1>7, <1>8, <2>1 DEF Ascending
    <2>4. x \in Nat /\ y \in Nat
      BY <1>1, <1>8
    <2> QED
      BY <1>7, <2>1, <2>2, <2>3, <2>4
  <1>10. \A y \in k : (\A z \in k : y >= z) => y = x
    <2> SUFFICES ASSUME NEW y \in k, \A z \in k : y >= z PROVE y = x
      OBVIOUS
    <2>1. y >= x /\ x >= y /\ x \in Nat /\ y \in Nat
      BY <1>1, <1>8, <1>9
    <2> QED
      BY <2>1
  <1>11. Max(k) = x
    BY <1>8, <1>9, <1>10 DEF Max
  <1>12. Last(st).row = x
    BY <1>3, <1>7 DEF Last
  <1> QED
    BY <1>11, <1>12

(* With SELECT *, or an application that pops each row before it asks for  *)
(* the next, the rows that query_step announced by Q_NEXT are on the stack *)
(* in order until they are popped, the last of them on top.                *)
THEOREM AnnouncedRowsKept == Spec => []RowsKept
  <1>1. QueryInv => RowsKept
    <2> SUFFICES ASSUME QueryInv, NEW q \in Query, prog[q] # None, StackClean(prog[q])
                 PROVE  /\ RowsOn(stack[q]) = kept[q]
                        /\ Ascending(stack[q])
                        /\ ret[q] = "next" /\ kept[q] # {} => Last(stack[q]).row = Max(kept[q])
      BY DEF RowsKept
    <2>1. QueryFits(prog[q], phase[q], stack[q], fetched[q], ret[q], kept[q])
      BY InvTyped
    <2>2. RowsOn(stack[q]) = kept[q] /\ Ascending(stack[q])
      BY <2>1 DEF QueryFits
    <2>3. ASSUME ret[q] = "next", kept[q] # {} PROVE Last(stack[q]).row = Max(kept[q])
      <3>1. phase[q] = "more"
        BY <2>1, <2>3 DEF QueryFits
      <3>2. QueryFits(prog[q], "more", stack[q], fetched[q], "next", kept[q])
        BY <2>1, <2>3, <3>1
      <3>3. prog[q] \in Program /\ stack[q] \in Stack /\ fetched[q] \in 0..MaxRows
        BY InvTyped
      <3> QED
        BY <2>3, <3>2, <3>3, TopIsLatest
    <2> QED
      BY <2>2, <2>3
  <1> QED
    BY <1>1, QueryInvariant, PTL

(* A row that is on the stack has every column of a result whose oth_      *)
(* columns follow their enumerations, however many columns there are.      *)
THEOREM RowsComplete == Spec => []PairedRowsComplete
  <1>1. QueryInv => PairedRowsComplete
    <2> SUFFICES ASSUME QueryInv, NEW q \in Query, prog[q] # None, Paired(prog[q])
                 PROVE  RowsAreComplete(prog[q], q)
      BY DEF PairedRowsComplete
    <2>1. QueryFits(prog[q], phase[q], stack[q], fetched[q], ret[q], kept[q])
      BY InvTyped
    <2> QED
      BY <2>1 DEF QueryFits, RowsAreComplete
  <1> QED
    BY <1>1, QueryInvariant, PTL
=============================================================================
