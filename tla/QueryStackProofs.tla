-------------------------- MODULE QueryStackProofs --------------------------
(***************************************************************************)
(* Proofs about QueryStack, for every stack size and every cell size.      *)
(***************************************************************************)
EXTENDS QueryStack, TLAPS

(* The cells of the items are distinct and within reach of the pointer.    *)
LEMMA AtStep ==
    ASSUME NEW i \in Nat
    PROVE  At(i) \in Nat /\ At(i + 1) = At(i) + CellSize /\ At(i + 1) - CellSize = At(i)
  BY StackConstants DEF At

LEMMA AtOrder ==
    ASSUME NEW i \in Nat, NEW j \in Nat
    PROVE  /\ i <= j => At(i) <= At(j)
           /\ i < j => At(i) < At(j)
  <1>1. At(j) - At(i) = (j - i) * CellSize
    BY StackConstants DEF At
  <1>2. ASSUME NEW n \in Nat PROVE n * CellSize \in Nat
    BY StackConstants
  <1>3. ASSUME NEW n \in Nat, n > 0 PROVE n * CellSize > 0
    BY <1>3, StackConstants
  <1>4. At(i) \in Int /\ At(j) \in Int
    BY AtStep
  <1>5. CASE i < j
    <2>1. j - i \in Nat /\ j - i > 0
      BY <1>5
    <2>2. (j - i) * CellSize > 0
      BY <1>3, <2>1
    <2> QED
      BY <1>1, <1>4, <1>5, <2>2
  <1>6. CASE i >= j
    BY <1>4, <1>6
  <1> QED
    BY <1>5, <1>6

LEMMA AtSlot == ASSUME NEW i \in 0..StackSize PROVE At(i) \in Slots
  <1>1. i \in Nat /\ StackSize \in Nat /\ i <= StackSize
    BY StackConstants
  <1> QED
    BY <1>1, AtStep, AtOrder DEF Slots

LEMMA InitInv == Init => StackInv
  <1> SUFFICES ASSUME Init PROVE StackInv
    OBVIOUS
  <1>1. At(0) = 0 /\ 0 \in Slots
    BY StackConstants, AtSlot DEF At
  <1> QED
    BY <1>1, StackConstants DEF Init, StackInv, StackTypeOK, ItemsInPlace

LEMMA PushInv ==
    ASSUME StackInv, NEW c \in Cell, SPush(c)
    PROVE  StackInv'
  <1> USE DEF StackInv, StackTypeOK, ItemsInPlace
  <1>1. CASE items >= StackSize /\ ret' = 0 /\ UNCHANGED <<mem, csp, items, got, pushed>>
    BY <1>1
  <1>2. CASE items < StackSize
    <2>0. items \in Nat /\ StackSize \in Nat
      BY StackConstants
    <2>a. /\ csp' = csp + CellSize
          /\ items' = items + 1
          /\ mem' = [mem EXCEPT ![csp + CellSize] = c]
      BY <1>2, <2>0 DEF SPush
    <2>b. At(items + 1) = csp + CellSize
      BY <2>0, AtStep
    <2>c. items + 1 \in 0..StackSize
      BY <1>2, <2>0
    <2>1. csp' = At(items + 1) /\ items' = items + 1 /\ items + 1 \in 0..StackSize
      BY <2>a, <2>b, <2>c
    <2>2. csp' \in Slots
      BY <2>1, AtSlot
    <2>3. mem' = [mem EXCEPT ![csp'] = c]
      BY <2>a
    <2>4. pushed' = Append(pushed, c) /\ ret' = 1 /\ got' = got
      BY <1>2, <2>0 DEF SPush
    <2>5. StackTypeOK'
      BY <2>1, <2>2, <2>3, <2>4
    <2>6. items' = Len(pushed')
      BY <2>1, <2>4
    <2>7. ASSUME NEW i \in 1..items', Allocated(At(i))'
          PROVE  mem'[At(i)] = pushed'[i]
      <3>1. CASE i = items + 1
        BY <2>1, <2>2, <2>3, <2>4, <3>1
      <3>2. CASE i \in 1..items
        <4>1. At(i) \in Slots /\ At(i) # csp'
          BY <2>0, <2>1, <3>2, AtSlot, AtOrder, AtStep
        <4>2. pushed'[i] = pushed[i]
          BY <2>4, <3>2
        <4> QED
          BY <2>3, <2>7, <3>2, <4>1, <4>2 DEF Allocated
      <3> QED
        BY <2>0, <2>1, <3>1, <3>2
    <2> QED
      BY <2>1, <2>5, <2>6, <2>7
  <1> QED
    BY <1>1, <1>2 DEF SPush

LEMMA PopInv ==
    ASSUME StackInv, SPop
    PROVE  StackInv'
  <1> USE DEF StackInv, StackTypeOK, ItemsInPlace
  <1>1. CASE items = 0 /\ ret' = 0 /\ UNCHANGED <<mem, csp, items, got, pushed>>
    BY <1>1
  <1>2. CASE items > 0
    <2>0. items \in Nat /\ StackSize \in Nat /\ items - 1 \in Nat
      BY <1>2, StackConstants
    <2>1. csp' = At(items - 1) /\ items' = items - 1 /\ items - 1 \in 0..StackSize
      BY <1>2, <2>0, AtStep DEF SPop
    <2>2. csp' \in Slots
      BY <2>1, AtSlot
    <2>3. mem' = mem /\ ret' = 1 /\ got' = mem[csp]
      BY <1>2 DEF SPop
    <2>4. /\ pushed' = SubSeq(pushed, 1, Len(pushed) - 1)
      BY <1>2 DEF SPop
    <2>5. /\ pushed' \in Seq(Cell)
          /\ Len(pushed') = items - 1
          /\ \A i \in 1..(items - 1) : pushed'[i] = pushed[i]
      BY <2>0, <2>4
    <2>6. ASSUME NEW i \in 1..items', Allocated(At(i))'
          PROVE  mem'[At(i)] = pushed'[i]
      BY <2>0, <2>1, <2>3, <2>5, <2>6 DEF Allocated
    <2> QED
      BY <2>1, <2>2, <2>3, <2>5, <2>6
  <1> QED
    BY <1>1, <1>2 DEF SPop

LEMMA ScribbleInv ==
    ASSUME StackInv, NEW s \in Slots, Scribble(s)
    PROVE  StackInv'
  <1> USE DEF StackInv, StackTypeOK, ItemsInPlace, Scribble
  <1>1. StackTypeOK' /\ (items = Len(pushed))' /\ (csp = At(items))'
    OBVIOUS
  <1>2. ASSUME NEW i \in 1..items, Allocated(At(i))
        PROVE  mem'[At(i)] = pushed'[i]
    <2>1. At(i) \in Slots /\ At(i) # s
      BY <1>2, AtSlot, StackConstants
    <2> QED
      BY <1>2, <2>1
  <1> QED
    BY <1>1, <1>2 DEF Allocated

LEMMA NextInv == StackInv /\ [Next]_vars => StackInv'
  <1> SUFFICES ASSUME StackInv, [Next]_vars PROVE StackInv'
    OBVIOUS
  <1>1. CASE UNCHANGED vars
    BY <1>1 DEF vars, StackInv, StackTypeOK, ItemsInPlace, Allocated
  <1> QED
    BY <1>1, PushInv, PopInv, ScribbleInv DEF Next

(* However many items are pushed and popped, pointer and counter agree and *)
(* the items in allocated cells are in place.                              *)
THEOREM StackInvariant == Spec => []StackInv
  BY InitInv, NextInv, PTL DEF Spec

(* fdbfs_query_spop returns the item pushed last, from an allocated cell.  *)
THEOREM LastInFirstOut == Spec => PopsLast
  <1> DEFINE A == items' < items /\ Allocated(csp) => got' = pushed[Len(pushed)]
  <1>1. ASSUME StackInv, [Next]_vars PROVE [A]_vars
    <2> SUFFICES ASSUME Next, items' < items, Allocated(csp)
                 PROVE  got' = pushed[Len(pushed)]
      BY <1>1
    <2> USE DEF StackInv, StackTypeOK, ItemsInPlace
    <2>0. items \in Nat
      BY <1>1
    <2>1. ASSUME NEW c \in Cell, SPush(c) PROVE FALSE
      BY <2>0, <2>1 DEF SPush
    <2>2. ASSUME NEW s \in Slots, Scribble(s) PROVE FALSE
      BY <2>0, <2>2 DEF Scribble
    <2>3. SPop /\ items > 0 /\ got' = mem[csp]
      BY <2>0, <2>1, <2>2 DEF Next, SPop
    <2>4. mem[At(items)] = pushed[items]
      BY <1>1, <2>0, <2>3
    <2> QED
      BY <1>1, <2>3, <2>4
  <1> QED
    BY <1>1, StackInvariant, PTL DEF Spec, PopsLast
=============================================================================
