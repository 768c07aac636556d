----------------------------- MODULE QueryStack -----------------------------
(***************************************************************************)
(* The operand stack of a query (libfakedbfs/query.c): init_stack, spush   *)
(* and spop.  Applications pop the rows of a result from it.               *)
(*                                                                         *)
(* The pointer csp is moved by the size of a cell in pointer arithmetic,   *)
(* that is by CellSize cells and not by one: most of the cells it visits   *)
(* lie outside the block of StackSize cells.  What is written there shares *)
(* its place with the rest of the heap: Scribble.                          *)
(***************************************************************************)
EXTENDS Integers, Sequences

CONSTANTS
    Cell,       \* operand structures
    Junk,       \* memory that was not written by the stack
    StackSize,  \* cells allocated, and items allowed
    CellSize    \* sizeof(operands_t): 24 where pointers have 8 bytes

ASSUME StackConstants ==
    /\ Junk \notin Cell
    /\ StackSize \in Nat
    /\ CellSize \in Nat \ {0}

VARIABLES
    mem,    \* the cells csp can point to, numbered from stackbase
    csp,    \* the cell it points to
    items,  \* the number of items
    got,    \* what the last pop stored
    ret,    \* what the last operation returned
    pushed  \* history: the cells pushed and not popped, the latest last

vars == <<mem, csp, items, got, ret, pushed>>

At(i) == i * CellSize
Slots == 0..At(StackSize)
Allocated(s) == s < StackSize

Init ==
    /\ mem = [s \in Slots |-> Junk]
    /\ csp = 0
    /\ items = 0
    /\ got = Junk
    /\ ret = 1
    /\ pushed = <<>>

(* Mutant: the cell is written before the pointer moves. *)
SPushPostIncrement(c) ==
    \/ /\ items < StackSize
       /\ mem' = [mem EXCEPT ![csp] = c]
       /\ csp' = csp + CellSize
       /\ items' = items + 1
       /\ pushed' = Append(pushed, c)
       /\ ret' = 1
       /\ UNCHANGED got
    \/ items >= StackSize /\ ret' = 0 /\ UNCHANGED <<mem, csp, items, got, pushed>>

(* fdbfs_query_spush. *)
SPush(c) ==
    \/ /\ items < StackSize
       /\ csp' = csp + CellSize
       /\ mem' = [mem EXCEPT ![csp + CellSize] = c]
       /\ items' = items + 1
       /\ pushed' = Append(pushed, c)
       /\ ret' = 1
       /\ UNCHANGED got
    \/ items >= StackSize /\ ret' = 0 /\ UNCHANGED <<mem, csp, items, got, pushed>>

(* Mutant: csp-- where the push adds the size of a cell. *)
SPopByOne ==
    \/ /\ items > 0
       /\ got' = mem[csp]
       /\ csp' = csp - 1
       /\ items' = items - 1
       /\ pushed' = SubSeq(pushed, 1, Len(pushed) - 1)
       /\ ret' = 1
       /\ UNCHANGED mem
    \/ items = 0 /\ ret' = 0 /\ UNCHANGED <<mem, csp, items, got, pushed>>

(* fdbfs_query_spop. *)
SPop ==
    \/ /\ items > 0
       /\ got' = mem[csp]
       /\ csp' = csp - CellSize
       /\ items' = items - 1
       /\ pushed' = SubSeq(pushed, 1, Len(pushed) - 1)
       /\ ret' = 1
       /\ UNCHANGED mem
    \/ items = 0 /\ ret' = 0 /\ UNCHANGED <<mem, csp, items, got, pushed>>

(* Another block of the heap, or its bookkeeping, is written. *)
Scribble(s) ==
    /\ ~Allocated(s)
    /\ mem' = [mem EXCEPT ![s] = Junk]
    /\ UNCHANGED <<csp, items, got, ret, pushed>>

Next ==
    \/ \E c \in Cell : SPush(c)
    \/ SPop
    \/ \E s \in Slots : Scribble(s)

Spec == Init /\ [][Next]_vars
-----------------------------------------------------------------------------
StackTypeOK ==
    /\ mem \in [Slots -> Cell \cup {Junk}]
    /\ csp \in Slots
    /\ items \in 0..StackSize
    /\ got \in Cell \cup {Junk}
    /\ ret \in {0, 1}
    /\ pushed \in Seq(Cell)

(* Items and pointer move together, and every item whose cell is allocated *)
(* is still there: nothing the stack or the heap does overwrites it.       *)
ItemsInPlace ==
    /\ items = Len(pushed)
    /\ csp = At(items)
    /\ \A i \in 1..items : Allocated(At(i)) => mem[At(i)] = pushed[i]

StackInv == StackTypeOK /\ ItemsInPlace

(* A pop from an allocated cell returns the item pushed last.              *)
PopsLast ==
    [][items' < items /\ Allocated(csp) => got' = pushed[Len(pushed)]]_vars

(* include/fakedbfs/query.h: stacksize is the "number of elements to       *)
(* allocate for stack".  Here: every item lies in an allocated cell.       *)
CellsInBounds == items > 0 => Allocated(csp)
=============================================================================
