------------------------------- MODULE ConfMap -------------------------------
(* What the configuration promises: one map from MIBs to values that lasts, *)
(* and a copy of it in each session, taken when the session is opened.      *)
(* A set changes the copy first and the map when it returns success.        *)
EXTENDS Naturals

CONSTANTS
    Proc,     \* sessions
    Mib,      \* names of variables
    Value,    \* their values, with their types
    Default,  \* the MIB that every session sets when it opens
    On,       \* the value it is given
    None      \* no value, no copy; not in Value

VARIABLES
    stored,    \* the map
    view,      \* the copy of a session, None before it is read
    reported,  \* the value of the last set of a MIB that returned success
    unsaved    \* MIBs that a session has in its copy alone

cvars == <<stored, view, reported, unsaved>>

Copy == [Mib -> Value \cup {None}]

Init ==
    /\ stored = [m \in Mib |-> None]
    /\ view = [p \in Proc |-> None]
    /\ reported = [m \in Mib |-> None]
    /\ unsaved = {}

(* The default is written without regard to the value it replaces. *)
Open(p) ==
    /\ view[p] = None
    /\ stored' = [stored EXCEPT ![Default] = On]
    /\ UNCHANGED <<view, reported, unsaved>>

Read(p) ==
    /\ view[p] = None
    /\ view' = [view EXCEPT ![p] = stored]
    /\ UNCHANGED <<stored, reported, unsaved>>

SetCopy(p, m, v) ==
    /\ view[p] # None
    /\ view' = [view EXCEPT ![p] = [@ EXCEPT ![m] = v]]
    /\ UNCHANGED <<stored, reported, unsaved>>

(* The set returns success.  The map has the value, unless an earlier set  *)
(* of this MIB failed.                                                     *)
Succeed(p, m) ==
    /\ view[p] # None
    /\ view[p][m] # None
    /\ reported' = [reported EXCEPT ![m] = view[p][m]]
    /\ \/ stored' = [stored EXCEPT ![m] = view[p][m]]
       \/ m \in unsaved /\ UNCHANGED stored
    /\ UNCHANGED <<view, unsaved>>

(* The set returns an error. *)
Fail(m) ==
    /\ unsaved' = unsaved \cup {m}
    /\ UNCHANGED <<stored, view, reported>>

Leave(p) ==
    /\ view' = [view EXCEPT ![p] = None]
    /\ UNCHANGED <<stored, reported, unsaved>>

Next ==
    \/ \E p \in Proc :
          \/ Open(p) \/ Read(p) \/ Leave(p)
          \/ \E m \in Mib : Succeed(p, m) \/ \E v \in Value : SetCopy(p, m, v)
    \/ \E m \in Mib : Fail(m)

Spec == Init /\ [][Next]_cvars
=============================================================================
