----------------------------- MODULE BusyHandler -----------------------------
(***************************************************************************)
(* What becomes of a statement that finds the database locked.  SQLite     *)
(* calls the handler that fdbfs_db_open installs, with the number of times *)
(* it was called for this lock before; when the handler returns 0 the      *)
(* statement fails with SQLITE_BUSY, otherwise SQLite tries again.  This is*)
(* one of the failures that Schema's StatementFails stands for.            *)
(***************************************************************************)
EXTENDS Naturals

CONSTANTS
    Conn,           \* connections: one per process
    None,           \* nobody
    BUSY_RETRIES    \* include/fakedbfs/fdbfsconfig.h

VARIABLES
    lock,   \* the connection that holds the write lock
    st,     \* what each connection is doing
    prior   \* calls of the handler for the lock it is waiting for

vars == <<lock, st, prior>>

Status == {"idle", "waiting", "asleep", "running", "busy"}

Init ==
    /\ lock = None
    /\ st = [c \in Conn |-> "idle"]
    /\ prior = [c \in Conn |-> 0]

Become(c, s) == st' = [st EXCEPT ![c] = s]

(* A statement that writes. *)
Execute(c) ==
    /\ st[c] = "idle"
    /\ Become(c, "waiting")
    /\ prior' = [prior EXCEPT ![c] = 0]
    /\ UNCHANGED lock

Acquire(c) ==
    /\ st[c] = "waiting"
    /\ lock = None
    /\ lock' = c
    /\ Become(c, "running")
    /\ UNCHANGED prior

Commit(c) ==
    /\ st[c] = "running"
    /\ lock' = None
    /\ Become(c, "idle")
    /\ UNCHANGED prior

(* fdbfs_db_busy_handler: it sleeps below the limit; at the limit it       *)
(* returns 1, and SQLite counts the call and tries again.                  *)
Contend(c) ==
    /\ st[c] = "waiting"
    /\ lock # None
    /\ \/ prior[c] < BUSY_RETRIES /\ Become(c, "asleep") /\ UNCHANGED prior
       \/ /\ prior[c] >= BUSY_RETRIES
          /\ prior' = [prior EXCEPT ![c] = @ + 1]
          /\ UNCHANGED st
    /\ UNCHANGED lock

(* After a second it returns 0, and the statement fails. *)
Wake(c) ==
    /\ st[c] = "asleep"
    /\ Become(c, "busy")
    /\ UNCHANGED <<lock, prior>>

(* The library reports the error; the program goes on or exits. *)
Report(c) ==
    /\ st[c] = "busy"
    /\ Become(c, "idle")
    /\ UNCHANGED <<lock, prior>>

Next ==
    \E c \in Conn :
        \/ Execute(c) \/ Acquire(c) \/ Commit(c)
        \/ Contend(c) \/ Wake(c) \/ Report(c)

Spec == Init /\ [][Next]_vars

(* include/fakedbfs/fdbfsconfig.h: BUSY_RETRIES is the "number of times to *)
(* retry upon a trappable SQLITE_BUSY exception".  Here: a statement fails *)
(* with SQLITE_BUSY only after that many calls of the handler.             *)
RetriesBeforeBusy ==
    \A c \in Conn : st[c] = "busy" => prior[c] >= BUSY_RETRIES
=============================================================================
