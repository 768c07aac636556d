------------------------------- MODULE Indexer -------------------------------
(***************************************************************************)
(* findex in batch mode: a catalogue table kept up to date with files that *)
(* change under it.  Several findex may run at once.                       *)
(*                                                                         *)
(* findex lists a directory (fts_children stats its files), asks for each  *)
(* file whether it changed since its lastupdate, has a plugin extract its  *)
(* fields and replaces its row.  Times are whole seconds; the time of the  *)
(* row is taken after the extraction, when the INSERT is built.            *)
(*                                                                         *)
(* Data abstraction.  The content of a file is a version number, unique to *)
(* each write; the fields a plugin extracts are the version it read.  The  *)
(* stats of one listing are one step.  Interactive mode, default fields    *)
(* and the choice of files by a regular expression are left out.           *)
(***************************************************************************)
EXTENDS Integers

CONSTANTS
    Proc,        \* findex processes
    File,        \* names of files, as realpath gives them
    Claimed,     \* files a plugin recognises by their extension
    Targets,     \* sets of files that an argument of findex stands for
    None,        \* no file, no row, NULL
    MaxClock,    \* bound: seconds
    MaxWrites,   \* bound: writes to files
    MaxFailures  \* bound: failed statements and extractions, kills

ASSUME IndexerConstants ==
    /\ None \notin File \cup Nat
    /\ None \notin [ver : Nat \cup {None}, upd : Nat, ctime : Nat]
    /\ Claimed \subseteq File
    /\ Targets \subseteq SUBSET File
    /\ MaxClock \in Nat /\ MaxWrites \in Nat /\ MaxFailures \in Nat

VARIABLES
    (* the world *)
    clock,      \* time(NULL)
    content,    \* the version a file holds, None when there is no file
    mtime,      \* its st_mtime
    (* the database *)
    entry,      \* the row of a file: version shown, lastupdate, ctime
    (* the processes *)
    pc,         \* what a process does next
    todo,       \* files of the listing that are not yet visited
    stat,       \* st_mtime of these files in the listing
    cur,        \* the file being indexed
    fields,     \* what the plugin gave
    stamp,      \* the time in the text of the INSERT
    err,        \* f->error.emsg is not NULL
    (* history: not in the program *)
    writes,     \* number of writes
    failures,   \* number of failures
    overlap     \* the file was written while it was being indexed

world == <<clock, content, mtime, writes>>
mem   == <<todo, stat, cur, fields, stamp>>
vars  == <<clock, content, mtime, entry, pc, todo, stat, cur, fields, stamp, err,
           writes, failures, overlap>>

Row == [ver : Nat \cup {None}, upd : Nat, ctime : Nat]

NoStat == [x \in File |-> 0]

Init ==
    /\ clock = 0
    /\ content = [x \in File |-> None]
    /\ mtime = [x \in File |-> 0]
    /\ entry = [x \in File |-> None]
    /\ pc = [p \in Proc |-> "idle"]
    /\ todo = [p \in Proc |-> {}]
    /\ stat = [p \in Proc |-> NoStat]
    /\ cur = [p \in Proc |-> None]
    /\ fields = [p \in Proc |-> None]
    /\ stamp = [p \in Proc |-> 0]
    /\ err = [p \in Proc |-> FALSE]
    /\ writes = 0
    /\ failures = 0
    /\ overlap = [x \in File |-> FALSE]

-----------------------------------------------------------------------------
(* Control. *)

Goto(p, l) == pc' = [pc EXCEPT ![p] = l]

SetErr(p, b) == err' = [err EXCEPT ![p] = b]

Fails == failures < MaxFailures /\ failures' = failures + 1

(* The file is done with, well or badly: cindexer_dir ignores the result   *)
(* of index_file, findex that of cindexer_dir.                             *)
NextFile(p) ==
    /\ Goto(p, "visit")
    /\ cur' = [cur EXCEPT ![p] = None]
    /\ fields' = [fields EXCEPT ![p] = None]
    /\ stamp' = [stamp EXCEPT ![p] = 0]
    /\ stat' = [stat EXCEPT ![p][cur[p]] = 0]
    /\ UNCHANGED todo

(* A process between the extraction and the commit of the row of x. *)
InFlight(p, x) == cur[p] = x /\ pc[p] \in {"prepare", "insert"}

-----------------------------------------------------------------------------
(* The processes. *)

(* fdbfs_new leaves an error behind when a plugin directory is missing and *)
(* does not look at it, nor does findex.                                   *)
Start(p) ==
    /\ pc[p] = "idle"
    /\ Goto(p, "list")
    /\ \E stale \in BOOLEAN : SetErr(p, stale)
    /\ UNCHANGED <<world, entry, mem, failures, overlap>>

(* index_dir for the next argument: a file that does not exist is FTS_NS   *)
(* and passed over.                                                        *)
List(p, files) ==
    /\ pc[p] \in {"list", "args"}
    /\ Goto(p, "visit")
    /\ todo' = [todo EXCEPT ![p] = {x \in files : content[x] # None}]
    /\ stat' = [stat EXCEPT ![p] =
          [x \in File |-> IF x \in files /\ content[x] # None THEN mtime[x] ELSE 0]]
    /\ UNCHANGED <<world, entry, cur, fields, stamp, err, failures, overlap>>

EndOfList(p) ==
    /\ pc[p] = "visit"
    /\ todo[p] = {}
    /\ Goto(p, "args")
    /\ UNCHANGED <<world, entry, mem, err, failures, overlap>>

(* file_has_changed, for a regular file whose st_mtime is t. *)
Changed(x, t) == entry[x] # None => t > entry[x].upd

(* cindexer_dir comes to x: the stat of the listing is compared.  When the *)
(* SELECT fails the file is passed over, and the error forgotten, with any *)
(* earlier one.                                                            *)
Visit(p, x) ==
    /\ pc[p] = "visit"
    /\ x \in todo[p]
    /\ todo' = [todo EXCEPT ![p] = @ \ {x}]
    /\ \/ /\ Changed(x, stat[p][x])
          /\ cur' = [cur EXCEPT ![p] = x]
          /\ Goto(p, "recheck")
          /\ UNCHANGED <<stat, err, failures>>
       \/ /\ ~Changed(x, stat[p][x])
          /\ stat' = [stat EXCEPT ![p][x] = 0]
          /\ UNCHANGED <<cur, pc, err, failures>>
       \/ /\ Fails
          /\ SetErr(p, FALSE)
          /\ stat' = [stat EXCEPT ![p][x] = 0]
          /\ UNCHANGED <<cur, pc>>
    /\ UNCHANGED <<world, entry, fields, stamp, overlap>>

(* index_file asks again, with a stat of its own.  It was told to force    *)
(* the update, so that an error (the SELECT fails, or there is a row but   *)
(* no file any more) is forgotten and nothing else comes of it.            *)
Recheck(p) ==
    /\ pc[p] = "recheck"
    /\ Goto(p, "extract")
    /\ \/ /\ entry[cur[p]] # None /\ content[cur[p]] = None
          /\ SetErr(p, FALSE)
          /\ UNCHANGED failures
       \/ /\ entry[cur[p]] = None \/ content[cur[p]] # None
          /\ UNCHANGED <<err, failures>>
       \/ Fails /\ SetErr(p, FALSE)
    /\ UNCHANGED <<world, entry, mem, overlap>>

(* Mutant: an error that is pending is taken for one of the plugin. *)
ExtractedWhenClean(p, v) ==
    \/ /\ ~err[p]
       /\ Goto(p, "prepare")
       /\ fields' = [fields EXCEPT ![p] = v]
       /\ UNCHANGED <<todo, stat, cur, stamp, err, failures>>
    \/ err[p] /\ NextFile(p) /\ UNCHANGED <<err, failures>>

Extracted(p, v) ==
    /\ Goto(p, "prepare")
    /\ fields' = [fields EXCEPT ![p] = v]
    /\ UNCHANGED <<todo, stat, cur, stamp, err, failures>>

(* fill_in_fields.  Without a plugin, an error that is pending is taken    *)
(* for one of fill_in_fields.  A plugin that finds no file fails, or makes *)
(* fields of the name alone.                                               *)
Extract(p) ==
    LET x == cur[p]
    IN  /\ pc[p] = "extract"
        /\ \/ x \notin Claimed /\ ~err[p] /\ Extracted(p, None)
           \/ x \notin Claimed /\ err[p] /\ NextFile(p) /\ UNCHANGED <<err, failures>>
           \/ x \in Claimed /\ Extracted(p, content[x])
           \/ /\ x \in Claimed
              /\ content[x] = None
              /\ SetErr(p, TRUE)
              /\ NextFile(p)
              /\ UNCHANGED failures
           \/ x \in Claimed /\ Fails /\ SetErr(p, TRUE) /\ NextFile(p)
        /\ UNCHANGED <<world, entry, overlap>>

(* add_file writes the time into the INSERT and prepares it. *)
Prepare(p) ==
    /\ pc[p] = "prepare"
    /\ \/ /\ stamp' = [stamp EXCEPT ![p] = clock]
          /\ Goto(p, "insert")
          /\ UNCHANGED <<todo, stat, cur, fields, err, failures>>
       \/ Fails /\ SetErr(p, TRUE) /\ NextFile(p)
    /\ UNCHANGED <<world, entry, overlap>>

(* Mutant: lastupdate is the st_mtime of the listing. *)
InsertListedTime(p) ==
    LET x == cur[p]
    IN  /\ pc[p] = "insert"
        /\ entry' = [entry EXCEPT ![x] =
                        [ver |-> fields[p], upd |-> stat[p][x], ctime |-> stamp[p]]]
        /\ overlap' = overlap
        /\ NextFile(p)
        /\ UNCHANGED <<world, err, failures>>

(* The INSERT OR REPLACE is stepped, possibly after waiting for a lock.    *)
(* The history variable overlap is cleared when the row is up to date and  *)
(* nobody else is about to replace it.                                     *)
Insert(p) ==
    LET x == cur[p]
        others == \E q \in Proc \ {p} : InFlight(q, x)
    IN  /\ pc[p] = "insert"
        /\ \/ /\ entry' = [entry EXCEPT ![x] =
                    [ver |-> fields[p], upd |-> stamp[p], ctime |-> stamp[p]]]
              /\ overlap' = [overlap EXCEPT ![x] = @ /\ (fields[p] # content[x] \/ others)]
              /\ UNCHANGED <<err, failures>>
           \/ Fails /\ SetErr(p, TRUE) /\ UNCHANGED <<entry, overlap>>
        /\ NextFile(p)
        /\ UNCHANGED world

(* The end of findex, or its death. *)
Leave(p) ==
    /\ Goto(p, "idle")
    /\ todo' = [todo EXCEPT ![p] = {}]
    /\ stat' = [stat EXCEPT ![p] = NoStat]
    /\ cur' = [cur EXCEPT ![p] = None]
    /\ fields' = [fields EXCEPT ![p] = None]
    /\ stamp' = [stamp EXCEPT ![p] = 0]
    /\ SetErr(p, FALSE)
    /\ UNCHANGED <<world, entry, overlap>>

Finish(p) == pc[p] = "args" /\ Leave(p) /\ UNCHANGED failures

Crash(p) == pc[p] # "idle" /\ Fails /\ Leave(p)

-----------------------------------------------------------------------------
(* The world: external to the program. *)

Write(x) ==
    /\ writes < MaxWrites
    /\ writes' = writes + 1
    /\ content' = [content EXCEPT ![x] = writes']
    /\ mtime' = [mtime EXCEPT ![x] = clock]
    /\ overlap' = [overlap EXCEPT ![x] =
          \/ @
          \/ \E p \in Proc : InFlight(p, x)
          \/ entry[x] # None /\ entry[x].upd >= clock]
    /\ UNCHANGED <<clock, entry, pc, mem, err, failures>>

Remove(x) ==
    /\ content[x] # None
    /\ content' = [content EXCEPT ![x] = None]
    /\ UNCHANGED <<clock, mtime, writes, entry, pc, mem, err, failures, overlap>>

Tick ==
    /\ clock < MaxClock
    /\ clock' = clock + 1
    /\ UNCHANGED <<content, mtime, writes, entry, pc, mem, err, failures, overlap>>

World == Tick \/ \E x \in File : Write(x) \/ Remove(x)

-----------------------------------------------------------------------------
Work(p) ==
    \/ \E x \in File : Visit(p, x)
    \/ EndOfList(p) \/ Recheck(p) \/ Extract(p) \/ Prepare(p) \/ Insert(p)

Run(p) == Start(p) \/ (\E files \in Targets : List(p, files)) \/ Work(p) \/ Finish(p)

Next == World \/ \E p \in Proc : Run(p) \/ Crash(p)

Spec == Init /\ [][Next]_vars

(* findex is started again and again, on every target it is given.         *)
FairSpec == Spec /\ \A p \in Proc : WF_vars(Run(p))

-----------------------------------------------------------------------------
(* Properties. *)

IndexerTypeOK ==
    /\ clock \in Nat
    /\ content \in [File -> Nat \cup {None}]
    /\ mtime \in [File -> Nat]
    /\ entry \in [File -> Row \cup {None}]
    /\ pc \in [Proc -> {"idle", "list", "args", "visit", "recheck",
                        "extract", "prepare", "insert"}]
    /\ todo \in [Proc -> SUBSET File]
    /\ stat \in [Proc -> [File -> Nat]]
    /\ cur \in [Proc -> File \cup {None}]
    /\ fields \in [Proc -> Nat \cup {None}]
    /\ stamp \in [Proc -> Nat]
    /\ err \in [Proc -> BOOLEAN]
    /\ writes \in Nat
    /\ failures \in Nat
    /\ overlap \in [File -> BOOLEAN]
    /\ \A p \in Proc : pc[p] \in {"recheck", "extract", "prepare", "insert"}
                           => cur[p] \in File

Exists(x)  == content[x] # None
Current(x) == entry[x] # None /\ entry[x].ver = content[x]

(* A row that shows what the file holds is not found changed: findex run   *)
(* again, or beside another, comes to an end of its work.                  *)
CurrentIsLeftAlone ==
    \A x \in File : Exists(x) /\ Current(x) => ~Changed(x, mtime[x])

(* A change of a file that a plugin knows gets into the catalogue, also    *)
(* after failures, whatever other findex do and whatever error is pending, *)
(* unless the file is written while it is indexed or in the second of its  *)
(* lastupdate.  Such a change is lost until the next one.                  *)
Settles ==
    \A x \in Claimed :
        (Exists(x) /\ ~Current(x) /\ ~overlap[x])
            ~> (Current(x) \/ overlap[x] \/ ~Exists(x))
=============================================================================
