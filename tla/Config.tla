------------------------------- MODULE Config --------------------------------
(***************************************************************************)
(* The configuration of fakedbfs: a table of MIBs and their values, and in *)
(* each session (an instance made by fdbfs_new with plugins) a tree of     *)
(* their dotted names.                                                     *)
(*                                                                         *)
(* One action is one SQL statement, or the change in memory before it.     *)
(*                                                                         *)
(* Data abstraction.  A MIB is the sequence of its tags, a value a model   *)
(* value that stands for type and data; the type tells whether the data is *)
(* memory to be released, Text, or a number.  It is assumed of SQLite that *)
(* a SELECT without ORDER BY goes by rowid, and that a new row has the     *)
(* highest.                                                                *)
(***************************************************************************)
EXTENDS Integers, SequencesExt

CONSTANTS
    Proc,        \* sessions
    Mib,         \* dotted names that sessions set, sequences of tags
    Value,       \* values of MIBs
    Text,        \* those of type string, in memory of their own
    Default,     \* fdbfs.plugins.forthpri
    On,          \* its default, 1
    None,        \* no value, no node
    MaxSets,     \* bound: sets
    MaxFailures  \* bound: failed statements and kills

ASSUME ConfigConstants ==
    /\ Default \in Mib /\ On \in Value \ Text /\ Text \subseteq Value
    /\ None \notin Value \cup Nat /\ None \notin [Mib -> Value \cup {None}]
    /\ \A m \in Mib : m \in Seq(UNION {Range(n) : n \in Mib}) /\ Len(m) > 0
    /\ MaxSets \in Nat /\ MaxFailures \in Nat

VARIABLES
    (* the database *)
    table,     \* the table config exists
    rows,      \* its rows, by rowid
    (* the sessions *)
    pc,        \* what a session does next
    tree,      \* nodes below f->rconf, in the order they were made
    job,       \* the set in work
    (* history: not in the program *)
    copy,      \* what a session read and set, as a map; None before it is read
    reported,  \* the value of the last set of a MIB that returned 1
    unsaved,   \* MIBs of which a set returned 0
    sets,      \* number of sets
    failures   \* number of failures

db      == <<table, rows>>
history == <<copy, reported, unsaved>>
vars    == <<table, rows, pc, tree, job, copy, reported, unsaved, sets,
             failures>>

-----------------------------------------------------------------------------
(* The tree.  A node has a parent, the index of another or 0 for the root, *)
(* a tag and a value, None in a branch.  The flags of a leaf, set when it  *)
(* is made, tell whether its value is to be released (dyn).                *)

Tag == UNION {Range(m) : m \in Mib}

Node == [parent : Nat, tag : Tag, val : Value \cup {None}, dyn : BOOLEAN]

BranchNode(n, tag) == [parent |-> n, tag |-> tag, val |-> None, dyn |-> FALSE]
Leaf(n, tag, v) == [parent |-> n, tag |-> tag, val |-> v, dyn |-> v \in Text]

(* conf_search_tag: a new node is put before its siblings, and the first   *)
(* with the tag is found.                                                  *)
Child(t, n, tag) ==
    LET found == {i \in DOMAIN t : t[i].parent = n /\ t[i].tag = tag}
    IN  IF found = {} THEN None ELSE Max(found)

SearchMib(t, mib) ==
    LET walk[i \in 0..Len(mib)] ==
          IF i = 0 THEN 0
          ELSE IF walk[i - 1] = None THEN None ELSE Child(t, walk[i - 1], mib[i])
    IN  walk[Len(mib)]

(* Mutant: a branch is made without a look for one that is there. *)
NewBranch(at, tag) ==
    [t |-> Append(at.t, BranchNode(at.n, tag)),
     n |-> Len(at.t) + 1]

(* conf_search_create_branch, from node at.n of tree at.t. *)
Branch(at, tag) ==
    LET c == Child(at.t, at.n, tag)
    IN  IF c # None
        THEN [at EXCEPT !.n = c]
        ELSE [t |-> Append(at.t, BranchNode(at.n, tag)),
              n |-> Len(at.t) + 1]

(* conf_add_to_tree: a name without a dot is refused. *)
AddToTree(t, mib, v) ==
    LET walk[i \in 0..Len(mib) - 1] ==
          IF i = 0 THEN [t |-> t, n |-> 0] ELSE Branch(walk[i - 1], mib[i])
        at == walk[Len(mib) - 1]
    IN  IF Len(mib) = 1
        THEN t
        ELSE Append(at.t, Leaf(at.n, Last(mib), v))

(* fdbfs_conf_get *)
Got(t, mib) ==
    LET n == SearchMib(t, mib) IN IF n = None THEN None ELSE t[n].val

(* fdbfs_conf_read_from_db *)
TreeOf(rs) ==
    LET upTo[i \in 0..Len(rs)] ==
          IF i = 0 THEN <<>> ELSE AddToTree(upTo[i - 1], rs[i].mib, rs[i].val)
    IN  upTo[Len(rs)]

-----------------------------------------------------------------------------
(* The table. *)

Stored(mib) ==
    LET found == {i \in DOMAIN rows : rows[i].mib = mib}
    IN  IF found = {} THEN None ELSE rows[Max(found)].val

(* Mutant: INSERT OR IGNORE. *)
MibAddIgnored(mib, v) ==
    rows' = IF Stored(mib) # None THEN rows ELSE Append(rows, [mib |-> mib, val |-> v])

(* fdbfs_db_mib_add: INSERT OR REPLACE; the column is UNIQUE, so that one  *)
(* row at most goes.                                                       *)
MibAdd(mib, v) ==
    LET same  == {i \in DOMAIN rows : rows[i].mib = mib}
        other == IF same = {} THEN rows ELSE RemoveAt(rows, Max(same))
    IN  rows' = Append(other, [mib |-> mib, val |-> v])

(* fdbfs_db_mib_update: an UPDATE that finds no row succeeds, too. *)
MibUpdate(mib, v) ==
    rows' = [i \in DOMAIN rows |->
                IF rows[i].mib = mib THEN [rows[i] EXCEPT !.val = v] ELSE rows[i]]

-----------------------------------------------------------------------------
Init ==
    /\ table = FALSE
    /\ rows = <<>>
    /\ pc = [p \in Proc |-> "idle"]
    /\ tree = [p \in Proc |-> <<>>]
    /\ job = [p \in Proc |-> None]
    /\ copy = [p \in Proc |-> None]
    /\ reported = [m \in Mib |-> None]
    /\ unsaved = {}
    /\ sets = 0
    /\ failures = 0

Goto(p, l) == pc' = [pc EXCEPT ![p] = l]

Fails == failures < MaxFailures /\ failures' = failures + 1

(* fdbfs_table_exists, which takes an error for a no. *)
Open(p) ==
    /\ pc[p] = "idle"
    /\ \/ ~table /\ Goto(p, "create") /\ UNCHANGED failures
       \/ table /\ Goto(p, "default") /\ UNCHANGED failures
       \/ Fails /\ Goto(p, "create")
    /\ UNCHANGED <<db, tree, job, history, sets>>

(* fdbfs_new returns NULL when the CREATE TABLE fails. *)
Create(p) ==
    /\ pc[p] = "create"
    /\ \/ ~table /\ table' = TRUE /\ Goto(p, "default") /\ UNCHANGED failures
       \/ table /\ Goto(p, "idle") /\ UNCHANGED <<table, failures>>
       \/ Fails /\ Goto(p, "idle") /\ UNCHANGED table
    /\ UNCHANGED <<rows, tree, job, history, sets>>

(* conf_init_db *)
SetDefault(p) ==
    /\ pc[p] = "default"
    /\ \/ MibAdd(Default, On) /\ Goto(p, "read") /\ UNCHANGED failures
       \/ Fails /\ Goto(p, "idle") /\ UNCHANGED rows
    /\ UNCHANGED <<table, tree, job, history, sets>>

(* The rows of one SELECT are of one moment.  fdbfs_new releases nothing   *)
(* when it fails.                                                          *)
ReadFromDb(p) ==
    /\ pc[p] = "read"
    /\ \/ /\ tree' = [tree EXCEPT ![p] = TreeOf(rows)]
          /\ copy' = [copy EXCEPT ![p] = [m \in Mib |-> Stored(m)]]
          /\ Goto(p, "ready")
          /\ UNCHANGED failures
       \/ Fails /\ Goto(p, "idle") /\ UNCHANGED <<tree, copy>>
    /\ UNCHANGED <<db, job, reported, unsaved, sets>>

(* Mutant: conf_set does not look whether the MIB is in the tree. *)
ConfSetUpdates(p, mib, v) ==
    /\ pc[p] = "ready"
    /\ tree' = [tree EXCEPT ![p] = AddToTree(@, mib, v)]
    /\ job' = [job EXCEPT ![p] = [mib |-> mib, val |-> v, new |-> FALSE]]
    /\ copy' = [copy EXCEPT ![p][mib] = v]
    /\ Goto(p, "store")
    /\ UNCHANGED <<db, reported, unsaved, failures>>

(* fdbfs_conf_set, up to its statement: the tree is changed first. *)
ConfSet(p, mib, v) ==
    LET n == SearchMib(tree[p], mib)
    IN  /\ pc[p] = "ready"
        /\ tree' = [tree EXCEPT ![p] =
              IF n = None THEN AddToTree(@, mib, v) ELSE [@ EXCEPT ![n].val = v]]
        /\ job' = [job EXCEPT ![p] = [mib |-> mib, val |-> v, new |-> (n = None)]]
        /\ copy' = [copy EXCEPT ![p][mib] = v]
        /\ Goto(p, "store")
        /\ UNCHANGED <<db, reported, unsaved, failures>>

(* A set by the application. *)
Set(p, mib, v) ==
    /\ sets < MaxSets /\ sets' = sets + 1
    /\ ConfSet(p, mib, v)

(* The statement of fdbfs_conf_set; it returns 1. *)
Store(p) ==
    LET mib == job[p].mib
        v   == job[p].val
    IN  /\ pc[p] = "store"
        /\ IF job[p].new THEN MibAdd(mib, v) ELSE MibUpdate(mib, v)
        /\ reported' = [reported EXCEPT ![mib] = v]
        /\ job' = [job EXCEPT ![p] = None]
        /\ Goto(p, "ready")
        /\ UNCHANGED <<table, tree, copy, unsaved, sets, failures>>

(* The statement fails and fdbfs_conf_set returns 0: the tree stays as set. *)
StoreFails(p) ==
    /\ pc[p] = "store"
    /\ Fails
    /\ unsaved' = unsaved \cup {job[p].mib}
    /\ job' = [job EXCEPT ![p] = None]
    /\ Goto(p, "ready")
    /\ UNCHANGED <<db, tree, copy, reported, sets>>

(* fdbfs_destroy.  db_close always fails, since db_mib_add leaves its      *)
(* statement behind, and the tree is lost rather than released.            *)
Leave(p) ==
    /\ Goto(p, "idle")
    /\ tree' = [tree EXCEPT ![p] = <<>>]
    /\ job' = [job EXCEPT ![p] = None]
    /\ copy' = [copy EXCEPT ![p] = None]
    /\ UNCHANGED <<db, reported, sets>>

Close(p) == pc[p] = "ready" /\ Leave(p) /\ UNCHANGED <<unsaved, failures>>

(* conf_destroy_data goes by the flags of the node, which a set leaves as  *)
(* they are: of a node made for a string it releases a number as if it     *)
(* were the address of one.  If the number is not 0 the program dies.      *)
SetDies(p, mib) ==
    LET n == SearchMib(tree[p], mib)
    IN  /\ pc[p] = "ready"
        /\ n # None
        /\ tree[p][n].dyn /\ tree[p][n].val \notin Text
        /\ Leave(p)
        /\ UNCHANGED <<unsaved, failures>>

(* The program dies, possibly in the middle of a set. *)
Crash(p) == pc[p] # "idle" /\ Fails /\ Leave(p) /\ UNCHANGED unsaved

-----------------------------------------------------------------------------
(* Properties. *)

(* A set that returned 1 is in the table until the next that does, in      *)
(* whatever session, unless one of this MIB failed, or it is the default.  *)
ReportedIsStored ==
    \A m \in Mib \ ({Default} \cup unsaved) :
        reported[m] # None => Stored(m) = reported[m]

(* conf_get finds in the tree what the session read and set, whatever the  *)
(* order of rows and sets, as long as no MIB is a branch of another.       *)
TreeIsCopy ==
    \A p \in Proc : pc[p] \in {"ready", "store"} =>
        \A m \in Mib : Got(tree[p], m) = copy[p][m]

(* The rows are a map, and sessions use it as ConfMap promises.            *)
Map == INSTANCE ConfMap WITH stored <- [m \in Mib |-> Stored(m)], view <- copy

ImplementsMap == Map!Spec
=============================================================================
