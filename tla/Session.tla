------------------------------ MODULE Session -------------------------------
(***************************************************************************)
(* Sessions (libfakedbfs.c, plugins.c): fdbfs_new reads the configuration, *)
(* then loads the plugins of the directories of a search path; a plugin    *)
(* that is initialised reads and sets the configuration, as the music      *)
(* plugin does.  After that the application has the session, until         *)
(* fdbfs_destroy.  Errors are a message in the fdbfs_t that stays until    *)
(* somebody releases it: fdbfs_new does not look whether there is one.     *)
(*                                                                         *)
(* One action is one directory, one of its entries or one MIB of a plugin. *)
(***************************************************************************)
EXTENDS Config

CONSTANTS
    Paths,      \* search paths: sequences of directories, None one that cannot
                \* be opened, else the sequence of its entries
    PluginMibs, \* the MIBs the music plugin looks for, in its order
    Off         \* what it sets those that it misses to

(* other: no library; broken: no plugin, or of another version of the      *)
(* interface; plain: initialised without a look at the configuration.      *)
Entry == {"other", "broken", "plain", "music"}

ASSUME SessionConstants ==
    /\ \A search \in Paths : search \in Seq(Seq(Entry) \cup {None}) /\ search # <<>>
    /\ None \notin Seq(Entry)
    /\ PluginMibs \in Seq(Mib)
    /\ Off \in Value \ Text

VARIABLES
    stage,    \* "conf": in fdbfs_conf_init, or closed; "scan": in
              \* fdbfs_plugins_init; "init": in a plugin's init; "app"
    path,     \* the directories of the search path
    at,       \* the directory that is read and the entries read of it
    mibs,     \* the MIBs the plugin in its init has still to look for
    nodes,    \* the plugins made, in order: where they were found, and the
              \* index of their next
    lp,       \* the last of search_plugs and plugins_init
    head,     \* head of plugins_init, then f->plugins
    pending,  \* f->error.emsg is not NULL
    left      \* statements of the connection that were not finalized

scan    == <<path, at, mibs, nodes, lp, head>>
session == <<stage, path, at, mibs, nodes, lp, head, pending, left>>

SInit ==
    /\ Init
    /\ stage = [p \in Proc |-> "conf"]
    /\ path = [p \in Proc |-> <<>>]
    /\ at = [p \in Proc |-> [dir |-> 0, entry |-> 0]]
    /\ mibs = [p \in Proc |-> <<>>]
    /\ nodes = [p \in Proc |-> <<>>]
    /\ lp = [p \in Proc |-> 0]
    /\ head = [p \in Proc |-> 0]
    /\ pending = [p \in Proc |-> FALSE]
    /\ left = [p \in Proc |-> FALSE]

Mark(v, p, x) == [v EXCEPT ![p] = x]
-----------------------------------------------------------------------------
(* The configuration.                                                      *)

(* A failed look for the table leaves its message, even when the table is  *)
(* made then.                                                              *)
SOpen(p) ==
    /\ Open(p)
    /\ pending' = Mark(pending, p, failures' # failures)
    /\ UNCHANGED <<stage, scan, left>>

SCreate(p) ==
    /\ Create(p)
    /\ pending' = Mark(pending, p, pending[p] /\ pc'[p] = "default")
    /\ UNCHANGED <<stage, scan, left>>

(* db_mib_add leaves its statement behind when it succeeds. *)
SSetDefault(p) ==
    /\ SetDefault(p)
    /\ left' = Mark(left, p, pc'[p] = "read")
    /\ pending' = Mark(pending, p, pending[p] /\ pc'[p] = "read")
    /\ UNCHANGED <<stage, scan>>

SRead(p) ==
    /\ ReadFromDb(p)
    /\ \/ /\ pc'[p] = "ready"
          /\ stage' = Mark(stage, p, "scan")
          /\ \E chosen \in Paths : path' = Mark(path, p, chosen)
          /\ at' = Mark(at, p, [dir |-> 1, entry |-> 0])
          /\ UNCHANGED <<mibs, nodes, lp, head, pending, left>>
       \/ /\ pc'[p] = "idle"
          /\ left' = Mark(left, p, FALSE)
          /\ pending' = Mark(pending, p, FALSE)
          /\ UNCHANGED <<stage, scan>>
-----------------------------------------------------------------------------
(* fdbfs_plugins_init.                                                     *)

Dir(p) == path[p][at[p].dir]

(* The next entry of the directory. *)
Place(p) == <<at[p].dir, at[p].entry + 1>>

\* Mutant of Linked: the library is not hung behind the one before it.
LinkedLoosely(p) ==
    Append(nodes[p], [from |-> Place(p), next |-> 0])

(* probe_plugin at its end: the new one behind the last. *)
Linked(p) ==
    LET n == Len(nodes[p]) + 1
        behind == [i \in DOMAIN nodes[p] |->
                      IF i = lp[p] THEN [nodes[p][i] EXCEPT !.next = n] ELSE nodes[p][i]]
    IN  Append(behind, [from |-> Place(p), next |-> 0])

Loaded(p) ==
    /\ nodes' = Mark(nodes, p, Linked(p))
    /\ lp' = Mark(lp, p, Len(nodes[p]) + 1)
    /\ at' = [at EXCEPT ![p].entry = @ + 1]

(* plugins_init gets what search_plugs returns and stops if there is a     *)
(* message, whoever left it.                                               *)
DirDone(p, last, message) ==
    /\ lp' = Mark(lp, p, last)
    /\ head' = Mark(head, p, IF head[p] = 0 THEN last ELSE head[p])
    /\ at' = Mark(at, p, [dir |-> at[p].dir + 1, entry |-> 0])
    /\ pending' = Mark(pending, p, message)
    /\ stage' = Mark(stage, p, IF message \/ at[p].dir = Len(path[p]) THEN "app" ELSE "scan")

SearchPlugs(p) ==
    /\ stage[p] = "scan" /\ pc[p] = "ready"
    /\ \/ Dir(p) = None /\ DirDone(p, 0, TRUE)
       \/ /\ Dir(p) # None
          /\ at[p].entry = Len(Dir(p))
          /\ DirDone(p, lp[p], pending[p])
    /\ UNCHANGED <<vars, path, mibs, nodes, left>>

ProbePlugin(p) ==
    /\ stage[p] = "scan" /\ pc[p] = "ready"
    /\ Dir(p) # None /\ at[p].entry < Len(Dir(p))
    /\ LET kind == Dir(p)[at[p].entry + 1]
       IN  \/ /\ kind = "other" \/ (kind = "broken" /\ ~pending[p])
              /\ at' = [at EXCEPT ![p].entry = @ + 1]
              /\ UNCHANGED <<stage, mibs, nodes, lp, head, pending>>
           \/ /\ kind = "broken" /\ pending[p]
              /\ DirDone(p, lp[p], TRUE)
              /\ UNCHANGED <<mibs, nodes>>
           \/ kind = "plain" /\ Loaded(p) /\ UNCHANGED <<stage, mibs, head, pending>>
           \/ /\ kind = "music"
              /\ stage' = Mark(stage, p, "init") /\ mibs' = Mark(mibs, p, PluginMibs)
              /\ UNCHANGED <<at, nodes, lp, head, pending>>
    /\ UNCHANGED <<vars, path, left>>

(* MIB_TEST: a MIB that is not there or is no boolean is set. *)
Misses(p, m) == Got(tree[p], m) = None \/ Got(tree[p], m) \in Text

MibTest(p) ==
    /\ stage[p] = "init" /\ pc[p] = "ready"
    /\ mibs[p] # <<>>
    /\ \/ /\ Misses(p, Head(mibs[p]))
          /\ ConfSet(p, Head(mibs[p]), Off)
          /\ UNCHANGED <<sets, session>>
       \/ /\ ~Misses(p, Head(mibs[p]))
          /\ mibs' = Mark(mibs, p, Tail(mibs[p]))
          /\ UNCHANGED <<vars, stage, path, at, nodes, lp, head, pending, left>>

PluginReady(p) ==
    /\ stage[p] = "init" /\ pc[p] = "ready"
    /\ mibs[p] = <<>>
    /\ Loaded(p)
    /\ stage' = Mark(stage, p, "scan")
    /\ UNCHANGED <<vars, path, mibs, head, pending, left>>

(* A set by a plugin: on to its next MIB.  The application's has none.     *)
SStore(p) ==
    /\ Store(p)
    /\ left' = Mark(left, p, TRUE)
    /\ mibs' = Mark(mibs, p, SubSeq(mibs[p], 2, Len(mibs[p])))
    /\ UNCHANGED <<stage, path, at, nodes, lp, head, pending>>

(* A plugin whose set fails is not kept, and the search ends; fedit prints *)
(* the message and releases it.                                            *)
SStoreFails(p) ==
    /\ StoreFails(p)
    /\ \/ /\ stage[p] = "init"
          /\ DirDone(p, lp[p], TRUE)
          /\ mibs' = Mark(mibs, p, <<>>)
       \/ stage[p] = "app" /\ pending' = Mark(pending, p, FALSE) /\ UNCHANGED <<stage, mibs, lp, head, at>>
    /\ UNCHANGED <<path, nodes, left>>
-----------------------------------------------------------------------------
(* The application.                                                        *)

SSet(p, mib, v) == stage[p] = "app" /\ Set(p, mib, v) /\ UNCHANGED session

Away(p) ==
    /\ stage' = Mark(stage, p, "conf")
    /\ path' = Mark(path, p, <<>>)
    /\ at' = Mark(at, p, [dir |-> 0, entry |-> 0])
    /\ mibs' = Mark(mibs, p, <<>>)
    /\ nodes' = Mark(nodes, p, <<>>)
    /\ lp' = Mark(lp, p, 0)
    /\ head' = Mark(head, p, 0)
    /\ pending' = Mark(pending, p, FALSE)
    /\ left' = Mark(left, p, FALSE)

(* The list of f->plugins, walked.                                         *)
Listed(p) ==
    LET walk[i \in 0..Len(nodes[p])] ==
          IF i = 0 THEN <<>> ELSE <<nodes[p][i].from>> \o walk[nodes[p][i].next]
    IN  walk[head[p]]

(* fdbfs_destroy: the fdbfs_t is gone, whatever it returns.  When a        *)
(* statement is left, sqlite3_close refuses and it returns before it       *)
(* releases plugins and tree.                                              *)
SClose(p) == stage[p] = "app" /\ Close(p) /\ Away(p)

SDies(p, mib) == stage[p] = "app" /\ SetDies(p, mib) /\ Away(p)

SNext == \E p \in Proc :
    \/ SOpen(p) \/ SCreate(p) \/ SSetDefault(p) \/ SRead(p)
    \/ SearchPlugs(p) \/ ProbePlugin(p) \/ MibTest(p) \/ PluginReady(p)
    \/ \E mib \in Mib, v \in Value : SSet(p, mib, v)
    \/ \E mib \in Mib : SDies(p, mib)
    \/ SStore(p) \/ SStoreFails(p) \/ SClose(p)
    \/ (Crash(p) /\ Away(p))

SSpec == SInit /\ [][SNext]_<<vars, session>>
-----------------------------------------------------------------------------
(* Properties.                                                             *)

InApp(p) == stage[p] = "app"

(* Where the plugins of a search path are, and in which order.             *)
PluginsOf(dir) == IF dir = None THEN {} ELSE {e \in DOMAIN dir : dir[e] \in {"plain", "music"}}

Places(search) == UNION {{d} \X PluginsOf(search[d]) : d \in DOMAIN search}

Before(x, y) == x[1] < y[1] \/ (x[1] = y[1] /\ x[2] < y[2])

(* The plugins of the first directory that has one, but for the last.      *)
Lost(search) ==
    {x \in Places(search) :
        /\ \A y \in Places(search) : x[1] <= y[1]
        /\ \E y \in Places(search) : x[1] = y[1] /\ x[2] < y[2]}

(* Without failures and missing directories, the application finds in the  *)
(* list the last plugin of the first directory that has one, and all of    *)
(* the later directories, in order; the others of that first directory are *)
(* loaded and initialised, and out of reach.                               *)
FirstDirectoryLosesAllButLast ==
    \A p \in Proc : InApp(p) /\ ~pending[p] /\ failures = 0 =>
        LET found == Listed(p)
        IN  /\ Range(found) = Places(path[p]) \ Lost(path[p])
            /\ \A i, j \in DOMAIN found : i < j => Before(found[i], found[j])

=============================================================================
