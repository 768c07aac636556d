---------------------------- MODULE SessionProofs ----------------------------
(***************************************************************************)
(* Which plugins a session finds in the list, that its tree is a copy of   *)
(* the table, that a set that returned success is in the table, and that   *)
(* both implement ConfMap, for any number of sessions, any MIBs, search    *)
(* paths and failures.                                                     *)
(*                                                                         *)
(* Stages says how the places of the two modules fit: until the rows are   *)
(* read a session is in stage "conf".                                      *)
(***************************************************************************)
EXTENDS Session, Recursion, SequenceTheorems

Starting == {"idle", "create", "default", "read"}

Stages ==
    /\ stage \in [Proc -> {"conf", "scan", "init", "app"}]
    /\ pc \in [Proc -> Starting \cup {"ready", "store"}]
    /\ \A p \in Proc : pc[p] \in Starting => stage[p] = "conf"

(* The steps that leave both places alone.                                 *)
LEMMA NoSession ==
    ASSUME Stages, UNCHANGED <<pc, stage>>
    PROVE  Stages'
BY DEF Stages

(* Closing and dying: the session is as it was before it was opened.       *)
LEMMA AwayKeeps ==
    ASSUME Stages, NEW p \in Proc, Goto(p, "idle"), Away(p)
    PROVE  Stages'
BY DEF Stages, Starting, Goto, Away, Mark

(* fdbfs_conf_init: the session leaves "conf" when the rows are read.       *)
LEMMA ConfInitKeeps ==
    ASSUME Stages, NEW p \in Proc,
           SOpen(p) \/ SCreate(p) \/ SSetDefault(p) \/ SRead(p)
    PROVE  Stages'
<1>1. CASE SOpen(p)
  <2>1. PICK l \in {"create", "default"} : Goto(p, l)
    BY <1>1 DEF SOpen, Open
  <2>2. pc[p] = "idle" /\ UNCHANGED stage
    BY <1>1 DEF SOpen, Open
  <2> QED BY <2>1, <2>2 DEF Stages, Goto, Starting
<1>2. CASE SCreate(p)
  <2>1. PICK l \in {"idle", "default"} : Goto(p, l)
    BY <1>2 DEF SCreate, Create
  <2>2. pc[p] = "create" /\ UNCHANGED stage
    BY <1>2 DEF SCreate, Create
  <2> QED BY <2>1, <2>2 DEF Stages, Goto, Starting
<1>3. CASE SSetDefault(p)
  <2>1. PICK l \in {"idle", "read"} : Goto(p, l)
    BY <1>3 DEF SSetDefault, SetDefault
  <2>2. pc[p] = "default" /\ UNCHANGED stage
    BY <1>3 DEF SSetDefault, SetDefault
  <2> QED BY <2>1, <2>2 DEF Stages, Goto, Starting, Mark
<1>4. CASE SRead(p)
  <2>1. pc[p] = "read"
    BY <1>4 DEF SRead, ReadFromDb
  <2>2. CASE pc'[p] = "ready"
    <3>1. Goto(p, "ready") /\ stage' = Mark(stage, p, "scan")
      BY <1>4, <2>2 DEF SRead, ReadFromDb, Goto, Stages
    <3> QED BY <2>1, <3>1 DEF Stages, Goto, Starting, Mark
  <2>3. CASE pc'[p] = "idle"
    <3>1. Goto(p, "idle") /\ UNCHANGED stage
      BY <1>4, <2>3 DEF SRead, ReadFromDb, Goto, Stages
    <3> QED BY <2>1, <3>1 DEF Stages, Goto, Starting, Mark
  <2> QED BY <1>4, <2>2, <2>3 DEF SRead
<1> QED BY <1>1, <1>2, <1>3, <1>4

(* The search for plugins and the sets of the application: stages other    *)
(* than "conf".                                                            *)
LEMMA OpenedKeeps ==
    ASSUME Stages, NEW p \in Proc,
           \/ SearchPlugs(p) \/ ProbePlugin(p) \/ MibTest(p) \/ PluginReady(p)
           \/ \E mib \in Mib, v \in Value : SSet(p, mib, v)
    PROVE  Stages'
<1>1. CASE SearchPlugs(p)
  <2>1. stage[p] = "scan" /\ UNCHANGED pc
    BY <1>1 DEF SearchPlugs, vars
  <2>2. pc[p] = "ready"
    BY <1>1 DEF SearchPlugs
  <2>3. PICK s \in {"app", "scan"} : stage' = Mark(stage, p, s)
    BY <1>1 DEF SearchPlugs, DirDone
  <2> QED BY <2>1, <2>2, <2>3 DEF Stages, Starting, Mark
<1>2. CASE ProbePlugin(p)
  <2>1. stage[p] = "scan" /\ UNCHANGED pc
    BY <1>2 DEF ProbePlugin, vars
  <2>2. pc[p] = "ready"
    BY <1>2 DEF ProbePlugin
  <2>3. stage' = stage \/ \E s \in {"app", "scan", "init"} : stage' = Mark(stage, p, s)
    BY <1>2 DEF ProbePlugin, DirDone
  <2> QED BY <2>1, <2>2, <2>3 DEF Stages, Starting, Mark
<1>3. CASE MibTest(p)
  <2>1. UNCHANGED stage /\ (pc' = pc \/ Goto(p, "store"))
    BY <1>3 DEF MibTest, ConfSet, session, vars
  <2>2. stage[p] = "init"
    BY <1>3 DEF MibTest
  <2> QED BY <2>1, <2>2 DEF Stages, Goto, Starting
<1>4. CASE PluginReady(p)
  <2>1. stage[p] = "init" /\ stage' = Mark(stage, p, "scan") /\ UNCHANGED pc
    BY <1>4 DEF PluginReady, vars
  <2>2. pc[p] = "ready"
    BY <1>4 DEF PluginReady
  <2> QED BY <2>1, <2>2 DEF Stages, Starting, Mark
<1>5. CASE \E mib \in Mib, v \in Value : SSet(p, mib, v)
  <2>1. stage[p] = "app" /\ Goto(p, "store") /\ UNCHANGED stage
    BY <1>5 DEF SSet, Set, ConfSet, session
  <2> QED BY <2>1 DEF Stages, Goto, Starting
<1> QED BY <1>1, <1>2, <1>3, <1>4, <1>5

(* The statement of a set.                                                 *)
LEMMA StoredKeeps ==
    ASSUME Stages, NEW p \in Proc, SStore(p) \/ SStoreFails(p)
    PROVE  Stages'
<1>1. CASE SStore(p)
  <2>1. Goto(p, "ready") /\ UNCHANGED stage
    BY <1>1 DEF SStore, Store
  <2> QED BY <2>1 DEF Stages, Goto, Starting, Mark
<1>2. CASE SStoreFails(p)
  <2>1. Goto(p, "ready")
    BY <1>2 DEF SStoreFails, StoreFails
  <2>2. \/ stage[p] = "init" /\ \E s \in {"app", "scan"} : stage' = Mark(stage, p, s)
        \/ stage[p] = "app" /\ stage' = stage
    BY <1>2 DEF SStoreFails, DirDone
  <2> QED BY <2>1, <2>2 DEF Stages, Goto, Starting, Mark
<1> QED BY <1>1, <1>2

(* The end of a session.                                                   *)
LEMMA EndedKeeps ==
    ASSUME Stages, NEW p \in Proc,
           SClose(p) \/ (\E mib \in Mib : SDies(p, mib)) \/ (Crash(p) /\ Away(p))
    PROVE  Stages'
<1>1. Goto(p, "idle") /\ Away(p)
  BY DEF SClose, Close, SDies, SetDies, Crash, Leave, Goto, Away
<1> QED BY <1>1, AwayKeeps

LEMMA StagesAlways == SSpec => []Stages
<1>1. SInit => Stages
  BY DEF SInit, Init, Stages, Starting
<1>2. Stages /\ [SNext]_<<vars, session>> => Stages'
  <2> SUFFICES ASSUME Stages, [SNext]_<<vars, session>> PROVE Stages'
    OBVIOUS
  <2>1. CASE SNext
    BY <2>1, ConfInitKeeps, OpenedKeeps, StoredKeeps, EndedKeeps DEF SNext
  <2>2. CASE UNCHANGED <<vars, session>>
    BY <2>2, NoSession DEF vars, session
  <2> QED BY <2>1, <2>2
<1> QED BY <1>1, <1>2, PTL DEF SSpec

-----------------------------------------------------------------------------
(***************************************************************************)
(* The plugins.  They hang in one chain in the order of their places, and  *)
(* head is the last of the first directory that has any.                   *)
(***************************************************************************)
PlugNode == [from : Nat \X Nat, next : Nat]

(* The plugins of the directories that are done and of the entries read.   *)
Seen(search, a) ==
    {x \in Places(search) : x[1] < a.dir \/ (x[1] = a.dir /\ x[2] <= a.entry)}

(* Where a session in stage s is in its search path.                       *)
Reading(search, a, s) ==
    /\ search \in Paths
    /\ a \in [dir : Nat \ {0}, entry : Nat]
    /\ s \in {"scan", "init"} =>
          /\ a.dir \in 1..Len(search)
          /\ search[a.dir] = None => a.entry = 0
          /\ search[a.dir] # None => a.entry <= Len(search[a.dir])
    /\ s = "init" =>
          /\ search[a.dir] # None /\ a.entry < Len(search[a.dir])
          /\ search[a.dir][a.entry + 1] = "music"
    /\ s = "app" => a.dir = Len(search) + 1 /\ a.entry = 0

Chain(search, a, ns, l) ==
    /\ ns \in Seq(PlugNode)
    /\ l = Len(ns)
    /\ \A i \in 1..Len(ns) : ns[i].next = IF i = Len(ns) THEN 0 ELSE i + 1
    /\ \A x : x \in Seen(search, a) <=> \E i \in 1..Len(ns) : ns[i].from = x
    /\ \A i, j \in 1..Len(ns) : i < j => Before(ns[i].from, ns[j].from)

HeadIs(a, ns, h) ==
    /\ h = 0 => \A i \in 1..Len(ns) : ns[i].from[1] = a.dir
    /\ h # 0 =>
          /\ h \in 1..Len(ns) /\ ns[1].from[1] < a.dir
          /\ \A i \in 1..Len(ns) : (ns[i].from[1] = ns[1].from[1]) <=> i <= h

Loads(search, a, ns, l, h, s) ==
    Reading(search, a, s) /\ Chain(search, a, ns, l) /\ HeadIs(a, ns, h)

PlugTypeOK ==
    /\ stage \in [Proc -> {"conf", "scan", "init", "app"}]
    /\ path \in [Proc -> Paths \cup {<<>>}]
    /\ at \in [Proc -> [dir : Nat, entry : Nat]]
    /\ nodes \in [Proc -> Seq(PlugNode)]
    /\ lp \in [Proc -> Nat] /\ head \in [Proc -> Nat]
    /\ pending \in [Proc -> BOOLEAN]
    /\ failures \in Nat

PlugFits(s, e, f, search, a, ns, l, h) ==
    /\ s = "conf" => ns = <<>> /\ l = 0 /\ h = 0
    /\ s # "conf" /\ ~e /\ f = 0 => Loads(search, a, ns, l, h, s)

PlugInv ==
    /\ PlugTypeOK
    /\ \A p \in Proc : PlugFits(stage[p], pending[p], failures, path[p], at[p],
                                nodes[p], lp[p], head[p])

LEMMA PathTyped ==
    ASSUME NEW search \in Paths
    PROVE  /\ search \in Seq(Seq(Entry) \cup {None}) /\ search # <<>>
           /\ Len(search) \in Nat \ {0} /\ DOMAIN search = 1..Len(search)
           /\ \A d \in 1..Len(search) : search[d] # None =>
                 /\ search[d] \in Seq(Entry) /\ Len(search[d]) \in Nat
                 /\ DOMAIN search[d] = 1..Len(search[d])
  <1>1. search \in Seq(Seq(Entry) \cup {None}) /\ search # <<>>
    BY SessionConstants
  <1>2. Len(search) \in Nat \ {0}
    BY <1>1, EmptySeq
  <1>3. ASSUME NEW d \in 1..Len(search), search[d] # None
        PROVE  /\ search[d] \in Seq(Entry) /\ Len(search[d]) \in Nat
               /\ DOMAIN search[d] = 1..Len(search[d])
    <2>1. search[d] \in Seq(Entry)
      BY <1>1, <1>3
    <2> QED
      BY <2>1, LenProperties
  <1> QED
    BY <1>1, <1>2, <1>3

LEMMA PlaceIs ==
    ASSUME NEW search \in Paths, NEW x
    PROVE  /\ x \in Places(search) =>
                 /\ x = <<x[1], x[2]>> /\ x[1] \in 1..Len(search) /\ search[x[1]] # None
                 /\ x[2] \in 1..Len(search[x[1]])
                 /\ search[x[1]][x[2]] \in {"plain", "music"}
           /\ \A d, e : /\ d \in 1..Len(search) /\ search[d] # None /\ e \in 1..Len(search[d])
                        /\ search[d][e] \in {"plain", "music"}
                        => <<d, e>> \in Places(search)
  <1>1. DOMAIN search = 1..Len(search)
        /\ \A d \in 1..Len(search) : search[d] # None => DOMAIN search[d] = 1..Len(search[d])
    BY PathTyped
  <1> QED
    BY <1>1 DEF Places, PluginsOf

(* What is seen lies before the next entry.                                *)
LEMMA SeenBefore ==
    ASSUME NEW search \in Paths, NEW a \in [dir : Nat \ {0}, entry : Nat],
           NEW x \in Seen(search, a)
    PROVE  /\ x \in Places(search) /\ x[1] \in Nat \ {0} /\ x[2] \in Nat \ {0}
           /\ x[1] < a.dir \/ (x[1] = a.dir /\ x[2] <= a.entry)
  <1>1. x \in Places(search) /\ (x[1] < a.dir \/ (x[1] = a.dir /\ x[2] <= a.entry))
    BY DEF Seen
  <1>2. x[1] \in 1..Len(search) /\ search[x[1]] # None /\ x[2] \in 1..Len(search[x[1]])
    BY <1>1, PlaceIs
  <1>3. Len(search) \in Nat /\ Len(search[x[1]]) \in Nat
    BY <1>2, PathTyped
  <1>4. x[1] \in Nat \ {0} /\ x[2] \in Nat \ {0}
    BY <1>2, <1>3
  <1> QED
    BY <1>1, <1>4

(* An entry that is no plugin: nothing new is seen.                        *)
LEMMA OtherEntrySeen ==
    ASSUME NEW search \in Paths, NEW a \in [dir : Nat \ {0}, entry : Nat],
           a.dir \in 1..Len(search), search[a.dir] # None,
           search[a.dir][a.entry + 1] \notin {"plain", "music"}
    PROVE  Seen(search, [a EXCEPT !.entry = @ + 1]) = Seen(search, a)
  <1> DEFINE b == [a EXCEPT !.entry = @ + 1]
  <1>1. b.dir = a.dir /\ b.entry = a.entry + 1 /\ b \in [dir : Nat \ {0}, entry : Nat]
    OBVIOUS
  <1>2. ASSUME NEW x \in Seen(search, b) PROVE x \in Seen(search, a)
    <2>1. x \in Places(search) /\ x[1] \in Nat /\ x[2] \in Nat
          /\ (x[1] < a.dir \/ (x[1] = a.dir /\ x[2] <= a.entry + 1))
      <3> HIDE DEF b
      <3> QED BY <1>1, <1>2, SeenBefore
    <2>2. search[x[1]][x[2]] \in {"plain", "music"}
      BY <2>1, PlaceIs
    <2>3. ~(x[1] = a.dir /\ x[2] = a.entry + 1)
      BY <2>2
    <2>4. x[1] < a.dir \/ (x[1] = a.dir /\ x[2] <= a.entry)
      BY <2>1, <2>3
    <2> QED
      BY <2>1, <2>4 DEF Seen
  <1>3. ASSUME NEW x \in Seen(search, a) PROVE x \in Seen(search, b)
    <2>1. x \in Places(search) /\ x[2] \in Nat
          /\ (x[1] < a.dir \/ (x[1] = a.dir /\ x[2] <= a.entry))
      BY <1>3, SeenBefore
    <2>2. x[1] < b.dir \/ (x[1] = b.dir /\ x[2] <= b.entry)
      BY <1>1, <2>1
    <2> HIDE DEF b
    <2> QED
      BY <2>1, <2>2 DEF Seen
  <1> HIDE DEF b
  <1>4. Seen(search, b) = Seen(search, a)
    BY <1>2, <1>3
  <1> QED
    BY <1>4 DEF b

(* A plugin: it is seen, and nothing else.                                 *)
LEMMA PluginSeen ==
    ASSUME NEW search \in Paths, NEW a \in [dir : Nat \ {0}, entry : Nat],
           a.dir \in 1..Len(search), search[a.dir] # None,
           a.entry < Len(search[a.dir]),
           search[a.dir][a.entry + 1] \in {"plain", "music"}, NEW x
    PROVE  x \in Seen(search, [a EXCEPT !.entry = @ + 1])
               <=> x \in Seen(search, a) \/ x = <<a.dir, a.entry + 1>>
  <1> DEFINE b == [a EXCEPT !.entry = @ + 1]
             y == <<a.dir, a.entry + 1>>
  <1>1. b.dir = a.dir /\ b.entry = a.entry + 1 /\ b \in [dir : Nat \ {0}, entry : Nat]
    OBVIOUS
  <1>2. ASSUME x \in Seen(search, b) PROVE x \in Seen(search, a) \/ x = y
    <2>1. x \in Places(search) /\ x[1] \in Nat /\ x[2] \in Nat
          /\ (x[1] < a.dir \/ (x[1] = a.dir /\ x[2] <= a.entry + 1))
      <3> HIDE DEF b
      <3> QED BY <1>1, <1>2, SeenBefore
    <2>2. x = <<x[1], x[2]>>
      BY <2>1, PlaceIs
    <2>3. CASE x[1] = a.dir /\ x[2] = a.entry + 1
      BY <2>2, <2>3
    <2>4. CASE ~(x[1] = a.dir /\ x[2] = a.entry + 1)
      <3>1. x[1] < a.dir \/ (x[1] = a.dir /\ x[2] <= a.entry)
        BY <2>1, <2>4
      <3> QED
        BY <2>1, <3>1 DEF Seen
    <2> QED
      BY <2>3, <2>4
  <1>3. ASSUME x \in Seen(search, a) PROVE x \in Seen(search, b)
    <2>1. x \in Places(search) /\ x[2] \in Nat
          /\ (x[1] < a.dir \/ (x[1] = a.dir /\ x[2] <= a.entry))
      BY <1>3, SeenBefore
    <2>2. x[1] < b.dir \/ (x[1] = b.dir /\ x[2] <= b.entry)
      BY <1>1, <2>1
    <2> HIDE DEF b
    <2> QED
      BY <2>1, <2>2 DEF Seen
  <1>4. y \in Seen(search, b)
    <2>1. a.entry + 1 \in 1..Len(search[a.dir])
      BY PathTyped
    <2>2. y \in Places(search)
      BY <2>1, PlaceIs
    <2>3. y[1] = b.dir /\ y[2] <= b.entry
      BY <1>1
    <2> HIDE DEF b, y
    <2> QED
      BY <2>2, <2>3 DEF Seen
  <1> HIDE DEF b, y
  <1>5. x \in Seen(search, b) <=> x \in Seen(search, a) \/ x = y
    BY <1>2, <1>3, <1>4
  <1> QED
    BY <1>5 DEF b, y

(* The end of a directory: nothing new is seen.                            *)
LEMMA DirEndSeen ==
    ASSUME NEW search \in Paths, NEW a \in [dir : Nat \ {0}, entry : Nat],
           a.dir \in 1..Len(search), search[a.dir] # None,
           a.entry = Len(search[a.dir])
    PROVE  Seen(search, [dir |-> a.dir + 1, entry |-> 0]) = Seen(search, a)
  <1> DEFINE b == [dir |-> a.dir + 1, entry |-> 0]
  <1>1. b.dir = a.dir + 1 /\ b.entry = 0 /\ b \in [dir : Nat \ {0}, entry : Nat]
    OBVIOUS
  <1>2. ASSUME NEW x \in Seen(search, b) PROVE x \in Seen(search, a)
    <2>1. x \in Places(search) /\ x[1] \in Nat \ {0} /\ x[2] \in Nat \ {0}
          /\ (x[1] < a.dir + 1 \/ (x[1] = a.dir + 1 /\ x[2] <= 0))
      <3> HIDE DEF b
      <3> QED BY <1>1, <1>2, SeenBefore
    <2>2. x[1] <= a.dir
      BY <2>1
    <2>3. x[1] \in 1..Len(search) /\ search[x[1]] # None /\ x[2] \in 1..Len(search[x[1]])
      BY <2>1, PlaceIs
    <2>4. x[1] < a.dir \/ (x[1] = a.dir /\ x[2] <= a.entry)
      BY <2>1, <2>2, <2>3
    <2> QED
      BY <2>1, <2>4 DEF Seen
  <1>3. ASSUME NEW x \in Seen(search, a) PROVE x \in Seen(search, b)
    <2>1. x \in Places(search) /\ x[1] \in Nat
          /\ (x[1] < a.dir \/ (x[1] = a.dir /\ x[2] <= a.entry))
      BY <1>3, SeenBefore
    <2>2. x[1] < b.dir
      BY <1>1, <2>1
    <2> HIDE DEF b
    <2> QED
      BY <2>1, <2>2 DEF Seen
  <1> HIDE DEF b
  <1>4. Seen(search, b) = Seen(search, a)
    BY <1>2, <1>3
  <1> QED
    BY <1>4 DEF b

(* A plugin of this place behind the last.                                 *)
Hung(ns, place, l, ms) ==
    /\ ms \in Seq(PlugNode) /\ Len(ms) = Len(ns) + 1
    /\ ms[Len(ns) + 1] = [from |-> place, next |-> 0]
    /\ \A i \in 1..Len(ns) :
          /\ ms[i].from = ns[i].from
          /\ ms[i].next = IF i = l THEN Len(ns) + 1 ELSE ns[i].next

LEMMA LinkedHung ==
    ASSUME NEW p \in Proc, nodes[p] \in Seq(PlugNode), at[p] \in [dir : Nat, entry : Nat]
    PROVE  Hung(nodes[p], Place(p), lp[p], Linked(p))
  <1> DEFINE n == Len(nodes[p]) + 1
             behind == [i \in DOMAIN nodes[p] |->
                          IF i = lp[p] THEN [nodes[p][i] EXCEPT !.next = n] ELSE nodes[p][i]]
             new == [from |-> Place(p), next |-> 0]
  <1>1. Len(nodes[p]) \in Nat /\ n \in Nat /\ DOMAIN nodes[p] = 1..Len(nodes[p])
        /\ \A i \in 1..Len(nodes[p]) : nodes[p][i] \in PlugNode
    BY LenProperties
  <1>2. behind \in Seq(PlugNode) /\ Len(behind) = Len(nodes[p])
    <2>1. \A i \in 1..Len(nodes[p]) : behind[i] \in PlugNode
      BY <1>1 DEF PlugNode
    <2>2. behind \in [1..Len(nodes[p]) -> PlugNode]
      BY <1>1, <2>1
    <2> HIDE DEF behind
    <2>3. PICK k \in Nat : k = Len(nodes[p])
      BY <1>1
    <2>4. behind \in [1..k -> PlugNode]
      BY <2>2, <2>3
    <2>5. behind \in Seq(PlugNode)
      BY <2>4, SeqDef
    <2>6. Len(behind) = k
      BY <2>4, <2>5, LenProperties
    <2> QED
      BY <2>3, <2>5, <2>6
  <1>3. new \in PlugNode
    BY DEF PlugNode, Place
  <1>4. \A i \in 1..Len(nodes[p]) :
            /\ behind[i].from = nodes[p][i].from
            /\ behind[i].next = IF i = lp[p] THEN n ELSE nodes[p][i].next
    <2> SUFFICES ASSUME NEW i \in 1..Len(nodes[p])
                 PROVE  /\ behind[i].from = nodes[p][i].from
                        /\ behind[i].next = IF i = lp[p] THEN n ELSE nodes[p][i].next
      OBVIOUS
    <2>1. nodes[p][i] \in PlugNode /\ i \in DOMAIN nodes[p]
      BY <1>1
    <2> QED
      BY <2>1 DEF PlugNode
  <1>5. Linked(p) = Append(behind, new)
    BY DEF Linked
  <1> HIDE DEF behind, new
  <1>6. /\ Append(behind, new) \in Seq(PlugNode) /\ Len(Append(behind, new)) = n
        /\ Append(behind, new)[n] = new
        /\ \A i \in 1..Len(nodes[p]) : Append(behind, new)[i] = behind[i]
    BY <1>1, <1>2, <1>3
  <1> QED
    BY <1>4, <1>5, <1>6 DEF Hung, new

(* The steps of the search, while nothing has failed.                      *)
LEMMA LoadedLoads ==
    ASSUME NEW search \in Paths, NEW a, NEW ns, NEW l, NEW h, NEW s \in {"scan", "init"},
           Loads(search, a, ns, l, h, s),
           search[a.dir] # None, a.entry < Len(search[a.dir]),
           search[a.dir][a.entry + 1] \in {"plain", "music"},
           NEW ms, Hung(ns, <<a.dir, a.entry + 1>>, l, ms)
    PROVE  Loads(search, [a EXCEPT !.entry = @ + 1], ms, Len(ns) + 1, h, "scan")
  <1> DEFINE b == [a EXCEPT !.entry = @ + 1]
             y == <<a.dir, a.entry + 1>>
  <1>1. /\ a \in [dir : Nat \ {0}, entry : Nat] /\ a.dir \in 1..Len(search)
        /\ b \in [dir : Nat \ {0}, entry : Nat] /\ b.dir = a.dir /\ b.entry = a.entry + 1
    BY DEF Loads, Reading
  <1>2. Len(search[a.dir]) \in Nat
    BY <1>1, PathTyped
  <1>3. Reading(search, b, "scan")
    <2> HIDE DEF b
    <2> QED
      BY <1>1, <1>2 DEF Reading
  <1>4. ns \in Seq(PlugNode) /\ l = Len(ns) /\ Len(ns) \in Nat
        /\ ms \in Seq(PlugNode) /\ Len(ms) = Len(ns) + 1
    BY DEF Loads, Chain, Hung
  <1>5. ms[Len(ns) + 1].from = y /\ ms[Len(ns) + 1].next = 0
        /\ \A i \in 1..Len(ns) :
              /\ ms[i].from = ns[i].from
              /\ ms[i].next = IF i = Len(ns) THEN Len(ns) + 1 ELSE ns[i].next
    BY <1>4 DEF Hung
  <1>6. y[1] = a.dir /\ y[2] = a.entry + 1
    OBVIOUS
  <1>7. \A x : x \in Seen(search, b) <=> x \in Seen(search, a) \/ x = y
    BY <1>1, PluginSeen
  <1>8. \A i \in 1..Len(ns) :
           /\ ns[i].from \in Seen(search, a) /\ Before(ns[i].from, y)
           /\ ns[i].from[1] \in Nat
    <2> SUFFICES ASSUME NEW i \in 1..Len(ns)
                 PROVE  /\ ns[i].from \in Seen(search, a) /\ Before(ns[i].from, y)
                        /\ ns[i].from[1] \in Nat
      OBVIOUS
    <2> DEFINE x == ns[i].from
    <2>1. x \in Seen(search, a)
      BY DEF Loads, Chain
    <2> HIDE DEF x, y
    <2>2. x[1] \in Nat /\ x[2] \in Nat /\ (x[1] < a.dir \/ (x[1] = a.dir /\ x[2] <= a.entry))
      BY <1>1, <2>1, SeenBefore
    <2>3. Before(x, y)
      BY <1>1, <1>6, <2>2 DEF Before
    <2> QED
      BY <2>1, <2>2, <2>3 DEF x
  <1> HIDE DEF b, y
  <1>9. Chain(search, b, ms, Len(ns) + 1)
    <2>1. \A i \in 1..Len(ms) : ms[i].next = IF i = Len(ms) THEN 0 ELSE i + 1
      <3> SUFFICES ASSUME NEW i \in 1..Len(ms)
                   PROVE  ms[i].next = IF i = Len(ms) THEN 0 ELSE i + 1
        OBVIOUS
      <3>1. CASE i = Len(ns) + 1
        BY <1>4, <1>5, <3>1
      <3>2. CASE i # Len(ns) + 1
        <4>1. i \in 1..Len(ns) /\ i # Len(ms)
          BY <1>4, <3>2
        <4>2. ns[i].next = IF i = Len(ns) THEN 0 ELSE i + 1
          BY <4>1 DEF Loads, Chain
        <4> QED
          BY <1>4, <1>5, <4>1, <4>2
      <3> QED
        BY <3>1, <3>2
    <2>2. ASSUME NEW x
          PROVE  x \in Seen(search, b) <=> \E i \in 1..Len(ms) : ms[i].from = x
      <3>1. x \in Seen(search, a) <=> \E i \in 1..Len(ns) : ns[i].from = x
        BY DEF Loads, Chain
      <3>2. (\E i \in 1..Len(ms) : ms[i].from = x)
               <=> (\E i \in 1..Len(ns) : ns[i].from = x) \/ x = y
        <4>1. \A i : i \in 1..Len(ms) <=> i \in 1..Len(ns) \/ i = Len(ns) + 1
          BY <1>4
        <4>2. \A i \in 1..Len(ns) : ms[i].from = ns[i].from
          BY <1>5
        <4>3. ms[Len(ns) + 1].from = y
          BY <1>5
        <4> QED
          BY <4>1, <4>2, <4>3, Zenon
      <3> QED
        BY <1>7, <3>1, <3>2
    <2>3. \A i, j \in 1..Len(ms) : i < j => Before(ms[i].from, ms[j].from)
      <3> SUFFICES ASSUME NEW i \in 1..Len(ms), NEW j \in 1..Len(ms), i < j
                   PROVE  Before(ms[i].from, ms[j].from)
        OBVIOUS
      <3>1. i \in 1..Len(ns) /\ ms[i].from = ns[i].from
        BY <1>4, <1>5
      <3>2. CASE j = Len(ns) + 1
        BY <1>5, <1>8, <3>1, <3>2
      <3>3. CASE j # Len(ns) + 1
        <4>1. j \in 1..Len(ns)
          BY <1>4, <3>3
        <4>2. ms[j].from = ns[j].from /\ Before(ns[i].from, ns[j].from)
          BY <1>5, <3>1, <4>1 DEF Loads, Chain
        <4> QED
          BY <3>1, <4>1, <4>2
      <3> QED
        BY <3>2, <3>3
    <2> QED
      BY <1>4, <2>1, <2>2, <2>3 DEF Chain
  <1>10. HeadIs(b, ms, h)
    <2>1. CASE h = 0
      <3>1. \A i \in 1..Len(ns) : ns[i].from[1] = a.dir
        BY <2>1 DEF Loads, HeadIs
      <3>2. \A i \in 1..Len(ms) : i \in 1..Len(ns) \/ i = Len(ns) + 1
        BY <1>4
      <3>3. \A i \in 1..Len(ms) : ms[i].from[1] = b.dir
        BY <1>1, <1>5, <1>6, <3>1, <3>2
      <3> QED
        BY <2>1, <3>3 DEF HeadIs
    <2>2. CASE h # 0
      <3>1. /\ h \in 1..Len(ns) /\ ns[1].from[1] < a.dir
            /\ \A i \in 1..Len(ns) : (ns[i].from[1] = ns[1].from[1]) <=> i <= h
        BY <2>2 DEF Loads, HeadIs
      <3>2. 1 \in 1..Len(ns) /\ h \in 1..Len(ms) /\ ms[1].from = ns[1].from
        BY <1>4, <1>5, <3>1
      <3>3. y[1] # ns[1].from[1]
        BY <1>1, <1>6, <1>8, <3>1, <3>2
      <3>4. \A i \in 1..Len(ms) : (ms[i].from[1] = ms[1].from[1]) <=> i <= h
        <4> SUFFICES ASSUME NEW i \in 1..Len(ms)
                     PROVE  (ms[i].from[1] = ms[1].from[1]) <=> i <= h
          OBVIOUS
        <4>1. CASE i = Len(ns) + 1
          BY <1>4, <1>5, <3>1, <3>2, <3>3, <4>1
        <4>2. CASE i # Len(ns) + 1
          <5>1. i \in 1..Len(ns)
            BY <1>4, <4>2
          <5> QED
            BY <1>5, <3>1, <3>2, <5>1
        <4> QED
          BY <4>1, <4>2
      <3> QED
        BY <1>1, <2>2, <3>1, <3>2, <3>4 DEF HeadIs
    <2> QED
      BY <2>1, <2>2
  <1> QED
    BY <1>3, <1>9, <1>10 DEF Loads, b

LEMMA OtherLoads ==
    ASSUME NEW search \in Paths, NEW a, NEW ns, NEW l, NEW h,
           Loads(search, a, ns, l, h, "scan"),
           search[a.dir] # None, a.entry < Len(search[a.dir]),
           search[a.dir][a.entry + 1] \notin {"plain", "music"}
    PROVE  Loads(search, [a EXCEPT !.entry = @ + 1], ns, l, h, "scan")
  <1> DEFINE b == [a EXCEPT !.entry = @ + 1]
  <1>1. /\ a \in [dir : Nat \ {0}, entry : Nat] /\ a.dir \in 1..Len(search)
        /\ b \in [dir : Nat \ {0}, entry : Nat] /\ b.dir = a.dir /\ b.entry = a.entry + 1
    BY DEF Loads, Reading
  <1>2. Len(search[a.dir]) \in Nat
    BY <1>1, PathTyped
  <1>3. Seen(search, b) = Seen(search, a)
    BY <1>1, OtherEntrySeen
  <1> HIDE DEF b
  <1>4. Reading(search, b, "scan")
    BY <1>1, <1>2 DEF Reading
  <1>5. Chain(search, b, ns, l)
    BY <1>3 DEF Loads, Chain
  <1>6. HeadIs(b, ns, h)
    BY <1>1 DEF Loads, HeadIs
  <1> QED
    BY <1>4, <1>5, <1>6 DEF Loads, b

LEMMA DirEndLoads ==
    ASSUME NEW search \in Paths, NEW a, NEW ns, NEW l, NEW h,
           Loads(search, a, ns, l, h, "scan"),
           search[a.dir] # None, a.entry = Len(search[a.dir])
    PROVE  Loads(search, [dir |-> a.dir + 1, entry |-> 0], ns, l, IF h = 0 THEN l ELSE h,
                 IF a.dir = Len(search) THEN "app" ELSE "scan")
  <1> DEFINE b == [dir |-> a.dir + 1, entry |-> 0]
             g == IF h = 0 THEN l ELSE h
             s == IF a.dir = Len(search) THEN "app" ELSE "scan"
  <1>1. /\ a \in [dir : Nat \ {0}, entry : Nat] /\ a.dir \in 1..Len(search)
        /\ b \in [dir : Nat \ {0}, entry : Nat] /\ b.dir = a.dir + 1 /\ b.entry = 0
    BY DEF Loads, Reading
  <1>2. Len(search) \in Nat /\ \A d \in 1..Len(search) : search[d] # None => Len(search[d]) \in Nat
    BY PathTyped
  <1>3. Seen(search, b) = Seen(search, a)
    BY <1>1, DirEndSeen
  <1> HIDE DEF b
  <1>4. Reading(search, b, s)
    <2>1. CASE a.dir = Len(search)
      BY <1>1, <1>2, <2>1 DEF Reading
    <2>2. CASE a.dir # Len(search)
      BY <1>1, <1>2, <2>2 DEF Reading
    <2> QED
      BY <2>1, <2>2
  <1>5. Chain(search, b, ns, l)
    BY <1>3 DEF Loads, Chain
  <1>6. HeadIs(b, ns, g)
    <2>1. l = Len(ns) /\ l \in Nat
      BY DEF Loads, Chain
    <2>2. CASE h = 0
      <3>1. \A i \in 1..Len(ns) : ns[i].from[1] = a.dir
        BY <2>2 DEF Loads, HeadIs
      <3>2. g = l
        BY <2>2
      <3>3. CASE l = 0
        BY <2>1, <3>2, <3>3 DEF HeadIs
      <3>4. CASE l # 0
        BY <1>1, <2>1, <3>1, <3>2, <3>4 DEF HeadIs
      <3> QED
        BY <3>3, <3>4
    <2>3. CASE h # 0
      <3>1. /\ h \in 1..Len(ns) /\ ns[1].from[1] < a.dir
            /\ \A i \in 1..Len(ns) : (ns[i].from[1] = ns[1].from[1]) <=> i <= h
        BY <2>3 DEF Loads, HeadIs
      <3>2. ns[1] \in PlugNode /\ ns[1].from[1] \in Nat
        <4>1. 1 \in 1..Len(ns) /\ ns \in Seq(PlugNode)
          BY <2>1, <3>1 DEF Loads, Chain
        <4>2. ns[1] \in PlugNode
          BY <4>1
        <4> QED
          BY <4>2 DEF PlugNode
      <3>3. ns[1].from[1] < b.dir
        BY <1>1, <3>1, <3>2
      <3> QED
        BY <2>3, <3>1, <3>3 DEF HeadIs
    <2> QED
      BY <2>2, <2>3
  <1> QED
    BY <1>4, <1>5, <1>6 DEF Loads, b

-----------------------------------------------------------------------------
(* The steps of one session, and failures only rise.                       *)
Turns(p, s, e, search, a, ns, l, h) ==
    /\ stage' = Mark(stage, p, s) /\ pending' = Mark(pending, p, e)
    /\ path' = Mark(path, p, search) /\ at' = Mark(at, p, a)
    /\ nodes' = Mark(nodes, p, ns) /\ lp' = Mark(lp, p, l) /\ head' = Mark(head, p, h)
    /\ failures' \in Nat /\ (failures' = 0 => failures = 0)

LEMMA TurnKeeps ==
    ASSUME PlugInv, NEW p \in Proc,
           NEW s \in {"conf", "scan", "init", "app"}, NEW e \in BOOLEAN,
           NEW search \in Paths \cup {<<>>}, NEW a \in [dir : Nat, entry : Nat],
           NEW ns \in Seq(PlugNode), NEW l \in Nat, NEW h \in Nat,
           Turns(p, s, e, search, a, ns, l, h),
           PlugFits(s, e, failures', search, a, ns, l, h)
    PROVE  PlugInv'
  <1>1. PlugTypeOK'
    BY DEF PlugInv, PlugTypeOK, Turns, Mark
  <1>2. ASSUME NEW q \in Proc
        PROVE  PlugFits(stage'[q], pending'[q], failures', path'[q], at'[q],
                        nodes'[q], lp'[q], head'[q])
    <2>1. CASE q = p
      <3>1. /\ stage'[q] = s /\ pending'[q] = e /\ path'[q] = search /\ at'[q] = a
            /\ nodes'[q] = ns /\ lp'[q] = l /\ head'[q] = h
        BY <2>1 DEF PlugInv, PlugTypeOK, Turns, Mark
      <3> QED
        BY <3>1
    <2>2. CASE q # p
      <3>1. /\ stage'[q] = stage[q] /\ pending'[q] = pending[q] /\ path'[q] = path[q]
            /\ at'[q] = at[q] /\ nodes'[q] = nodes[q] /\ lp'[q] = lp[q] /\ head'[q] = head[q]
            /\ (failures' = 0 => failures = 0)
        BY <2>2 DEF PlugInv, PlugTypeOK, Turns, Mark
      <3>2. PlugFits(stage[q], pending[q], failures, path[q], at[q], nodes[q], lp[q], head[q])
        BY DEF PlugInv
      <3>3. PlugFits(stage[q], pending[q], failures', path[q], at[q], nodes[q], lp[q], head[q])
        BY <3>1, <3>2 DEF PlugFits
      <3> QED
        BY <3>1, <3>3
    <2> QED
      BY <2>1, <2>2
  <1> QED
    BY <1>1, <1>2 DEF PlugInv

(* What PlugInv says of one session.                                       *)
LEMMA PlugOf ==
    ASSUME PlugInv, NEW p \in Proc
    PROVE  /\ stage[p] \in {"conf", "scan", "init", "app"} /\ pending[p] \in BOOLEAN
           /\ path[p] \in Paths \cup {<<>>} /\ at[p] \in [dir : Nat, entry : Nat]
           /\ nodes[p] \in Seq(PlugNode) /\ lp[p] \in Nat /\ head[p] \in Nat
           /\ failures \in Nat
           /\ stage = Mark(stage, p, stage[p]) /\ pending = Mark(pending, p, pending[p])
           /\ path = Mark(path, p, path[p]) /\ at = Mark(at, p, at[p])
           /\ nodes = Mark(nodes, p, nodes[p]) /\ lp = Mark(lp, p, lp[p])
           /\ head = Mark(head, p, head[p])
           /\ PlugFits(stage[p], pending[p], failures, path[p], at[p], nodes[p], lp[p], head[p])
  <1>1. ASSUME NEW f, NEW S, f \in [Proc -> S] PROVE f = [f EXCEPT ![p] = f[p]]
    BY <1>1
  <1>2. PlugTypeOK
    BY DEF PlugInv
  <1>3. /\ stage = Mark(stage, p, stage[p]) /\ pending = Mark(pending, p, pending[p])
        /\ path = Mark(path, p, path[p]) /\ at = Mark(at, p, at[p])
        /\ nodes = Mark(nodes, p, nodes[p]) /\ lp = Mark(lp, p, lp[p])
        /\ head = Mark(head, p, head[p])
    BY <1>1, <1>2 DEF PlugTypeOK, Mark
  <1>4. /\ stage[p] \in {"conf", "scan", "init", "app"} /\ pending[p] \in BOOLEAN
        /\ path[p] \in Paths \cup {<<>>} /\ at[p] \in [dir : Nat, entry : Nat]
        /\ nodes[p] \in Seq(PlugNode) /\ lp[p] \in Nat /\ head[p] \in Nat
        /\ failures \in Nat
    BY <1>2 DEF PlugTypeOK
  <1> QED
    BY <1>3, <1>4 DEF PlugInv

(* A failure counts.                                                       *)
LEMMA FailsCounts ==
    ASSUME failures \in Nat, Fails
    PROVE  failures' \in Nat /\ failures' # 0
BY DEF Fails

(* A step in which the search goes nowhere.                                *)
LEMMA PlugStays ==
    ASSUME PlugInv, NEW p \in Proc, NEW e \in BOOLEAN,
           UNCHANGED <<stage, path, at, nodes, lp, head>>,
           pending' = Mark(pending, p, e),
           failures' \in Nat, failures' = 0 => failures = 0,
           \/ stage[p] = "conf"
           \/ failures' = 0 /\ ~e => ~pending[p]
    PROVE  PlugInv'
  <1>1. /\ stage[p] \in {"conf", "scan", "init", "app"}
        /\ path[p] \in Paths \cup {<<>>} /\ at[p] \in [dir : Nat, entry : Nat]
        /\ nodes[p] \in Seq(PlugNode) /\ lp[p] \in Nat /\ head[p] \in Nat
        /\ PlugFits(stage[p], pending[p], failures, path[p], at[p], nodes[p], lp[p], head[p])
    BY PlugOf
  <1>2. Turns(p, stage[p], e, path[p], at[p], nodes[p], lp[p], head[p])
    BY PlugOf DEF Turns
  <1>3. PlugFits(stage[p], e, failures', path[p], at[p], nodes[p], lp[p], head[p])
    BY <1>1 DEF PlugFits
  <1> QED
    BY <1>1, <1>2, <1>3, TurnKeeps

LEMMA PlugUntouched ==
    ASSUME PlugInv, UNCHANGED <<stage, path, at, nodes, lp, head, pending, failures>>
    PROVE  PlugInv'
BY DEF PlugInv, PlugTypeOK

(* fdbfs_conf_init.                                                        *)
LEMMA ConfInitPlugs ==
    ASSUME PlugInv, Stages, NEW p \in Proc,
           SOpen(p) \/ SCreate(p) \/ SSetDefault(p) \/ SRead(p)
    PROVE  PlugInv'
  <1>1. failures \in Nat /\ pending[p] \in BOOLEAN
    BY PlugOf
  <1>2. stage[p] = "conf"
    BY DEF Stages, Starting, SOpen, Open, SCreate, Create, SSetDefault, SetDefault, SRead, ReadFromDb
  <1>3. failures' \in Nat /\ (failures' = 0 => failures = 0)
    <2>1. failures' = failures \/ Fails
      BY DEF SOpen, Open, SCreate, Create, SSetDefault, SetDefault, SRead, ReadFromDb
    <2> QED
      BY <1>1, <2>1, FailsCounts
  <1>4. CASE SOpen(p)
    <2>1. PICK e \in BOOLEAN : pending' = Mark(pending, p, e)
      BY <1>4 DEF SOpen
    <2> QED
      BY <1>2, <1>3, <1>4, <2>1, PlugStays DEF SOpen, scan
  <1>5. CASE SCreate(p)
    <2>1. PICK e \in BOOLEAN : pending' = Mark(pending, p, e)
      BY <1>1, <1>5 DEF SCreate
    <2> QED
      BY <1>2, <1>3, <1>5, <2>1, PlugStays DEF SCreate, scan
  <1>6. CASE SSetDefault(p)
    <2>1. PICK e \in BOOLEAN : pending' = Mark(pending, p, e)
      BY <1>1, <1>6 DEF SSetDefault
    <2> QED
      BY <1>2, <1>3, <1>6, <2>1, PlugStays DEF SSetDefault, scan
  <1>7. CASE SRead(p) /\ pc'[p] = "idle"
    <2>1. UNCHANGED <<stage, path, at, nodes, lp, head>> /\ pending' = Mark(pending, p, FALSE)
      BY <1>7 DEF SRead, scan
    <2> QED
      BY <1>2, <1>3, <2>1, PlugStays
  <1>8. CASE SRead(p) /\ pc'[p] = "ready"
    <2> DEFINE a == [dir |-> 1, entry |-> 0]
    <2>1. PICK search \in Paths : path' = Mark(path, p, search)
      BY <1>8 DEF SRead
    <2>2. /\ stage' = Mark(stage, p, "scan") /\ at' = Mark(at, p, a)
          /\ UNCHANGED <<nodes, lp, head, pending>>
      BY <1>8 DEF SRead
    <2>3. Turns(p, "scan", pending[p], search, a, nodes[p], lp[p], head[p])
      BY <1>3, <2>1, <2>2, PlugOf DEF Turns
    <2>4. nodes[p] = <<>> /\ lp[p] = 0 /\ head[p] = 0
      BY <1>2, PlugOf DEF PlugFits
    <2>5. Loads(search, a, <<>>, 0, 0, "scan")
      <3>1. Len(search) \in Nat \ {0}
            /\ \A d \in 1..Len(search) : search[d] # None => Len(search[d]) \in Nat
        BY PathTyped
      <3>2. Reading(search, a, "scan")
        BY <3>1 DEF Reading
      <3>3. \A x : x \notin Seen(search, a)
        <4> SUFFICES ASSUME NEW x \in Seen(search, a) PROVE FALSE
          OBVIOUS
        <4>1. a \in [dir : Nat \ {0}, entry : Nat] /\ a.dir = 1 /\ a.entry = 0
          OBVIOUS
        <4> HIDE DEF a
        <4>2. /\ x[1] \in Nat \ {0} /\ x[2] \in Nat \ {0}
              /\ x[1] < a.dir \/ (x[1] = a.dir /\ x[2] <= a.entry)
          BY <4>1, SeenBefore
        <4> QED
          BY <4>1, <4>2
      <3>4. <<>> \in Seq(PlugNode) /\ Len(<<>>) = 0
        OBVIOUS
      <3>5. Chain(search, a, <<>>, 0)
        <4> HIDE DEF a
        <4> QED
          BY <3>3, <3>4 DEF Chain
      <3>6. HeadIs(a, <<>>, 0)
        BY <3>4 DEF HeadIs
      <3> QED
        BY <3>2, <3>5, <3>6 DEF Loads
    <2>6. PlugFits("scan", pending[p], failures', search, a, nodes[p], lp[p], head[p])
      BY <2>4, <2>5 DEF PlugFits
    <2>7. a \in [dir : Nat, entry : Nat]
      OBVIOUS
    <2>8. nodes[p] \in Seq(PlugNode) /\ lp[p] \in Nat /\ head[p] \in Nat
      BY PlugOf
    <2> HIDE DEF a
    <2> QED
      BY <1>1, <2>3, <2>6, <2>7, <2>8, TurnKeeps
  <1> QED
    BY <1>4, <1>5, <1>6, <1>7, <1>8 DEF SRead

(* A session in the search that has seen no failure.                       *)
LEMMA SearchLoads ==
    ASSUME PlugInv, NEW p \in Proc, stage[p] # "conf", ~pending[p], failures = 0
    PROVE  /\ path[p] \in Paths
           /\ Loads(path[p], at[p], nodes[p], lp[p], head[p], stage[p])
  <1>1. Loads(path[p], at[p], nodes[p], lp[p], head[p], stage[p])
    BY PlugOf DEF PlugFits
  <1> QED
    BY <1>1 DEF Loads, Reading

(* The end of a directory: the last plugin is that of search_plugs, unless *)
(* there is a message.                                                     *)
LEMMA DirDonePlugs ==
    ASSUME PlugInv, NEW p \in Proc, stage[p] \in {"scan", "init"},
           NEW message \in BOOLEAN, NEW last \in Nat, DirDone(p, last, message),
           UNCHANGED <<path, nodes>>, failures' \in Nat, failures' = 0 => failures = 0,
           message \/ /\ last = lp[p] /\ message = pending[p] /\ stage[p] = "scan"
                      /\ Dir(p) # None /\ at[p].entry = Len(Dir(p))
    PROVE  PlugInv'
  <1> DEFINE s == IF message \/ at[p].dir = Len(path[p]) THEN "app" ELSE "scan"
             h == IF head[p] = 0 THEN last ELSE head[p]
             a == [dir |-> at[p].dir + 1, entry |-> 0]
  <1>1. /\ path[p] \in Paths \cup {<<>>} /\ at[p] \in [dir : Nat, entry : Nat]
        /\ nodes[p] \in Seq(PlugNode) /\ head[p] \in Nat
    BY PlugOf
  <1>2. Turns(p, s, message, path[p], a, nodes[p], last, h)
    BY PlugOf DEF DirDone, Turns
  <1>3. s \in {"conf", "scan", "init", "app"} /\ h \in Nat /\ a \in [dir : Nat, entry : Nat]
    BY <1>1
  <1>4. PlugFits(s, message, failures', path[p], a, nodes[p], last, h)
    <2>1. CASE message \/ failures' # 0
      BY <2>1 DEF PlugFits
    <2>2. CASE ~message /\ failures' = 0
      <3>1. ~pending[p] /\ failures = 0 /\ last = lp[p] /\ stage[p] = "scan"
        BY <2>2
      <3>2. path[p] \in Paths /\ Loads(path[p], at[p], nodes[p], lp[p], head[p], "scan")
        BY <3>1, SearchLoads
      <3>3. path[p][at[p].dir] # None /\ at[p].entry = Len(path[p][at[p].dir])
        BY <2>2 DEF Dir
      <3>4. Loads(path[p], a, nodes[p], lp[p], h, s)
        BY <2>2, <3>1, <3>2, <3>3, DirEndLoads
      <3> QED
        BY <3>1, <3>4 DEF PlugFits
    <2> QED
      BY <2>1, <2>2
  <1> HIDE DEF a, h, s
  <1> QED
    BY <1>1, <1>2, <1>3, <1>4, TurnKeeps

(* A plugin that is loaded.                                                *)
LEMMA LoadedPlugs ==
    ASSUME PlugInv, NEW p \in Proc, stage[p] \in {"scan", "init"},
           Loaded(p), stage' = Mark(stage, p, "scan"),
           UNCHANGED <<path, head, pending, failures>>,
           ~pending[p] /\ failures = 0 =>
              /\ Dir(p) # None /\ at[p].entry < Len(Dir(p))
              /\ Dir(p)[at[p].entry + 1] \in {"plain", "music"}
    PROVE  PlugInv'
  <1> DEFINE a == [at[p] EXCEPT !.entry = @ + 1]
             l == Len(nodes[p]) + 1
  <1>1. /\ path[p] \in Paths \cup {<<>>} /\ at[p] \in [dir : Nat, entry : Nat]
        /\ nodes[p] \in Seq(PlugNode) /\ head[p] \in Nat /\ pending[p] \in BOOLEAN
        /\ failures \in Nat /\ at \in [Proc -> [dir : Nat, entry : Nat]]
    BY PlugOf DEF PlugInv, PlugTypeOK
  <1>2. Hung(nodes[p], Place(p), lp[p], Linked(p))
    BY <1>1, LinkedHung
  <1>3. at' = Mark(at, p, a)
    BY <1>1 DEF Loaded, Mark
  <1>4. Turns(p, "scan", pending[p], path[p], a, Linked(p), l, head[p])
    BY <1>1, <1>3, PlugOf DEF Loaded, Turns
  <1>5. Linked(p) \in Seq(PlugNode) /\ l \in Nat /\ a \in [dir : Nat, entry : Nat]
    <2>1. Linked(p) \in Seq(PlugNode)
      BY <1>2 DEF Hung
    <2>2. l \in Nat
      BY <1>1, LenProperties
    <2>3. a \in [dir : Nat, entry : Nat]
      BY <1>1
    <2> QED
      BY <2>1, <2>2, <2>3
  <1>6. PlugFits("scan", pending[p], failures', path[p], a, Linked(p), l, head[p])
    <2>1. CASE pending[p] \/ failures' # 0
      BY <2>1 DEF PlugFits
    <2>2. CASE ~pending[p] /\ failures' = 0
      <3>1. path[p] \in Paths
            /\ Loads(path[p], at[p], nodes[p], lp[p], head[p], stage[p])
        BY <2>2, SearchLoads
      <3>2. /\ path[p][at[p].dir] # None /\ at[p].entry < Len(path[p][at[p].dir])
            /\ path[p][at[p].dir][at[p].entry + 1] \in {"plain", "music"}
        BY <2>2 DEF Dir
      <3>3. Hung(nodes[p], <<at[p].dir, at[p].entry + 1>>, lp[p], Linked(p))
        BY <1>2 DEF Place
      <3>4. Loads(path[p], a, Linked(p), l, head[p], "scan")
        BY <3>1, <3>2, <3>3, LoadedLoads
      <3> QED
        BY <3>4 DEF PlugFits
    <2> QED
      BY <2>1, <2>2
  <1> HIDE DEF a, l
  <1> QED
    BY <1>1, <1>4, <1>5, <1>6, TurnKeeps

(* fdbfs_plugins_init.                                                     *)
LEMMA SearchPlugsPlugs ==
    ASSUME PlugInv, NEW p \in Proc, SearchPlugs(p)
    PROVE  PlugInv'
  <1>1. /\ stage[p] = "scan" /\ UNCHANGED <<path, nodes, failures>>
        /\ \/ DirDone(p, 0, TRUE)
           \/ /\ Dir(p) # None /\ at[p].entry = Len(Dir(p))
              /\ DirDone(p, lp[p], pending[p])
    BY DEF SearchPlugs, vars
  <1>2. lp[p] \in Nat /\ pending[p] \in BOOLEAN /\ failures' \in Nat
    BY <1>1, PlugOf
  <1>3. CASE DirDone(p, 0, TRUE)
    BY <1>1, <1>2, <1>3, DirDonePlugs
  <1>4. CASE /\ Dir(p) # None /\ at[p].entry = Len(Dir(p))
             /\ DirDone(p, lp[p], pending[p])
    BY <1>1, <1>2, <1>4, DirDonePlugs
  <1> QED
    BY <1>1, <1>3, <1>4

LEMMA ProbePluginPlugs ==
    ASSUME PlugInv, NEW p \in Proc, ProbePlugin(p)
    PROVE  PlugInv'
  <1> DEFINE kind == Dir(p)[at[p].entry + 1]
             a == [at[p] EXCEPT !.entry = @ + 1]
  <1>1. /\ stage[p] = "scan" /\ UNCHANGED <<path, failures>>
        /\ Dir(p) # None /\ at[p].entry < Len(Dir(p))
    BY DEF ProbePlugin, vars
  <1>2. /\ lp[p] \in Nat /\ pending[p] \in BOOLEAN /\ failures' \in Nat
        /\ path[p] \in Paths \cup {<<>>} /\ at[p] \in [dir : Nat, entry : Nat]
        /\ nodes[p] \in Seq(PlugNode) /\ head[p] \in Nat
        /\ at \in [Proc -> [dir : Nat, entry : Nat]]
    BY <1>1, PlugOf DEF PlugInv, PlugTypeOK
  <1>3. a \in [dir : Nat, entry : Nat]
    BY <1>2
  <1>4. CASE /\ kind = "other" \/ (kind = "broken" /\ ~pending[p])
             /\ at' = [at EXCEPT ![p].entry = @ + 1]
             /\ UNCHANGED <<stage, mibs, nodes, lp, head, pending>>
    <2>1. at' = Mark(at, p, a)
      BY <1>2, <1>4 DEF Mark
    <2>2. Turns(p, "scan", pending[p], path[p], a, nodes[p], lp[p], head[p])
      BY <1>1, <1>2, <1>4, <2>1, PlugOf DEF Turns
    <2>3. PlugFits("scan", pending[p], failures', path[p], a, nodes[p], lp[p], head[p])
      <3>1. CASE pending[p] \/ failures' # 0
        BY <3>1 DEF PlugFits
      <3>2. CASE ~pending[p] /\ failures' = 0
        <4>1. path[p] \in Paths
              /\ Loads(path[p], at[p], nodes[p], lp[p], head[p], "scan")
          BY <1>1, <3>2, SearchLoads
        <4>2. /\ path[p][at[p].dir] # None /\ at[p].entry < Len(path[p][at[p].dir])
              /\ path[p][at[p].dir][at[p].entry + 1] \notin {"plain", "music"}
          BY <1>1, <1>4 DEF Dir
        <4>3. Loads(path[p], a, nodes[p], lp[p], head[p], "scan")
          BY <4>1, <4>2, OtherLoads
        <4> QED
          BY <4>3 DEF PlugFits
      <3> QED
        BY <3>1, <3>2
    <2> HIDE DEF a
    <2> QED
      BY <1>2, <1>3, <2>2, <2>3, TurnKeeps
  <1>5. CASE /\ kind = "broken" /\ pending[p]
             /\ DirDone(p, lp[p], TRUE)
             /\ UNCHANGED <<mibs, nodes>>
    BY <1>1, <1>2, <1>5, DirDonePlugs
  <1>6. CASE kind = "plain" /\ Loaded(p) /\ UNCHANGED <<stage, mibs, head, pending>>
    <2>1. stage' = Mark(stage, p, "scan")
      BY <1>1, <1>6, PlugOf
    <2> QED
      BY <1>1, <1>6, <2>1, LoadedPlugs
  <1>7. CASE /\ kind = "music"
             /\ stage' = Mark(stage, p, "init") /\ mibs' = Mark(mibs, p, PluginMibs)
             /\ UNCHANGED <<at, nodes, lp, head, pending>>
    <2>1. Turns(p, "init", pending[p], path[p], at[p], nodes[p], lp[p], head[p])
      BY <1>1, <1>2, <1>7, PlugOf DEF Turns
    <2>2. PlugFits("init", pending[p], failures', path[p], at[p], nodes[p], lp[p], head[p])
      <3>1. CASE pending[p] \/ failures' # 0
        BY <3>1 DEF PlugFits
      <3>2. CASE ~pending[p] /\ failures' = 0
        <4>1. Loads(path[p], at[p], nodes[p], lp[p], head[p], "scan")
          BY <1>1, <3>2, SearchLoads
        <4>2. /\ path[p][at[p].dir] # None /\ at[p].entry < Len(path[p][at[p].dir])
              /\ path[p][at[p].dir][at[p].entry + 1] = "music"
          BY <1>1, <1>7 DEF Dir
        <4>3. Loads(path[p], at[p], nodes[p], lp[p], head[p], "init")
          BY <4>1, <4>2 DEF Loads, Reading
        <4> QED
          BY <4>3 DEF PlugFits
      <3> QED
        BY <3>1, <3>2
    <2> QED
      BY <1>2, <2>1, <2>2, TurnKeeps
  <1> QED
    BY <1>4, <1>5, <1>6, <1>7 DEF ProbePlugin

(* The plugin that was in its init: an entry that is a plugin, as stage    *)
(* "init" remembers.                                                       *)
LEMMA PluginReadyPlugs ==
    ASSUME PlugInv, NEW p \in Proc, PluginReady(p)
    PROVE  PlugInv'
  <1>1. /\ stage[p] = "init" /\ Loaded(p) /\ stage' = Mark(stage, p, "scan")
        /\ UNCHANGED <<path, head, pending, failures>>
    BY DEF PluginReady, vars
  <1>2. ASSUME ~pending[p], failures = 0
        PROVE  /\ Dir(p) # None /\ at[p].entry < Len(Dir(p))
               /\ Dir(p)[at[p].entry + 1] \in {"plain", "music"}
    <2>1. Loads(path[p], at[p], nodes[p], lp[p], head[p], "init")
      BY <1>1, <1>2, SearchLoads
    <2> QED
      BY <2>1 DEF Loads, Reading, Dir
  <1> QED
    BY <1>1, <1>2, LoadedPlugs

(* Sets, of plugins and of the application.                                *)
LEMMA SetsPlugs ==
    ASSUME PlugInv, NEW p \in Proc,
           \/ MibTest(p) \/ SStore(p) \/ SStoreFails(p)
           \/ \E mib \in Mib, v \in Value : SSet(p, mib, v)
    PROVE  PlugInv'
  <1>1. CASE MibTest(p)
    BY <1>1, PlugUntouched DEF MibTest, ConfSet, session, vars
  <1>2. CASE SStore(p)
    BY <1>2, PlugUntouched DEF SStore, Store
  <1>3. CASE \E mib \in Mib, v \in Value : SSet(p, mib, v)
    BY <1>3, PlugUntouched DEF SSet, Set, ConfSet, session
  <1>4. CASE SStoreFails(p)
    <2>1. failures' \in Nat /\ failures' # 0 /\ UNCHANGED <<path, nodes>>
      BY <1>4, FailsCounts, PlugOf DEF SStoreFails, StoreFails
    <2>2. CASE stage[p] = "init" /\ DirDone(p, lp[p], TRUE)
      BY <2>1, <2>2, PlugOf, DirDonePlugs
    <2>3. CASE /\ stage[p] = "app" /\ pending' = Mark(pending, p, FALSE)
               /\ UNCHANGED <<stage, mibs, lp, head, at>>
      BY <2>1, <2>3, PlugStays
    <2> QED
      BY <1>4, <2>2, <2>3 DEF SStoreFails
  <1> QED
    BY <1>1, <1>2, <1>3, <1>4

(* The end of a session.                                                   *)
LEMMA EndedPlugs ==
    ASSUME PlugInv, NEW p \in Proc,
           SClose(p) \/ (\E mib \in Mib : SDies(p, mib)) \/ (Crash(p) /\ Away(p))
    PROVE  PlugInv'
  <1> DEFINE a == [dir |-> 0, entry |-> 0]
  <1>1. Away(p) /\ (failures' = failures \/ Fails)
    BY DEF SClose, Close, SDies, SetDies, Crash
  <1>2. failures' \in Nat /\ (failures' = 0 => failures = 0)
    BY <1>1, FailsCounts, PlugOf
  <1>3. Turns(p, "conf", FALSE, <<>>, a, <<>>, 0, 0)
    BY <1>1, <1>2 DEF Away, Turns
  <1>4. PlugFits("conf", FALSE, failures', <<>>, a, <<>>, 0, 0)
    BY DEF PlugFits
  <1>5. a \in [dir : Nat, entry : Nat] /\ <<>> \in Seq(PlugNode)
    OBVIOUS
  <1> HIDE DEF a
  <1> QED
    BY <1>3, <1>4, <1>5, TurnKeeps

LEMMA PlugInvAlways == SSpec => []PlugInv
<1>1. SInit => PlugInv
  <2> SUFFICES ASSUME SInit PROVE PlugInv
    OBVIOUS
  <2>1. PlugTypeOK
    BY DEF SInit, Init, PlugTypeOK
  <2>2. \A p \in Proc : PlugFits(stage[p], pending[p], failures, path[p], at[p],
                                 nodes[p], lp[p], head[p])
    BY DEF SInit, PlugFits
  <2> QED
    BY <2>1, <2>2 DEF PlugInv
<1>2. PlugInv /\ Stages /\ [SNext]_<<vars, session>> => PlugInv'
  <2> SUFFICES ASSUME PlugInv, Stages, [SNext]_<<vars, session>> PROVE PlugInv'
    OBVIOUS
  <2>1. CASE SNext
    <3>1. PICK p \in Proc :
             \/ SOpen(p) \/ SCreate(p) \/ SSetDefault(p) \/ SRead(p)
             \/ SearchPlugs(p) \/ ProbePlugin(p) \/ MibTest(p) \/ PluginReady(p)
             \/ \E mib \in Mib, v \in Value : SSet(p, mib, v)
             \/ \E mib \in Mib : SDies(p, mib)
             \/ SStore(p) \/ SStoreFails(p) \/ SClose(p)
             \/ (Crash(p) /\ Away(p))
      BY <2>1 DEF SNext
    <3>2. CASE SOpen(p) \/ SCreate(p) \/ SSetDefault(p) \/ SRead(p)
      BY <3>2, ConfInitPlugs
    <3>3. CASE SearchPlugs(p)
      BY <3>3, SearchPlugsPlugs
    <3>4. CASE ProbePlugin(p)
      BY <3>4, ProbePluginPlugs
    <3>5. CASE PluginReady(p)
      BY <3>5, PluginReadyPlugs
    <3>6. CASE \/ MibTest(p) \/ SStore(p) \/ SStoreFails(p)
               \/ \E mib \in Mib, v \in Value : SSet(p, mib, v)
      BY <3>6, SetsPlugs
    <3>7. CASE SClose(p) \/ (\E mib \in Mib : SDies(p, mib)) \/ (Crash(p) /\ Away(p))
      BY <3>7, EndedPlugs
    <3> QED
      BY <3>1, <3>2, <3>3, <3>4, <3>5, <3>6, <3>7
  <2>2. CASE UNCHANGED <<vars, session>>
    BY <2>2, PlugUntouched DEF vars, session
  <2> QED
    BY <2>1, <2>2
<1> QED
  BY <1>1, <1>2, StagesAlways, PTL DEF SSpec

-----------------------------------------------------------------------------
(* A sequence with an element put before it.                               *)
LEMMA PutBefore ==
    ASSUME NEW S, NEW e \in S, NEW t \in Seq(S)
    PROVE  /\ <<e>> \o t \in Seq(S) /\ Len(<<e>> \o t) = Len(t) + 1
           /\ (<<e>> \o t)[1] = e /\ \A i \in 1..Len(t) : (<<e>> \o t)[i + 1] = t[i]
  <1>1. PICK one : /\ one = <<e>> /\ one \in Seq(S) /\ Len(one) = 1 /\ one[1] = e
    <2>1. <<e>> \in Seq(S) /\ Len(<<e>>) = 1 /\ <<e>>[1] = e
      OBVIOUS
    <2> QED
      BY <2>1, Zenon
  <1>2. PICK m \in Nat : m = Len(t)
    OBVIOUS
  <1>3. PICK u : /\ u = one \o t /\ u \in Seq(S) /\ Len(u) = Len(one) + Len(t)
                 /\ \A i \in 1..(Len(one) + Len(t)) :
                       u[i] = IF i <= Len(one) THEN one[i] ELSE t[i - Len(one)]
    <2>1. /\ one \o t \in Seq(S) /\ Len(one \o t) = Len(one) + Len(t)
          /\ \A i \in 1..(Len(one) + Len(t)) :
                (one \o t)[i] = IF i <= Len(one) THEN one[i] ELSE t[i - Len(one)]
      BY <1>1, ConcatProperties, Zenon
    <2> QED
      BY <2>1, Zenon
  <1>4. Len(u) = m + 1 /\ \A i \in 1..(1 + m) : u[i] = IF i <= 1 THEN one[i] ELSE t[i - 1]
    BY <1>1, <1>2, <1>3
  <1>5. u[1] = e
    BY <1>1, <1>2, <1>4
  <1>6. ASSUME NEW i \in 1..m PROVE u[i + 1] = t[i]
    <2>1. i + 1 \in 1..(1 + m) /\ ~(i + 1 <= 1) /\ (i + 1) - 1 = i
      BY <1>2
    <2> QED
      BY <1>4, <2>1
  <1> QED
    BY <1>1, <1>2, <1>3, <1>4, <1>5, <1>6

(* The list that is found from plugin h of a chain on.                     *)
Spot == Nat \X Nat

From(ns, h) == [k \in 1..(Len(ns) - h + 1) |-> ns[h + k - 1].from]

LEMMA FromIs ==
    ASSUME NEW ns \in Seq(PlugNode), NEW h \in 1..(Len(ns) + 1)
    PROVE  /\ From(ns, h) \in Seq(Spot) /\ Len(From(ns, h)) = Len(ns) - h + 1
           /\ \A k \in 1..(Len(ns) - h + 1) : From(ns, h)[k] = ns[h + k - 1].from
           /\ h <= Len(ns) => From(ns, h) = <<ns[h].from>> \o From(ns, h + 1)
  <1>1. PICK n \in Nat : n = Len(ns)
    OBVIOUS
  <1>2. ASSUME NEW i \in 1..(n + 1)
        PROVE  /\ From(ns, i) \in Seq(Spot) /\ Len(From(ns, i)) = n - i + 1
               /\ \A k \in 1..(n - i + 1) : From(ns, i)[k] = ns[i + k - 1].from
    <2>0. n - i + 1 \in Nat
      BY <1>1
    <2>1. PICK m \in Nat : m = n - i + 1
      BY <2>0
    <2>2. ASSUME NEW k \in 1..m PROVE ns[i + k - 1].from \in Spot
      <3>1. i + k - 1 \in 1..n
        BY <1>1, <2>1
      <3>2. ns[i + k - 1] \in PlugNode
        BY <1>1, <3>1
      <3> QED
        BY <3>2 DEF PlugNode, Spot
    <2>3. From(ns, i) = [k \in 1..m |-> ns[i + k - 1].from]
      BY <1>1, <2>1 DEF From
    <2>4. From(ns, i) \in [1..m -> Spot]
      BY <2>2, <2>3
    <2>5. From(ns, i) \in Seq(Spot)
      BY <2>4, SeqDef
    <2>6. Len(From(ns, i)) = m
      BY <2>4, <2>5, LenProperties
    <2> QED
      BY <2>1, <2>3, <2>5, <2>6
  <1>3. ASSUME h <= n
        PROVE  From(ns, h) = <<ns[h].from>> \o From(ns, h + 1)
    <2> DEFINE e == ns[h].from
    <2>1. h \in 1..(n + 1) /\ h + 1 \in 1..(n + 1) /\ h \in 1..n
      BY <1>1, <1>3
    <2>2. PICK s : /\ s \in Seq(Spot) /\ s = From(ns, h) /\ Len(s) = n - h + 1
                   /\ \A k \in 1..(n - h + 1) : s[k] = ns[h + k - 1].from
      BY <1>2, <2>1
    <2>3. PICK t : /\ t \in Seq(Spot) /\ t = From(ns, h + 1)
                   /\ Len(t) = n - (h + 1) + 1
                   /\ \A k \in 1..(n - (h + 1) + 1) : t[k] = ns[(h + 1) + k - 1].from
      BY <1>2, <2>1
    <2>4. s[1] = e
      BY <2>1, <2>2
    <2>5. e \in Spot
      <3>1. ns[h] \in PlugNode
        BY <1>1, <2>1
      <3> QED
        BY <3>1 DEF PlugNode, Spot
    <2> HIDE DEF e
    <2>6. PICK u : /\ u = <<e>> \o t /\ u \in Seq(Spot) /\ Len(u) = Len(t) + 1
                   /\ u[1] = e /\ \A i \in 1..Len(t) : u[i + 1] = t[i]
      <3>1. /\ <<e>> \o t \in Seq(Spot) /\ Len(<<e>> \o t) = Len(t) + 1
            /\ (<<e>> \o t)[1] = e /\ \A i \in 1..Len(t) : (<<e>> \o t)[i + 1] = t[i]
        <4>1. e \in Spot /\ t \in Seq(Spot)
          BY <2>3, <2>5
        <4> QED
          BY ONLY <4>1, PutBefore
      <3> QED
        BY <3>1, Zenon
    <2>7. Len(u) = n - h + 1 /\ Len(t) = n - h
      <3>1. n - (h + 1) + 1 = n - h /\ (n - h) + 1 = n - h + 1
        BY <1>1, <2>1
      <3>2. Len(t) = n - h
        BY <2>3, <3>1
      <3>3. Len(u) = (n - h) + 1
        BY <2>6, <3>2
      <3> QED
        BY <3>1, <3>2, <3>3
    <2>8. ASSUME NEW i \in 1..(n - h + 1) PROVE s[i] = u[i]
      <3>1. CASE i = 1
        BY <2>4, <2>6, <3>1
      <3>2. CASE i # 1
        <4>1. PICK k \in 1..(n - h) : i = k + 1
          BY <1>1, <2>1, <3>2
        <4>2. u[i] = t[k]
          BY <2>6, <2>7, <4>1
        <4>3. t[k] = ns[h + i - 1].from
          <5>1. k \in 1..(n - (h + 1) + 1) /\ (h + 1) + k - 1 = h + i - 1
            BY <1>1, <2>1, <4>1
          <5> QED
            BY <2>3, <5>1
        <4>4. s[i] = ns[h + i - 1].from
          BY <2>2
        <4> QED
          BY <4>2, <4>3, <4>4
      <3> QED
        BY <3>1, <3>2
    <2>9. s = u
      BY <2>2, <2>6, <2>7, <2>8, SeqEqual
    <2> QED
      BY <2>2, <2>3, <2>6, <2>9 DEF e
  <1> QED
    BY <1>1, <1>2, <1>3

(* The walk, from the last plugin backwards.                               *)
LEMMA ListedIs ==
    ASSUME NEW p \in Proc, nodes[p] \in Seq(PlugNode),
           \A i \in 1..Len(nodes[p]) :
              nodes[p][i].next = IF i = Len(nodes[p]) THEN 0 ELSE i + 1,
           head[p] \in 0..Len(nodes[p])
    PROVE  Listed(p) = IF head[p] = 0 THEN <<>> ELSE From(nodes[p], head[p])
  <1> DEFINE walk[i \in 0..Len(nodes[p])] ==
               IF i = 0 THEN <<>> ELSE <<nodes[p][i].from>> \o walk[nodes[p][i].next]
  <1>1. PICK n \in Nat : n = Len(nodes[p])
    OBVIOUS
  <1>2. PICK ns \in Seq(PlugNode) : ns = nodes[p]
    OBVIOUS
  <1>3. \A i \in 1..n : ns[i].next = IF i = n THEN 0 ELSE i + 1
    BY <1>1, <1>2
  <1>4. From(ns, n + 1) = <<>>
    <2>1. n + 1 \in 1..(Len(ns) + 1) /\ Len(ns) - (n + 1) + 1 = 0
      BY <1>1, <1>2
    <2>2. From(ns, n + 1) \in Seq(Spot) /\ Len(From(ns, n + 1)) = 0
      BY <2>1, <1>2, FromIs
    <2> QED
      BY <2>2, EmptySeq
  <1>5. ASSUME NEW i \in 1..n PROVE From(ns, i) = <<ns[i].from>> \o From(ns, i + 1)
    <2>1. i \in 1..(Len(ns) + 1) /\ i <= Len(ns)
      BY <1>1, <1>2
    <2> QED
      BY <2>1, <1>2, FromIs
  <1>6. \E v : v = [i \in 0..Len(nodes[p]) |->
                      IF i = 0 THEN <<>> ELSE <<nodes[p][i].from>> \o v[nodes[p][i].next]]
    <2> DEFINE v == [i \in 0..n |-> IF i = 0 THEN <<>> ELSE From(ns, i)]
    <2>1. ASSUME NEW i \in 1..n PROVE v[i] = <<ns[i].from>> \o v[ns[i].next]
      <3>1. CASE i = n
        <4>1. v[ns[i].next] = <<>> /\ v[i] = From(ns, i)
          BY <1>3, <3>1
        <4> HIDE DEF v
        <4> QED
          BY <1>4, <1>5, <3>1, <4>1
      <3>2. CASE i # n
        <4>1. ns[i].next = i + 1 /\ i + 1 \in 0..n /\ i + 1 # 0
          BY <1>3, <3>2
        <4>2. v[ns[i].next] = From(ns, i + 1) /\ v[i] = From(ns, i)
          BY <4>1
        <4> HIDE DEF v
        <4> QED
          BY <1>5, <4>2
      <3> QED
        BY <3>1, <3>2
    <2>2. v = [i \in 0..n |-> v[i]] /\ v[0] = <<>>
      OBVIOUS
    <2> HIDE DEF v
    <2>3. ASSUME NEW i \in 0..n
          PROVE  v[i] = IF i = 0 THEN <<>> ELSE <<ns[i].from>> \o v[ns[i].next]
      <3>1. CASE i = 0
        BY <2>2, <3>1
      <3>2. CASE i # 0
        BY <1>1, <2>1, <3>2
      <3> QED
        BY <3>1, <3>2
    <2>4. v = [i \in 0..n |-> IF i = 0 THEN <<>> ELSE <<ns[i].from>> \o v[ns[i].next]]
      BY <2>2, <2>3
    <2> QED
      BY <1>1, <1>2, <2>4
  <1>7. walk = [i \in 0..Len(nodes[p]) |->
                  IF i = 0 THEN <<>> ELSE <<nodes[p][i].from>> \o walk[nodes[p][i].next]]
    BY <1>6
  <1>8. Listed(p) = walk[head[p]]
    BY DEF Listed
  <1> HIDE DEF walk
  <1>9. walk[0] = <<>> /\ \A i \in 1..n : walk[i] = <<ns[i].from>> \o walk[ns[i].next]
    <2>1. \A i \in 0..n : walk[i] = IF i = 0 THEN <<>> ELSE <<ns[i].from>> \o walk[ns[i].next]
      BY <1>1, <1>2, <1>7
    <2>2. 0 \in 0..n /\ \A i \in 1..n : i \in 0..n /\ i # 0
      BY <1>1
    <2> QED
      BY <2>1, <2>2
  <1>10. 0..n \subseteq {k \in Nat : k < n => walk[n - k] = From(ns, n - k)}
    <2> DEFINE T == {k \in Nat : k < n => walk[n - k] = From(ns, n - k)}
    <2>1. 0 \in T
      <3>1. CASE n = 0
        BY <3>1
      <3>2. CASE n # 0
        <4>1. n \in 1..n /\ ns[n].next = 0 /\ n - 0 = n
          BY <1>3, <3>2
        <4>2. walk[n] = <<ns[n].from>> \o walk[0] /\ From(ns, n) = <<ns[n].from>> \o From(ns, n + 1)
          BY <1>5, <1>9, <4>1
        <4> QED
          BY <1>4, <1>9, <4>1, <4>2
      <3> QED
        BY <3>1, <3>2
    <2>2. ASSUME NEW k \in 0..(n - 1), k \in T PROVE k + 1 \in T
      <3>1. CASE k + 1 < n
        <4>1. PICK i \in 1..n : i = n - (k + 1)
          BY <3>1
        <4>2. i + 1 = n - k /\ i # n /\ k < n
          BY <4>1
        <4>3. walk[i + 1] = From(ns, i + 1)
          BY <2>2, <4>2
        <4>4. walk[i] = <<ns[i].from>> \o walk[i + 1]
          BY <1>3, <1>9, <4>2
        <4>5. walk[i] = From(ns, i)
          BY <1>5, <4>3, <4>4
        <4> QED
          BY <4>1, <4>5
      <3>2. CASE ~(k + 1 < n)
        BY <3>2
      <3> QED
        BY <3>1, <3>2
    <2> HIDE DEF T
    <2>3. 0..n \subseteq T
      BY <2>1, <2>2, InductionTo
    <2> QED
      BY <2>3 DEF T
  <1>11. ASSUME head[p] # 0 PROVE walk[head[p]] = From(ns, head[p])
    <2>1. PICK h \in 1..n : h = head[p]
      BY <1>1, <1>11
    <2>2. n - h \in 0..n /\ n - h < n /\ n - (n - h) = h
      OBVIOUS
    <2>3. walk[n - (n - h)] = From(ns, n - (n - h))
      BY <1>10, <2>2
    <2> QED
      BY <2>1, <2>2, <2>3
  <1> QED
    BY <1>2, <1>8, <1>9, <1>11

(* The order of places is one.                                             *)
LEMMA BeforeIs ==
    ASSUME NEW x, NEW y, x[1] \in Nat, x[2] \in Nat, y[1] \in Nat, y[2] \in Nat
    PROVE  /\ Before(x, y) => x[1] <= y[1] /\ ~Before(y, x)
           /\ x[1] <= y[1] /\ y[1] <= x[1] => x[1] = y[1]
           /\ x[1] = y[1] /\ x[2] < y[2] => Before(x, y) /\ x # y
  <1>1. PICK d \in Nat, e \in Nat, f \in Nat, g \in Nat :
           d = x[1] /\ e = x[2] /\ f = y[1] /\ g = y[2]
    OBVIOUS
  <1> QED
    BY <1>1 DEF Before

(* At the end of the search, the list from head on.                        *)
LEMMA AppFinds ==
    ASSUME NEW search \in Paths, NEW a, NEW ns, NEW l, NEW h,
           Loads(search, a, ns, l, h, "app"),
           NEW found, found = IF h = 0 THEN <<>> ELSE From(ns, h)
    PROVE  /\ Range(found) = Places(search) \ Lost(search)
           /\ \A i, j \in DOMAIN found : i < j => Before(found[i], found[j])
  <1>1. /\ ns \in Seq(PlugNode) /\ Len(ns) \in Nat
        /\ a \in [dir : Nat \ {0}, entry : Nat] /\ a.dir = Len(search) + 1
        /\ Len(search) \in Nat
    BY PathTyped DEF Loads, Chain, Reading
  <1>2. ASSUME NEW x \in Places(search)
        PROVE  /\ x[1] \in 1..Len(search) /\ x[1] \in Nat /\ x[2] \in Nat
               /\ x[1] < a.dir /\ x \in Seen(search, a)
    <2>1. /\ x[1] \in 1..Len(search) /\ search[x[1]] # None
          /\ x[2] \in 1..Len(search[x[1]])
      BY PlaceIs
    <2>2. x[1] < a.dir /\ x[1] \in Nat /\ x[2] \in Nat
      BY <1>1, <2>1
    <2> QED
      BY <2>1, <2>2 DEF Seen
  <1>3. \A x : x \in Places(search) <=> \E i \in 1..Len(ns) : ns[i].from = x
    BY <1>2 DEF Loads, Chain, Seen
  <1>4. \A i \in 1..Len(ns) :
           ns[i].from \in Places(search) /\ ns[i].from[1] \in Nat /\ ns[i].from[2] \in Nat
    BY <1>2, <1>3
  <1>5. \A i, j \in 1..Len(ns) : i < j => Before(ns[i].from, ns[j].from)
    BY DEF Loads, Chain
  <1>6. CASE h = 0
    <2>1. Len(ns) = 0
      <3>1. ASSUME Len(ns) # 0 PROVE FALSE
        <4>1. 1 \in 1..Len(ns)
          BY <1>1, <3>1
        <4>2. ns[1].from[1] = a.dir
          BY <1>6, <4>1 DEF Loads, HeadIs
        <4>3. ns[1].from[1] < a.dir /\ ns[1].from[1] \in Nat
          BY <1>2, <1>4, <4>1
        <4> QED
          BY <1>1, <4>2, <4>3
      <3> QED
        BY <3>1
    <2>2. Places(search) = {}
      BY <1>3, <2>1
    <2>3. found = <<>> /\ DOMAIN found = {} /\ Range(found) = {}
      BY <1>6 DEF Range
    <2> QED
      BY <2>2, <2>3
  <1>7. CASE h # 0
    <2>1. /\ h \in 1..Len(ns) /\ 1 \in 1..Len(ns)
          /\ \A i \in 1..Len(ns) : (ns[i].from[1] = ns[1].from[1]) <=> i <= h
      BY <1>1, <1>7 DEF Loads, HeadIs
    <2>2. /\ DOMAIN found = 1..(Len(ns) - h + 1)
          /\ \A k \in 1..(Len(ns) - h + 1) : found[k] = ns[h + k - 1].from
      BY <1>1, <1>7, <2>1 DEF From
    <2>3. ASSUME NEW x \in Range(found)
          PROVE  \E i \in 1..Len(ns) : h <= i /\ ns[i].from = x
      <3>1. PICK k \in 1..(Len(ns) - h + 1) : x = ns[h + k - 1].from
        BY <2>2 DEF Range
      <3>2. h + k - 1 \in 1..Len(ns) /\ h <= h + k - 1
        <4>1. PICK n \in Nat : n = Len(ns)
          BY <1>1
        <4>2. h \in 1..n /\ k \in 1..(n - h + 1)
          BY <2>1, <3>1, <4>1
        <4>3. h + k - 1 \in 1..n /\ h <= h + k - 1
          BY <4>1, <4>2
        <4> QED
          BY <4>1, <4>3
      <3> QED
        BY <3>1, <3>2
    <2>4. ASSUME NEW i \in 1..Len(ns), h <= i PROVE ns[i].from \in Range(found)
      <3>1. i - h + 1 \in 1..(Len(ns) - h + 1) /\ h + (i - h + 1) - 1 = i
        BY <1>1, <2>1, <2>4
      <3>2. found[i - h + 1] = ns[i].from
        BY <2>2, <3>1
      <3> QED
        BY <2>2, <3>1, <3>2 DEF Range
    <2>5. ASSUME NEW i \in 1..Len(ns), i < h PROVE ns[i].from \in Lost(search)
      <3>1. ns[i].from[1] = ns[1].from[1] /\ ns[h].from[1] = ns[1].from[1]
        BY <2>1, <2>5
      <3>2. ns[i].from[2] < ns[h].from[2]
        BY <1>4, <1>5, <2>1, <2>5, <3>1 DEF Before
      <3>3. ASSUME NEW y \in Places(search) PROVE ns[i].from[1] <= y[1]
        <4>1. PICK j \in 1..Len(ns) : ns[j].from = y
          BY <1>3, <3>3
        <4>2. CASE j = 1
          BY <1>4, <2>1, <3>1, <4>1, <4>2
        <4>3. CASE j # 1
          <5>1. Before(ns[1].from, ns[j].from)
            BY <1>5, <2>1, <4>1, <4>3
          <5> QED
            BY <1>4, <2>1, <3>1, <4>1, <5>1, BeforeIs
        <4> QED
          BY <4>2, <4>3
      <3>4. ns[i].from \in Places(search) /\ ns[h].from \in Places(search)
        BY <1>4, <2>1
      <3> QED
        BY <3>1, <3>2, <3>3, <3>4 DEF Lost
    <2>6. ASSUME NEW i \in 1..Len(ns), ns[i].from \in Lost(search) PROVE i < h
      <3> DEFINE x == ns[i].from
      <3>1. /\ x \in Places(search) /\ \A y \in Places(search) : x[1] <= y[1]
            /\ \E y \in Places(search) : x[1] = y[1] /\ x[2] < y[2]
        BY <2>6 DEF Lost
      <3>2. x = ns[i].from /\ x[1] \in Nat /\ x[2] \in Nat
        BY <1>4
      <3> HIDE DEF x
      <3>3. PICK j \in 1..Len(ns) : x[1] = ns[j].from[1] /\ x[2] < ns[j].from[2]
        BY <1>3, <3>1
      <3>4. x[1] <= ns[1].from[1] /\ ns[1].from[1] \in Nat
        BY <1>4, <2>1, <3>1
      <3>5. ns[1].from[1] <= x[1]
        <4>1. CASE i = 1
          BY <3>2, <4>1
        <4>2. CASE i # 1
          <5>1. Before(ns[1].from, x)
            BY <1>5, <2>1, <3>2, <4>2
          <5> QED
            BY <3>2, <3>4, <5>1 DEF Before
        <4> QED
          BY <4>1, <4>2
      <3>6. x[1] = ns[1].from[1]
        BY <1>4, <2>1, <3>2, <3>4, <3>5, BeforeIs
      <3>7. j <= h
        BY <2>1, <3>3, <3>6
      <3>8. i < j
        <4>1. j # i
          BY <3>2, <3>3
        <4>2. ~(j < i)
          <5>1. ASSUME j < i PROVE FALSE
            <6>1. Before(ns[j].from, x)
              BY <1>5, <3>2, <3>3, <5>1
            <6>2. ns[j].from[1] \in Nat /\ ns[j].from[2] \in Nat
              BY <1>4, <3>3
            <6> QED
              BY <3>2, <3>3, <6>1, <6>2, BeforeIs
          <5> QED
            BY <5>1
        <4> QED
          BY <3>3, <4>1, <4>2
      <3> QED
        BY <1>1, <2>1, <3>3, <3>7, <3>8
    <2>7. Range(found) = Places(search) \ Lost(search)
      <3>1. ASSUME NEW x \in Range(found) PROVE x \in Places(search) \ Lost(search)
        <4>1. PICK i \in 1..Len(ns) : h <= i /\ ns[i].from = x
          BY <2>3, <3>1
        <4>2. ~(i < h)
          BY <1>1, <2>1, <4>1
        <4> QED
          BY <1>4, <2>6, <4>1, <4>2
      <3>2. ASSUME NEW x \in Places(search) \ Lost(search) PROVE x \in Range(found)
        <4>1. PICK i \in 1..Len(ns) : ns[i].from = x
          BY <1>3, <3>2
        <4>2. ~(i < h)
          BY <2>5, <3>2, <4>1
        <4>3. h <= i
          BY <1>1, <2>1, <4>1, <4>2
        <4> QED
          BY <2>4, <4>1, <4>3
      <3> QED
        BY <3>1, <3>2
    <2>8. ASSUME NEW i \in DOMAIN found, NEW j \in DOMAIN found, i < j
          PROVE  Before(found[i], found[j])
      <3>1. h + i - 1 \in 1..Len(ns) /\ h + j - 1 \in 1..Len(ns) /\ h + i - 1 < h + j - 1
        BY <1>1, <2>1, <2>2, <2>8
      <3> QED
        BY <1>5, <2>2, <3>1
    <2> QED
      BY <2>7, <2>8
  <1> QED
    BY <1>6, <1>7

(* Of the first directory that has plugins the application finds the last, *)
(* of the later ones all, in the order of the search path                  *)
(* (FirstDirectoryLosesAllButLast): plugins_init starts its list with what *)
(* search_plugs returns, the last it has linked.                           *)
THEOREM PluginsFound == SSpec => []FirstDirectoryLosesAllButLast
<1>1. PlugInv => FirstDirectoryLosesAllButLast
  <2> SUFFICES ASSUME PlugInv, NEW p \in Proc, InApp(p), ~pending[p], failures = 0
               PROVE  /\ Range(Listed(p)) = Places(path[p]) \ Lost(path[p])
                      /\ \A i, j \in DOMAIN Listed(p) :
                            i < j => Before(Listed(p)[i], Listed(p)[j])
    BY DEF FirstDirectoryLosesAllButLast
  <2>1. path[p] \in Paths /\ Loads(path[p], at[p], nodes[p], lp[p], head[p], "app")
    BY SearchLoads DEF InApp
  <2>2. /\ nodes[p] \in Seq(PlugNode)
        /\ \A i \in 1..Len(nodes[p]) :
              nodes[p][i].next = IF i = Len(nodes[p]) THEN 0 ELSE i + 1
        /\ head[p] \in 0..Len(nodes[p])
    BY <2>1 DEF Loads, Chain, HeadIs
  <2>3. Listed(p) = IF head[p] = 0 THEN <<>> ELSE From(nodes[p], head[p])
    BY <2>2, ListedIs
  <2> QED
    BY <2>1, <2>3, AppFinds
<1> QED
  BY <1>1, PlugInvAlways, PTL

-----------------------------------------------------------------------------
(***************************************************************************)
(* The configuration, for any number of sessions, any MIBs, values, search *)
(* paths and failures: a tree finds what its session read and set, a set   *)
(* that returned success is in the table, and table and sessions implement *)
(* ConfMap.                                                                *)
(*                                                                         *)
(* Nodes are told apart by their full names: in a tree that conf_add_to_   *)
(* tree made no two nodes have one name, so that a walk by tags finds the  *)
(* node whatever was put before what.                                      *)
(***************************************************************************)

(* Each MIB has a dot and none is a branch of another, as of all MIBs of   *)
(* the instance: a set of a branch changes the tree and no row, a name     *)
(* without a dot never gets into a tree.                                   *)
Prefix(m, k) == [i \in 1..k |-> m[i]]

MibsAreLeaves ==
    /\ \A m \in Mib : Len(m) > 1
    /\ \A m, n \in Mib : \A k \in 1..(Len(n) - 1) : m # Prefix(n, k)

-----------------------------------------------------------------------------
(* Names.                                                                  *)

LEMMA MibTyped ==
    ASSUME NEW m \in Mib
    PROVE  m \in Seq(Tag) /\ m # <<>> /\ Len(m) \in Nat \ {0}
  <1>1. m \in Seq(Tag) /\ Len(m) > 0
    BY ConfigConstants DEF Tag
  <1>2. Len(<<>>) = 0 /\ Len(m) \in Nat
    BY <1>1, EmptySeq, LenProperties
  <1> QED
    BY <1>1, <1>2

LEMMA LastIs ==
    ASSUME NEW m \in Seq(Tag), m # <<>>
    PROVE  Last(m) = m[Len(m)] /\ Last(m) \in Tag
  <1>1. Len(m) \in 1..Len(m)
    BY EmptySeq, LenProperties
  <1> QED
    BY <1>1 DEF Last

LEMMA PrefixSeq ==
    ASSUME NEW m \in Seq(Tag), NEW k \in 0..Len(m)
    PROVE  Prefix(m, k) \in Seq(Tag) /\ Len(Prefix(m, k)) = k
BY DEF Prefix

LEMMA PrefixWhole ==
    ASSUME NEW m \in Seq(Tag)
    PROVE  Prefix(m, 0) = <<>> /\ Prefix(m, Len(m)) = m
  <1>1. Prefix(m, 0) = <<>>
    BY DEF Prefix
  <1>2. Prefix(m, Len(m)) = m
    BY DEF Prefix
  <1> QED
    BY <1>1, <1>2

LEMMA PrefixStep ==
    ASSUME NEW m \in Seq(Tag), NEW k \in 1..Len(m)
    PROVE  Prefix(m, k) = Append(Prefix(m, k - 1), m[k]) /\ m[k] \in Tag
  <1> DEFINE s == Prefix(m, k)
             u == Append(Prefix(m, k - 1), m[k])
  <1>1. m[k] \in Tag
    OBVIOUS
  <1>2. k - 1 \in 0..Len(m) /\ k \in 0..Len(m)
    OBVIOUS
  <1>3. Prefix(m, k - 1) \in Seq(Tag) /\ Len(Prefix(m, k - 1)) = k - 1
    BY <1>2, PrefixSeq
  <1>4. s \in Seq(Tag) /\ Len(s) = k
    BY <1>2, PrefixSeq
  <1>5. u \in Seq(Tag) /\ Len(u) = k
    BY <1>1, <1>3, AppendProperties
  <1>6. ASSUME NEW i \in 1..k PROVE s[i] = u[i]
    <2>1. s[i] = m[i]
      BY DEF Prefix
    <2>2. CASE i = k
      BY <2>1, <2>2, <1>1, <1>3, AppendProperties
    <2>3. CASE i # k
      <3>1. i \in 1..(k - 1)
        BY <2>3
      <3>2. Prefix(m, k - 1)[i] = m[i]
        BY <3>1 DEF Prefix
      <3> QED
        BY <2>1, <3>1, <3>2, <1>1, <1>3, AppendProperties
    <2> QED
      BY <2>2, <2>3
  <1> HIDE DEF s, u
  <1>7. s = u
    BY <1>4, <1>5, <1>6, SeqEqual
  <1> QED
    BY <1>1, <1>7 DEF s, u

LEMMA AppendSame ==
    ASSUME NEW s \in Seq(Tag), NEW u \in Seq(Tag), NEW a \in Tag, NEW b \in Tag,
           Append(s, a) = Append(u, b)
    PROVE  s = u /\ a = b
  <1>1. Append(s, a) = Append(u, b) <=> s = u /\ a = b
    BY AppendInjective
  <1> QED
    BY <1>1, Zenon

LEMMA AppendLonger ==
    ASSUME NEW s \in Seq(Tag), NEW a \in Tag
    PROVE  Append(s, a) \in Seq(Tag) /\ Append(s, a) # <<>>
  <1>1. Append(s, a) \in Seq(Tag) /\ Len(Append(s, a)) = Len(s) + 1 /\ Len(s) \in Nat
    BY AppendProperties, LenProperties
  <1>2. Len(<<>>) = 0
    BY EmptySeq
  <1>3. Len(Append(s, a)) # 0
    BY <1>1
  <1> QED
    BY <1>1, <1>2, <1>3, Zenon

-----------------------------------------------------------------------------
(* The names of the nodes of a tree, that of the root first.               *)

Names(t) ==
    {nm \in [0..Len(t) -> Seq(Tag)] :
        /\ nm[0] = <<>>
        /\ \A i \in 1..Len(t) :
              t[i].parent \in 0..(i - 1) /\ nm[i] = Append(nm[t[i].parent], t[i].tag)
        /\ \A i, j \in 0..Len(t) : nm[i] = nm[j] => i = j}

LEMMA MaxOne == ASSUME NEW x \in Nat PROVE Max({x}) = x
BY DEF Max

LEMMA MaxIn ==
    ASSUME NEW n \in Nat, NEW S, S \subseteq 1..n, S # {}
    PROVE  Max(S) \in S
  <1> DEFINE T == {n - i : i \in S}
  <1>1. T \subseteq Nat /\ T # {}
    <2>1. ASSUME NEW i \in S PROVE n - i \in Nat
      <3>1. i \in 1..n
        OBVIOUS
      <3> QED
        BY <3>1
    <2> QED
      BY <2>1
  <1>2. PICK x \in T : \A y \in T : x <= y
    <2> HIDE DEF T
    <2> QED
      BY <1>1, LeastNat
  <1>3. PICK k \in S : x = n - k
    BY <1>2
  <1>4. ASSUME NEW i \in S PROVE k >= i
    <2>1. n - k <= n - i
      BY <1>2, <1>3
    <2>2. i \in 1..n /\ k \in 1..n
      OBVIOUS
    <2> QED
      BY <2>1, <2>2
  <1> QED
    BY <1>3, <1>4 DEF Max

(* conf_search_tag finds the node of that name, if there is one.           *)
LEMMA ChildIs ==
    ASSUME NEW t \in Seq(Node), NEW nm \in Names(t), NEW n \in 0..Len(t), NEW tag \in Tag
    PROVE  \/ /\ Child(t, n, tag) = None
              /\ \A i \in 0..Len(t) : nm[i] # Append(nm[n], tag)
           \/ /\ Child(t, n, tag) \in 1..Len(t)
              /\ nm[Child(t, n, tag)] = Append(nm[n], tag)
  <1> DEFINE found == {i \in DOMAIN t : t[i].parent = n /\ t[i].tag = tag}
  <1>1. /\ nm \in [0..Len(t) -> Seq(Tag)]
        /\ nm[0] = <<>>
        /\ \A i \in 1..Len(t) :
              t[i].parent \in 0..(i - 1) /\ nm[i] = Append(nm[t[i].parent], t[i].tag)
        /\ \A i, j \in 0..Len(t) : nm[i] = nm[j] => i = j
    BY DEF Names
  <1>2. DOMAIN t = 1..Len(t) /\ Len(t) \in Nat /\ \A i \in 1..Len(t) : t[i] \in Node
    BY LenProperties
  <1>3. ASSUME NEW i \in 0..Len(t), nm[i] = Append(nm[n], tag) PROVE i \in found
    <2>1. i # 0
      <3>1. nm[n] \in Seq(Tag)
        BY <1>1
      <3>2. Append(nm[n], tag) # <<>>
        BY <3>1, AppendLonger
      <3>3. nm[0] = <<>>
        BY <1>1
      <3> QED
        BY <1>3, <3>2, <3>3
    <2>2. i \in 1..Len(t)
      BY <2>1
    <2>3. t[i].parent \in 0..Len(t) /\ t[i].tag \in Tag
      <3>1. t[i] \in Node
        BY <1>2, <2>2
      <3>2. t[i].parent \in 0..(i - 1)
        BY <1>1, <2>2
      <3>3. t[i].parent \in 0..Len(t)
        BY <1>2, <2>2, <3>2
      <3>4. t[i].tag \in Tag
        BY <3>1 DEF Node
      <3> QED
        BY <3>3, <3>4
    <2>4. nm[t[i].parent] = nm[n] /\ t[i].tag = tag
      <3>1. nm[t[i].parent] \in Seq(Tag) /\ nm[n] \in Seq(Tag)
        BY <1>1, <2>3
      <3>2. Append(nm[t[i].parent], t[i].tag) = Append(nm[n], tag)
        BY <1>1, <1>3, <2>2
      <3>3. PICK s \in Seq(Tag), u \in Seq(Tag), a \in Tag :
               s = nm[t[i].parent] /\ u = nm[n] /\ a = t[i].tag
        BY <2>3, <3>1
      <3>4. Append(s, a) = Append(u, tag)
        BY <3>2, <3>3
      <3>5. s = u /\ a = tag
        BY <3>4, AppendSame
      <3> QED
        BY <3>3, <3>5
    <2> QED
      BY <1>1, <1>2, <2>2, <2>3, <2>4
  <1>4. ASSUME NEW i \in found PROVE i \in 1..Len(t) /\ nm[i] = Append(nm[n], tag)
    BY <1>1, <1>2
  <1>5. CASE found = {}
    BY <1>3, <1>5 DEF Child
  <1>6. CASE found # {}
    <2>1. PICK x \in found : TRUE
      BY <1>6
    <2>2. ASSUME NEW y \in found PROVE y = x
      <3> HIDE DEF found
      <3>1. x \in 1..Len(t) /\ y \in 1..Len(t)
        BY <1>4, <2>1, <2>2
      <3>2. nm[x] = nm[y]
        BY <1>4, <2>1, <2>2
      <3> QED
        BY <1>1, <1>2, <3>1, <3>2
    <2>3. found = {x}
      BY <2>1, <2>2
    <2>4. x \in Nat
      BY <1>2, <2>1
    <2>5. Child(t, n, tag) = x
      <3>1. Child(t, n, tag) = Max(found)
        BY <1>6 DEF Child
      <3> QED
        BY <3>1, <2>3, <2>4, MaxOne
    <2> QED
      BY <1>4, <2>1, <2>5
  <1> QED
    BY <1>5, <1>6

(* The loop of conf_search_mib, and what it has found after each tag.      *)
LEMMA SearchLoop ==
    ASSUME NEW t \in Seq(Node), NEW nm \in Names(t), NEW m \in Seq(Tag)
    PROVE  \E w : /\ SearchMib(t, m) = w[Len(m)]
                 /\ w[0] = 0
                 /\ \A i \in 1..Len(m) :
                       w[i] = IF w[i - 1] = None THEN None ELSE Child(t, w[i - 1], m[i])
  <1> DEFINE S == 0..Len(t) \cup {None}
             step == [x \in S \X (1..Len(m)) |->
                        IF x[1] = None THEN None ELSE Child(t, x[1], m[x[2]])]
             w[i \in 0..Len(m)] ==
               IF i = 0 THEN 0
               ELSE IF w[i - 1] = None THEN None ELSE Child(t, w[i - 1], m[i])
  <1>1. step \in [S \X (1..Len(m)) -> S]
    <2>1. ASSUME NEW n \in S, NEW i \in 1..Len(m), n # None PROVE Child(t, n, m[i]) \in S
      <3>1. n \in 0..Len(t) /\ m[i] \in Tag
        BY <2>1
      <3> QED
        BY <3>1, ChildIs
    <2> QED
      BY <2>1
  <1>2. \E v : v = [i \in 0..Len(m) |-> IF i = 0 THEN 0
                      ELSE IF v[i - 1] = None THEN None ELSE Child(t, v[i - 1], m[i])]
    <2>1. Len(m) \in Nat /\ 0 \in S
      OBVIOUS
    <2>2. PICK v \in [0..Len(m) -> S] :
             v[0] = 0 /\ \A i \in 1..Len(m) : v[i] = step[<<v[i - 1], i>>]
      <3> HIDE DEF S, step
      <3>1. PICK v : IsLoop(v, Len(m), S, 0, step)
        BY <1>1, <2>1, LoopExists
      <3> QED
        BY <3>1 DEF IsLoop
    <2>3. ASSUME NEW i \in 1..Len(m)
          PROVE  v[i] = IF v[i - 1] = None THEN None ELSE Child(t, v[i - 1], m[i])
      <3>1. v[i - 1] \in S
        BY <2>2
      <3> QED
        BY <2>2, <3>1
    <2>4. ASSUME NEW i \in 0..Len(m)
          PROVE  v[i] = IF i = 0 THEN 0
                        ELSE IF v[i - 1] = None THEN None ELSE Child(t, v[i - 1], m[i])
      BY <2>2, <2>3
    <2> QED
      BY <2>2, <2>4
  <1>3. w = [i \in 0..Len(m) |-> IF i = 0 THEN 0
               ELSE IF w[i - 1] = None THEN None ELSE Child(t, w[i - 1], m[i])]
    BY <1>2
  <1>4. SearchMib(t, m) = w[Len(m)]
    BY DEF SearchMib
  <1> HIDE DEF w
  <1>5. w[0] = 0
    BY <1>3
  <1>6. ASSUME NEW i \in 1..Len(m)
        PROVE  w[i] = IF w[i - 1] = None THEN None ELSE Child(t, w[i - 1], m[i])
    BY <1>3
  <1> QED
    BY <1>4, <1>5, <1>6

LEMMA SearchIs ==
    ASSUME NEW t \in Seq(Node), NEW nm \in Names(t), NEW m \in Seq(Tag), m # <<>>
    PROVE  \/ /\ SearchMib(t, m) = None
              /\ \A i \in 0..Len(t) : nm[i] # m
           \/ /\ SearchMib(t, m) \in 1..Len(t)
              /\ nm[SearchMib(t, m)] = m
  <1>1. PICK w : /\ SearchMib(t, m) = w[Len(m)]
                 /\ w[0] = 0
                 /\ \A i \in 1..Len(m) :
                       w[i] = IF w[i - 1] = None THEN None ELSE Child(t, w[i - 1], m[i])
    BY SearchLoop
  <1> DEFINE Found(k) == \/ w[k] = None /\ \A i \in 0..Len(t) : nm[i] # Prefix(m, k)
                         \/ w[k] \in 0..Len(t) /\ nm[w[k]] = Prefix(m, k)
             T == {k \in 0..Len(m) : Found(k)}
  <1>2. /\ nm \in [0..Len(t) -> Seq(Tag)]
        /\ nm[0] = <<>>
        /\ \A i \in 1..Len(t) :
              t[i].parent \in 0..(i - 1) /\ nm[i] = Append(nm[t[i].parent], t[i].tag)
    BY DEF Names
  <1>3. Found(0)
    BY <1>1, <1>2, PrefixWhole
  <1>4. ASSUME NEW k \in 1..Len(m), Found(k - 1) PROVE Found(k)
    <2>1. /\ Prefix(m, k) = Append(Prefix(m, k - 1), m[k]) /\ m[k] \in Tag
          /\ Prefix(m, k - 1) \in Seq(Tag)
      BY PrefixStep, PrefixSeq
    <2>2. CASE w[k - 1] = None
      <3>1. ASSUME NEW i \in 0..Len(t), nm[i] = Prefix(m, k) PROVE FALSE
        <4>1. i \in 1..Len(t)
          BY <1>2, <2>1, <3>1, AppendLonger
        <4>2. PICK u \in Seq(Tag), a \in Tag :
                 u = nm[t[i].parent] /\ a = t[i].tag /\ nm[i] = Append(u, a)
          <5>1. t[i] \in Node /\ t[i].parent \in 0..Len(t)
            BY <1>2, <4>1, ElementOfSeq
          <5>2. t[i].tag \in Tag /\ nm[t[i].parent] \in Seq(Tag)
            BY <1>2, <5>1 DEF Node
          <5> QED
            BY <1>2, <4>1, <5>2
        <4>3. u = Prefix(m, k - 1)
          <5>1. PICK v \in Seq(Tag), b \in Tag : v = Prefix(m, k - 1) /\ b = m[k]
            BY <2>1
          <5>2. Append(u, a) = Append(v, b)
            BY <2>1, <3>1, <4>2, <5>1
          <5> QED
            BY <5>1, <5>2, AppendSame
        <4>4. t[i].parent \in 0..Len(t)
          BY <1>2, <4>1
        <4>5. \A j \in 0..Len(t) : nm[j] # Prefix(m, k - 1)
          BY <1>4, <2>2, ConfigConstants
        <4> QED
          BY <4>2, <4>3, <4>4, <4>5
      <3> QED
        BY <1>1, <2>2, <3>1
    <2>3. CASE w[k - 1] # None
      <3>1. w[k - 1] \in 0..Len(t) /\ nm[w[k - 1]] = Prefix(m, k - 1)
        BY <1>4, <2>3
      <3>2. w[k] = Child(t, w[k - 1], m[k])
        BY <1>1, <2>3
      <3>3. PICK n \in 0..Len(t) : n = w[k - 1]
        BY <3>1
      <3>4. /\ w[k] = Child(t, n, m[k])
            /\ Append(nm[n], m[k]) = Prefix(m, k)
        BY <2>1, <3>1, <3>2, <3>3
      <3>5. \/ /\ Child(t, n, m[k]) = None
               /\ \A i \in 0..Len(t) : nm[i] # Append(nm[n], m[k])
            \/ /\ Child(t, n, m[k]) \in 1..Len(t)
               /\ nm[Child(t, n, m[k])] = Append(nm[n], m[k])
        BY <2>1, ChildIs
      <3> QED
        BY <3>4, <3>5
    <2> QED
      BY <2>2, <2>3
  <1>5. 0..Len(m) \subseteq T
    <2>1. 0 \in T
      BY <1>3
    <2>2. ASSUME NEW k \in 0..(Len(m) - 1), k \in T PROVE k + 1 \in T
      <3>1. k + 1 \in 1..Len(m) /\ (k + 1) - 1 = k /\ Found(k)
        BY <2>2
      <3> HIDE DEF Found
      <3>2. Found(k + 1)
        BY <1>4, <3>1
      <3> QED
        BY <3>1, <3>2
    <2>3. Len(m) \in Nat
      OBVIOUS
    <2> HIDE DEF T
    <2> QED
      BY <2>1, <2>2, <2>3, InductionTo
  <1>6. Found(Len(m))
    BY <1>5
  <1>7. Prefix(m, Len(m)) = m
    BY PrefixWhole
  <1> QED
    BY <1>1, <1>2, <1>6, <1>7

-----------------------------------------------------------------------------
(* A tree with one node more, of a name that is new.                       *)

NewName(t, nm, nd) == Append(nm[nd.parent], nd.tag)

Named(t, nm, nd) ==
    [i \in 0..(Len(t) + 1) |-> IF i = Len(t) + 1 THEN NewName(t, nm, nd) ELSE nm[i]]

MayGrow(t, nm, nd) ==
    /\ t \in Seq(Node) /\ nm \in Names(t) /\ nd \in Node /\ nd.parent \in 0..Len(t)
    /\ \A i \in 0..Len(t) : nm[i] # NewName(t, nm, nd)

LEMMA GrownNames ==
    ASSUME NEW t, NEW nm, NEW nd, MayGrow(t, nm, nd)
    PROVE  /\ Append(t, nd) \in Seq(Node) /\ Len(Append(t, nd)) = Len(t) + 1
           /\ Named(t, nm, nd) \in Names(Append(t, nd))
           /\ NewName(t, nm, nd) \in Seq(Tag) /\ NewName(t, nm, nd) # <<>>
  <1> DEFINE u == Append(t, nd)
             x == Named(t, nm, nd)
             new == NewName(t, nm, nd)
  <1>1. /\ t \in Seq(Node) /\ nd \in Node /\ nd.parent \in 0..Len(t) /\ Len(t) \in Nat
        /\ nm \in [0..Len(t) -> Seq(Tag)]
        /\ nm[0] = <<>>
        /\ \A i \in 1..Len(t) :
              t[i].parent \in 0..(i - 1) /\ nm[i] = Append(nm[t[i].parent], t[i].tag)
        /\ \A i, j \in 0..Len(t) : nm[i] = nm[j] => i = j
        /\ \A i \in 0..Len(t) : nm[i] # new
    BY LenProperties DEF MayGrow, Names
  <1>2. /\ u \in Seq(Node) /\ Len(u) = Len(t) + 1
        /\ \A i \in 1..Len(t) : u[i] = t[i]
        /\ u[Len(t) + 1] = nd
    BY <1>1, AppendProperties
  <1>3. new \in Seq(Tag) /\ new # <<>>
    <2>1. nm[nd.parent] \in Seq(Tag) /\ nd.tag \in Tag
      BY <1>1 DEF Node
    <2> QED
      BY <2>1, AppendLonger DEF NewName
  <1>4. /\ DOMAIN x = 0..(Len(t) + 1)
        /\ \A i \in 0..Len(t) : x[i] = nm[i]
        /\ x[Len(t) + 1] = new
        /\ x \in [0..(Len(t) + 1) -> Seq(Tag)]
    <2>1. \A i \in 0..Len(t) : i \in 0..(Len(t) + 1) /\ i # Len(t) + 1
      BY <1>1
    <2>2. Len(t) + 1 \in 0..(Len(t) + 1)
      BY <1>1
    <2>3. \A i \in 0..(Len(t) + 1) : i = Len(t) + 1 \/ i \in 0..Len(t)
      BY <1>1
    <2> QED
      BY <1>1, <1>3, <2>1, <2>2, <2>3 DEF Named
  <1> HIDE DEF u, x, new
  <1>5. x[0] = <<>>
    BY <1>1, <1>4
  <1>6. ASSUME NEW i \in 1..(Len(t) + 1)
        PROVE  u[i].parent \in 0..(i - 1) /\ x[i] = Append(x[u[i].parent], u[i].tag)
    <2>1. CASE i = Len(t) + 1
      <3>1. u[i] = nd /\ x[i] = new /\ x[nd.parent] = nm[nd.parent]
        BY <1>1, <1>2, <1>4, <2>1
      <3>2. new = Append(nm[nd.parent], nd.tag)
        BY DEF new, NewName
      <3> QED
        BY <1>1, <2>1, <3>1, <3>2
    <2>2. CASE i # Len(t) + 1
      <3>1. i \in 1..Len(t)
        BY <1>1, <2>2
      <3>2. u[i] = t[i] /\ x[i] = nm[i] /\ t[i].parent \in 0..Len(t)
        BY <1>1, <1>2, <1>4, <3>1
      <3>3. x[t[i].parent] = nm[t[i].parent]
        BY <1>4, <3>2
      <3> QED
        BY <1>1, <3>1, <3>2, <3>3
    <2> QED
      BY <2>1, <2>2
  <1>7. ASSUME NEW i \in 0..(Len(t) + 1), NEW j \in 0..(Len(t) + 1), x[i] = x[j]
        PROVE  i = j
    <2>1. (i = Len(t) + 1 \/ i \in 0..Len(t)) /\ (j = Len(t) + 1 \/ j \in 0..Len(t))
      BY <1>1
    <2> QED
      BY <1>1, <1>4, <1>7, <2>1
  <1>8. x \in Names(u)
    BY <1>2, <1>4, <1>5, <1>6, <1>7 DEF Names
  <1> QED
    BY <1>2, <1>3, <1>8 DEF u, x, new

(* The search finds it, and the others where it found them before.         *)
LEMMA GrownSearch ==
    ASSUME NEW t, NEW nm, NEW nd, MayGrow(t, nm, nd), NEW m \in Seq(Tag), m # <<>>
    PROVE  /\ m = NewName(t, nm, nd) =>
                SearchMib(Append(t, nd), m) # None /\ Got(Append(t, nd), m) = nd.val
           /\ m # NewName(t, nm, nd) =>
                /\ SearchMib(Append(t, nd), m) = SearchMib(t, m)
                /\ Got(Append(t, nd), m) = Got(t, m)
  <1> DEFINE u == Append(t, nd)
             x == Named(t, nm, nd)
             new == NewName(t, nm, nd)
             k == SearchMib(t, m)
             l == SearchMib(u, m)
  <1>1. /\ t \in Seq(Node) /\ nd \in Node /\ Len(t) \in Nat
        /\ nm \in Names(t) /\ nm \in [0..Len(t) -> Seq(Tag)]
        /\ \A i, j \in 0..Len(t) : nm[i] = nm[j] => i = j
    BY LenProperties DEF MayGrow, Names
  <1>2. /\ u \in Seq(Node) /\ Len(u) = Len(t) + 1
        /\ \A i \in 1..Len(t) : u[i] = t[i]
        /\ u[Len(t) + 1] = nd
    BY <1>1, AppendProperties
  <1>3. x \in Names(u)
    BY GrownNames
  <1>4. /\ x[Len(t) + 1] = new
        /\ \A i \in 0..Len(t) : x[i] = nm[i]
    BY <1>1 DEF Named
  <1>5. \/ k = None /\ \A i \in 0..Len(t) : nm[i] # m
        \/ k \in 1..Len(t) /\ nm[k] = m
    BY <1>1, SearchIs
  <1>6. \/ l = None /\ \A i \in 0..Len(u) : x[i] # m
        \/ l \in 1..Len(u) /\ x[l] = m
    BY <1>2, <1>3, SearchIs
  <1>7. Got(t, m) = (IF k = None THEN None ELSE t[k].val)
        /\ Got(u, m) = (IF l = None THEN None ELSE u[l].val)
    BY DEF Got
  <1>8. None \notin Nat
    BY ConfigConstants
  <1> HIDE DEF u, x, new, k, l
  <1>9. CASE m = new
    <2>1. Len(t) + 1 \in 0..Len(u)
      BY <1>1, <1>2
    <2>2. l \in 1..Len(u) /\ x[l] = m
      BY <1>4, <1>6, <1>9, <2>1
    <2>3. l \notin 1..Len(t)
      <3>1. \A i \in 0..Len(t) : nm[i] # new
        BY DEF MayGrow, new
      <3> QED
        BY <1>4, <1>9, <2>2, <3>1
    <2>4. l = Len(t) + 1
      BY <1>1, <1>2, <2>2, <2>3
    <2>5. l # None
      BY <1>1, <1>8, <2>4
    <2> QED
      BY <1>2, <1>7, <1>9, <2>4, <2>5 DEF u, new, l
  <1>10. CASE m # new
    <2>1. l # None => l \in 1..Len(t) /\ nm[l] = m
      <3> SUFFICES ASSUME l # None PROVE l \in 1..Len(t) /\ nm[l] = m
        OBVIOUS
      <3>1. l \in 1..Len(u) /\ x[l] = m
        BY <1>6
      <3>2. l # Len(t) + 1
        BY <1>4, <1>10, <3>1
      <3>3. l \in 1..Len(t) /\ l \in 0..Len(t)
        BY <1>1, <1>2, <3>1, <3>2
      <3> QED
        BY <1>4, <3>1, <3>3
    <2>2. k # None => k \in 1..Len(t) /\ k \in 0..Len(u) /\ x[k] = m
      <3> SUFFICES ASSUME k # None PROVE k \in 1..Len(t) /\ k \in 0..Len(u) /\ x[k] = m
        OBVIOUS
      <3>1. k \in 1..Len(t) /\ nm[k] = m
        BY <1>5
      <3>2. k \in 0..Len(t) /\ k \in 0..Len(u)
        BY <1>1, <1>2, <3>1
      <3> QED
        BY <1>4, <3>1, <3>2
    <2>3. l # None /\ k # None => l = k
      <3> SUFFICES ASSUME l # None, k # None PROVE l = k
        OBVIOUS
      <3>1. l \in 0..Len(t) /\ k \in 0..Len(t) /\ nm[l] = nm[k]
        BY <1>1, <1>5, <2>1
      <3> QED
        BY <1>1, <3>1
    <2>4. l = None <=> k = None
      <3>1. ASSUME l = None PROVE k = None
        BY <1>6, <2>2, <3>1, <1>8
      <3>2. ASSUME k = None, l # None PROVE FALSE
        <4>1. l \in 0..Len(t) /\ nm[l] = m
          BY <1>1, <2>1, <3>2
        <4> QED
          BY <1>5, <3>2, <4>1, <1>8
      <3> QED
        BY <3>1, <3>2
    <2>5. l = k /\ (l # None => u[l] = t[l])
      BY <1>2, <2>1, <2>3, <2>4
    <2> QED
      BY <1>7, <1>10, <2>4, <2>5 DEF u, new, k, l
  <1> QED
    BY <1>9, <1>10 DEF u, new, k, l

-----------------------------------------------------------------------------
(* conf_add_to_tree makes the branches that are missing, then the leaf.    *)

SameMibs(u, t) ==
    \A m \in Mib : SearchMib(u, m) = SearchMib(t, m) /\ Got(u, m) = Got(t, m)

(* Tree b.t is t with branches more, and its node b.n has the name s.      *)
Reached(b, t, s) ==
    /\ b \in [t : Seq(Node), n : Nat]
    /\ b.n \in 0..Len(b.t)
    /\ \E nm \in Names(b.t) : nm[b.n] = s
    /\ SameMibs(b.t, t)

LEMMA ReachedBy ==
    ASSUME NEW t, NEW s, NEW u \in Seq(Node), NEW n \in 0..Len(u), NEW nm \in Names(u),
           nm[n] = s, SameMibs(u, t)
    PROVE  Reached([t |-> u, n |-> n], t, s)
  <1> DEFINE b == [t |-> u, n |-> n]
  <1>1. b \in [t : Seq(Node), n : Nat] /\ b.t = u /\ b.n = n
    BY LenProperties
  <1> HIDE DEF b
  <1>2. Reached(b, t, s)
    BY <1>1 DEF Reached
  <1> QED
    BY <1>2 DEF b

LEMMA BranchReaches ==
    ASSUME NEW t, NEW s \in Seq(Tag), NEW u, NEW n, Reached([t |-> u, n |-> n], t, s),
           NEW tag \in Tag, Append(s, tag) \notin Mib
    PROVE  Reached(Branch([t |-> u, n |-> n], tag), t, Append(s, tag))
  <1> DEFINE c == Child(u, n, tag)
             nd == BranchNode(n, tag)
             b == [t |-> u, n |-> n]
  <1>1. /\ u \in Seq(Node) /\ n \in 0..Len(u) /\ Len(u) \in Nat /\ n \in Nat
        /\ SameMibs(u, t)
    BY LenProperties DEF Reached
  <1>2. PICK nm \in Names(u) : nm[n] = s
    BY DEF Reached
  <1>3. \/ c = None /\ \A i \in 0..Len(u) : nm[i] # Append(s, tag)
        \/ c \in 1..Len(u) /\ nm[c] = Append(s, tag)
    BY <1>1, <1>2, ChildIs
  <1>4. Branch(b, tag) = IF c # None THEN [t |-> u, n |-> c]
                         ELSE [t |-> Append(u, nd), n |-> Len(u) + 1]
    BY DEF Branch
  <1>5. nd \in Node /\ nd.parent = n /\ nd.tag = tag /\ nd.val = None
    BY <1>1 DEF Node, BranchNode
  <1> HIDE DEF c, nd
  <1>6. CASE c # None
    <2>1. c \in 1..Len(u) /\ c \in 0..Len(u) /\ c \in Nat /\ nm[c] = Append(s, tag)
      BY <1>1, <1>3, <1>6
    <2>2. Branch(b, tag) = [t |-> u, n |-> c]
      BY <1>4, <1>6
    <2>3. Reached([t |-> u, n |-> c], t, Append(s, tag))
      BY <1>1, <1>2, <2>1, ReachedBy
    <2> QED
      BY <2>2, <2>3
  <1>7. CASE c = None
    <2>1. NewName(u, nm, nd) = Append(s, tag)
      BY <1>2, <1>5 DEF NewName
    <2>2. \A i \in 0..Len(u) : nm[i] # Append(s, tag)
      <3>1. None \notin Nat
        BY ConfigConstants
      <3> QED
        BY <1>1, <1>3, <1>7, <3>1
    <2>3. MayGrow(u, nm, nd)
      BY <1>1, <1>2, <1>5, <2>1, <2>2 DEF MayGrow
    <2>4. /\ Append(u, nd) \in Seq(Node) /\ Len(Append(u, nd)) = Len(u) + 1
          /\ Named(u, nm, nd) \in Names(Append(u, nd))
      BY <2>3, GrownNames
    <2>5. Named(u, nm, nd)[Len(u) + 1] = Append(s, tag)
      BY <1>1, <2>1 DEF Named
    <2>6. SameMibs(Append(u, nd), t)
      <3> SUFFICES ASSUME NEW m \in Mib
                   PROVE  /\ SearchMib(Append(u, nd), m) = SearchMib(t, m)
                          /\ Got(Append(u, nd), m) = Got(t, m)
        BY DEF SameMibs
      <3>1. m \in Seq(Tag) /\ m # <<>>
        BY MibTyped
      <3>2. m # NewName(u, nm, nd)
        BY <2>1
      <3>3. /\ SearchMib(Append(u, nd), m) = SearchMib(u, m)
            /\ Got(Append(u, nd), m) = Got(u, m)
        BY <2>3, <3>1, <3>2, GrownSearch
      <3> QED
        BY <1>1, <3>3 DEF SameMibs
    <2>7. Len(u) + 1 \in Nat /\ Len(u) + 1 \in 0..(Len(u) + 1)
      BY <1>1
    <2>8. Branch(b, tag) = [t |-> Append(u, nd), n |-> Len(u) + 1]
      BY <1>4, <1>7
    <2>9. Reached([t |-> Append(u, nd), n |-> Len(u) + 1], t, Append(s, tag))
      BY <2>4, <2>5, <2>6, <2>7, ReachedBy
    <2> QED
      BY <2>8, <2>9
  <1> QED
    BY <1>6, <1>7

(* The loop over the tags but the last.                                    *)
BranchesMade(w, t, m, v) ==
    /\ AddToTree(t, m, v) = Append(w[Len(m) - 1].t, Leaf(w[Len(m) - 1].n, Last(m), v))
    /\ w[Len(m) - 1] \in [t : Seq(Node), n : Nat]
    /\ w[0] = [t |-> t, n |-> 0]
    /\ \A i \in 1..(Len(m) - 1) : w[i] = Branch(w[i - 1], m[i])

LEMMA BranchLoop ==
    ASSUME NEW t \in Seq(Node), NEW m \in Seq(Tag), Len(m) > 1, NEW v
    PROVE  \E w : BranchesMade(w, t, m, v)
  <1> DEFINE S == [t : Seq(Node), n : Nat]
             step == [x \in S \X (1..(Len(m) - 1)) |-> Branch(x[1], m[x[2]])]
             base == [t |-> t, n |-> 0]
             w[i \in 0..(Len(m) - 1)] == IF i = 0 THEN [t |-> t, n |-> 0]
                                        ELSE Branch(w[i - 1], m[i])
  <1>1. step \in [S \X (1..(Len(m) - 1)) -> S]
    <2>1. ASSUME NEW b \in S, NEW tag \in Tag PROVE Branch(b, tag) \in S
      <3> DEFINE c == Child(b.t, b.n, tag)
      <3>1. CASE c = None
        <4>1. BranchNode(b.n, tag) \in Node
          BY DEF BranchNode, Node
        <4>2. Branch(b, tag) = [t |-> Append(b.t, BranchNode(b.n, tag)), n |-> Len(b.t) + 1]
          BY <3>1 DEF Branch
        <4>3. Append(b.t, BranchNode(b.n, tag)) \in Seq(Node) /\ Len(b.t) + 1 \in Nat
          BY <4>1, AppendProperties, LenProperties
        <4> QED
          BY <4>2, <4>3
      <3>2. CASE c # None
        <4>1. c \in Nat
          <5> DEFINE found == {i \in DOMAIN b.t : b.t[i].parent = b.n /\ b.t[i].tag = tag}
          <5>1. c = Max(found) /\ found # {} /\ found \subseteq 1..Len(b.t)
            BY <3>2, LenProperties DEF Child
          <5>2. Len(b.t) \in Nat
            BY LenProperties
          <5> HIDE DEF found, c
          <5>3. Max(found) \in found
            BY <5>1, <5>2, MaxIn
          <5>4. c \in 1..Len(b.t)
            BY <5>1, <5>3
          <5> QED
            BY <5>2, <5>4
        <4>2. Branch(b, tag) = [b EXCEPT !.n = c]
          BY <3>2 DEF Branch
        <4> HIDE DEF c
        <4> QED
          BY <4>1, <4>2
      <3> QED
        BY <3>1, <3>2
    <2>2. \A i \in 1..(Len(m) - 1) : m[i] \in Tag
      BY LenProperties
    <2> HIDE DEF S
    <2> QED
      BY <2>1, <2>2
  <1>2. \E u : u = [i \in 0..(Len(m) - 1) |-> IF i = 0 THEN [t |-> t, n |-> 0]
                                              ELSE Branch(u[i - 1], m[i])]
    <2>1. Len(m) - 1 \in Nat /\ base \in S
      BY LenProperties
    <2>2. PICK u : IsLoop(u, Len(m) - 1, S, base, step)
      <3> HIDE DEF S, step, base
      <3> QED
        BY <1>1, <2>1, LoopExists
    <2>3. u \in [0..(Len(m) - 1) -> S] /\ u[0] = base
          /\ \A i \in 1..(Len(m) - 1) : u[i] = step[<<u[i - 1], i>>]
      <3> HIDE DEF S, step, base
      <3> QED
        BY <2>2 DEF IsLoop
    <2>4. ASSUME NEW i \in 1..(Len(m) - 1) PROVE u[i] = Branch(u[i - 1], m[i])
      <3>1. u[i - 1] \in S
        BY <2>3
      <3> QED
        BY <2>3, <3>1
    <2>5. ASSUME NEW i \in 0..(Len(m) - 1)
          PROVE  u[i] = IF i = 0 THEN [t |-> t, n |-> 0] ELSE Branch(u[i - 1], m[i])
      BY <2>3, <2>4
    <2> QED
      BY <2>3, <2>5
  <1>3. w = [i \in 0..(Len(m) - 1) |-> IF i = 0 THEN [t |-> t, n |-> 0]
                                      ELSE Branch(w[i - 1], m[i])]
    BY <1>2
  <1>4. AddToTree(t, m, v) = Append(w[Len(m) - 1].t, Leaf(w[Len(m) - 1].n, Last(m), v))
    <2>1. Len(m) # 1
      <3> HIDE DEF w
      <3>1. PICK l \in Nat : l = Len(m)
        BY LenProperties
      <3>2. l > 1
        BY <3>1, Zenon
      <3>3. l # 1
        BY <3>2
      <3> QED
        BY <3>1, <3>3, Zenon
    <2> QED
      BY <2>1 DEF AddToTree
  <1> HIDE DEF w
  <1>5. Len(m) - 1 \in Nat
    BY LenProperties
  <1>6. w[0] = [t |-> t, n |-> 0]
    BY <1>3, <1>5
  <1>7. ASSUME NEW i \in 1..(Len(m) - 1) PROVE w[i] = Branch(w[i - 1], m[i])
    BY <1>3, <1>5
  <1>8. w[Len(m) - 1] \in S
    <2> DEFINE T == {i \in 0..(Len(m) - 1) : w[i] \in S}
    <2>1. 0 \in T
      BY <1>5, <1>6
    <2>2. ASSUME NEW i \in 0..((Len(m) - 1) - 1), i \in T PROVE i + 1 \in T
      <3>1. i + 1 \in 1..(Len(m) - 1) /\ (i + 1) - 1 = i /\ w[i] \in S
        BY <1>5, <2>2
      <3>2. w[i + 1] = Branch(w[i], m[i + 1])
        BY <1>7, <3>1
      <3>3. step[<<w[i], i + 1>>] = Branch(w[i], m[i + 1])
        BY <3>1
      <3>4. step[<<w[i], i + 1>>] \in S
        <4> HIDE DEF step, S
        <4> QED
          BY <1>1, <3>1
      <3> QED
        BY <1>5, <3>1, <3>2, <3>3, <3>4
    <2>3. 0..(Len(m) - 1) \subseteq T
      <3> HIDE DEF T
      <3> QED
        BY <1>5, <2>1, <2>2, InductionTo
    <2> QED
      BY <1>5, <2>3
  <1>9. BranchesMade(w, t, m, v)
    BY <1>4, <1>6, <1>7, <1>8 DEF BranchesMade
  <1> QED
    BY <1>9

Sound(t) == t \in Seq(Node) /\ Names(t) # {}

LEMMA AddToTreeTyped ==
    ASSUME MibsAreLeaves, NEW t \in Seq(Node), NEW m \in Mib, NEW v \in Value
    PROVE  AddToTree(t, m, v) \in Seq(Node)
  <1>1. m \in Seq(Tag) /\ Len(m) > 1
    BY MibTyped DEF MibsAreLeaves
  <1>2. PICK w : BranchesMade(w, t, m, v)
    BY <1>1, BranchLoop
  <1>3. PICK u \in Seq(Node), n \in Nat : AddToTree(t, m, v) = Append(u, Leaf(n, Last(m), v))
    BY <1>2 DEF BranchesMade
  <1>4. Leaf(n, Last(m), v) \in Node
    BY <1>1, LastIs DEF Leaf, Node
  <1> QED
    BY <1>3, <1>4, AppendProperties

(* A MIB that the tree has not is found in it afterwards, with its value,  *)
(* and the others are what they were.                                      *)
LEMMA AddToTreeFinds ==
    ASSUME MibsAreLeaves, NEW t, Sound(t), NEW mib \in Mib, NEW v \in Value,
           SearchMib(t, mib) = None
    PROVE  /\ Sound(AddToTree(t, mib, v))
           /\ SearchMib(AddToTree(t, mib, v), mib) # None
           /\ Got(AddToTree(t, mib, v), mib) = v
           /\ \A m \in Mib \ {mib} :
                 /\ SearchMib(AddToTree(t, mib, v), m) = SearchMib(t, m)
                 /\ Got(AddToTree(t, mib, v), m) = Got(t, m)
  <1>1. mib \in Seq(Tag) /\ mib # <<>> /\ Len(mib) > 1 /\ t \in Seq(Node)
    BY MibTyped DEF MibsAreLeaves, Sound
  <1>0. PICK w : BranchesMade(w, t, mib, v)
    BY <1>1, BranchLoop
  <1>2. /\ AddToTree(t, mib, v) =
              Append(w[Len(mib) - 1].t, Leaf(w[Len(mib) - 1].n, Last(mib), v))
        /\ w[0] = [t |-> t, n |-> 0]
        /\ \A i \in 1..(Len(mib) - 1) : w[i] = Branch(w[i - 1], mib[i])
    BY <1>0 DEF BranchesMade
  <1>3. PICK l \in Nat : l = Len(mib) /\ l > 1
    <2>1. Len(mib) \in Nat
      BY MibTyped
    <2> QED
      BY <1>1, <2>1
  <1> DEFINE T == {k \in 0..(l - 1) : Reached(w[k], t, Prefix(mib, k))}
  <1>4. 0 \in T
    <2>1. PICK nm \in Names(t) : TRUE
      BY DEF Sound
    <2>2. nm[0] = Prefix(mib, 0)
      BY <1>1, <2>1, PrefixWhole DEF Names
    <2>3. SameMibs(t, t) /\ 0 \in 0..Len(t)
      BY <1>1, LenProperties DEF SameMibs
    <2>4. Reached([t |-> t, n |-> 0], t, Prefix(mib, 0))
      BY <1>1, <2>2, <2>3, ReachedBy
    <2> QED
      BY <1>2, <1>3, <2>4
  <1>5. ASSUME NEW k \in 0..((l - 1) - 1), k \in T PROVE k + 1 \in T
    <2>1. k + 1 \in 1..(l - 1) /\ (k + 1) - 1 = k /\ k + 1 \in 1..l /\ k + 1 \in 0..(l - 1)
          /\ k \in 0..l
      BY <1>3
    <2>2. w[k + 1] = Branch(w[k], mib[k + 1])
      BY <1>2, <1>3, <2>1
    <2>3. /\ Prefix(mib, k) \in Seq(Tag)
          /\ Prefix(mib, k + 1) = Append(Prefix(mib, k), mib[k + 1])
          /\ mib[k + 1] \in Tag
      BY <1>1, <1>3, <2>1, PrefixSeq, PrefixStep
    <2>4. Prefix(mib, k + 1) \notin Mib
      BY <1>3, <2>1 DEF MibsAreLeaves
    <2>5. PICK u, n : w[k] = [t |-> u, n |-> n]
      BY <1>5 DEF Reached
    <2>6. Reached([t |-> u, n |-> n], t, Prefix(mib, k))
      BY <1>5, <2>5
    <2>7. PICK s \in Seq(Tag), tag \in Tag : s = Prefix(mib, k) /\ tag = mib[k + 1]
      BY <2>3
    <2>8. Reached(Branch([t |-> u, n |-> n], tag), t, Append(s, tag))
      BY <2>3, <2>4, <2>6, <2>7, BranchReaches
    <2> QED
      BY <2>1, <2>2, <2>3, <2>5, <2>7, <2>8
  <1>6. l - 1 \in T
    <2>1. l - 1 \in Nat /\ l - 1 \in 0..(l - 1)
      BY <1>3
    <2>2. 0..(l - 1) \subseteq T
      <3> HIDE DEF T
      <3> QED
        BY <1>4, <1>5, <2>1, InductionTo
    <2> QED
      BY <2>1, <2>2
  <1>7. PICK u, n : w[l - 1] = [t |-> u, n |-> n]
    BY <1>6 DEF Reached
  <1>8. Reached([t |-> u, n |-> n], t, Prefix(mib, l - 1))
    BY <1>6, <1>7
  <1>9. /\ u \in Seq(Node) /\ n \in 0..Len(u) /\ n \in Nat /\ SameMibs(u, t) /\ Len(u) \in Nat
    BY <1>8, LenProperties DEF Reached
  <1>10. PICK nm \in Names(u) : nm[n] = Prefix(mib, l - 1)
    BY <1>8 DEF Reached
  <1> DEFINE nd == Leaf(n, Last(mib), v)
             new == AddToTree(t, mib, v)
  <1>11. nd \in Node /\ nd.parent = n /\ nd.tag = Last(mib) /\ nd.val = v
    BY <1>1, <1>9, LastIs DEF Leaf, Node
  <1>12. new = Append(u, nd)
    BY <1>2, <1>3, <1>7
  <1> HIDE DEF nd, new
  <1>13. NewName(u, nm, nd) = mib
    <2>1. l \in 1..l /\ l - 1 \in 0..l
      BY <1>3
    <2>2. mib = Append(Prefix(mib, l - 1), mib[l])
      BY <1>1, <1>3, <2>1, PrefixStep, PrefixWhole
    <2>3. Last(mib) = mib[l]
      BY <1>1, <1>3, LastIs
    <2> QED
      BY <1>10, <1>11, <2>2, <2>3 DEF NewName
  <1>14. MayGrow(u, nm, nd)
    <2>1. SearchMib(u, mib) = None
      BY <1>9 DEF SameMibs
    <2>2. \/ SearchMib(u, mib) = None /\ \A i \in 0..Len(u) : nm[i] # mib
          \/ SearchMib(u, mib) \in 1..Len(u) /\ nm[SearchMib(u, mib)] = mib
      BY <1>1, <1>9, SearchIs
    <2>3. None \notin 1..Len(u)
      BY <1>9, ConfigConstants
    <2>4. \A i \in 0..Len(u) : nm[i] # mib
      BY <2>1, <2>2, <2>3
    <2> QED
      BY <1>9, <1>11, <1>13, <2>4 DEF MayGrow
  <1>15. Sound(new)
    BY <1>12, <1>14, GrownNames DEF Sound
  <1>16. SearchMib(new, mib) # None /\ Got(new, mib) = v
    BY <1>1, <1>11, <1>12, <1>13, <1>14, GrownSearch
  <1>17. ASSUME NEW m \in Mib \ {mib}
         PROVE  SearchMib(new, m) = SearchMib(t, m) /\ Got(new, m) = Got(t, m)
    <2>1. m \in Seq(Tag) /\ m # <<>> /\ m # NewName(u, nm, nd)
      BY <1>13, MibTyped
    <2>2. SearchMib(new, m) = SearchMib(u, m) /\ Got(new, m) = Got(u, m)
      BY <1>12, <1>14, <2>1, GrownSearch
    <2> QED
      BY <1>9, <2>2 DEF SameMibs
  <1> QED
    BY <1>15, <1>16, <1>17 DEF new

(* A set of a MIB that is in the tree changes its node.                    *)
Changed(t, n, v) == [t EXCEPT ![n].val = v]

LEMMA ChangedFinds ==
    ASSUME NEW t, Sound(t), NEW mib \in Mib, NEW v \in Value, SearchMib(t, mib) # None
    PROVE  /\ Sound(Changed(t, SearchMib(t, mib), v))
           /\ \A m \in Mib :
                 /\ SearchMib(Changed(t, SearchMib(t, mib), v), m) = SearchMib(t, m)
                 /\ Got(Changed(t, SearchMib(t, mib), v), m) =
                       IF m = mib THEN v ELSE Got(t, m)
  <1>1. PICK nm \in Names(t) : TRUE
    BY DEF Sound
  <1>2. t \in Seq(Node) /\ Len(t) \in Nat
    BY LenProperties DEF Sound
  <1>3. PICK n \in 1..Len(t) : n = SearchMib(t, mib) /\ nm[n] = mib
    BY <1>1, <1>2, MibTyped, SearchIs
  <1> DEFINE u == Changed(t, n, v)
  <1>4. /\ u \in Seq(Node) /\ Len(u) = Len(t)
        /\ \A i \in 1..Len(t) : /\ u[i].parent = t[i].parent /\ u[i].tag = t[i].tag
                               /\ u[i].val = IF i = n THEN v ELSE t[i].val
    <2>1. PICK nd \in Node : nd = [t[n] EXCEPT !.val = v]
      <3>1. PICK old \in Node : old = t[n]
        BY <1>2
      <3>2. [old EXCEPT !.val = v] \in Node
        BY DEF Node
      <3> QED
        BY <3>1, <3>2
    <2>2. u = [t EXCEPT ![n] = nd]
      BY <2>1 DEF Changed
    <2>3. /\ u \in Seq(Node) /\ Len(u) = Len(t)
          /\ \A i \in 1..Len(t) : u[i] = IF i = n THEN nd ELSE t[i]
      BY <1>2, <2>2, ExceptSeq
    <2>4. t[n] \in Node
      BY <1>2
    <2>5. nd.parent = t[n].parent /\ nd.tag = t[n].tag /\ nd.val = v
      BY <2>1, <2>4 DEF Node
    <2> HIDE DEF u
    <2> QED
      BY <2>3, <2>5
  <1> HIDE DEF u
  <1>5. nm \in Names(u)
    BY <1>1, <1>2, <1>4 DEF Names
  <1>6. \A i, j \in 0..Len(t) : nm[i] = nm[j] => i = j
    BY <1>1 DEF Names
  <1>7. None \notin 1..Len(t)
    BY <1>2, ConfigConstants
  <1>8. ASSUME NEW m \in Mib
        PROVE  SearchMib(u, m) = SearchMib(t, m) /\ Got(u, m) = IF m = mib THEN v ELSE Got(t, m)
    <2> DEFINE k == SearchMib(t, m)
               l == SearchMib(u, m)
    <2>1. m \in Seq(Tag) /\ m # <<>>
      BY MibTyped
    <2>2. \/ k = None /\ \A i \in 0..Len(t) : nm[i] # m
          \/ k \in 1..Len(t) /\ nm[k] = m
      BY <1>1, <1>2, <2>1, SearchIs
    <2>3. \/ l = None /\ \A i \in 0..Len(t) : nm[i] # m
          \/ l \in 1..Len(t) /\ nm[l] = m
      BY <1>4, <1>5, <2>1, SearchIs
    <2>4. Got(t, m) = (IF k = None THEN None ELSE t[k].val)
          /\ Got(u, m) = (IF l = None THEN None ELSE u[l].val)
      BY DEF Got
    <2>5. m = mib => k = n
      BY <1>3
    <2> HIDE DEF k, l
    <2>6. k = l
      BY <1>2, <1>6, <2>2, <2>3
    <2>7. k \in 1..Len(t) => (k = n <=> m = mib)
      BY <1>2, <1>3, <1>6, <2>2, <2>5
    <2>8. m = mib => k # None
      BY <1>7, <2>5
    <2> QED
      BY <1>4, <2>2, <2>4, <2>6, <2>7, <2>8 DEF k, l
  <1>9. Sound(u)
    BY <1>4, <1>5 DEF Sound
  <1> QED
    BY <1>3, <1>8, <1>9 DEF u

-----------------------------------------------------------------------------
(* The table.  No MIB has two rows.                                        *)

Row == [mib : Mib, val : Value]

TableOK(rs) ==
    /\ rs \in Seq(Row)
    /\ \A i, j \in 1..Len(rs) : rs[i].mib = rs[j].mib => i = j

StoredIn(rs, mib) ==
    LET found == {i \in DOMAIN rs : rs[i].mib = mib}
    IN  IF found = {} THEN None ELSE rs[Max(found)].val

StoredRow(rs, m) ==
    \/ StoredIn(rs, m) = None /\ \A i \in 1..Len(rs) : rs[i].mib # m
    \/ \E i \in 1..Len(rs) : rs[i].mib = m /\ StoredIn(rs, m) = rs[i].val

LEMMA StoredIs ==
    ASSUME NEW rs, TableOK(rs), NEW m
    PROVE  StoredRow(rs, m)
  <1> DEFINE found == {i \in DOMAIN rs : rs[i].mib = m}
  <1>1. DOMAIN rs = 1..Len(rs) /\ Len(rs) \in Nat
    BY LenProperties DEF TableOK
  <1>2. CASE found = {}
    BY <1>1, <1>2 DEF StoredIn, StoredRow
  <1>3. CASE found # {}
    <2>1. PICK x \in 1..Len(rs) : rs[x].mib = m
      BY <1>1, <1>3
    <2>2. found = {x}
      BY <1>1, <2>1 DEF TableOK
    <2>3. StoredIn(rs, m) = rs[Max(found)].val
      BY <1>3 DEF StoredIn
    <2>4. Max(found) = x
      BY <2>2, MaxOne
    <2> QED
      BY <2>1, <2>3, <2>4 DEF StoredRow
  <1> QED
    BY <1>2, <1>3

(* The loop of conf_read_from_db.                                          *)
RowsRead(w, rs) ==
    /\ TreeOf(rs) = w[Len(rs)]
    /\ w[0] = <<>>
    /\ \A i \in 1..Len(rs) : w[i] = AddToTree(w[i - 1], rs[i].mib, rs[i].val)

LEMMA TreeLoop ==
    ASSUME MibsAreLeaves, NEW rs, TableOK(rs)
    PROVE  \E w : RowsRead(w, rs)
  <1> DEFINE S == Seq(Node)
             step == [x \in S \X (1..Len(rs)) |-> AddToTree(x[1], rs[x[2]].mib, rs[x[2]].val)]
             w[i \in 0..Len(rs)] ==
               IF i = 0 THEN <<>> ELSE AddToTree(w[i - 1], rs[i].mib, rs[i].val)
  <1>1. Len(rs) \in Nat /\ \A i \in 1..Len(rs) : rs[i].mib \in Mib /\ rs[i].val \in Value
    <2> HIDE DEF w
    <2>1. rs \in Seq(Row)
      BY DEF TableOK
    <2>2. \A i \in 1..Len(rs) : rs[i] \in Row
      BY <2>1
    <2> QED
      BY <2>1, <2>2, LenProperties DEF Row
  <1>2. step \in [S \X (1..Len(rs)) -> S]
    BY <1>1, AddToTreeTyped
  <1>3. \E u : u = [i \in 0..Len(rs) |-> IF i = 0 THEN <<>>
                                       ELSE AddToTree(u[i - 1], rs[i].mib, rs[i].val)]
    <2>1. <<>> \in S
      OBVIOUS
    <2>2. PICK u : IsLoop(u, Len(rs), S, <<>>, step)
      <3> HIDE DEF S, step
      <3> QED
        BY <1>1, <1>2, <2>1, LoopExists
    <2>3. u \in [0..Len(rs) -> S] /\ u[0] = <<>>
          /\ \A i \in 1..Len(rs) : u[i] = step[<<u[i - 1], i>>]
      <3> HIDE DEF S, step
      <3> QED
        BY <2>2 DEF IsLoop
    <2>4. ASSUME NEW i \in 1..Len(rs)
          PROVE  u[i] = AddToTree(u[i - 1], rs[i].mib, rs[i].val)
      <3>1. u[i - 1] \in S
        BY <2>3
      <3> QED
        BY <2>3, <3>1
    <2>5. ASSUME NEW i \in 0..Len(rs)
          PROVE  u[i] = IF i = 0 THEN <<>> ELSE AddToTree(u[i - 1], rs[i].mib, rs[i].val)
      BY <2>3, <2>4
    <2> QED
      BY <2>3, <2>5
  <1>4. w = [i \in 0..Len(rs) |-> IF i = 0 THEN <<>>
                               ELSE AddToTree(w[i - 1], rs[i].mib, rs[i].val)]
    BY <1>3
  <1>5. TreeOf(rs) = w[Len(rs)]
    BY DEF TreeOf
  <1> HIDE DEF w
  <1>6. w[0] = <<>>
    BY <1>1, <1>4
  <1>7. ASSUME NEW i \in 1..Len(rs) PROVE w[i] = AddToTree(w[i - 1], rs[i].mib, rs[i].val)
    BY <1>1, <1>4
  <1>8. RowsRead(w, rs)
    BY <1>5, <1>6, <1>7 DEF RowsRead
  <1> QED
    BY <1>8

LEMMA EmptyTree ==
    /\ Sound(<<>>)
    /\ \A m \in Mib : SearchMib(<<>>, m) = None /\ Got(<<>>, m) = None
  <1> DEFINE nm == [i \in 0..0 |-> <<>>]
  <1>1. <<>> \in Seq(Node) /\ Len(<<>>) = 0 /\ <<>> \in Seq(Tag)
    BY EmptySeq
  <1>2. nm \in Names(<<>>)
    BY <1>1 DEF Names
  <1>3. Sound(<<>>)
    BY <1>1, <1>2 DEF Sound
  <1>4. ASSUME NEW m \in Mib PROVE SearchMib(<<>>, m) = None
    <2> HIDE DEF nm
    <2>1. m \in Seq(Tag) /\ m # <<>>
      BY MibTyped
    <2>2. \/ SearchMib(<<>>, m) = None
          \/ SearchMib(<<>>, m) \in 1..Len(<<>>)
      BY <1>1, <1>2, <2>1, SearchIs
    <2> QED
      BY <1>1, <2>2
  <1> QED
    BY <1>3, <1>4 DEF Got

(* The tree that is read has of each MIB what its row has.                 *)
ReadAs(t, rs, m) ==
    /\ Got(t, m) = StoredIn(rs, m)
    /\ SearchMib(t, m) = None <=> StoredIn(rs, m) = None

LEMMA TreeOfFinds ==
    ASSUME MibsAreLeaves, NEW rs, TableOK(rs)
    PROVE  Sound(TreeOf(rs)) /\ \A m \in Mib : ReadAs(TreeOf(rs), rs, m)
  <1>1. PICK w : RowsRead(w, rs)
    BY TreeLoop
  <1>2. /\ TreeOf(rs) = w[Len(rs)]
        /\ w[0] = <<>>
        /\ \A i \in 1..Len(rs) : w[i] = AddToTree(w[i - 1], rs[i].mib, rs[i].val)
    BY <1>1 DEF RowsRead
  <1>3. Len(rs) \in Nat /\ \A i \in 1..Len(rs) : rs[i].mib \in Mib /\ rs[i].val \in Value
    <2>1. rs \in Seq(Row)
      BY DEF TableOK
    <2>2. \A i \in 1..Len(rs) : rs[i] \in Row
      BY <2>1
    <2> QED
      BY <2>1, <2>2, LenProperties DEF Row
  <1> DEFINE Has(k, m) == \E i \in 1..k : rs[i].mib = m /\ Got(w[k], m) = rs[i].val
             HasNot(k, m) == (\A i \in 1..k : rs[i].mib # m) /\ Got(w[k], m) = None
             Upto(k) == /\ Sound(w[k])
                        /\ \A m \in Mib : \/ Has(k, m) /\ SearchMib(w[k], m) # None
                                          \/ HasNot(k, m) /\ SearchMib(w[k], m) = None
             T == {k \in 0..Len(rs) : Upto(k)}
  <1>4. 0 \in T
    BY <1>2, <1>3, EmptyTree
  <1>5. ASSUME NEW k \in 0..(Len(rs) - 1), k \in T PROVE k + 1 \in T
    <2>1. /\ k + 1 \in 1..Len(rs) /\ k + 1 \in 0..Len(rs) /\ (k + 1) - 1 = k /\ k \in Nat
          /\ 1..k \subseteq 1..Len(rs) /\ 1..k \subseteq 1..(k + 1) /\ k + 1 \in 1..(k + 1)
      BY <1>3
    <2>2. PICK n \in Mib, v \in Value : n = rs[k + 1].mib /\ v = rs[k + 1].val
      BY <1>3, <2>1
    <2>3. w[k + 1] = AddToTree(w[k], n, v)
      BY <1>2, <2>1, <2>2
    <2>4. ASSUME NEW i \in 1..k PROVE rs[i].mib # n
      <3>1. i \in 1..Len(rs) /\ i # k + 1
        BY <2>1
      <3> QED
        BY <2>1, <2>2, <3>1 DEF TableOK
    <2>5. Sound(w[k]) /\ SearchMib(w[k], n) = None
      BY <1>5, <2>4
    <2>6. /\ Sound(w[k + 1]) /\ SearchMib(w[k + 1], n) # None /\ Got(w[k + 1], n) = v
          /\ \A m \in Mib \ {n} : /\ SearchMib(w[k + 1], m) = SearchMib(w[k], m)
                                  /\ Got(w[k + 1], m) = Got(w[k], m)
      BY <2>3, <2>5, AddToTreeFinds
    <2>7. ASSUME NEW m \in Mib
          PROVE  \/ Has(k + 1, m) /\ SearchMib(w[k + 1], m) # None
                 \/ HasNot(k + 1, m) /\ SearchMib(w[k + 1], m) = None
      <3>1. CASE m = n
        BY <2>1, <2>2, <2>6, <3>1
      <3>2. CASE m # n
        <4>1. SearchMib(w[k + 1], m) = SearchMib(w[k], m) /\ Got(w[k + 1], m) = Got(w[k], m)
          BY <2>6, <3>2
        <4>2. Has(k, m) => Has(k + 1, m)
          BY <2>1, <4>1
        <4>3. HasNot(k, m) => HasNot(k + 1, m)
          <5> SUFFICES ASSUME HasNot(k, m), NEW i \in 1..(k + 1) PROVE rs[i].mib # m
            BY <4>1
          <5>1. i = k + 1 \/ i \in 1..k
            BY <2>1
          <5> QED
            BY <2>2, <3>2, <5>1
        <4>4. \/ Has(k, m) /\ SearchMib(w[k], m) # None
              \/ HasNot(k, m) /\ SearchMib(w[k], m) = None
          BY <1>5
        <4> HIDE DEF Has, HasNot
        <4> QED
          BY <4>1, <4>2, <4>3, <4>4
      <3> QED
        BY <3>1, <3>2
    <2> HIDE DEF Has, HasNot
    <2> QED
      BY <2>1, <2>6, <2>7
  <1>6. Upto(Len(rs))
    <2>1. 0..Len(rs) \subseteq T
      <3> HIDE DEF T
      <3> QED
        BY <1>3, <1>4, <1>5, InductionTo
    <2>2. Len(rs) \in T
      BY <1>3, <2>1
    <2> HIDE DEF Upto
    <2> QED
      BY <2>2
  <1>7. ASSUME NEW m \in Mib PROVE ReadAs(TreeOf(rs), rs, m)
    <2>1. \/ StoredIn(rs, m) = None /\ \A i \in 1..Len(rs) : rs[i].mib # m
          \/ \E i \in 1..Len(rs) : rs[i].mib = m /\ StoredIn(rs, m) = rs[i].val
      BY StoredIs DEF StoredRow
    <2>2. None \notin Value
      BY ConfigConstants
    <2>3. CASE Has(Len(rs), m) /\ SearchMib(w[Len(rs)], m) # None
      <3>1. PICK i \in 1..Len(rs) : rs[i].mib = m /\ Got(w[Len(rs)], m) = rs[i].val
        BY <2>3
      <3>2. PICK j \in 1..Len(rs) : rs[j].mib = m /\ StoredIn(rs, m) = rs[j].val
        BY <2>1, <3>1
      <3>3. i = j
        BY <3>1, <3>2 DEF TableOK
      <3>4. rs[j].val # None
        BY <1>3, <2>2
      <3> QED
        BY <1>2, <2>3, <3>1, <3>2, <3>3, <3>4 DEF ReadAs
    <2>4. CASE HasNot(Len(rs), m) /\ SearchMib(w[Len(rs)], m) = None
      BY <1>2, <2>1, <2>4 DEF ReadAs
    <2> HIDE DEF Has, HasNot
    <2> QED
      BY <1>6, <2>3, <2>4
  <1> QED
    BY <1>2, <1>6, <1>7

-----------------------------------------------------------------------------
(* INSERT OR REPLACE and UPDATE.                                           *)

Others(rs, mib) ==
    LET same == {i \in DOMAIN rs : rs[i].mib = mib}
    IN  IF same = {} THEN rs ELSE RemoveAt(rs, Max(same))

LEMMA OthersAre ==
    ASSUME NEW rs, TableOK(rs), NEW mib
    PROVE  /\ TableOK(Others(rs, mib))
           /\ \A i \in 1..Len(Others(rs, mib)) : Others(rs, mib)[i].mib # mib
           /\ \A m : m # mib => StoredIn(Others(rs, mib), m) = StoredIn(rs, m)
  <1> DEFINE same == {i \in DOMAIN rs : rs[i].mib = mib}
             others == Others(rs, mib)
  <1>1. rs \in Seq(Row) /\ DOMAIN rs = 1..Len(rs) /\ Len(rs) \in Nat
        /\ \A i, j \in 1..Len(rs) : rs[i].mib = rs[j].mib => i = j
    BY LenProperties DEF TableOK
  <1>2. CASE same = {}
    <2>1. others = rs
      BY <1>2 DEF Others
    <2> QED
      BY <1>1, <1>2, <2>1
  <1>3. CASE same # {}
    <2>1. PICK x \in 1..Len(rs) : rs[x].mib = mib
      BY <1>1, <1>3
    <2>2. same = {x} /\ Max(same) = x
      <3>1. same = {x}
        BY <1>1, <2>1
      <3> QED
        BY <3>1, MaxOne
    <2> DEFINE a == SubSeq(rs, 1, x - 1)
               b == SubSeq(rs, x + 1, Len(rs))
    <2>3. others = a \o b
      BY <1>3, <2>2 DEF Others, RemoveAt
    <2>4. /\ a \in Seq(Row) /\ Len(a) = x - 1
          /\ \A i \in 1..(x - 1) : a[i] = rs[i]
      <3>1. x - 1 \in Int /\ \A i \in 1..(x - 1) : rs[i] \in Row
        BY <1>1, <2>1
      <3>2. /\ a \in Seq(Row)
            /\ Len(a) = IF 1 <= x - 1 THEN (x - 1) - 1 + 1 ELSE 0
            /\ \A i \in 1..((x - 1) - 1 + 1) : a[i] = rs[1 + i - 1]
        BY <3>1, SubSeqProperties
      <3> HIDE DEF a
      <3> QED
        BY <1>1, <2>1, <3>2
    <2>5. /\ b \in Seq(Row) /\ Len(b) = Len(rs) - x
          /\ \A i \in 1..(Len(rs) - x) : b[i] = rs[x + i]
      <3>1. PICK l \in Nat : l = Len(rs) /\ x \in 1..l
        BY <1>1, Zenon
      <3>2. x + 1 \in Int /\ l \in Int /\ \A i \in (x + 1)..l : rs[i] \in Row
        BY <1>1, <3>1
      <3>3. b = SubSeq(rs, x + 1, l)
        BY <3>1
      <3> HIDE DEF b
      <3>4. /\ b \in Seq(Row)
            /\ Len(b) = IF x + 1 <= l THEN l - (x + 1) + 1 ELSE 0
            /\ \A i \in 1..(l - (x + 1) + 1) : b[i] = rs[(x + 1) + i - 1]
        BY <3>2, <3>3, SubSeqProperties
      <3>5. Len(b) = l - x
        BY <3>1, <3>4
      <3>6. ASSUME NEW i \in 1..(l - x) PROVE b[i] = rs[x + i]
        <4>1. i \in 1..(l - (x + 1) + 1) /\ (x + 1) + i - 1 = x + i
          BY <3>1
        <4> QED
          BY <3>4, <4>1
      <3> QED
        BY <3>1, <3>4, <3>5, <3>6
    <2> HIDE DEF a, b, others
    <2>6. /\ others \in Seq(Row) /\ Len(others) = Len(rs) - 1
          /\ \A i \in 1..(Len(rs) - 1) : others[i] = IF i < x THEN rs[i] ELSE rs[i + 1]
      <3>1. /\ others \in Seq(Row) /\ Len(others) = Len(a) + Len(b)
            /\ \A i \in 1..(Len(a) + Len(b)) :
                  others[i] = IF i <= Len(a) THEN a[i] ELSE b[i - Len(a)]
        BY <2>3, <2>4, <2>5, ConcatProperties
      <3>2. Len(a) + Len(b) = Len(rs) - 1
        BY <1>1, <2>1, <2>4, <2>5
      <3>3. ASSUME NEW i \in 1..(Len(rs) - 1)
            PROVE  others[i] = IF i < x THEN rs[i] ELSE rs[i + 1]
        <4>1. CASE i < x
          <5>1. i <= Len(a) /\ i \in 1..(x - 1)
            BY <1>1, <2>1, <2>4, <4>1
          <5>2. others[i] = a[i]
            BY <3>1, <3>2, <5>1
          <5> QED
            BY <2>4, <4>1, <5>1, <5>2
        <4>2. CASE ~(i < x)
          <5>1. ~(i <= Len(a)) /\ i - Len(a) \in 1..(Len(rs) - x) /\ x + (i - Len(a)) = i + 1
            BY <1>1, <2>1, <2>4, <4>2
          <5>2. others[i] = b[i - Len(a)]
            BY <3>1, <3>2, <5>1
          <5>3. b[i - Len(a)] = rs[x + (i - Len(a))]
            BY <2>5, <5>1
          <5> QED
            BY <4>2, <5>1, <5>2, <5>3
        <4> QED
          BY <4>1, <4>2
      <3> QED
        BY <3>1, <3>2, <3>3
    <2>7. ASSUME NEW i \in 1..(Len(rs) - 1)
          PROVE  \E k \in 1..Len(rs) : k # x /\ others[i] = rs[k] /\ k = IF i < x THEN i ELSE i + 1
      <3>1. PICK k : k = IF i < x THEN i ELSE i + 1
        OBVIOUS
      <3>2. k \in 1..Len(rs) /\ k # x
        BY <1>1, <2>1, <3>1
      <3> QED
        BY <2>6, <3>1, <3>2
    <2>8. ASSUME NEW k \in 1..Len(rs), k # x
          PROVE  \E i \in 1..(Len(rs) - 1) : others[i] = rs[k]
      <3>1. PICK i : i = IF k < x THEN k ELSE k - 1
        OBVIOUS
      <3>2. i \in 1..(Len(rs) - 1) /\ k = IF i < x THEN i ELSE i + 1
        BY <1>1, <2>1, <2>8, <3>1
      <3> QED
        BY <2>6, <3>2
    <2>9. ASSUME NEW i \in 1..Len(others), NEW j \in 1..Len(others), others[i].mib = others[j].mib
          PROVE  i = j
      <3>1. PICK k \in 1..Len(rs) : others[i] = rs[k] /\ k = IF i < x THEN i ELSE i + 1
        BY <2>6, <2>7
      <3>2. PICK l \in 1..Len(rs) : others[j] = rs[l] /\ l = IF j < x THEN j ELSE j + 1
        BY <2>6, <2>7
      <3>3. k = l
        BY <1>1, <2>9, <3>1, <3>2
      <3>4. i \in Int /\ j \in Int /\ x \in Int
        BY <1>1, <2>1, <2>6
      <3> QED
        BY <3>1, <3>2, <3>3, <3>4
    <2>10. TableOK(others)
      BY <2>6, <2>9 DEF TableOK
    <2>11. ASSUME NEW i \in 1..Len(others) PROVE others[i].mib # mib
      <3>1. PICK k \in 1..Len(rs) : k # x /\ others[i] = rs[k]
        BY <2>6, <2>7
      <3> QED
        BY <1>1, <2>1, <3>1
    <2>12. ASSUME NEW m, m # mib PROVE StoredIn(others, m) = StoredIn(rs, m)
      <3>1. \/ StoredIn(rs, m) = None /\ \A i \in 1..Len(rs) : rs[i].mib # m
            \/ \E i \in 1..Len(rs) : rs[i].mib = m /\ StoredIn(rs, m) = rs[i].val
        BY StoredIs DEF StoredRow
      <3>2. \/ StoredIn(others, m) = None /\ \A i \in 1..Len(others) : others[i].mib # m
            \/ \E i \in 1..Len(others) : others[i].mib = m /\ StoredIn(others, m) = others[i].val
        BY <2>10, StoredIs DEF StoredRow
      <3>3. CASE StoredIn(rs, m) = None /\ \A i \in 1..Len(rs) : rs[i].mib # m
        BY <2>6, <2>7, <3>2, <3>3
      <3>4. CASE \E i \in 1..Len(rs) : rs[i].mib = m /\ StoredIn(rs, m) = rs[i].val
        <4>1. PICK k \in 1..Len(rs) : rs[k].mib = m /\ StoredIn(rs, m) = rs[k].val
          BY <3>4
        <4>2. PICK i \in 1..Len(others) : others[i] = rs[k]
          BY <2>1, <2>6, <2>8, <2>12, <4>1
        <4>3. PICK j \in 1..Len(others) : others[j].mib = m /\ StoredIn(others, m) = others[j].val
          BY <3>2, <4>1, <4>2
        <4>4. i = j
          BY <2>9, <4>1, <4>2, <4>3
        <4> QED
          BY <4>1, <4>2, <4>3, <4>4
      <3> QED
        BY <3>1, <3>3, <3>4
    <2> QED
      BY <2>10, <2>11, <2>12 DEF others
  <1> QED
    BY <1>2, <1>3

Replaced(rs, mib, v) == Append(Others(rs, mib), [mib |-> mib, val |-> v])

LEMMA AddedRow ==
    ASSUME NEW rs, TableOK(rs), NEW mib \in Mib, NEW v \in Value, NEW new,
           new = Replaced(rs, mib, v)
    PROVE  /\ TableOK(new)
           /\ \A m \in Mib : StoredIn(new, m) = IF m = mib THEN v ELSE StoredIn(rs, m)
  <1> DEFINE old == Others(rs, mib)
             row == [mib |-> mib, val |-> v]
             n == Len(old) + 1
  <1>1. /\ old \in Seq(Row) /\ Len(old) \in Nat
        /\ \A i, j \in 1..Len(old) : old[i].mib = old[j].mib => i = j
        /\ \A i \in 1..Len(old) : old[i].mib # mib
        /\ TableOK(old)
    BY OthersAre, LenProperties DEF TableOK
  <1>2. row \in Row /\ row.mib = mib /\ row.val = v
    BY DEF Row
  <1>3. /\ new \in Seq(Row) /\ Len(new) = n
        /\ \A i \in 1..Len(old) : new[i] = old[i]
        /\ new[n] = row
    <2> HIDE DEF old, row
    <2>1. new = Append(old, row)
      BY DEF Replaced, old, row
    <2>2. /\ Append(old, row) \in Seq(Row) /\ Len(Append(old, row)) = Len(old) + 1
          /\ \A i \in 1..Len(old) : Append(old, row)[i] = old[i]
          /\ Append(old, row)[Len(old) + 1] = row
      BY <1>1, <1>2, AppendProperties
    <2> QED
      BY <2>1, <2>2
  <1> HIDE DEF old, row
  <1>4. \A i \in 1..n : i = n \/ i \in 1..Len(old)
    BY <1>1
  <1>5. TableOK(new)
    <2>1. ASSUME NEW i \in 1..n, NEW j \in 1..n, new[i].mib = new[j].mib PROVE i = j
      BY <1>1, <1>2, <1>3, <1>4, <2>1
    <2> QED
      BY <1>3, <2>1 DEF TableOK
  <1>6. ASSUME NEW m \in Mib PROVE StoredIn(new, m) = IF m = mib THEN v ELSE StoredIn(rs, m)
    <2>1. \/ StoredIn(new, m) = None /\ \A i \in 1..n : new[i].mib # m
          \/ \E i \in 1..n : new[i].mib = m /\ StoredIn(new, m) = new[i].val
      <3>1. \/ StoredIn(new, m) = None /\ \A i \in 1..Len(new) : new[i].mib # m
            \/ \E i \in 1..Len(new) : new[i].mib = m /\ StoredIn(new, m) = new[i].val
        <4>1. StoredRow(new, m)
          BY <1>5, StoredIs
        <4> QED
          BY <4>1 DEF StoredRow
      <3> QED
        BY <1>3, <3>1
    <2>2. \/ StoredIn(old, m) = None /\ \A i \in 1..Len(old) : old[i].mib # m
          \/ \E i \in 1..Len(old) : old[i].mib = m /\ StoredIn(old, m) = old[i].val
      BY <1>1, StoredIs DEF StoredRow
    <2>3. n \in 1..n /\ 1..Len(old) \subseteq 1..n
      BY <1>1
    <2>4. CASE m = mib
      <3>1. PICK i \in 1..n : new[i].mib = m /\ StoredIn(new, m) = new[i].val
        BY <1>2, <1>3, <2>1, <2>3, <2>4
      <3>2. i = n
        BY <1>1, <1>3, <1>4, <2>4, <3>1
      <3> QED
        BY <1>2, <1>3, <2>4, <3>1, <3>2
    <2>5. CASE m # mib
      <3>1. StoredIn(old, m) = StoredIn(rs, m)
        BY <2>5, OthersAre DEF old
      <3>2. StoredIn(new, m) = StoredIn(old, m)
        <4>1. CASE StoredIn(old, m) = None /\ \A i \in 1..Len(old) : old[i].mib # m
          BY <1>2, <1>3, <1>4, <2>1, <2>5, <4>1
        <4>2. CASE \E i \in 1..Len(old) : old[i].mib = m /\ StoredIn(old, m) = old[i].val
          <5>1. PICK i \in 1..Len(old) : old[i].mib = m /\ StoredIn(old, m) = old[i].val
            BY <4>2
          <5>2. i \in 1..n /\ new[i] = old[i]
            BY <1>3, <2>3
          <5>3. PICK j \in 1..n : new[j].mib = m /\ StoredIn(new, m) = new[j].val
            BY <2>1, <5>1, <5>2
          <5>4. i = j
            BY <1>3, <1>5, <5>1, <5>2, <5>3 DEF TableOK
          <5> QED
            BY <5>1, <5>2, <5>3, <5>4
        <4> QED
          BY <2>2, <4>1, <4>2
      <3> QED
        BY <2>5, <3>1, <3>2
    <2> QED
      BY <2>4, <2>5
  <1> QED
    BY <1>5, <1>6

Updated(rs, mib, v) ==
    [i \in DOMAIN rs |-> IF rs[i].mib = mib THEN [rs[i] EXCEPT !.val = v] ELSE rs[i]]

LEMMA UpdatedRow ==
    ASSUME NEW rs, TableOK(rs), NEW mib \in Mib, NEW v \in Value, NEW new,
           new = Updated(rs, mib, v)
    PROVE  /\ TableOK(new)
           /\ \A m \in Mib : StoredIn(new, m) =
                 IF m = mib /\ StoredIn(rs, m) # None THEN v ELSE StoredIn(rs, m)
  <1>1. /\ rs \in Seq(Row) /\ DOMAIN rs = 1..Len(rs) /\ Len(rs) \in Nat
        /\ \A i, j \in 1..Len(rs) : rs[i].mib = rs[j].mib => i = j
        /\ \A i \in 1..Len(rs) : rs[i] \in Row
    BY LenProperties DEF TableOK
  <1>2. ASSUME NEW i \in 1..Len(rs)
        PROVE  /\ new[i] \in Row /\ new[i].mib = rs[i].mib
               /\ new[i].val = IF rs[i].mib = mib THEN v ELSE rs[i].val
    <2>1. PICK r \in Row : r = rs[i]
      BY <1>1
    <2>2. new[i] = IF r.mib = mib THEN [r EXCEPT !.val = v] ELSE r
      BY <1>1, <2>1 DEF Updated
    <2> QED
      BY <2>1, <2>2 DEF Row
  <1>3. DOMAIN new = 1..Len(rs) /\ new = [i \in 1..Len(rs) |-> new[i]]
    BY <1>1 DEF Updated
  <1>4. new \in [1..Len(rs) -> Row]
    BY <1>2, <1>3
  <1>5. new \in Seq(Row) /\ Len(new) = Len(rs)
    BY <1>1, <1>3, <1>4, SeqDef, LenProperties
  <1>6. TableOK(new)
    BY <1>1, <1>2, <1>5 DEF TableOK
  <1>7. ASSUME NEW m \in Mib
        PROVE  StoredIn(new, m) =
                 IF m = mib /\ StoredIn(rs, m) # None THEN v ELSE StoredIn(rs, m)
    <2>1. \/ StoredIn(new, m) = None /\ \A i \in 1..Len(rs) : new[i].mib # m
          \/ \E i \in 1..Len(rs) : new[i].mib = m /\ StoredIn(new, m) = new[i].val
      <3>1. \/ StoredIn(new, m) = None /\ \A i \in 1..Len(new) : new[i].mib # m
            \/ \E i \in 1..Len(new) : new[i].mib = m /\ StoredIn(new, m) = new[i].val
        <4>1. StoredRow(new, m)
          BY <1>6, StoredIs
        <4> QED
          BY <4>1 DEF StoredRow
      <3> QED
        BY <1>5, <3>1
    <2>2. \/ StoredIn(rs, m) = None /\ \A i \in 1..Len(rs) : rs[i].mib # m
          \/ \E i \in 1..Len(rs) : rs[i].mib = m /\ StoredIn(rs, m) = rs[i].val
      BY StoredIs DEF StoredRow
    <2>3. \A i \in 1..Len(rs) : rs[i].val # None
      BY <1>1, ConfigConstants DEF Row
    <2>4. CASE StoredIn(rs, m) = None /\ \A i \in 1..Len(rs) : rs[i].mib # m
      BY <1>2, <2>1, <2>4
    <2>5. CASE \E i \in 1..Len(rs) : rs[i].mib = m /\ StoredIn(rs, m) = rs[i].val
      <3>1. PICK i \in 1..Len(rs) : rs[i].mib = m /\ StoredIn(rs, m) = rs[i].val
        BY <2>5
      <3>2. PICK j \in 1..Len(rs) : new[j].mib = m /\ StoredIn(new, m) = new[j].val
        BY <1>2, <2>1, <3>1
      <3>3. i = j
        BY <1>1, <1>2, <3>1, <3>2
      <3> QED
        BY <1>2, <2>3, <3>1, <3>2, <3>3
    <2> QED
      BY <2>2, <2>4, <2>5
  <1> QED
    BY <1>6, <1>7

-----------------------------------------------------------------------------
(* The inductive invariant.                                                *)

Job == [mib : Mib, val : Value, new : BOOLEAN]

MaybeMap == [Mib -> Value \cup {None}]

(* The MIBs that have a row, but for those of which a set failed.          *)
Kept(rs, u) == {m \in Mib : StoredIn(rs, m) # None \/ m \in u}

(* A session at l with tree t, the set in work j and what it read and set, *)
(* c: the tree is c, and a MIB it has is in the table or will be when the  *)
(* set in work is done.  A session that read nothing has no copy.          *)
Fits(l, t, j, c, kept) ==
    /\ l \in {"ready", "store"} =>
          /\ c \in MaybeMap
          /\ Sound(t)
          /\ \A m \in Mib : Got(t, m) = c[m]
          /\ \A m \in Mib : SearchMib(t, m) # None =>
                m \in kept \/ (l = "store" /\ j.new /\ j.mib = m)
    /\ l = "store" =>
          /\ j \in Job /\ c[j.mib] = j.val
          /\ ~j.new => j.mib \in kept
    /\ l \in Starting => c = None

(* A set that returned 1 is in the table.                                  *)
ReportsKept(rs, u, r) ==
    \A m \in Mib \ ({Default} \cup u) : r[m] # None => StoredIn(rs, m) = r[m]

ConfTypeOK ==
    /\ TableOK(rows)
    /\ pc \in [Proc -> Starting \cup {"ready", "store"}]
    /\ tree \in [Proc -> Seq(Node)]
    /\ job \in [Proc -> Job \cup {None}]
    /\ copy \in [Proc -> MaybeMap \cup {None}]
    /\ reported \in MaybeMap
    /\ mibs \in [Proc -> Seq(Mib)]

ConfInv ==
    /\ ConfTypeOK
    /\ \A p \in Proc : Fits(pc[p], tree[p], job[p], copy[p], Kept(rows, unsaved))
    /\ ReportsKept(rows, unsaved, reported)

LEMMA FitsMore ==
    ASSUME NEW l, NEW t, NEW j, NEW c, NEW kept, NEW more,
           Fits(l, t, j, c, kept), kept \subseteq more
    PROVE  Fits(l, t, j, c, more)
BY DEF Fits, Job

(* A step of p: the other sessions fit as before if the table only gained. *)
LEMMA StepKeeps ==
    ASSUME ConfInv, ConfTypeOK', NEW p \in Proc,
           \A q \in Proc \ {p} : /\ pc'[q] = pc[q] /\ tree'[q] = tree[q]
                                /\ job'[q] = job[q] /\ copy'[q] = copy[q],
           Kept(rows, unsaved) \subseteq Kept(rows', unsaved'),
           Fits(pc'[p], tree'[p], job'[p], copy'[p], Kept(rows', unsaved')),
           ReportsKept(rows', unsaved', reported')
    PROVE  ConfInv'
  <1>1. ASSUME NEW q \in Proc
        PROVE  Fits(pc'[q], tree'[q], job'[q], copy'[q], Kept(rows', unsaved'))
    <2>1. CASE q = p
      BY <2>1
    <2>2. CASE q # p
      <3>1. Fits(pc[q], tree[q], job[q], copy[q], Kept(rows, unsaved))
        BY DEF ConfInv
      <3>2. Fits(pc[q], tree[q], job[q], copy[q], Kept(rows', unsaved'))
        BY <3>1, FitsMore
      <3> QED
        BY <2>2, <3>2
    <2> QED
      BY <2>1, <2>2
  <1> QED
    BY <1>1 DEF ConfInv

(* fdbfs_conf_set as it changes the tree.                                  *)
LEMMA SetFits ==
    ASSUME MibsAreLeaves, NEW t, NEW j, NEW c, NEW kept, Fits("ready", t, j, c, kept),
           NEW mib \in Mib, NEW v \in Value, NEW u, NEW k,
           u = IF SearchMib(t, mib) = None THEN AddToTree(t, mib, v)
               ELSE Changed(t, SearchMib(t, mib), v),
           k = [mib |-> mib, val |-> v, new |-> (SearchMib(t, mib) = None)]
    PROVE  /\ Fits("store", u, k, [c EXCEPT ![mib] = v], kept)
           /\ u \in Seq(Node) /\ k \in Job /\ [c EXCEPT ![mib] = v] \in MaybeMap
  <1> DEFINE d == [c EXCEPT ![mib] = v]
  <1>1. /\ c \in MaybeMap /\ Sound(t)
        /\ \A m \in Mib : Got(t, m) = c[m]
        /\ \A m \in Mib : SearchMib(t, m) # None => m \in kept
    BY DEF Fits
  <1>2. k \in Job /\ k.mib = mib /\ k.val = v /\ k.new = (SearchMib(t, mib) = None)
    BY DEF Job
  <1>3. d \in MaybeMap /\ d[mib] = v /\ \A m \in Mib \ {mib} : d[m] = c[m]
    BY <1>1 DEF MaybeMap
  <1>4. /\ Sound(u) /\ Got(u, mib) = v
        /\ \A m \in Mib \ {mib} : SearchMib(u, m) = SearchMib(t, m) /\ Got(u, m) = Got(t, m)
        /\ SearchMib(u, mib) # None
    <2>1. CASE SearchMib(t, mib) = None
      BY <1>1, <2>1, AddToTreeFinds
    <2>2. CASE SearchMib(t, mib) # None
      BY <1>1, <2>2, ChangedFinds
    <2> QED
      BY <2>1, <2>2
  <1> HIDE DEF d
  <1>5. ASSUME NEW m \in Mib PROVE Got(u, m) = d[m]
    BY <1>1, <1>3, <1>4
  <1>6. ASSUME NEW m \in Mib, SearchMib(u, m) # None
        PROVE  m \in kept \/ (k.new /\ k.mib = m)
    BY <1>1, <1>2, <1>4, <1>6
  <1>7. ~k.new => k.mib \in kept
    BY <1>1, <1>2
  <1>8. Fits("store", u, k, d, kept)
    BY <1>2, <1>3, <1>4, <1>5, <1>6, <1>7 DEF Fits, Starting
  <1> QED
    BY <1>2, <1>3, <1>4, <1>8 DEF d, Sound

-----------------------------------------------------------------------------
(* The steps keep the invariant, and are steps of ConfMap or change        *)
(* nothing that it speaks of.                                              *)

MapStep == [Map!Next]_(Map!cvars)

LEMMA StoredNow == \A m : Stored(m) = StoredIn(rows, m)
BY DEF Stored, StoredIn

LEMMA StoredThen == \A m : Stored(m)' = StoredIn(rows', m)
BY DEF Stored, StoredIn

(* Nothing of the configuration changes but where a session is.            *)
LEMMA QuietKeeps ==
    ASSUME ConfInv, NEW p \in Proc, NEW l \in Starting \cup {"ready"},
           UNCHANGED <<rows, tree, job, history>>, mibs' \in [Proc -> Seq(Mib)],
           pc' = pc \/ (pc[p] \in Starting /\ l \in Starting /\ pc' = [pc EXCEPT ![p] = l])
    PROVE  ConfInv' /\ MapStep
  <1>1. rows' = rows /\ tree' = tree /\ job' = job /\ copy' = copy
        /\ reported' = reported /\ unsaved' = unsaved
    BY DEF history
  <1>2. MapStep
    <2>1. \A m : Stored(m)' = Stored(m)
      BY <1>1, StoredNow, StoredThen
    <2>2. UNCHANGED Map!cvars
      BY <1>1, <2>1 DEF Map!cvars
    <2> QED
      BY <2>2 DEF MapStep
  <1>3. ConfTypeOK /\ ConfTypeOK'
    BY <1>1 DEF ConfInv, ConfTypeOK
  <1>4. \A q \in Proc \ {p} : pc'[q] = pc[q]
    BY <1>3 DEF ConfTypeOK
  <1>5. Fits(pc'[p], tree[p], job[p], copy[p], Kept(rows, unsaved))
    <2>1. Fits(pc[p], tree[p], job[p], copy[p], Kept(rows, unsaved))
      BY DEF ConfInv
    <2>2. CASE pc' = pc
      BY <2>1, <2>2
    <2>3. CASE pc[p] \in Starting /\ l \in Starting /\ pc' = [pc EXCEPT ![p] = l]
      <3>1. pc'[p] = l
        BY <1>3, <2>3 DEF ConfTypeOK
      <3> QED
        BY <2>1, <2>3, <3>1 DEF Fits, Starting
    <2> QED
      BY <2>2, <2>3
  <1>6. ReportsKept(rows, unsaved, reported)
    BY DEF ConfInv
  <1>7. ConfInv'
    BY <1>1, <1>3, <1>4, <1>5, <1>6, StepKeeps
  <1> QED
    BY <1>2, <1>7

(* conf_init_db sets the default.                                          *)
LEMMA DefaultKeeps ==
    ASSUME ConfInv, NEW p \in Proc, pc[p] = "default", MibAdd(Default, On),
           Goto(p, "read"), UNCHANGED <<tree, job, history, mibs>>
    PROVE  ConfInv' /\ MapStep
  <1>1. /\ pc' = [pc EXCEPT ![p] = "read"] /\ tree' = tree /\ job' = job /\ copy' = copy
        /\ reported' = reported /\ unsaved' = unsaved /\ mibs' = mibs
    BY DEF history, Goto
  <1>2. /\ TableOK(rows')
        /\ \A m \in Mib : StoredIn(rows', m) = IF m = Default THEN On ELSE StoredIn(rows, m)
    <2>1. TableOK(rows) /\ Default \in Mib /\ On \in Value
      BY ConfigConstants DEF ConfInv, ConfTypeOK
    <2>2. rows' = Replaced(rows, Default, On)
      BY DEF MibAdd, Others, Replaced
    <2> QED
      BY <2>1, <2>2, AddedRow
  <1>3. ConfTypeOK /\ ConfTypeOK'
    BY <1>1, <1>2 DEF ConfInv, ConfTypeOK, Starting
  <1>4. copy[p] = None
    BY DEF ConfInv, Fits, Starting
  <1>5. MapStep
    <2>1. [m \in Mib |-> Stored(m)]' = [[m \in Mib |-> Stored(m)] EXCEPT ![Default] = On]
      <3>1. \A m \in Mib : Stored(m)' = IF m = Default THEN On ELSE Stored(m)
        BY <1>2, StoredNow, StoredThen
      <3> QED
        BY <3>1
    <2>2. Map!Open(p)
      BY <1>1, <1>4, <2>1 DEF Map!Open
    <2> QED
      BY <2>2 DEF MapStep, Map!Next
  <1>6. Kept(rows, unsaved) \subseteq Kept(rows', unsaved')
    BY <1>1, <1>2, ConfigConstants DEF Kept
  <1>7. ReportsKept(rows', unsaved', reported')
    BY <1>1, <1>2 DEF ConfInv, ReportsKept
  <1>8. Fits(pc'[p], tree'[p], job'[p], copy'[p], Kept(rows', unsaved'))
    BY <1>1, <1>3, <1>4 DEF ConfTypeOK, Fits, Starting
  <1>9. ConfInv'
    BY <1>1, <1>3, <1>6, <1>7, <1>8, StepKeeps
  <1> QED
    BY <1>5, <1>9

(* conf_read_from_db.                                                      *)
LEMMA ReadKeeps ==
    ASSUME ConfInv, MibsAreLeaves, NEW p \in Proc, pc[p] = "read", Goto(p, "ready"),
           tree' = [tree EXCEPT ![p] = TreeOf(rows)],
           copy' = [copy EXCEPT ![p] = [m \in Mib |-> Stored(m)]],
           UNCHANGED <<rows, job, reported, unsaved, mibs>>
    PROVE  ConfInv' /\ MapStep
  <1> DEFINE t == TreeOf(rows)
             c == [m \in Mib |-> Stored(m)]
  <1>1. TableOK(rows) /\ Sound(t) /\ \A m \in Mib : ReadAs(t, rows, m)
    <2>1. TableOK(rows)
      BY DEF ConfInv, ConfTypeOK
    <2> QED
      BY <2>1, TreeOfFinds
  <1>2. c \in MaybeMap /\ \A m \in Mib : c[m] = StoredIn(rows, m)
    <2>1. ASSUME NEW m \in Mib PROVE StoredIn(rows, m) \in Value \cup {None}
      <3>1. StoredRow(rows, m)
        BY <1>1, StoredIs
      <3>2. \A i \in 1..Len(rows) : rows[i] \in Row
        BY <1>1 DEF TableOK
      <3> QED
        BY <3>1, <3>2 DEF StoredRow, Row
    <2> QED
      BY <2>1, StoredNow DEF MaybeMap
  <1>3. t \in Seq(Node)
    BY <1>1 DEF Sound
  <1> HIDE DEF t, c
  <1>4. ConfTypeOK /\ tree' = [tree EXCEPT ![p] = t] /\ copy' = [copy EXCEPT ![p] = c]
        /\ pc' = [pc EXCEPT ![p] = "ready"]
    BY DEF ConfInv, Goto, t, c
  <1>5. ConfTypeOK'
    <2>1. tree' \in [Proc -> Seq(Node)]
      BY <1>3, <1>4 DEF ConfTypeOK
    <2>2. copy' \in [Proc -> MaybeMap \cup {None}]
      BY <1>2, <1>4 DEF ConfTypeOK
    <2>3. pc' \in [Proc -> Starting \cup {"ready", "store"}]
      BY <1>4 DEF ConfTypeOK
    <2> QED
      BY <1>4, <2>1, <2>2, <2>3 DEF ConfTypeOK
  <1>6. pc'[p] = "ready" /\ tree'[p] = t /\ copy'[p] = c
        /\ \A q \in Proc \ {p} : pc'[q] = pc[q] /\ tree'[q] = tree[q] /\ copy'[q] = copy[q]
    BY <1>4 DEF ConfTypeOK
  <1>7. copy[p] = None
    BY DEF ConfInv, Fits, Starting
  <1>8. MapStep
    <2>1. \A m : Stored(m)' = Stored(m)
      BY StoredNow, StoredThen
    <2>2. Map!Read(p)
      BY <1>4, <1>7, <2>1 DEF Map!Read, c
    <2> QED
      BY <2>2 DEF MapStep, Map!Next
  <1>9. Fits("ready", t, job[p], c, Kept(rows, unsaved))
    <2>1. \A m \in Mib : Got(t, m) = c[m]
      BY <1>1, <1>2 DEF ReadAs
    <2>2. \A m \in Mib : SearchMib(t, m) # None => m \in Kept(rows, unsaved)
      BY <1>1 DEF ReadAs, Kept
    <2> QED
      BY <1>1, <1>2, <2>1, <2>2 DEF Fits, Starting
  <1>10. ConfInv'
    <2>1. ReportsKept(rows', unsaved', reported')
      BY DEF ConfInv
    <2> QED
      BY <1>5, <1>6, <1>9, <2>1, StepKeeps
  <1> QED
    BY <1>8, <1>10

(* fdbfs_conf_set up to its statement, of whoever calls it.                *)
LEMMA ConfSetKeeps ==
    ASSUME ConfInv, MibsAreLeaves, NEW p \in Proc, NEW mib \in Mib, NEW v \in Value,
           ConfSet(p, mib, v), mibs' = mibs
    PROVE  ConfInv' /\ MapStep
  <1> DEFINE n == SearchMib(tree[p], mib)
             u == IF n = None THEN AddToTree(tree[p], mib, v) ELSE Changed(tree[p], n, v)
             k == [mib |-> mib, val |-> v, new |-> (n = None)]
             d == [copy[p] EXCEPT ![mib] = v]
  <1>1. /\ pc[p] = "ready" /\ pc' = [pc EXCEPT ![p] = "store"]
        /\ tree' = [tree EXCEPT ![p] = u] /\ job' = [job EXCEPT ![p] = k]
        /\ copy' = [copy EXCEPT ![p] = d]
        /\ rows' = rows /\ reported' = reported /\ unsaved' = unsaved
    BY DEF ConfSet, Goto, db, Changed
  <1>2. ConfTypeOK /\ Fits("ready", tree[p], job[p], copy[p], Kept(rows, unsaved))
    BY <1>1 DEF ConfInv
  <1> DEFINE kept == Kept(rows, unsaved)
  <1>3. /\ Fits("store", u, k, d, kept)
        /\ u \in Seq(Node) /\ k \in Job /\ d \in MaybeMap
    <2>1. PICK t, c, j : t = tree[p] /\ c = copy[p] /\ j = job[p]
      OBVIOUS
    <2>2. PICK x, y : x = u /\ y = k
      OBVIOUS
    <2>3. /\ x = IF SearchMib(t, mib) = None THEN AddToTree(t, mib, v)
                ELSE Changed(t, SearchMib(t, mib), v)
          /\ y = [mib |-> mib, val |-> v, new |-> (SearchMib(t, mib) = None)]
          /\ Fits("ready", t, j, c, kept)
      BY <1>2, <2>1, <2>2
    <2> HIDE DEF kept
    <2>4. /\ Fits("store", x, y, [c EXCEPT ![mib] = v], kept)
          /\ x \in Seq(Node) /\ y \in Job /\ [c EXCEPT ![mib] = v] \in MaybeMap
      BY <2>3, SetFits
    <2> QED
      BY <2>1, <2>2, <2>4
  <1>4. copy[p] # None
    BY <1>2, ConfigConstants DEF Fits, MaybeMap
  <1> HIDE DEF u, k, d, kept
  <1>5. ConfTypeOK'
    BY <1>1, <1>2, <1>3 DEF ConfTypeOK
  <1>6. /\ pc'[p] = "store" /\ tree'[p] = u /\ job'[p] = k /\ copy'[p] = d
        /\ \A q \in Proc \ {p} : /\ pc'[q] = pc[q] /\ tree'[q] = tree[q]
                                 /\ job'[q] = job[q] /\ copy'[q] = copy[q]
    BY <1>1, <1>2 DEF ConfTypeOK
  <1>7. MapStep
    <2>1. \A m : Stored(m)' = Stored(m)
      BY <1>1, StoredNow, StoredThen
    <2>2. Map!SetCopy(p, mib, v)
      BY <1>1, <1>4, <2>1 DEF Map!SetCopy, d
    <2> QED
      BY <2>2 DEF MapStep, Map!Next
  <1>8. ReportsKept(rows', unsaved', reported')
    BY <1>1 DEF ConfInv
  <1>9. ConfInv'
    BY <1>1, <1>3, <1>5, <1>6, <1>8, StepKeeps DEF kept
  <1> QED
    BY <1>7, <1>9

(* Its statement: an INSERT, or an UPDATE that finds the row unless a set  *)
(* of this MIB failed.                                                     *)
LEMMA StoreKeeps ==
    ASSUME ConfInv, NEW p \in Proc, Store(p), mibs' \in [Proc -> Seq(Mib)]
    PROVE  ConfInv' /\ MapStep
  <1>1. ConfTypeOK /\ pc[p] = "store"
        /\ Fits("store", tree[p], job[p], copy[p], Kept(rows, unsaved))
    BY DEF Store, ConfInv
  <1>2. PICK j \in Job : j = job[p]
    BY <1>1 DEF Fits
  <1>3. PICK mib \in Mib, v \in Value : mib = j.mib /\ v = j.val
    BY DEF Job
  <1>4. /\ pc' = [pc EXCEPT ![p] = "ready"] /\ job' = [job EXCEPT ![p] = None]
        /\ reported' = [reported EXCEPT ![mib] = v]
        /\ tree' = tree /\ copy' = copy /\ unsaved' = unsaved
        /\ IF j.new THEN MibAdd(mib, v) ELSE MibUpdate(mib, v)
    BY <1>2, <1>3 DEF Store, Goto
  <1>5. /\ copy[p] \in MaybeMap /\ copy[p][mib] = v
        /\ \A m \in Mib : SearchMib(tree[p], m) # None =>
              m \in Kept(rows, unsaved) \/ (j.new /\ mib = m)
        /\ j.new \/ mib \in Kept(rows, unsaved)
    BY <1>1, <1>2, <1>3 DEF Fits
  <1>6. /\ TableOK(rows')
        /\ \A m \in Mib : StoredIn(rows', m) =
              IF m = mib /\ (j.new \/ StoredIn(rows, mib) # None) THEN v ELSE StoredIn(rows, m)
    <2>1. TableOK(rows)
      BY <1>1 DEF ConfTypeOK
    <2>2. CASE j.new
      <3>1. rows' = Replaced(rows, mib, v)
        BY <1>4, <2>2 DEF MibAdd, Replaced, Others
      <3>2. TableOK(rows')
            /\ \A m \in Mib : StoredIn(rows', m) = IF m = mib THEN v ELSE StoredIn(rows, m)
        BY <2>1, <3>1, AddedRow
      <3> QED
        BY <2>2, <3>2
    <2>3. CASE ~j.new
      <3>1. rows' = Updated(rows, mib, v)
        BY <1>4, <2>3 DEF MibUpdate, Updated
      <3>2. TableOK(rows')
            /\ \A m \in Mib : StoredIn(rows', m) =
                  IF m = mib /\ StoredIn(rows, m) # None THEN v ELSE StoredIn(rows, m)
        BY <2>1, <3>1, UpdatedRow
      <3> QED
        BY <2>3, <3>2
    <2> QED
      BY <2>2, <2>3
  <1>7. v # None
    BY ConfigConstants
  <1>8. ConfTypeOK'
    <2>1. pc' \in [Proc -> Starting \cup {"ready", "store"}]
      BY <1>1, <1>4 DEF ConfTypeOK
    <2>2. job' \in [Proc -> Job \cup {None}] /\ reported' \in MaybeMap
      BY <1>1, <1>4 DEF ConfTypeOK, MaybeMap
    <2> QED
      BY <1>1, <1>4, <1>6, <2>1, <2>2 DEF ConfTypeOK
  <1>9. /\ pc'[p] = "ready" /\ job'[p] = None
        /\ \A q \in Proc \ {p} : pc'[q] = pc[q] /\ job'[q] = job[q]
    BY <1>1, <1>4 DEF ConfTypeOK
  <1>10. Kept(rows, unsaved) \subseteq Kept(rows', unsaved')
    BY <1>4, <1>6, <1>7 DEF Kept
  <1>11. Fits("ready", tree[p], None, copy[p], Kept(rows', unsaved'))
    <2>1. j.new => mib \in Kept(rows', unsaved')
      BY <1>6, <1>7 DEF Kept
    <2>2. \A m \in Mib : SearchMib(tree[p], m) # None => m \in Kept(rows', unsaved')
      BY <1>5, <1>10, <2>1
    <2> QED
      BY <1>1, <2>2 DEF Fits, Starting
  <1>12. ReportsKept(rows', unsaved', reported')
    <2> SUFFICES ASSUME NEW m \in Mib \ ({Default} \cup unsaved), reported'[m] # None
                 PROVE  StoredIn(rows', m) = reported'[m]
      BY <1>4 DEF ReportsKept
    <2>1. CASE m = mib
      <3>1. reported'[m] = v
        BY <1>1, <1>4, <2>1 DEF ConfTypeOK, MaybeMap
      <3>2. j.new \/ StoredIn(rows, mib) # None
        BY <1>5, <2>1 DEF Kept
      <3> QED
        BY <1>6, <2>1, <3>1, <3>2
    <2>2. CASE m # mib
      <3>1. reported'[m] = reported[m]
        BY <1>1, <1>4, <2>2 DEF ConfTypeOK, MaybeMap
      <3>2. StoredIn(rows, m) = reported[m]
        BY <3>1 DEF ConfInv, ReportsKept
      <3> QED
        BY <1>6, <2>2, <3>1, <3>2
    <2> QED
      BY <2>1, <2>2
  <1>13. ConfInv'
    BY <1>4, <1>8, <1>9, <1>10, <1>11, <1>12, StepKeeps
  <1>14. MapStep
    <2>1. copy[p] # None /\ copy[p][mib] # None
      BY <1>5, <1>7, ConfigConstants DEF MaybeMap
    <2> DEFINE now == [m \in Mib |-> Stored(m)]
               then == [m \in Mib |-> Stored(m)']
    <2>2. then = [now EXCEPT ![mib] = v] \/ (mib \in unsaved /\ then = now)
      <3>1. CASE j.new \/ StoredIn(rows, mib) # None
        <4>1. \A m \in Mib : Stored(m)' = IF m = mib THEN v ELSE Stored(m)
          BY <1>6, <3>1, StoredNow, StoredThen
        <4> QED
          BY <4>1
      <3>2. CASE ~j.new /\ StoredIn(rows, mib) = None
        <4>1. \A m \in Mib : Stored(m)' = Stored(m)
          BY <1>6, <3>2, StoredNow, StoredThen
        <4>2. mib \in unsaved
          BY <1>5, <3>2 DEF Kept
        <4> QED
          BY <4>1, <4>2
      <3> QED
        BY <3>1, <3>2
    <2>3. Map!Succeed(p, mib)
      BY <1>4, <1>5, <2>1, <2>2 DEF Map!Succeed
    <2> QED
      BY <2>3 DEF MapStep, Map!Next
  <1> QED
    BY <1>13, <1>14

(* The statement fails.                                                    *)
LEMMA StoreFailsKeeps ==
    ASSUME ConfInv, NEW p \in Proc, StoreFails(p), mibs' \in [Proc -> Seq(Mib)]
    PROVE  ConfInv' /\ MapStep
  <1>1. ConfTypeOK /\ pc[p] = "store"
        /\ Fits("store", tree[p], job[p], copy[p], Kept(rows, unsaved))
    BY DEF StoreFails, ConfInv
  <1>2. PICK j \in Job : j = job[p]
    BY <1>1 DEF Fits
  <1>3. PICK mib \in Mib : mib = j.mib
    BY DEF Job
  <1>4. /\ pc' = [pc EXCEPT ![p] = "ready"] /\ job' = [job EXCEPT ![p] = None]
        /\ unsaved' = unsaved \cup {mib}
        /\ rows' = rows /\ tree' = tree /\ copy' = copy /\ reported' = reported
    BY <1>2, <1>3 DEF StoreFails, Goto, db
  <1>5. ConfTypeOK'
    <2>1. pc' \in [Proc -> Starting \cup {"ready", "store"}]
      BY <1>1, <1>4 DEF ConfTypeOK
    <2>2. job' \in [Proc -> Job \cup {None}]
      BY <1>1, <1>4 DEF ConfTypeOK
    <2> QED
      BY <1>1, <1>4, <2>1, <2>2 DEF ConfTypeOK
  <1>6. /\ pc'[p] = "ready" /\ job'[p] = None
        /\ \A q \in Proc \ {p} : pc'[q] = pc[q] /\ job'[q] = job[q]
    BY <1>1, <1>4 DEF ConfTypeOK
  <1>7. Kept(rows, unsaved) \subseteq Kept(rows', unsaved') /\ mib \in Kept(rows', unsaved')
    BY <1>4 DEF Kept
  <1>8. Fits("ready", tree[p], None, copy[p], Kept(rows', unsaved'))
    <2>1. \A m \in Mib : SearchMib(tree[p], m) # None => m \in Kept(rows', unsaved')
      BY <1>1, <1>2, <1>3, <1>7 DEF Fits
    <2> QED
      BY <1>1, <2>1 DEF Fits, Starting
  <1>9. ReportsKept(rows', unsaved', reported')
    BY <1>4 DEF ConfInv, ReportsKept
  <1>10. ConfInv'
    BY <1>4, <1>5, <1>6, <1>7, <1>8, <1>9, StepKeeps
  <1>11. MapStep
    <2>1. \A m : Stored(m)' = Stored(m)
      BY <1>4, StoredNow, StoredThen
    <2>2. Map!Fail(mib)
      BY <1>4, <2>1 DEF Map!Fail
    <2> QED
      BY <2>2 DEF MapStep, Map!Next
  <1> QED
    BY <1>10, <1>11

(* A session ends.                                                         *)
LEMMA LeaveKeeps ==
    ASSUME ConfInv, NEW p \in Proc, Leave(p), UNCHANGED unsaved, mibs' \in [Proc -> Seq(Mib)]
    PROVE  ConfInv' /\ MapStep
  <1>1. /\ pc' = [pc EXCEPT ![p] = "idle"] /\ tree' = [tree EXCEPT ![p] = <<>>]
        /\ job' = [job EXCEPT ![p] = None] /\ copy' = [copy EXCEPT ![p] = None]
        /\ rows' = rows /\ reported' = reported
    BY DEF Leave, Goto, db
  <1>2. ConfTypeOK
    BY DEF ConfInv
  <1>3. ConfTypeOK'
    <2>1. pc' \in [Proc -> Starting \cup {"ready", "store"}]
      BY <1>1, <1>2 DEF ConfTypeOK, Starting
    <2>2. tree' \in [Proc -> Seq(Node)]
      BY <1>1, <1>2 DEF ConfTypeOK
    <2>3. job' \in [Proc -> Job \cup {None}] /\ copy' \in [Proc -> MaybeMap \cup {None}]
      BY <1>1, <1>2 DEF ConfTypeOK
    <2> QED
      BY <1>1, <1>2, <2>1, <2>2, <2>3 DEF ConfTypeOK
  <1>4. /\ pc'[p] = "idle" /\ copy'[p] = None
        /\ \A q \in Proc \ {p} : /\ pc'[q] = pc[q] /\ tree'[q] = tree[q]
                                 /\ job'[q] = job[q] /\ copy'[q] = copy[q]
    BY <1>1, <1>2 DEF ConfTypeOK
  <1>5. Fits("idle", tree'[p], job'[p], None, Kept(rows, unsaved))
    BY DEF Fits
  <1>6. ReportsKept(rows, unsaved, reported)
    BY DEF ConfInv
  <1>7. ConfInv'
    BY <1>1, <1>3, <1>4, <1>5, <1>6, StepKeeps
  <1>8. MapStep
    <2>1. \A m : Stored(m)' = Stored(m)
      BY <1>1, StoredNow, StoredThen
    <2>2. Map!Leave(p)
      BY <1>1, <2>1 DEF Map!Leave
    <2> QED
      BY <2>2 DEF MapStep, Map!Next
  <1> QED
    BY <1>7, <1>8

-----------------------------------------------------------------------------
(* The actions of a session.                                               *)

LEMMA OpensKeep ==
    ASSUME ConfInv, NEW p \in Proc, SOpen(p) \/ SCreate(p)
    PROVE  ConfInv' /\ MapStep
  <1>1. PICK l \in Starting : pc[p] \in Starting /\ pc' = [pc EXCEPT ![p] = l]
    BY DEF SOpen, SCreate, Open, Create, Goto, Starting
  <1>2. UNCHANGED <<rows, tree, job, history, mibs>>
    BY DEF SOpen, SCreate, Open, Create, scan, db
  <1>3. mibs' \in [Proc -> Seq(Mib)]
    BY <1>2 DEF ConfInv, ConfTypeOK
  <1> QED
    BY <1>1, <1>2, <1>3, QuietKeeps

LEMMA SetDefaultKeeps ==
    ASSUME ConfInv, NEW p \in Proc, SSetDefault(p)
    PROVE  ConfInv' /\ MapStep
  <1>1. pc[p] = "default" /\ UNCHANGED <<tree, job, history, mibs>>
    BY DEF SSetDefault, SetDefault, scan
  <1>2. CASE MibAdd(Default, On) /\ Goto(p, "read")
    BY <1>1, <1>2, DefaultKeeps
  <1>3. CASE Goto(p, "idle") /\ rows' = rows
    <2>1. mibs' \in [Proc -> Seq(Mib)]
      BY <1>1 DEF ConfInv, ConfTypeOK
    <2>2. pc[p] \in Starting /\ "idle" \in Starting /\ pc' = [pc EXCEPT ![p] = "idle"]
      BY <1>1, <1>3 DEF Starting, Goto
    <2> QED
      BY <1>1, <1>3, <2>1, <2>2, QuietKeeps
  <1> QED
    BY <1>2, <1>3 DEF SSetDefault, SetDefault

LEMMA ReadsKeep ==
    ASSUME ConfInv, MibsAreLeaves, NEW p \in Proc, SRead(p)
    PROVE  ConfInv' /\ MapStep
  <1>1. pc[p] = "read" /\ UNCHANGED <<rows, job, reported, unsaved, mibs>>
    BY DEF SRead, ReadFromDb, scan, db
  <1>2. CASE /\ tree' = [tree EXCEPT ![p] = TreeOf(rows)]
             /\ copy' = [copy EXCEPT ![p] = [m \in Mib |-> Stored(m)]]
             /\ Goto(p, "ready")
    BY <1>1, <1>2, ReadKeeps
  <1>3. CASE Goto(p, "idle") /\ UNCHANGED <<tree, copy>>
    <2>1. mibs' \in [Proc -> Seq(Mib)]
      BY <1>1 DEF ConfInv, ConfTypeOK
    <2>2. pc[p] \in Starting /\ "idle" \in Starting /\ pc' = [pc EXCEPT ![p] = "idle"]
      BY <1>1, <1>3 DEF Starting, Goto
    <2>3. UNCHANGED <<rows, tree, job, history>>
      BY <1>1, <1>3 DEF history
    <2> QED
      BY <2>1, <2>2, <2>3, QuietKeeps
  <1> QED
    BY <1>2, <1>3 DEF SRead, ReadFromDb

(* Nothing of the configuration changes when plugins are searched.         *)
LEMMA SearchKeeps ==
    ASSUME ConfInv, NEW p \in Proc, UNCHANGED vars, mibs' \in [Proc -> Seq(Mib)]
    PROVE  ConfInv' /\ MapStep
  <1>1. UNCHANGED <<rows, tree, job, history>> /\ pc' = pc
    BY DEF vars, history
  <1>2. "idle" \in Starting
    BY DEF Starting
  <1> QED
    BY <1>1, <1>2, QuietKeeps

LEMMA PluginsKeep ==
    ASSUME ConfInv, NEW p \in Proc, SearchPlugs(p) \/ ProbePlugin(p) \/ PluginReady(p)
    PROVE  ConfInv' /\ MapStep
  <1>1. mibs \in [Proc -> Seq(Mib)] /\ PluginMibs \in Seq(Mib)
    BY SessionConstants DEF ConfInv, ConfTypeOK
  <1>2. UNCHANGED vars /\ (mibs' = mibs \/ mibs' = Mark(mibs, p, PluginMibs))
    BY DEF SearchPlugs, ProbePlugin, PluginReady
  <1>3. mibs' \in [Proc -> Seq(Mib)]
    BY <1>1, <1>2 DEF Mark
  <1> QED
    BY <1>2, <1>3, SearchKeeps

LEMMA TestKeeps ==
    ASSUME ConfInv, MibsAreLeaves, NEW p \in Proc, MibTest(p)
    PROVE  ConfInv' /\ MapStep
  <1>1. mibs \in [Proc -> Seq(Mib)] /\ mibs[p] # <<>> /\ Off \in Value
    BY SessionConstants DEF ConfInv, ConfTypeOK, MibTest
  <1>2. PICK s \in Seq(Mib) : s = mibs[p]
    BY <1>1
  <1>3. Head(s) \in Mib /\ Tail(s) \in Seq(Mib)
    BY <1>1, <1>2
  <1>4. PICK m \in Mib : m = Head(s)
    BY <1>3
  <1>5. CASE ConfSet(p, m, Off) /\ UNCHANGED session
    BY <1>1, <1>5, ConfSetKeeps DEF session
  <1>6. CASE UNCHANGED vars /\ mibs' = Mark(mibs, p, Tail(s))
    <2>1. mibs' \in [Proc -> Seq(Mib)]
      BY <1>1, <1>3, <1>6 DEF Mark
    <2> QED
      BY <1>6, <2>1, SearchKeeps
  <1> QED
    BY <1>2, <1>4, <1>5, <1>6 DEF MibTest

LEMMA AppSetKeeps ==
    ASSUME ConfInv, MibsAreLeaves, NEW p \in Proc, NEW m \in Mib, NEW v \in Value,
           SSet(p, m, v)
    PROVE  ConfInv' /\ MapStep
BY ConfSetKeeps DEF SSet, Set, session

LEMMA StoresKeep ==
    ASSUME ConfInv, NEW p \in Proc, SStore(p) \/ SStoreFails(p)
    PROVE  ConfInv' /\ MapStep
  <1>1. mibs \in [Proc -> Seq(Mib)]
    BY DEF ConfInv, ConfTypeOK
  <1>2. PICK s \in Seq(Mib) : s = mibs[p]
    BY <1>1
  <1>3. CASE SStore(p)
    <2>1. SubSeq(s, 2, Len(s)) \in Seq(Mib)
      <3>1. \A i \in 2..Len(s) : s[i] \in Mib
        OBVIOUS
      <3> QED
        BY <3>1, SubSeqProperties
    <2>2. mibs' \in [Proc -> Seq(Mib)]
      BY <1>1, <1>2, <1>3, <2>1 DEF SStore, Mark
    <2> QED
      BY <1>3, <2>2, StoreKeeps DEF SStore
  <1>4. CASE SStoreFails(p)
    <2>1. mibs' = Mark(mibs, p, <<>>) \/ mibs' = mibs
      BY <1>4 DEF SStoreFails
    <2>2. <<>> \in Seq(Mib)
      OBVIOUS
    <2>3. mibs' \in [Proc -> Seq(Mib)]
      BY <1>1, <2>1, <2>2 DEF Mark
    <2> QED
      BY <1>4, <2>3, StoreFailsKeeps DEF SStoreFails
  <1> QED
    BY <1>3, <1>4

LEMMA EndsKeep ==
    ASSUME ConfInv, NEW p \in Proc,
           SClose(p) \/ (\E m \in Mib : SDies(p, m)) \/ (Crash(p) /\ Away(p))
    PROVE  ConfInv' /\ MapStep
  <1>1. Leave(p) /\ UNCHANGED unsaved /\ Away(p)
    BY DEF SClose, Close, SDies, SetDies, Crash
  <1>2. mibs' \in [Proc -> Seq(Mib)]
    BY <1>1 DEF Away, Mark, ConfInv, ConfTypeOK
  <1> QED
    BY <1>1, <1>2, LeaveKeeps

(* Only here is it needed which MIBs there are.                            *)
LEMMA NextKeeps ==
    ASSUME ConfInv, MibsAreLeaves, [SNext]_<<vars, session>>
    PROVE  ConfInv' /\ MapStep
  <1>1. ASSUME NEW p \in Proc, SOpen(p) \/ SCreate(p) PROVE ConfInv' /\ MapStep
    BY <1>1, OpensKeep
  <1>2. ASSUME NEW p \in Proc, SSetDefault(p) PROVE ConfInv' /\ MapStep
    BY <1>2, SetDefaultKeeps
  <1>3. ASSUME NEW p \in Proc, SRead(p) PROVE ConfInv' /\ MapStep
    BY <1>3, ReadsKeep
  <1>4. ASSUME NEW p \in Proc, SearchPlugs(p) \/ ProbePlugin(p) \/ PluginReady(p)
        PROVE  ConfInv' /\ MapStep
    BY <1>4, PluginsKeep
  <1>5. ASSUME NEW p \in Proc, MibTest(p) PROVE ConfInv' /\ MapStep
    BY <1>5, TestKeeps
  <1>6. ASSUME NEW p \in Proc, NEW m \in Mib, NEW v \in Value, SSet(p, m, v)
        PROVE  ConfInv' /\ MapStep
    BY <1>6, AppSetKeeps
  <1>7. ASSUME NEW p \in Proc, SStore(p) \/ SStoreFails(p) PROVE ConfInv' /\ MapStep
    BY <1>7, StoresKeep
  <1>8. ASSUME NEW p \in Proc,
               SClose(p) \/ (\E m \in Mib : SDies(p, m)) \/ (Crash(p) /\ Away(p))
        PROVE  ConfInv' /\ MapStep
    BY <1>8, EndsKeep
  <1>9. CASE SNext
    BY <1>1, <1>2, <1>3, <1>4, <1>5, <1>6, <1>7, <1>8, <1>9 DEF SNext
  <1>10. CASE UNCHANGED <<vars, session>>
    <2>1. /\ rows' = rows /\ pc' = pc /\ tree' = tree /\ job' = job /\ copy' = copy
          /\ reported' = reported /\ unsaved' = unsaved /\ mibs' = mibs
      BY <1>10 DEF vars, session
    <2>2. ConfInv'
      BY <2>1 DEF ConfInv, ConfTypeOK
    <2>3. \A m : Stored(m)' = Stored(m)
      BY <2>1, StoredNow, StoredThen
    <2>4. UNCHANGED Map!cvars
      BY <2>1, <2>3 DEF Map!cvars
    <2> QED
      BY <2>2, <2>4 DEF MapStep
  <1> QED
    BY <1>9, <1>10

LEMMA StartKeeps ==
    ASSUME SInit
    PROVE  ConfInv /\ Map!Init
  <1>1. /\ rows = <<>> /\ pc = [p \in Proc |-> "idle"] /\ tree = [p \in Proc |-> <<>>]
        /\ job = [p \in Proc |-> None] /\ copy = [p \in Proc |-> None]
        /\ reported = [m \in Mib |-> None] /\ unsaved = {} /\ mibs = [p \in Proc |-> <<>>]
    BY DEF SInit, Init
  <1>2. TableOK(rows) /\ \A m : StoredIn(rows, m) = None
    BY <1>1 DEF TableOK, StoredIn
  <1>3. ConfTypeOK
    BY <1>1, <1>2 DEF ConfTypeOK, Starting, MaybeMap
  <1>4. \A p \in Proc : Fits(pc[p], tree[p], job[p], copy[p], Kept(rows, unsaved))
    BY <1>1 DEF Fits
  <1>5. ReportsKept(rows, unsaved, reported)
    BY <1>1 DEF ReportsKept
  <1>6. Map!Init
    BY <1>1, <1>2, StoredNow DEF Map!Init
  <1> QED
    BY <1>3, <1>4, <1>5, <1>6 DEF ConfInv

THEOREM ConfInvariant == ASSUME MibsAreLeaves PROVE SSpec => []ConfInv
  <1>1. SInit => ConfInv
    BY StartKeeps
  <1>2. ConfInv /\ [SNext]_<<vars, session>> => ConfInv'
    BY NextKeeps
  <1> QED
    BY <1>1, <1>2, PTL DEF SSpec

(* What fdbfs_conf_get finds in the tree of a session is what the session  *)
(* read from the table and set since, in whatever order rows were stored   *)
(* and nodes made.                                                         *)
THEOREM TreesAreCopies == ASSUME MibsAreLeaves PROVE SSpec => []TreeIsCopy
  <1>1. ConfInv => TreeIsCopy
    BY DEF ConfInv, Fits, TreeIsCopy
  <1> QED
    BY <1>1, ConfInvariant, PTL

(* The table keeps what a fdbfs_conf_set of any session stored when it     *)
(* returned 1, until the next one that does, unless one of the same MIB    *)
(* failed or it is the default.                                            *)
THEOREM ReportsAreStored == ASSUME MibsAreLeaves PROVE SSpec => []ReportedIsStored
  <1>1. ConfInv => ReportedIsStored
    BY StoredNow DEF ConfInv, ReportsKept, ReportedIsStored
  <1> QED
    BY <1>1, ConfInvariant, PTL

(* The rows of the table and the trees of the sessions, each step of an    *)
(* SQL statement or of a change in memory, implement the map with copies   *)
(* of ConfMap.                                                             *)
THEOREM MapImplemented == ASSUME MibsAreLeaves PROVE SSpec => ImplementsMap
  <1>1. SInit => Map!Init
    BY StartKeeps
  <1>2. ConfInv /\ [SNext]_<<vars, session>> => [Map!Next]_(Map!cvars)
    BY NextKeeps DEF MapStep
  <1> QED
    BY <1>1, <1>2, ConfInvariant, PTL DEF SSpec, ImplementsMap, Map!Spec
=============================================================================
