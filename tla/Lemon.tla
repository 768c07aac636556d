-------------------------------- MODULE Lemon --------------------------------
(***************************************************************************)
(* The parser generator of buildtools/lemon.c, which turns a grammar into  *)
(* the tables of the parsers of libfakedbfs: first sets, LALR(1) states,   *)
(* follow sets, actions, default reductions, and the packing of all the    *)
(* actions into one table.  It runs when the library is built, so that all *)
(* of this is a constant of the parsers: a grammar goes through the stages *)
(* Numbered, WithFirst, WithBases, WithStates, WithFollow, WithActions,    *)
(* WithDefaults, WithSets, WithPlaces and Packed, each of which adds       *)
(* fields to its record.                                                   *)
(*                                                                         *)
(* Left out: resolve_conflict, because no lookahead of the grammars of     *)
(* libfakedbfs has two actions (ConflictFree), and the depth-first order   *)
(* of the state numbers, of which only the places in the packed table      *)
(* depend: states are numbered breadth first.                              *)
(***************************************************************************)
EXTENDS Integers, SequencesExt, TLC

(* The elements of s in the order of their first occurrences.              *)
Distinct(s) ==
    LET at == SelectSeq([i \in DOMAIN s |-> i], LAMBDA i : \A j \in 1..i-1 : s[j] # s[i])
    IN  [k \in DOMAIN at |-> s[at[k]]]

(* Symbols are numbered in the order in which the grammar names them,      *)
(* terminals first; "$" and "error" exist before the grammar is read.      *)
Numbered(declared, rules) ==
    LET nonterminal == {"error"} \cup {rules[r].lhs : r \in DOMAIN rules}
        named == Distinct(<<"$", "error">> \o declared
                   \o FlattenSeq([r \in DOMAIN rules |-> <<rules[r].lhs>> \o rules[r].rhs]))
        terminals == SelectSeq(named, LAMBDA s : s \notin nonterminal)
        symbols == terminals \o SelectSeq(named, LAMBDA s : s \in nonterminal)
    IN  [rules |-> rules,
         nrule |-> Len(rules),
         start |-> rules[1].lhs,
         nonterminal |-> nonterminal,
         rulesOf |-> [n \in nonterminal |-> {r \in DOMAIN rules : rules[r].lhs = n}],
         symbols |-> symbols,
         nterminal |-> Len(terminals),
         index |-> [s \in ToSet(symbols) |-> (CHOOSE i \in DOMAIN symbols : symbols[i] = s) - 1]]
IsTerminal(g, s) == s \notin g.nonterminal
-----------------------------------------------------------------------------
(* FindFirstSets: the nonterminals that can be empty, then the tokens a    *)
(* text of each nonterminal can begin with.                                *)
Lambdas(g) ==
    LET from[N \in SUBSET g.nonterminal] ==
            LET M == {n \in g.nonterminal : \E r \in g.rulesOf[n] : ToSet(g.rules[r].rhs) \subseteq N}
            IN  IF M = N THEN N ELSE from[M]
    IN  from[{}]

FirstOf(g, lambda, F, rhs) ==
    UNION {IF IsTerminal(g, rhs[i]) THEN {rhs[i]} ELSE F[rhs[i]]
             : i \in {j \in DOMAIN rhs : \A h \in 1..j-1 : rhs[h] \in lambda}}
Firsts(g, lambda) ==
    LET from[F \in [g.nonterminal -> SUBSET ToSet(g.symbols)]] ==
            LET G == [n \in g.nonterminal |->
                        UNION {FirstOf(g, lambda, F, g.rules[r].rhs) : r \in g.rulesOf[n]}]
            IN  IF G = F THEN F ELSE from[G]
    IN  from[[n \in g.nonterminal |-> {}]]
WithFirst(g) == [lambda |-> Lambdas(g), first |-> Firsts(g, Lambdas(g))] @@ g
-----------------------------------------------------------------------------
(* A configuration <<r, d>>: rule r with the dot behind d symbols.         *)
Config == Nat \X Nat
Unfinished(g, c) == c[2] < Len(g.rules[c[1]].rhs)
AfterDot(g, c) == g.rules[c[1]].rhs[c[2] + 1]
Remaining(g, c) == SubSeq(g.rules[c[1]].rhs, c[2] + 2, Len(g.rules[c[1]].rhs))
Shifted(c) == <<c[1], c[2] + 1>>
Awaits(g, c, s) == Unfinished(g, c) /\ AfterDot(g, c) = s

(* Configlist_closure. *)
Closure(g, basis) ==
    LET from[C \in SUBSET Config] ==
            LET awaited == {AfterDot(g, c) : c \in {d \in C : Unfinished(g, d)}}
                D == C \cup {<<r, 0>> : r \in UNION {g.rulesOf[n] : n \in awaited \cap g.nonterminal}}
            IN  IF C = D THEN C ELSE from[D]
    IN  from[basis]

(* buildshifts: the symbols that can be shifted, in the order of their     *)
(* first configuration, and the basis each of them leads to.               *)
Rank(c) == 10 * c[1] + c[2]
Shifts(g, C) ==
    LET leads(c) == Unfinished(g, c)
                    /\ \A d \in C : Awaits(g, d, AfterDot(g, c)) => Rank(c) <= Rank(d)
        leaders == {c \in C : leads(c)}
        ranked == [i \in 1..10 * g.nrule + 9 |-> <<i \div 10, i % 10>>]
        order == SelectSeq(ranked, LAMBDA c : c \in leaders)
    IN  [i \in DOMAIN order |->
            [on |-> AfterDot(g, order[i]),
             to |-> {Shifted(d) : d \in {e \in C : Awaits(g, e, AfterDot(g, order[i]))}}]]

(* FindStates and getstate: a state is known by its basis.                 *)
WithBases(g) ==
    LET reach(b) == LET m == Shifts(g, Closure(g, b)) IN [i \in DOMAIN m |-> m[i].to]
        from[found \in Seq(SUBSET Config), n \in Nat] ==
            LET more == Distinct(found \o FlattenSeq([i \in 1..Len(found) - n |-> reach(found[n + i])]))
            IN  IF more = found THEN found ELSE from[more, Len(found)]
    IN  [bases |-> from[<<{<<r, 0>> : r \in g.rulesOf[g.start]}>>, 0]] @@ g
StateOf(g, basis) == (CHOOSE i \in DOMAIN g.bases : g.bases[i] = basis) - 1
Goto(g, C) ==
    LET m == Shifts(g, C)
    IN  [x \in {m[i].on : i \in DOMAIN m} |->
            StateOf(g, m[CHOOSE i \in DOMAIN m : m[i].on = x].to)]
WithStates(g) ==
    LET configs == [i \in DOMAIN g.bases |-> Closure(g, g.bases[i])]
        state == 0..Len(g.bases) - 1
    IN  [nstate |-> Len(g.bases),
         states |-> state,
         configs |-> [s \in state |-> configs[s + 1]],
         finished |-> [s \in state |-> {c \in configs[s + 1] : ~Unfinished(g, c)}],
         goto |-> [s \in state |-> Goto(g, configs[s + 1])]] @@ g
-----------------------------------------------------------------------------
(* FindLinks and FindFollowSets: the tokens that can come after a          *)
(* configuration.  Configlist_closure gives the first of them and links a  *)
(* configuration to the one it was added for when the rest of that rule    *)
(* can vanish; buildshifts links it to the one with the dot a symbol back. *)
WithFollow(g) ==
    LET items == UNION {{s} \X g.configs[s] : s \in g.states}
        lhs(c) == g.rules[c[1]].lhs
        parents(s, c) == {p \in g.configs[s] : c[2] = 0 /\ Awaits(g, p, lhs(c))}
        own(s, c) == UNION {FirstOf(g, g.lambda, g.first, Remaining(g, p)) : p \in parents(s, c)}
                     \cup (IF s = 0 /\ c[2] = 0 /\ lhs(c) = g.start THEN {"$"} ELSE {})
        sources(s, c) ==
            LET back == <<c[1], c[2] - 1>>
            IN  {q \in g.states : /\ back \in g.configs[q]
                                  /\ g.goto[q][AfterDot(g, back)] = s}
        links == [i \in items |->
            LET s == i[1] c == i[2]
            IN  IF c[2] = 0
                THEN {<<s, p>> : p \in {q \in parents(s, c) : ToSet(Remaining(g, q)) \subseteq g.lambda}}
                ELSE {<<q, <<c[1], c[2] - 1>>>> : q \in sources(s, c)}]
        from[F \in [items -> SUBSET ToSet(g.symbols)]] ==
            LET G == [i \in items |-> F[i] \cup UNION {F[j] : j \in links[i]}]
            IN  IF G = F THEN F ELSE from[G]
    IN  [follow |-> from[[i \in items |-> own(i[1], i[2])]]] @@ g
-----------------------------------------------------------------------------
(* compute_action: the numbers of the actions, and the code of no token.   *)
Reduce(g, r) == g.nstate + r - 1
ErrorAction(g) == g.nstate + g.nrule
AcceptAction(g) == g.nstate + g.nrule + 1
NoCode(g) == Len(g.symbols) + 1

(* FindActions: shift what has a successor, reduce a finished rule on what *)
(* can follow it, accept the start symbol in state 0.                      *)
Reducible(g, s, x) ==
    {c[1] : c \in {d \in g.finished[s] : x \in g.follow[<<s, d>>]}}
Conflicts(g) ==
    {p \in g.states \X ToSet(g.symbols) :
        \/ Cardinality(Reducible(g, p[1], p[2])) > 1
        \/ p[2] \in DOMAIN g.goto[p[1]] /\ Reducible(g, p[1], p[2]) # {}}
ConflictFree(g) == Conflicts(g) = {}
WithActions(g) ==
    LET tokens == {x \in ToSet(g.symbols) : IsTerminal(g, x)}
        reduced(s) == {x \in tokens : Reducible(g, s, x) # {}}
        action(s, x) ==
            IF x = g.start /\ s = 0 THEN AcceptAction(g)
            ELSE IF x \in DOMAIN g.goto[s] THEN g.goto[s][x]
            ELSE Reduce(g, CHOOSE r \in Reducible(g, s, x) : TRUE)
    IN  [action |-> [s \in g.states |->
            [x \in DOMAIN g.goto[s] \cup reduced(s) \cup (IF s = 0 THEN {g.start} ELSE {})
               |-> action(s, x)]]] @@ g

(* CompressTables: the most frequent reduction of a state becomes its      *)
(* default if it occurs twice; of two equally frequent ones the first.     *)
WithDefaults(g) ==
    LET reductions(s) == {a \in {g.action[s][x] : x \in DOMAIN g.action[s]} :
                             a \in g.nstate..ErrorAction(g) - 1}
        uses(s, a) == {x \in DOMAIN g.action[s] : g.action[s][x] = a}
        often(s, a) == Cardinality(uses(s, a))
        first(s, a) == Min({g.index[x] : x \in uses(s, a)})
        best(s) == CHOOSE a \in reductions(s) : \A b \in reductions(s) :
                      \/ often(s, a) > often(s, b)
                      \/ often(s, a) = often(s, b) /\ first(s, a) <= first(s, b)
        default(s) == IF \E a \in reductions(s) : often(s, a) >= 2 THEN best(s) ELSE ErrorAction(g)
    IN  [default |-> [s \in g.states |-> default(s)]] @@ g
-----------------------------------------------------------------------------
(* The action table: a function from its slots to records [la, act].       *)
Slots(tab) == DOMAIN tab
LookaheadAt(tab, k) == IF k \in Slots(tab) THEN tab[k].la ELSE -1

(* acttab_insert: a set of actions, a function of symbol numbers, goes to  *)
(* the first place where all its slots are free and no other entry would   *)
(* be taken for one of the set, or where the same set already is.          *)
Place(tab, set) ==
    LET size == Cardinality(Slots(tab))
        least == Min(DOMAIN set)
        slot(i, a) == a - least + i
        mistaken(i) == {j \in Slots(tab) : tab[j].la >= 0 /\ tab[j].la = j + least - i}
        fits(i) ==
            /\ \A a \in DOMAIN set : LookaheadAt(tab, slot(i, a)) < 0
            /\ mistaken(i) = {}
        same(i) ==
            /\ \A a \in DOMAIN set : slot(i, a) \in Slots(tab)
                                     /\ tab[slot(i, a)] = [la |-> a, act |-> set[a]]
            /\ Cardinality(mistaken(i)) = Cardinality(DOMAIN set)
        usable == {i \in 0..size + least - 1 :
                      IF LookaheadAt(tab, i) < 0 THEN fits(i)
                      ELSE tab[i].la = least /\ same(i)}
    IN  (IF usable = {} THEN size + least ELSE Min(usable)) - least
Insert(tab, set, offset) ==
    LET filled == {a + offset : a \in DOMAIN set}
        top == Max(Slots(tab) \cup filled)
    IN  [k \in 0..top |-> IF k \in filled THEN [la |-> k - offset, act |-> set[k - offset]]
                          ELSE IF k \in Slots(tab) THEN tab[k] ELSE [la |-> -1, act |-> -1]]

(* ReportTable: the sets of actions on tokens and on nonterminals of all   *)
(* states, largest first.  qsort leaves the order of equal sizes open.     *)
WithSets(g) ==
    LET wanted(s, kind) == {x \in DOMAIN g.action[s] :
                               /\ g.action[s][x] # g.default[s]
                               /\ kind = IF IsTerminal(g, x) THEN "shift" ELSE "reduce"}
    IN  [sets |-> [w \in g.states \X {"shift", "reduce"} |->
            [a \in {g.index[x] : x \in wanted(w[1], w[2])} |-> g.action[w[1]][g.symbols[a + 1]]]]] @@ g
BySize(g) ==
    LET all == FlattenSeq([i \in 1..g.nstate |-> <<<<i - 1, "shift">>, <<i - 1, "reduce">>>>])
        size(w) == Cardinality(DOMAIN g.sets[w])
    IN  FlattenSeq([i \in 1..Len(g.symbols) |-> SelectSeq(all, LAMBDA w : size(w) = Len(g.symbols) + 1 - i)])
WithPlaces(g) ==
    LET order == BySize(g)
        pack[n \in 0..Len(order)] ==
            IF n = 0 THEN [table |-> <<>>, at |-> <<>>]
            ELSE LET p == pack[n - 1]
                     offset == Place(p.table, g.sets[order[n]])
                 IN  [table |-> Insert(p.table, g.sets[order[n]], offset),
                      at |-> (order[n] :> offset) @@ p.at]
    IN  pack[Len(order)] @@ g
UseDefault(g, kind) == Min({0} \cup {g.at[w] : w \in {v \in DOMAIN g.at : v[2] = kind}}) - 1
Packed(g) ==
    LET offset(s, kind) == IF <<s, kind>> \in DOMAIN g.at THEN g.at[<<s, kind>>]
                           ELSE UseDefault(g, kind)
    IN  [offset |-> [kind \in {"shift", "reduce"} |-> [s \in g.states |-> offset(s, kind)]],
         useDefault |-> [kind \in {"shift", "reduce"} |-> UseDefault(g, kind)]] @@ g

(* What a state does on a symbol before its actions are packed.            *)
Intended(g, s, x) == IF x \in DOMAIN g.action[s] THEN g.action[s][x] ELSE g.default[s]
=============================================================================
