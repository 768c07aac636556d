------------------------------ MODULE Automaton ------------------------------
(***************************************************************************)
(* The automaton that the packed tables of Lempar are: which state a       *)
(* symbol leads to, and what its tables have to be like for the parser's   *)
(* stack to spell what its states stand for (buildtools/lemon.c says so    *)
(* nowhere; lempar.c relies on it when it pops a right-hand side without a *)
(* look at what it pops).                                                  *)
(*                                                                         *)
(* The tables of a grammar are constants.  A module that assumes something *)
(* of them is extended by a module TLC runs, which computes the tables as  *)
(* lemon does and evaluates the assumption; the proofs go on from there.   *)
(***************************************************************************)
EXTENDS Lempar

Symbols(g) == ToSet(g.symbols)
Terminals(g) == {x \in Symbols(g) : IsTerminal(g, x)}
RhsLength(g, r) == Len(g.rules[r].rhs)
Reduces(g, a) == a \in g.nstate..ErrorAction(g) - 1
RuleOf(g, a) == a - g.nstate + 1

\* What the tables order in state s: for a token, or for a nonterminal when a
\* rule has been reduced to it.
OrderOn(g, s, x) == FindAction(g, IF IsTerminal(g, x) THEN "shift" ELSE "reduce", s, x)
Leads(g, s, x, t) == x \in Symbols(g) /\ t = OrderOn(g, s, x) /\ t \in g.states

\* The dot of a configuration moves over the symbol that leads to its state.
DotsMove(g) ==
    /\ \A c \in g.configs[0] : c[2] = 0
    /\ \A s \in g.states : \A x \in Symbols(g) : OrderOn(g, s, x) \in g.states =>
          LET t == OrderOn(g, s, x)
          IN  t # 0 /\ \A c \in g.configs[t] : c[2] > 0 =>
                 <<c[1], c[2] - 1>> \in g.configs[s] /\ g.rules[c[1]].rhs[c[2]] = x

\* A rule is reduced where its right-hand side is complete, and where it
\* began there is something to do with its left-hand side.
ReducesComplete(g) ==
    /\ \A s \in g.states : \A x \in Terminals(g) :
          LET a == OrderOn(g, s, x)
          IN  /\ a \in 0..ErrorAction(g)
              /\ Reduces(g, a) => <<RuleOf(g, a), RhsLength(g, RuleOf(g, a))>> \in g.configs[s]
    /\ \A s \in g.states : \A c \in g.configs[s] : c[2] = 0 =>
          LET lhs == g.rules[c[1]].lhs
          IN  lhs \in Symbols(g) /\ OrderOn(g, s, lhs) \in g.states \cup {AcceptAction(g)}

\* Nothing is packed over: the tables order what FindActions computed.
Packs(g) ==
    /\ \A s \in g.states : \A x \in Terminals(g) : OrderOn(g, s, x) = Intended(g, s, x)
    /\ \A s \in g.states : \A c \in g.configs[s] : c[2] = 0 =>
          LET lhs == g.rules[c[1]].lhs IN OrderOn(g, s, lhs) = Intended(g, s, lhs)

\* No grammar of libfakedbfs names "error": a parser that meets one stops.
NeverRecovers(g) ==
    \A s \in g.states : /\ ~(FindAction(g, "shift", s, "error") < g.nstate)
                         /\ OrderOn(g, s, "error") \notin g.states

WellMade(g) ==
    /\ g.nstate \in Nat \ {0} /\ g.nrule \in Nat
    /\ g.states = 0..g.nstate - 1
    /\ \A r \in 1..g.nrule : /\ g.rules[r].rhs \in Seq(Symbols(g))
                             /\ g.rules[r].lhs \in Symbols(g) /\ ~IsTerminal(g, g.rules[r].lhs)
    /\ \A s \in g.states : g.configs[s] \subseteq (1..g.nrule) \X Nat
    /\ ConflictFree(g)
    /\ DotsMove(g) /\ ReducesComplete(g) /\ Packs(g) /\ NeverRecovers(g)
=============================================================================
