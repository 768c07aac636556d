-------------------------- MODULE AutomatonProofs --------------------------
(***************************************************************************)
(* What the stack of a parser spells, for any well-made tables and any     *)
(* text: below a state whose configuration has its dot behind d symbols    *)
(* these symbols are on the stack, in order, and under them the state in   *)
(* which the rule began.  lempar.c pops a right-hand side on the strength  *)
(* of it, without a look.                                                  *)
(*                                                                         *)
(* The values on the stack have no type: what the code of a rule computes  *)
(* is the grammar's business.                                              *)
(***************************************************************************)
EXTENDS Automaton, Recursion, SequenceTheorems, FiniteSetTheorems

IsSeq(s) == \E S : s \in Seq(S)

LEMMA SeqFacts ==
    ASSUME NEW s, IsSeq(s)
    PROVE  /\ Len(s) \in Nat /\ DOMAIN s = 1..Len(s)
           /\ s = <<>> <=> Len(s) = 0
  <1>1. PICK S : s \in Seq(S)
    BY DEF IsSeq
  <1> QED
    BY <1>1, LenProperties, EmptySeq

LEMMA EmptyIsSeq == IsSeq(<<>>)
  <1>1. <<>> \in Seq({})
    BY EmptySeq
  <1> QED
    BY <1>1 DEF IsSeq

LEMMA OneIsSeq ==
    ASSUME NEW e
    PROVE  IsSeq(<<e>>) /\ Len(<<e>>) = 1 /\ <<e>>[1] = e /\ <<e>> # <<>>
  <1>1. <<e>> \in Seq({e}) /\ Len(<<e>>) = 1
    OBVIOUS
  <1> QED
    BY <1>1, EmptySeq DEF IsSeq

LEMMA AppendFacts ==
    ASSUME NEW s, IsSeq(s), NEW e
    PROVE  /\ IsSeq(Append(s, e)) /\ Append(s, e) # <<>>
           /\ Len(Append(s, e)) = Len(s) + 1
           /\ Append(s, e)[Len(s) + 1] = e
           /\ \A i \in 1..Len(s) : Append(s, e)[i] = s[i]
  <1>1. PICK S : s \in Seq(S)
    BY DEF IsSeq
  <1> DEFINE T == S \cup {e}
  <1>2. s \in Seq(T) /\ e \in T
    BY <1>1, SeqMonotonic
  <1> HIDE DEF T
  <1>3. Append(s, e) \in Seq(T)
    BY <1>2
  <1>4. /\ Len(Append(s, e)) = Len(s) + 1
        /\ Append(s, e)[Len(s) + 1] = e
        /\ \A i \in 1..Len(s) : Append(s, e)[i] = s[i]
    BY <1>2
  <1>5. Len(s) \in Nat
    BY <1>2
  <1> QED
    BY <1>3, <1>4, <1>5, EmptySeq DEF IsSeq

LEMMA PrefixFacts ==
    ASSUME NEW s, IsSeq(s), NEW n \in 0..Len(s)
    PROVE  /\ IsSeq(SubSeq(s, 1, n))
           /\ Len(SubSeq(s, 1, n)) = n
           /\ \A i \in 1..n : SubSeq(s, 1, n)[i] = s[i]
  <1>1. PICK S : s \in Seq(S)
    BY DEF IsSeq
  <1>2. SubSeq(s, 1, n) \in Seq(S) /\ Len(SubSeq(s, 1, n)) = n
    BY <1>1
  <1>3. \A i \in 1..n : SubSeq(s, 1, n)[i] = s[i]
    BY <1>1
  <1> QED
    BY <1>2, <1>3 DEF IsSeq

LEMMA LastOfSeq ==
    ASSUME NEW s
    PROVE  Last(s) = s[Len(s)]
  BY DEF Last

(* Counting up to a number: one more or the same.                          *)
LEMMA CountStep ==
    ASSUME NEW A, NEW m \in Nat
    PROVE  /\ Cardinality(A \cap 1..m) \in Nat
           /\ Cardinality(A \cap 1..(m + 1)) =
                 Cardinality(A \cap 1..m) + (IF m + 1 \in A THEN 1 ELSE 0)
  <1>1. IsFiniteSet(A \cap 1..m)
    <2>1. IsFiniteSet(1..m) /\ A \cap 1..m \subseteq 1..m
      BY FS_Interval
    <2> QED
      BY <2>1, FS_Subset
  <1>2. Cardinality(A \cap 1..m) \in Nat
    BY <1>1, FS_CardinalityType
  <1>3. CASE m + 1 \in A
    <2>1. A \cap 1..(m + 1) = (A \cap 1..m) \cup {m + 1} /\ m + 1 \notin A \cap 1..m
      BY <1>3
    <2> QED
      BY <1>1, <1>2, <1>3, <2>1, FS_AddElement
  <1>4. CASE m + 1 \notin A
    <2>1. A \cap 1..(m + 1) = A \cap 1..m
      BY <1>4
    <2> QED
      BY <1>2, <1>4, <2>1
  <1> QED
    BY <1>3, <1>4

LEMMA CountNone ==
    ASSUME NEW A
    PROVE  Cardinality(A \cap 1..0) = 0
  <1>1. A \cap 1..0 = {}
    OBVIOUS
  <1> QED
    BY <1>1, FS_EmptySet
-----------------------------------------------------------------------------
(* The stack: it begins in state 0, and each state is where the table      *)
(* leads from the one below, on its symbol.                                *)
Spelt(g, st) ==
    /\ IsSeq(st) /\ st # <<>>
    /\ st[1].state = 0 /\ st[1].symbol = "$"
    /\ \A i \in 1..(Len(st) - 1) : Leads(g, st[i].state, st[i + 1].symbol, st[i + 1].state)

LEMMA SpeltStates ==
    ASSUME NEW g, WellMade(g), NEW st, Spelt(g, st)
    PROVE  /\ Len(st) \in Nat \ {0}
           /\ \A i \in 1..Len(st) : st[i].state \in g.states
           /\ \A i \in 2..Len(st) : st[i].state # 0 /\ st[i].symbol \in Symbols(g)
           /\ Last(st) = st[Len(st)] /\ Last(st).state \in g.states
  <1>1. Len(st) \in Nat \ {0}
    BY SeqFacts DEF Spelt
  <1>2. 0 \in g.states
    BY DEF WellMade
  <1>3. ASSUME NEW i \in 2..Len(st)
        PROVE  st[i].state \in g.states /\ st[i].state # 0 /\ st[i].symbol \in Symbols(g)
    <2>1. i - 1 \in 1..(Len(st) - 1) /\ (i - 1) + 1 = i
      BY <1>1
    <2>2. st[i - 1].state \in g.states
      <3>1. CASE i = 2
        BY <3>1, <1>2 DEF Spelt
      <3>2. CASE i # 2
        <4>1. i - 2 \in 1..(Len(st) - 1) /\ (i - 2) + 1 = i - 1
          BY <3>2, <1>1
        <4>2. Leads(g, st[i - 2].state, st[i - 1].symbol, st[i - 1].state)
          BY <4>1 DEF Spelt
        <4> QED
          BY <4>2 DEF Leads
      <3> QED
        BY <3>1, <3>2
    <2>3. Leads(g, st[i - 1].state, st[i].symbol, st[i].state)
      BY <2>1 DEF Spelt
    <2> QED
      BY <2>2, <2>3 DEF Leads, WellMade, DotsMove
  <1>4. ASSUME NEW i \in 1..Len(st) PROVE st[i].state \in g.states
    <2>1. CASE i = 1
      BY <2>1, <1>2 DEF Spelt
    <2>2. CASE i # 1
      BY <2>2, <1>3, <1>1
    <2> QED
      BY <2>1, <2>2
  <1>5. Len(st) \in 1..Len(st) /\ Last(st) = st[Len(st)]
    BY <1>1, LastOfSeq
  <1>6. Last(st).state \in g.states
    BY <1>4, <1>5
  <1> QED
    BY <1>1, <1>3, <1>4, <1>5, <1>6

(* What is on top of the stack spells the rules that its states are in.    *)
SpellsBack(g, st, m, r, d) ==
    /\ d < m
    /\ \A e \in 0..d : <<r, d - e>> \in g.configs[st[m - e].state]
    /\ \A e \in 0..(d - 1) : st[m - e].symbol = g.rules[r].rhs[d - e]

LEMMA WayBack ==
    ASSUME NEW g, WellMade(g), NEW st, Spelt(g, st), NEW m \in 1..Len(st),
           NEW r \in 1..g.nrule, NEW d \in Nat, <<r, d>> \in g.configs[st[m].state]
    PROVE  SpellsBack(g, st, m, r, d)
  <1> DEFINE T == {e \in Nat : e <= d =>
                      /\ e < m
                      /\ <<r, d - e>> \in g.configs[st[m - e].state]
                      /\ \A f \in 0..(e - 1) : st[m - f].symbol = g.rules[r].rhs[d - f]}
  <1>1. 0 \in T
    OBVIOUS
  <1>2. ASSUME NEW e \in Nat, e \in T PROVE e + 1 \in T
    <2> SUFFICES ASSUME e + 1 <= d
                 PROVE  /\ e + 1 < m
                        /\ <<r, d - (e + 1)>> \in g.configs[st[m - (e + 1)].state]
                        /\ \A f \in 0..e : st[m - f].symbol = g.rules[r].rhs[d - f]
      OBVIOUS
    <2>1. /\ e < m
          /\ <<r, d - e>> \in g.configs[st[m - e].state]
          /\ \A f \in 0..(e - 1) : st[m - f].symbol = g.rules[r].rhs[d - f]
      BY <1>2
    <2>2. Len(st) \in Nat /\ m - e \in 1..Len(st) /\ d - e > 0 /\ d - e \in Nat
      BY <2>1, SpeltStates
    <2>3. m - e # 1
      <3> SUFFICES ASSUME m - e = 1 PROVE FALSE
        OBVIOUS
      <3>1. <<r, d - e>> \in g.configs[0]
        BY <2>1 DEF Spelt
      <3>2. <<r, d - e>>[2] = 0
        BY <3>1 DEF WellMade, DotsMove
      <3> QED
        BY <3>2, <2>2
    <2>4. m - (e + 1) \in 1..(Len(st) - 1) /\ (m - (e + 1)) + 1 = m - e
      BY <2>2, <2>3
    <2>5. Leads(g, st[m - (e + 1)].state, st[m - e].symbol, st[m - e].state)
      BY <2>4 DEF Spelt
    <2>6. st[m - (e + 1)].state \in g.states
      <3> DEFINE n == Len(st)  k == m - (e + 1)
      <3>1. k \in 1..n
        <4>1. n \in Nat /\ k \in 1..(n - 1)
          BY <2>2, <2>4
        <4> HIDE DEF n, k
        <4> QED
          BY <4>1
      <3> QED
        BY <3>1, SpeltStates
    <2>7. /\ <<r, (d - e) - 1>> \in g.configs[st[m - (e + 1)].state]
          /\ g.rules[r].rhs[d - e] = st[m - e].symbol
      <3>1. \A c \in g.configs[st[m - e].state] : c[2] > 0 =>
               /\ <<c[1], c[2] - 1>> \in g.configs[st[m - (e + 1)].state]
               /\ g.rules[c[1]].rhs[c[2]] = st[m - e].symbol
        <4>1. DotsMove(g)
          BY DEF WellMade
        <4>2. /\ st[m - e].symbol \in Symbols(g)
              /\ st[m - e].state = OrderOn(g, st[m - (e + 1)].state, st[m - e].symbol)
              /\ st[m - e].state \in g.states
          BY <2>5 DEF Leads
        <4> QED
          BY <4>1, <4>2, <2>6 DEF DotsMove
      <3> QED
        BY <3>1, <2>1, <2>2
    <2>8. (d - e) - 1 = d - (e + 1)
      OBVIOUS
    <2>9. ASSUME NEW f \in 0..e PROVE st[m - f].symbol = g.rules[r].rhs[d - f]
      <3>1. CASE f = e
        BY <3>1, <2>7
      <3>2. CASE f # e
        BY <3>2, <2>1
      <3> QED
        BY <3>1, <3>2
    <2> QED
      BY <2>2, <2>4, <2>7, <2>8, <2>9
  <1>3. Nat \subseteq T
    <2> HIDE DEF T
    <2> QED
      BY <1>1, <1>2, Induction
  <1>4. ASSUME NEW e \in 0..d
        PROVE  /\ e < m
               /\ <<r, d - e>> \in g.configs[st[m - e].state]
               /\ \A f \in 0..(e - 1) : st[m - f].symbol = g.rules[r].rhs[d - f]
    <2>1. e \in T
      <3> HIDE DEF T
      <3> QED
        BY <1>3
    <2>2. e <= d
      OBVIOUS
    <2> QED
      BY <2>1, <2>2, Zenon
  <1>5. d \in 0..d
    OBVIOUS
  <1>6. d < m /\ \A f \in 0..(d - 1) : st[m - f].symbol = g.rules[r].rhs[d - f]
    BY <1>4, <1>5
  <1> QED
    BY <1>4, <1>6 DEF SpellsBack

(* A symbol more, where the table leads.                                   *)
LEMMA SpeltOn ==
    ASSUME NEW g, WellMade(g), NEW st, Spelt(g, st), NEW e,
           Leads(g, Last(st).state, e.symbol, e.state)
    PROVE  Spelt(g, Append(st, e)) /\ Last(Append(st, e)) = e
  <1> DEFINE on == Append(st, e)
  <1>1. /\ IsSeq(on) /\ on # <<>> /\ Len(on) = Len(st) + 1
        /\ on[Len(st) + 1] = e /\ \A i \in 1..Len(st) : on[i] = st[i]
    BY AppendFacts DEF Spelt
  <1>2. Len(st) \in Nat \ {0} /\ Last(st) = st[Len(st)]
    BY SpeltStates
  <1> HIDE DEF on
  <1>3. ASSUME NEW i \in 1..(Len(on) - 1)
        PROVE  Leads(g, on[i].state, on[i + 1].symbol, on[i + 1].state)
    <2>1. CASE i = Len(st)
      BY <2>1, <1>1, <1>2
    <2>2. CASE i # Len(st)
      <3>1. i \in 1..(Len(st) - 1) /\ i \in 1..Len(st) /\ i + 1 \in 1..Len(st)
        BY <2>2, <1>1, <1>2
      <3>2. on[i] = st[i] /\ on[i + 1] = st[i + 1]
        BY <3>1, <1>1
      <3> QED
        BY <3>1, <3>2 DEF Spelt
    <2> QED
      BY <2>1, <2>2
  <1>4. on[1] = st[1]
    BY <1>1, <1>2
  <1>5. Last(on) = e
    BY <1>1, LastOfSeq
  <1> QED
    BY <1>1, <1>3, <1>4, <1>5 DEF Spelt, on

LEMMA SpeltBefore ==
    ASSUME NEW g, WellMade(g), NEW st, Spelt(g, st), NEW n \in 1..Len(st)
    PROVE  /\ Spelt(g, SubSeq(st, 1, n))
           /\ Len(SubSeq(st, 1, n)) = n
           /\ \A i \in 1..n : SubSeq(st, 1, n)[i] = st[i]
           /\ Last(SubSeq(st, 1, n)) = st[n]
  <1> DEFINE on == SubSeq(st, 1, n)
  <1>1. Len(st) \in Nat /\ n \in 0..Len(st)
    BY SpeltStates
  <1>2. IsSeq(on) /\ Len(on) = n /\ \A i \in 1..n : on[i] = st[i]
    BY <1>1, PrefixFacts DEF Spelt
  <1> HIDE DEF on
  <1>3. on # <<>>
    BY <1>2, SeqFacts
  <1>4. ASSUME NEW i \in 1..(Len(on) - 1)
        PROVE  Leads(g, on[i].state, on[i + 1].symbol, on[i + 1].state)
    <2>1. i \in 1..(Len(st) - 1) /\ i \in 1..n /\ i + 1 \in 1..n
      BY <1>1, <1>2
    <2>2. on[i] = st[i] /\ on[i + 1] = st[i + 1]
      BY <2>1, <1>2
    <2> QED
      BY <2>1, <2>2 DEF Spelt
  <1>5. on[1] = st[1] /\ Last(on) = st[n]
    BY <1>2, LastOfSeq
  <1> QED
    BY <1>2, <1>3, <1>4, <1>5 DEF Spelt, on

LEMMA SpeltBottom ==
    ASSUME NEW g
    PROVE  Spelt(g, <<Bottom>>) /\ Len(<<Bottom>>) = 1 /\ Last(<<Bottom>>).state = 0
  <1>1. IsSeq(<<Bottom>>) /\ Len(<<Bottom>>) = 1 /\ <<Bottom>>[1] = Bottom /\ <<Bottom>> # <<>>
    BY OneIsSeq
  <1>2. Bottom.state = 0 /\ Bottom.symbol = "$"
    BY DEF Bottom
  <1>3. Last(<<Bottom>>) = Bottom
    BY <1>1, LastOfSeq
  <1> QED
    BY <1>1, <1>2, <1>3 DEF Spelt
=============================================================================
