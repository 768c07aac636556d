-------------------------- MODULE QueryTextProofs --------------------------
(***************************************************************************)
(* What the parser of queries does on every text, of whatever length, with *)
(* groups nested to whatever depth, for every stack depth from 11 on: it   *)
(* refuses a text at the first token that cannot stand there, a text for   *)
(* which yy_shift emptied a full stack never becomes a statement, what the *)
(* rules queue is what the tokens say, and the SELECT made of that fits    *)
(* its buffer.                                                             *)
(*                                                                         *)
(* The facts QueryTables about the tables of the grammar, which TLC        *)
(* evaluates, are all the proofs use of them; no table is looked into.     *)
(***************************************************************************)
EXTENDS QueryAutomaton, AutomatonProofs

LEMMA Tabled ==
    /\ WellMade(Tables)
    /\ Tables.nstate \in Nat \ {0} /\ Tables.nrule \in Nat
    /\ Tables.states = 0..(Tables.nstate - 1) /\ 0 \in Tables.states
    /\ Tables.rules = Grammar /\ DOMAIN Grammar = 1..Tables.nrule
    /\ ErrorAction(Tables) = Tables.nstate + Tables.nrule
    /\ AcceptAction(Tables) = Tables.nstate + Tables.nrule + 1
    /\ \A r \in 1..Tables.nrule : RhsLength(Tables, r) \in Nat
  <1>1. WellMade(Tables)
    BY QueryTables
  <1>2. /\ Tables.nstate \in Nat \ {0} /\ Tables.nrule \in Nat
        /\ Tables.states = 0..(Tables.nstate - 1)
    BY <1>1 DEF WellMade
  <1>3. 0 \in Tables.states
    BY <1>2
  <1>4. Tables.rules = Grammar /\ DOMAIN Grammar = 1..Tables.nrule
    BY QueryTables DEF GroupsAreRules
  <1>5. ASSUME NEW r \in 1..Tables.nrule PROVE RhsLength(Tables, r) \in Nat
    <2>1. Tables.rules[r].rhs \in Seq(Symbols(Tables))
      BY <1>1 DEF WellMade
    <2> QED
      BY <2>1, LenProperties DEF RhsLength
  <1> QED
    BY <1>1, <1>2, <1>3, <1>4, <1>5 DEF ErrorAction, AcceptAction

(* What the tables order for a token.                                      *)
LEMMA OnToken ==
    ASSUME NEW s \in Tables.states, NEW x \in Terminals(Tables)
    PROVE  /\ x \in Symbols(Tables)
           /\ FindAction(Tables, "shift", s, x) = Order(s, x)
           /\ Intended(Tables, s, x) = Order(s, x)
           /\ Order(s, x) \in 0..ErrorAction(Tables)
           /\ Order(s, x) < Tables.nstate <=> Order(s, x) \in Tables.states
           /\ Reduces(Tables, Order(s, x)) <=> Order(s, x) \in Tables.nstate..(ErrorAction(Tables) - 1)
           /\ Reduces(Tables, Order(s, x)) =>
                 /\ RuleOf(Tables, Order(s, x)) \in 1..Tables.nrule
                 /\ Holds(s, RuleOf(Tables, Order(s, x)), RhsLength(Tables, RuleOf(Tables, Order(s, x))))
  <1>1. x \in Symbols(Tables) /\ IsTerminal(Tables, x)
    BY DEF Terminals
  <1>2. FindAction(Tables, "shift", s, x) = Order(s, x)
    BY <1>1 DEF Order, OrderOn
  <1>3. ReducesComplete(Tables) /\ Packs(Tables)
    BY Tabled DEF WellMade
  <1>4. Intended(Tables, s, x) = Order(s, x)
    BY <1>3 DEF Packs, Order
  <1>5. /\ Order(s, x) \in 0..ErrorAction(Tables)
        /\ Reduces(Tables, Order(s, x)) =>
              Holds(s, RuleOf(Tables, Order(s, x)), RhsLength(Tables, RuleOf(Tables, Order(s, x))))
    BY <1>3 DEF ReducesComplete, Order, Holds
  <1>6. Reduces(Tables, Order(s, x)) <=> Order(s, x) \in Tables.nstate..(ErrorAction(Tables) - 1)
    BY DEF Reduces
  <1>7. ASSUME Order(s, x) \in Tables.nstate..(ErrorAction(Tables) - 1)
        PROVE  RuleOf(Tables, Order(s, x)) \in 1..Tables.nrule
    BY <1>7, <1>5, Tabled, SMTT(30) DEF RuleOf
  <1>8. Order(s, x) < Tables.nstate <=> Order(s, x) \in Tables.states
    BY <1>5, Tabled
  <1> QED
    BY <1>1, <1>2, <1>4, <1>5, <1>6, <1>7, <1>8

(* ... and for a rule that began in s.                                     *)
LEMMA OnRule ==
    ASSUME NEW s \in Tables.states, NEW r \in 1..Tables.nrule, Holds(s, r, 0)
    PROVE  LET lhs == Grammar[r].lhs IN
           /\ lhs \in Symbols(Tables) /\ lhs \notin Terminals(Tables)
           /\ FindAction(Tables, "reduce", s, lhs) = Order(s, lhs)
           /\ Intended(Tables, s, lhs) = Order(s, lhs)
           /\ Order(s, lhs) \in Tables.states \cup {AcceptAction(Tables)}
           /\ Order(s, lhs) < Tables.nstate <=> Order(s, lhs) \in Tables.states
           /\ Order(s, lhs) = AcceptAction(Tables) => Order(s, lhs) \notin Tables.states
  <1> DEFINE lhs == Grammar[r].lhs
  <1>1. Tables.rules[r].lhs = lhs
    BY Tabled
  <1>2. lhs \in Symbols(Tables) /\ ~IsTerminal(Tables, lhs)
    BY <1>1, Tabled DEF WellMade
  <1>3. ReducesComplete(Tables) /\ Packs(Tables)
    BY Tabled DEF WellMade
  <1>4. <<r, 0>> \in Tables.configs[s] /\ <<r, 0>>[1] = r /\ <<r, 0>>[2] = 0
    BY DEF Holds
  <1>5. Order(s, lhs) \in Tables.states \cup {AcceptAction(Tables)}
    <2>1. \A c \in Tables.configs[s] : c[2] = 0 =>
             OrderOn(Tables, s, Tables.rules[c[1]].lhs) \in Tables.states \cup {AcceptAction(Tables)}
      BY <1>3 DEF ReducesComplete
    <2> QED
      BY <2>1, <1>4, <1>1 DEF Order
  <1>6. Intended(Tables, s, lhs) = Order(s, lhs)
    <2>1. \A c \in Tables.configs[s] : c[2] = 0 =>
             OrderOn(Tables, s, Tables.rules[c[1]].lhs) = Intended(Tables, s, Tables.rules[c[1]].lhs)
      BY <1>3 DEF Packs
    <2> QED
      BY <2>1, <1>4, <1>1 DEF Order
  <1>7. FindAction(Tables, "reduce", s, lhs) = Order(s, lhs)
    BY <1>2 DEF Order, OrderOn
  <1>8. lhs \notin Terminals(Tables)
    BY <1>2 DEF Terminals
  <1>9. /\ Order(s, lhs) < Tables.nstate <=> Order(s, lhs) \in Tables.states
        /\ Order(s, lhs) = AcceptAction(Tables) => Order(s, lhs) \notin Tables.states
    BY <1>5, Tabled
  <1> QED
    BY <1>2, <1>5, <1>6, <1>7, <1>8, <1>9
-----------------------------------------------------------------------------
(* The groups that are open among the first m symbols of a stack.          *)
Spots(st, n) == {i \in Nat : st[i].symbol = n}
Groups(st, m) == Cardinality(Spots(st, "oparen") \cap 1..m) - Cardinality(Spots(st, "cparen") \cap 1..m)

LEMMA GroupsStep ==
    ASSUME NEW st, NEW m \in Nat
    PROVE  /\ Groups(st, m) \in Int /\ Groups(st, 0) = 0
           /\ Groups(st, m + 1) = Groups(st, m) + Weight(st[m + 1].symbol)
  <1> DEFINE O == Spots(st, "oparen")
             C == Spots(st, "cparen")
  <1>1. Cardinality(O \cap 1..0) = 0 /\ Cardinality(C \cap 1..0) = 0
    BY CountNone
  <1>2. /\ Cardinality(O \cap 1..m) \in Nat
        /\ Cardinality(O \cap 1..(m + 1)) = Cardinality(O \cap 1..m) + (IF m + 1 \in O THEN 1 ELSE 0)
    BY CountStep
  <1>3. /\ Cardinality(C \cap 1..m) \in Nat
        /\ Cardinality(C \cap 1..(m + 1)) = Cardinality(C \cap 1..m) + (IF m + 1 \in C THEN 1 ELSE 0)
    BY CountStep
  <1>4. /\ m + 1 \in O <=> st[m + 1].symbol = "oparen"
        /\ m + 1 \in C <=> st[m + 1].symbol = "cparen"
    BY DEF Spots
  <1>5. Weight(st[m + 1].symbol) = (IF m + 1 \in O THEN 1 ELSE 0) - (IF m + 1 \in C THEN 1 ELSE 0)
    BY <1>4 DEF Weight
  <1> HIDE DEF O, C
  <1>6. Groups(st, m) = Cardinality(O \cap 1..m) - Cardinality(C \cap 1..m)
    BY DEF Groups, O, C
  <1>7. Groups(st, m + 1) = Cardinality(O \cap 1..(m + 1)) - Cardinality(C \cap 1..(m + 1))
    BY DEF Groups, O, C
  <1>8. Groups(st, 0) = 0
    BY <1>1 DEF Groups, O, C
  <1> QED
    BY <1>2, <1>3, <1>5, <1>6, <1>7, <1>8

LEMMA GroupsAgree ==
    ASSUME NEW st, NEW on, NEW m \in Nat, \A i \in 1..m : on[i] = st[i]
    PROVE  Groups(on, m) = Groups(st, m)
  <1>1. ASSUME NEW n PROVE Spots(on, n) \cap 1..m = Spots(st, n) \cap 1..m
    BY DEF Spots
  <1> QED
    BY <1>1 DEF Groups

LEMMA GroupsFlat ==
    ASSUME NEW st, NEW n \in Nat, NEW k \in Nat,
           \A i \in (n + 1)..(n + k) : Weight(st[i].symbol) = 0
    PROVE  Groups(st, n + k) = Groups(st, n)
  <1> DEFINE T == {j \in Nat : j <= k => Groups(st, n + j) = Groups(st, n)}
  <1>1. 0 \in T
    OBVIOUS
  <1>2. ASSUME NEW j \in Nat, j \in T PROVE j + 1 \in T
    <2> SUFFICES ASSUME j + 1 <= k PROVE Groups(st, n + (j + 1)) = Groups(st, n)
      OBVIOUS
    <2>1. Groups(st, n + j) = Groups(st, n)
      BY <1>2
    <2>2. n + j \in Nat /\ (n + j) + 1 = n + (j + 1) /\ (n + j) + 1 \in (n + 1)..(n + k)
      OBVIOUS
    <2>3. Weight(st[(n + j) + 1].symbol) = 0
      BY <2>2
    <2>4. Groups(st, (n + j) + 1) = Groups(st, n + j) + 0 /\ Groups(st, n + j) \in Int
      BY <2>2, <2>3, GroupsStep
    <2> QED
      BY <2>1, <2>2, <2>4
  <1>3. k \in T
    <2> HIDE DEF T
    <2> QED
      BY <1>1, <1>2, Induction
  <1> QED
    BY <1>3

(* Of the rules that begin or end a group there is one.                    *)
LEMMA ParenFacts ==
    /\ ParenRule \in 1..Tables.nrule /\ RhsLength(Tables, ParenRule) = 3
    /\ Grammar[ParenRule].lhs = "en"
    /\ Tables.rules[ParenRule].rhs = <<"oparen", "en", "cparen">>
    /\ \A r \in 1..Tables.nrule : r # ParenRule =>
          \A i \in 1..RhsLength(Tables, r) : Weight(Tables.rules[r].rhs[i]) = 0
  <1>1. /\ ParenRule \in Rules("en") /\ Grammar[ParenRule].rhs = <<"oparen", "en", "cparen">>
        /\ \A r \in DOMAIN Grammar :
              (\E i \in DOMAIN Grammar[r].rhs : Grammar[r].rhs[i] \in {"oparen", "cparen"}) => r = ParenRule
    BY QueryTables DEF GroupsAreRules
  <1>2. ParenRule \in 1..Tables.nrule /\ Tables.rules[ParenRule].rhs = <<"oparen", "en", "cparen">>
    BY <1>1, Tabled DEF Rules
  <1>3. RhsLength(Tables, ParenRule) = 3
    BY <1>2 DEF RhsLength
  <1>4. ASSUME NEW r \in 1..Tables.nrule, r # ParenRule, NEW i \in 1..RhsLength(Tables, r)
        PROVE  Weight(Tables.rules[r].rhs[i]) = 0
    <2>1. Grammar[r].rhs \in Seq(Symbols(Tables)) /\ Tables.rules[r] = Grammar[r]
      BY Tabled DEF WellMade
    <2>2. i \in DOMAIN Grammar[r].rhs
      BY <2>1, LenProperties DEF RhsLength
    <2>3. Grammar[r].rhs[i] \notin {"oparen", "cparen"}
      BY <1>1, <1>4, <2>2, Tabled
    <2> QED
      BY <2>1, <2>3 DEF Weight
  <1>5. Grammar[ParenRule].lhs = "en"
    BY <1>1 DEF Rules
  <1> QED
    BY <1>2, <1>3, <1>4, <1>5

LEMMA RuleSpelt ==
    ASSUME NEW st, Spelt(Tables, st), NEW m \in 1..Len(st),
           NEW r \in 1..Tables.nrule, NEW d \in Nat, Holds(st[m].state, r, d)
    PROVE  SpellsBack(Tables, st, m, r, d)
  <1>1. WellMade(Tables) /\ <<r, d>> \in Tables.configs[st[m].state]
    BY Tabled DEF Holds
  <1> QED
    BY <1>1, WayBack

LEMMA ParenSpelt ==
    ASSUME NEW st, Spelt(Tables, st), NEW m \in 1..Len(st), Holds(st[m].state, ParenRule, 2)
    PROVE  m > 2 /\ Groups(st, m) = Groups(st, m - 2) + 1
  <1>1. Len(st) \in Nat
    BY Tabled, SpeltStates
  <1>2. 2 < m /\ \A e \in 0..(2 - 1) : st[m - e].symbol = Tables.rules[ParenRule].rhs[2 - e]
    <2>1. ParenRule \in 1..Tables.nrule /\ 2 \in Nat
      BY ParenFacts
    <2>2. SpellsBack(Tables, st, m, ParenRule, 2)
      BY <2>1, RuleSpelt
    <2> QED
      BY <2>2 DEF SpellsBack
  <1>3. st[m].symbol = "en" /\ st[m - 1].symbol = "oparen"
    <2>1. st[m - 0].symbol = Tables.rules[ParenRule].rhs[2 - 0]
      BY <1>2
    <2>2. st[m - 1].symbol = Tables.rules[ParenRule].rhs[2 - 1]
      BY <1>2
    <2> QED
      BY <2>1, <2>2, ParenFacts
  <1>4. m - 2 \in Nat /\ m - 1 \in Nat /\ (m - 2) + 1 = m - 1 /\ (m - 1) + 1 = m
    BY <1>1, <1>2
  <1>5. Groups(st, m - 1) = Groups(st, m - 2) + Weight(st[m - 1].symbol) /\ Groups(st, m - 2) \in Int
    BY <1>4, GroupsStep
  <1>6. Groups(st, m) = Groups(st, m - 1) + Weight(st[m].symbol)
    BY <1>4, GroupsStep
  <1>7. Weight("en") = 0 /\ Weight("oparen") = 1
    BY DEF Weight
  <1> QED
    BY <1>2, <1>3, <1>5, <1>6, <1>7

(* A group is closed only where one is open.                               *)
LEMMA GroupsNat ==
    ASSUME NEW st, Spelt(Tables, st), NEW m \in 0..Len(st)
    PROVE  Groups(st, m) \in Nat
  <1>1. Len(st) \in Nat \ {0}
    BY Tabled, SpeltStates
  <1> DEFINE T == {n \in Nat : \A k \in 0..n : k <= Len(st) => Groups(st, k) \in Nat}
  <1>2. 0 \in T
    BY GroupsStep
  <1>3. ASSUME NEW n \in Nat, n \in T PROVE n + 1 \in T
    <2>1. \A k \in 0..n : k <= Len(st) => Groups(st, k) \in Nat
      BY <1>3
    <2>2. ASSUME n + 1 <= Len(st) PROVE Groups(st, n + 1) \in Nat
      <3>1. Groups(st, n + 1) = Groups(st, n) + Weight(st[n + 1].symbol) /\ Groups(st, n) \in Nat
        BY <2>1, <2>2, <1>1, GroupsStep
      <3>2. CASE st[n + 1].symbol # "cparen"
        BY <3>1, <3>2 DEF Weight
      <3>3. CASE st[n + 1].symbol = "cparen"
        <4>1. n # 0
          BY <3>3 DEF Spelt
        <4>2. n \in 1..(Len(st) - 1) /\ n \in 1..Len(st)
          BY <4>1, <2>2, <1>1
        <4>3. Leads(Tables, st[n].state, st[n + 1].symbol, st[n + 1].state)
          BY <4>2 DEF Spelt
        <4>4. st[n].state \in Tables.states /\ Order(st[n].state, "cparen") \in Tables.states
          BY <4>2, <4>3, <3>3, SpeltStates, Tabled DEF Leads, Order
        <4>5. Holds(st[n].state, ParenRule, 2)
          BY <4>4, QueryTables DEF GroupsAreSpelt
        <4>6. n > 2 /\ Groups(st, n) = Groups(st, n - 2) + 1
          BY <4>2, <4>5, ParenSpelt
        <4>7. Groups(st, n - 2) \in Nat
          <5>1. n - 2 \in 0..n /\ n - 2 <= Len(st)
            BY <4>2, <4>6, <1>1
          <5> QED
            BY <5>1, <2>1
        <4>8. Weight(st[n + 1].symbol) = -1
          BY <3>3 DEF Weight
        <4> QED
          BY <3>1, <4>6, <4>7, <4>8
      <3> QED
        BY <3>2, <3>3
    <2>3. ASSUME NEW k \in 0..(n + 1), k <= Len(st) PROVE Groups(st, k) \in Nat
      <3>1. CASE k = n + 1
        BY <3>1, <2>2, <2>3
      <3>2. CASE k # n + 1
        BY <3>2, <2>1, <2>3
      <3> QED
        BY <3>1, <3>2
    <2> QED
      BY <2>3
  <1>4. m \in T
    <2> HIDE DEF T
    <2>1. m \in Nat
      BY <1>1
    <2> QED
      BY <1>2, <1>3, <2>1, Induction
  <1>5. m \in 0..m /\ m <= Len(st)
    BY <1>1
  <1> QED
    BY <1>4, <1>5

LEMMA InGroup ==
    ASSUME NEW st, Spelt(Tables, st), NEW m \in 1..Len(st), Holds(st[m].state, ParenRule, 2)
    PROVE  Groups(st, m) >= 1
  <1>1. m > 2 /\ Groups(st, m) = Groups(st, m - 2) + 1
    BY ParenSpelt
  <1>2. Len(st) \in Nat
    BY Tabled, SpeltStates
  <1>3. Groups(st, m - 2) \in Nat
    <2>1. m - 2 \in 0..Len(st)
      BY <1>1, <1>2
    <2> QED
      BY <2>1, GroupsNat
  <1> QED
    BY <1>1, <1>3

(* Where the whole condition is complete, no group is open.                *)
LEMMA NoGroup ==
    ASSUME NEW st, Spelt(Tables, st), Last(st).state \in TopLevel
    PROVE  Groups(st, Len(st)) = 0
  <1> DEFINE m == Len(st)
  <1>1. /\ m \in Nat \ {0} /\ m \in 1..Len(st) /\ Last(st) = st[m]
        /\ \A i \in 1..m : st[i].state \in Tables.states
        /\ \A i \in 2..m : st[i].state # 0
    BY Tabled, SpeltStates, SMTT(30)
  <1>2. PICK r \in Rules("cexp") : Holds(st[m].state, r, 1)
    BY <1>1 DEF TopLevel
  <1>3. r \in 1..Tables.nrule /\ r # ParenRule
    BY ParenFacts, Tabled DEF Rules
  <1>4. /\ 1 < m
        /\ \A e \in 0..1 : Holds(st[m - e].state, r, 1 - e)
        /\ \A e \in 0..0 : st[m - e].symbol = Tables.rules[r].rhs[1 - e]
    <2>1. SpellsBack(Tables, st, m, r, 1)
      BY <1>1, <1>2, <1>3, RuleSpelt
    <2> QED
      BY <2>1 DEF SpellsBack, Holds
  <1>5. Holds(st[m - 1].state, r, 0) /\ st[m].symbol = Tables.rules[r].rhs[1]
    <2>1. Holds(st[m - 1].state, r, 1 - 1)
      BY <1>4
    <2>2. st[m - 0].symbol = Tables.rules[r].rhs[1 - 0]
      BY <1>4
    <2> QED
      BY <1>1, <2>1, <2>2
  <1>6. m - 1 \in 1..m /\ m - 1 \in 1..Len(st)
    BY <1>1, <1>4
  <1>7. Holds(st[m - 1].state, QueryRule, 4)
    BY <1>1, <1>5, <1>6, QueryTables DEF GroupsAreSpelt
  <1>8. /\ QueryRule \in 1..Tables.nrule /\ QueryRule # ParenRule
        /\ RhsLength(Tables, QueryRule) > 4
    BY ParenFacts, Tabled, QueryTables DEF GroupsAreRules, Rules
  <1>9. /\ 4 < m - 1
        /\ \A e \in 0..4 : Holds(st[(m - 1) - e].state, QueryRule, 4 - e)
        /\ \A e \in 0..3 : st[(m - 1) - e].symbol = Tables.rules[QueryRule].rhs[4 - e]
    <2>1. SpellsBack(Tables, st, m - 1, QueryRule, 4)
      BY <1>6, <1>7, <1>8, RuleSpelt
    <2> QED
      BY <2>1 DEF SpellsBack, Holds
  <1>10. m = 6
    <2>1. Holds(st[(m - 1) - 4].state, QueryRule, 4 - 4)
      BY <1>9
    <2>2. (m - 1) - 4 = m - 5 /\ m - 5 \in 1..m
      BY <1>1, <1>9
    <2>3. Holds(st[m - 5].state, QueryRule, 0)
      BY <2>1, <2>2
    <2>4. st[m - 5].state = 0
      BY <1>1, <2>2, <2>3, QueryTables DEF GroupsAreSpelt
    <2>5. m - 5 \notin 2..m
      BY <1>1, <2>4
    <2> QED
      BY <1>1, <2>2, <2>5
  <1> HIDE DEF m
  <1>11. ASSUME NEW i \in (0 + 1)..(0 + 6) PROVE Weight(st[i].symbol) = 0
    <2>1. CASE i = 1
      BY <2>1 DEF Spelt, Weight
    <2>2. CASE i = 6
      <3>1. RhsLength(Tables, r) = 1
        BY QueryTables DEF GroupsAreRules
      <3> QED
        BY <2>2, <3>1, <1>3, <1>5, <1>10, ParenFacts
    <2>3. CASE i \in 2..5
      <3>1. 5 - i \in 0..3 /\ (6 - 1) - (5 - i) = i /\ 4 - (5 - i) = i - 1
        BY <2>3
      <3>2. st[i].symbol = Tables.rules[QueryRule].rhs[i - 1]
        BY <1>9, <1>10, <3>1
      <3>3. i - 1 \in 1..RhsLength(Tables, QueryRule)
        BY <2>3, <1>8, Tabled
      <3> QED
        BY <3>2, <3>3, <1>8, ParenFacts
    <2> QED
      BY <2>1, <2>2, <2>3
  <1>12. Groups(st, 0 + 6) = Groups(st, 0)
    BY <1>11, GroupsFlat
  <1>13. Groups(st, 0) = 0
    BY GroupsStep
  <1> QED
    BY <1>10, <1>12, <1>13 DEF m

(* Eleven entries and room for a twelfth: in a group.                      *)
LEMMA DeepGroup ==
    ASSUME NEW st, Spelt(Tables, st), Len(st) >= 11,
           NEW x, NEW t, Leads(Tables, Last(st).state, x, t)
    PROVE  Groups(st, Len(st)) >= 1
  <1> DEFINE m == Len(st)
  <1>1. /\ m \in Nat /\ m >= 11 /\ Last(st) = st[m]
        /\ \A i \in 1..m : st[i].state \in Tables.states
        /\ \A i \in 2..m : st[i].symbol \in Symbols(Tables)
        /\ st[1].state = 0 /\ st[1].symbol = "$"
        /\ \A i \in 1..(m - 1) : Leads(Tables, st[i].state, st[i + 1].symbol, st[i + 1].state)
    BY Tabled, SpeltStates DEF Spelt
  <1> HIDE DEF m
  <1>2. ASSUME NEW i \in 1..m
        PROVE  \E y \in Symbols(Tables) : Order(st[i].state, y) \in Tables.states
    <2>1. CASE i = m
      BY <2>1, <1>1 DEF Leads, Order
    <2>2. CASE i # m
      <3>1. i \in 1..(m - 1)
        BY <1>1, <2>2
      <3>2. Leads(Tables, st[i].state, st[i + 1].symbol, st[i + 1].state)
        BY <1>1, <3>1
      <3> QED
        BY <3>2 DEF Leads, Order
    <2> QED
      BY <2>1, <2>2
  <1>3. ASSUME NEW i \in 1..m PROVE st[i].symbol # "cparen"
    <2>1. CASE i = 1
      BY <2>1, <1>1
    <2>2. CASE i # 1
      <3> SUFFICES ASSUME st[i].symbol = "cparen" PROVE FALSE
        OBVIOUS
      <3>1. i - 1 \in 1..(m - 1) /\ i - 1 \in 1..m /\ (i - 1) + 1 = i
        BY <1>1, <2>2
      <3>2. Leads(Tables, st[i - 1].state, st[i].symbol, st[i].state)
        <4>1. Leads(Tables, st[i - 1].state, st[(i - 1) + 1].symbol, st[(i - 1) + 1].state)
          BY <1>1, <3>1
        <4> QED
          BY <4>1, <3>1
      <3>3. st[i].state = Order(st[i - 1].state, "cparen") /\ st[i].state \in Tables.states
        BY <3>2 DEF Leads, Order
      <3>4. st[i - 1].state \in Tables.states
        BY <1>1, <3>1
      <3>5. \A y \in Symbols(Tables) : Order(st[i].state, y) \notin Tables.states
        BY <3>3, <3>4, QueryTables DEF GroupsAreSpelt
      <3> QED
        BY <3>5, <1>2
    <2> QED
      BY <2>1, <2>2
  <1>4. \E i \in 1..m : st[i].symbol = "oparen"
    <2> SUFFICES ASSUME \A i \in 1..m : st[i].symbol # "oparen" PROVE FALSE
      OBVIOUS
    <2> DEFINE T == {k \in Nat : k <= 10 => st[k + 1].state \in Flat[k]}
    <2>1. 0 \in T
      BY <1>1, QueryTables DEF FlatIsShort
    <2>2. ASSUME NEW k \in Nat, k \in T PROVE k + 1 \in T
      <3> SUFFICES ASSUME k + 1 <= 10 PROVE st[(k + 1) + 1].state \in Flat[k + 1]
        OBVIOUS
      <3>1. st[k + 1].state \in Flat[k] /\ k \in 0..9
        <4>1. k <= 10 /\ k \in 0..9
          OBVIOUS
        <4>2. k <= 10 => st[k + 1].state \in Flat[k]
          BY <2>2, Zenon
        <4> QED
          BY <4>1, <4>2
      <3>2. k + 1 \in 1..(m - 1) /\ (k + 1) + 1 \in 2..m
        BY <1>1
      <3>3. Leads(Tables, st[k + 1].state, st[(k + 1) + 1].symbol, st[(k + 1) + 1].state)
        BY <1>1, <3>2
      <3>4. st[(k + 1) + 1].symbol \in Symbols(Tables) \ {"oparen"}
        BY <1>1, <3>2
      <3>5. \A s \in Flat[k] : \A y \in Symbols(Tables) \ {"oparen"} :
               Order(s, y) \in Tables.states => Order(s, y) \in Flat[k + 1]
        BY <3>1, QueryTables DEF FlatIsShort
      <3> QED
        BY <3>1, <3>3, <3>4, <3>5 DEF Leads, Order
    <2>3. 10 \in T
      <3> HIDE DEF T
      <3> QED
        BY <2>1, <2>2, Induction
    <2>4. st[11].state \in Flat[10]
      BY <2>3
    <2>5. 11 \in 1..m
      BY <1>1
    <2>6. \A y \in Symbols(Tables) : Order(st[11].state, y) \notin Tables.states
      BY <2>4, QueryTables DEF FlatIsShort
    <2> QED
      BY <2>5, <2>6, <1>2
  <1>5. Cardinality(Spots(st, "cparen") \cap 1..m) = 0
    <2>1. Spots(st, "cparen") \cap 1..m = {}
      BY <1>3 DEF Spots
    <2> QED
      BY <2>1, FS_EmptySet
  <1>6. Cardinality(Spots(st, "oparen") \cap 1..m) \in Nat \ {0}
    <2> DEFINE A == Spots(st, "oparen") \cap 1..m
    <2>1. A # {}
      <3>1. PICK i \in 1..m : st[i].symbol = "oparen"
        BY <1>4
      <3>2. i \in Nat
        OBVIOUS
      <3>3. i \in Spots(st, "oparen")
        BY <3>1, <3>2 DEF Spots
      <3>4. i \in A
        BY <3>3
      <3> QED
        BY <3>4
    <2>2. IsFiniteSet(A)
      <3>1. IsFiniteSet(1..m) /\ A \subseteq 1..m
        BY <1>1, FS_Interval
      <3> QED
        BY <3>1, FS_Subset
    <2> HIDE DEF A
    <2>3. Cardinality(A) \in Nat /\ Cardinality(A) # 0
      BY <2>1, <2>2, FS_CardinalityType, FS_EmptySet
    <2> QED
      BY <2>3 DEF A
  <1> QED
    BY <1>5, <1>6 DEF Groups, m
-----------------------------------------------------------------------------
(* Push and pop.                                                           *)
Below(st) == IF Len(st) = 1 THEN 0 ELSE st[Len(st) - 1].state
Entry(state, symbol, value) == [state |-> state, symbol |-> symbol, value |-> value]

\* A stack is a symbol higher, or was full - then a group is open - and is empty.
Grown(st, on, x, t) ==
    \/ /\ on = <<>>
       /\ Len(st) = StackDepth /\ Groups(st, Len(st)) >= 1
    \/ /\ on # <<>> /\ Spelt(Tables, on)
       /\ Len(on) = Len(st) + 1 /\ Len(on) <= StackDepth
       /\ Groups(on, Len(on)) = Groups(st, Len(st)) + Weight(x)
       /\ Last(on).state = t /\ Below(on) = Last(st).state

LEMMA PushKeeps ==
    ASSUME NEW st, Spelt(Tables, st), Len(st) <= StackDepth,
           NEW x, NEW t, Leads(Tables, Last(st).state, x, t), NEW v
    PROVE  Grown(st, Pushed(st, t, x, v), x, t)
  <1>1. StackDepth \in Nat /\ StackDepth >= 11
    BY QueryConstants
  <1>2. Len(st) \in Nat \ {0} /\ Last(st) = st[Len(st)]
    BY Tabled, SpeltStates
  <1>3. CASE Len(st) >= StackDepth
    <2>1. Pushed(st, t, x, v) = <<>>
      BY <1>3 DEF Pushed
    <2>2. Groups(st, Len(st)) >= 1
      BY <1>1, <1>2, <1>3, DeepGroup
    <2> QED
      BY <1>1, <1>2, <1>3, <2>1, <2>2 DEF Grown
  <1>4. CASE ~(Len(st) >= StackDepth)
    <2> DEFINE e == Entry(t, x, v)
               on == Append(st, e)
    <2>1. Pushed(st, t, x, v) = on
      BY <1>4 DEF Pushed, Entry
    <2>2. e.state = t /\ e.symbol = x
      BY DEF Entry
    <2> HIDE DEF e
    <2>3. Spelt(Tables, on) /\ Last(on) = e
      BY <2>2, Tabled, SpeltOn
    <2>4. /\ on # <<>> /\ Len(on) = Len(st) + 1
          /\ on[Len(st) + 1] = e
          /\ \A i \in 1..Len(st) : on[i] = st[i]
      <3>1. IsSeq(st)
        BY DEF Spelt
      <3> QED
        BY <3>1, AppendFacts
    <2> HIDE DEF on
    <2>5. Groups(on, Len(st)) = Groups(st, Len(st))
      BY <1>2, <2>4, GroupsAgree
    <2>6. Groups(on, Len(st) + 1) = Groups(on, Len(st)) + Weight(on[Len(st) + 1].symbol)
      BY <1>2, GroupsStep
    <2>7. Below(on) = Last(st).state
      <3>1. Len(on) # 1 /\ Len(on) - 1 = Len(st) /\ Len(st) \in 1..Len(st)
        BY <1>2, <2>4
      <3> QED
        BY <1>2, <2>4, <3>1 DEF Below
    <2> QED
      BY <1>1, <1>2, <1>4, <2>1, <2>2, <2>3, <2>4, <2>5, <2>6, <2>7 DEF Grown
  <1> QED
    BY <1>3, <1>4

\* What rule r names is on top of the stack, and rest is below it.
Lowered(st, rest, r) ==
    LET n == RhsLength(Tables, r)
    IN  /\ n \in Nat /\ n < Len(st)
        /\ Spelt(Tables, rest) /\ Len(rest) = Len(st) - n
        /\ Holds(Last(rest).state, r, 0)
        /\ Last(rest).state \in Tables.states
        /\ Groups(rest, Len(rest)) = Groups(st, Len(st))
        /\ n = 0 => Last(rest).state = Last(st).state
        /\ n = 1 => Last(rest).state = Below(st)
        /\ \A e \in 0..(n - 1) : st[Len(st) - e].symbol = Tables.rules[r].rhs[n - e]

LEMMA PopKeeps ==
    ASSUME NEW st, Spelt(Tables, st), NEW r \in 1..Tables.nrule,
           Holds(Last(st).state, r, RhsLength(Tables, r))
    PROVE  Lowered(st, SubSeq(st, 1, Len(st) - RhsLength(Tables, r)), r)
  <1> DEFINE n == RhsLength(Tables, r)
             m == Len(st)
             rest == SubSeq(st, 1, m - n)
  <1>1. m \in Nat \ {0} /\ Last(st) = st[m] /\ m \in 1..m /\ n \in Nat
    BY Tabled, SpeltStates
  <1>2. SpellsBack(Tables, st, m, r, n)
    BY <1>1, RuleSpelt
  <1>3. /\ n < m
        /\ \A e \in 0..n : Holds(st[m - e].state, r, n - e)
        /\ \A e \in 0..(n - 1) : st[m - e].symbol = Tables.rules[r].rhs[n - e]
    BY <1>2 DEF SpellsBack, Holds
  <1>4. m - n \in 1..m
    BY <1>1, <1>3
  <1>5. /\ Spelt(Tables, rest) /\ Len(rest) = m - n
        /\ \A i \in 1..(m - n) : rest[i] = st[i]
        /\ Last(rest) = st[m - n]
    BY <1>4, Tabled, SpeltBefore
  <1> HIDE DEF rest
  <1>6. Holds(Last(rest).state, r, 0)
    <2>1. Holds(st[m - n].state, r, n - n)
      BY <1>1, <1>3
    <2> QED
      BY <1>1, <1>5, <2>1
  <1>7. Groups(rest, m - n) = Groups(st, m - n)
    BY <1>4, <1>5, GroupsAgree
  <1>8. Groups(st, m) = Groups(st, m - n)
    <2>1. CASE r = ParenRule
      <3>1. n = 3
        BY <2>1, ParenFacts
      <3>2. st[m].symbol = "cparen" /\ st[m - 1].symbol = "en" /\ st[m - 2].symbol = "oparen"
        <4>1. st[m - 0].symbol = Tables.rules[r].rhs[3 - 0]
          BY <1>3, <3>1
        <4>2. st[m - 1].symbol = Tables.rules[r].rhs[3 - 1]
          BY <1>3, <3>1
        <4>3. st[m - 2].symbol = Tables.rules[r].rhs[3 - 2]
          BY <1>3, <3>1
        <4> QED
          BY <1>1, <2>1, <4>1, <4>2, <4>3, ParenFacts
      <3>3. /\ m - 3 \in Nat /\ m - 2 \in Nat /\ m - 1 \in Nat
            /\ (m - 3) + 1 = m - 2 /\ (m - 2) + 1 = m - 1 /\ (m - 1) + 1 = m
        BY <1>1, <1>3, <3>1
      <3>4. Groups(st, m - 2) = Groups(st, m - 3) + Weight("oparen") /\ Groups(st, m - 3) \in Int
        BY <3>2, <3>3, GroupsStep
      <3>5. Groups(st, m - 1) = Groups(st, m - 2) + Weight("en")
        BY <3>2, <3>3, GroupsStep
      <3>6. Groups(st, m) = Groups(st, m - 1) + Weight("cparen")
        BY <3>2, <3>3, GroupsStep
      <3>7. Weight("oparen") = 1 /\ Weight("en") = 0 /\ Weight("cparen") = -1
        BY DEF Weight
      <3> HIDE DEF m, n
      <3> QED
        BY <3>1, <3>4, <3>5, <3>6, <3>7
    <2>2. CASE r # ParenRule
      <3>1. ASSUME NEW i \in ((m - n) + 1)..((m - n) + n) PROVE Weight(st[i].symbol) = 0
        <4>1. m - i \in 0..(n - 1) /\ m - (m - i) = i /\ n - (m - i) \in 1..n
          <5> HIDE DEF m, n
          <5> QED
            BY <1>1
        <4>2. st[m - (m - i)].symbol = Tables.rules[r].rhs[n - (m - i)]
          BY <1>3, <4>1
        <4> QED
          BY <2>2, <4>1, <4>2, ParenFacts
      <3>2. m - n \in Nat /\ (m - n) + n = m
        BY <1>1, <1>4
      <3>3. Groups(st, (m - n) + n) = Groups(st, m - n)
        BY <1>1, <3>1, <3>2, GroupsFlat
      <3> QED
        BY <3>2, <3>3
    <2> QED
      BY <2>1, <2>2
  <1>9. n = 0 => Last(rest).state = Last(st).state
    BY <1>1, <1>5
  <1>10. n = 1 => Last(rest).state = Below(st)
    BY <1>1, <1>3, <1>5 DEF Below
  <1>11. Last(rest).state \in Tables.states
    BY <1>4, <1>5, Tabled, SpeltStates
  <1> QED
    BY <1>1, <1>3, <1>5, <1>6, <1>7, <1>8, <1>9, <1>10, <1>11 DEF rest, Lowered
-----------------------------------------------------------------------------
(* The reading.  Only a closing parenthesis asks how many are open.        *)
LEMMA AdvanceUncounted ==
    ASSUME NEW at, at[2] \in Int, NEW x,
           x = "CPAR" /\ at[1] \in Condition => at[2] > 0
    PROVE  /\ Advance(at, x)[1] = OneOpen(at[1], x)[1]
           /\ Advance(at, x)[2] = at[2] + OneOpen(at[1], x)[2] - 1
  <1> DEFINE fixed == IF at[1] \in DOMAIN Places
                      THEN {p[2] : p \in {q \in Places[at[1]] : q[1] = x}} ELSE {}
             w == at[1]
             at1 == <<w, 1>>
  <1>1. at1[1] = w /\ at1[2] = 1
    OBVIOUS
  <1> HIDE DEF at1
  <1>2. Advance(at, x) =
          IF fixed # {} THEN <<CHOOSE k \in fixed : TRUE, at[2]>>
          ELSE IF w \in Condition /\ x \in Operators THEN <<"operand", at[2]>>
          ELSE IF w \in Condition /\ x = "CPAR" /\ at[2] > 0 THEN <<"full", at[2] - 1>>
          ELSE IF w = "empty" /\ x = "OPAR" THEN <<"empty", at[2] + 1>>
          ELSE IF w = "empty" /\ x = "UQSTRING" THEN <<"name", at[2]>>
          ELSE IF w = "operand" /\ x = "UQSTRING" THEN <<"full", at[2]>>
          ELSE IF w \in {"empty", "operand"} /\ x \in Literals THEN <<"full", at[2]>>
          ELSE IF w \in {"empty", "operand"} /\ x = "VFILE" THEN <<"file", at[2]>>
          ELSE <<"dead", at[2]>>
    BY Zenon DEF Advance
  <1>3. Advance(at1, x) =
          IF fixed # {} THEN <<CHOOSE k \in fixed : TRUE, 1>>
          ELSE IF w \in Condition /\ x \in Operators THEN <<"operand", 1>>
          ELSE IF w \in Condition /\ x = "CPAR" /\ 1 > 0 THEN <<"full", 1 - 1>>
          ELSE IF w = "empty" /\ x = "OPAR" THEN <<"empty", 1 + 1>>
          ELSE IF w = "empty" /\ x = "UQSTRING" THEN <<"name", 1>>
          ELSE IF w = "operand" /\ x = "UQSTRING" THEN <<"full", 1>>
          ELSE IF w \in {"empty", "operand"} /\ x \in Literals THEN <<"full", 1>>
          ELSE IF w \in {"empty", "operand"} /\ x = "VFILE" THEN <<"file", 1>>
          ELSE <<"dead", 1>>
    BY <1>1 DEF Advance
  <1>4. OneOpen(at[1], x) = Advance(at1, x)
    BY DEF OneOpen, at1
  <1>5. PICK c : c = CHOOSE k \in fixed : TRUE
    OBVIOUS
  <1> HIDE DEF fixed, w
  <1>6. at[1] = w
    BY DEF w
  <1> QED
    BY <1>2, <1>3, <1>4, <1>5, <1>6

LEMMA ClosesNothing ==
    ASSUME NEW at, ~(at[2] > 0), at[1] \in Condition
    PROVE  Advance(at, "CPAR")[1] = "dead"
  <1> DEFINE w == at[1]
             fixed == IF w \in DOMAIN Places
                      THEN {p[2] : p \in {q \in Places[w] : q[1] = "CPAR"}} ELSE {}
  <1>1. w \in {"empty", "name", "flags", "full"}
    BY DEF Condition
  <1>2. ASSUME w \in DOMAIN Places, NEW q \in Places[w] PROVE q[1] # "CPAR"
    BY <1>1, <1>2 DEF Places
  <1>3. fixed = {}
    BY <1>2
  <1>4. "CPAR" \notin Operators /\ "CPAR" \notin Literals
    BY DEF Operators, Literals
  <1> QED
    BY <1>3, <1>4 DEF Advance

LEMMA DeadAlone ==
    ASSUME NEW at, at[2] \in Int, NEW x, OneOpen(at[1], x)[1] = "dead"
    PROVE  Advance(at, x)[1] = "dead"
  <1>1. CASE x = "CPAR" /\ at[1] \in Condition /\ ~(at[2] > 0)
    BY <1>1, ClosesNothing
  <1>2. CASE ~(x = "CPAR" /\ at[1] \in Condition /\ ~(at[2] > 0))
    BY <1>2, AdvanceUncounted
  <1> QED
    BY <1>1, <1>2

(* The readings of the beginnings of a text exist, one after the other.    *)
IsReading(at, tokens, n) ==
    /\ at = [i \in 0..n |-> at[i]]
    /\ at[0] = <<"start", 0>>
    /\ \A i \in 1..n : at[i] = Advance(at[i - 1], tokens[i].kind)

LEMMA ReadingExists ==
    ASSUME NEW tokens, NEW n \in Nat
    PROVE  \E at : IsReading(at, tokens, n)
  <1> DEFINE T == {m \in Nat : \E at : IsReading(at, tokens, m)}
  <1>1. 0 \in T
    <2> DEFINE at == [i \in 0..0 |-> <<"start", 0>>]
    <2>1. IsReading(at, tokens, 0)
      BY DEF IsReading
    <2> QED
      BY <2>1
  <1>2. ASSUME NEW m \in Nat, m \in T PROVE m + 1 \in T
    <2>1. PICK at : IsReading(at, tokens, m)
      BY <1>2
    <2> DEFINE next == Advance(at[m], tokens[m + 1].kind)
               on == [i \in 0..(m + 1) |-> IF i = m + 1 THEN next ELSE at[i]]
    <2>2. on[0] = <<"start", 0>>
      <3>1. 0 \in 0..(m + 1) /\ 0 # m + 1
        OBVIOUS
      <3> QED
        BY <2>1, <3>1 DEF IsReading
    <2>3. ASSUME NEW i \in 1..(m + 1) PROVE on[i] = Advance(on[i - 1], tokens[i].kind)
      <3>1. i \in 0..(m + 1) /\ i - 1 \in 0..(m + 1) /\ i - 1 # m + 1
        OBVIOUS
      <3>2. on[i - 1] = at[i - 1]
        BY <3>1
      <3>3. CASE i = m + 1
        <4>1. on[i] = next /\ i - 1 = m
          BY <3>1, <3>3
        <4> QED
          BY <4>1, <3>2, <3>3
      <3>4. CASE i # m + 1
        <4>1. on[i] = at[i] /\ i \in 1..m
          BY <3>1, <3>4
        <4> HIDE DEF on
        <4> QED
          BY <2>1, <4>1, <3>2 DEF IsReading
      <3> QED
        BY <3>3, <3>4
    <2>4. on = [i \in 0..(m + 1) |-> on[i]]
      OBVIOUS
    <2> HIDE DEF on
    <2>5. IsReading(on, tokens, m + 1)
      BY <2>2, <2>3, <2>4 DEF IsReading
    <2> QED
      BY <2>5
  <1>3. n \in T
    <2> HIDE DEF T
    <2> QED
      BY <1>1, <1>2, Induction
  <1> QED
    BY <1>3

LEMMA ReadingIs ==
    ASSUME NEW tokens, IsSeq(tokens)
    PROVE  IsReading(ReadingOf(tokens), tokens, Len(tokens))
  <1> DEFINE n == Len(tokens)
             R == ReadingOf(tokens)
  <1>1. n \in Nat
    BY SeqFacts
  <1>2. PICK at : IsReading(at, tokens, n)
    BY <1>1, ReadingExists
  <1>3. at = [i \in 0..n |-> IF i = 0 THEN <<"start", 0>> ELSE Advance(at[i - 1], tokens[i].kind)]
    <2>1. ASSUME NEW i \in 0..n
          PROVE  at[i] = IF i = 0 THEN <<"start", 0>> ELSE Advance(at[i - 1], tokens[i].kind)
      <3> HIDE DEF n
      <3>1. CASE i = 0
        BY <1>2, <3>1 DEF IsReading
      <3>2. CASE i # 0
        <4>1. i \in 1..n
          BY <1>1, <3>2
        <4> QED
          BY <1>2, <3>2, <4>1 DEF IsReading
      <3> QED
        BY <3>1, <3>2
    <2> QED
      BY <1>2, <2>1 DEF IsReading
  <1>4. R = CHOOSE f : f = [i \in 0..n |-> IF i = 0 THEN <<"start", 0>>
                                           ELSE Advance(f[i - 1], tokens[i].kind)]
    BY DEF ReadingOf
  <1>5. R = [i \in 0..n |-> IF i = 0 THEN <<"start", 0>> ELSE Advance(R[i - 1], tokens[i].kind)]
    <2> HIDE DEF R, n
    <2> QED
      BY <1>3, <1>4, Zenon
  <1> HIDE DEF R, n
  <1>6. R[0] = <<"start", 0>>
    <2>1. 0 \in 0..n
      BY <1>1
    <2> QED
      BY <1>5, <2>1
  <1>7. ASSUME NEW i \in 1..n PROVE R[i] = Advance(R[i - 1], tokens[i].kind)
    <2>1. i \in 0..n /\ i # 0
      BY <1>1
    <2> QED
      BY <1>5, <2>1
  <1>8. R = [i \in 0..n |-> R[i]]
    BY <1>5
  <1> QED
    BY <1>6, <1>7, <1>8 DEF IsReading, R, n

(* A token more reads on from where the reading was.                       *)
LEMMA ReadingOn ==
    ASSUME NEW tokens, IsSeq(tokens), NEW token
    PROVE  LET on == Append(tokens, token) IN
           /\ ReadingOf(on)[Len(on) - 1] = ReadingOf(tokens)[Len(tokens)]
           /\ ReadingOf(on)[Len(on)] = Advance(ReadingOf(on)[Len(on) - 1], on[Len(on)].kind)
           /\ tokens = <<>> => ReadingOf(on)[Len(on) - 1] = <<"start", 0>>
  <1> DEFINE n == Len(tokens)
             on == Append(tokens, token)
  <1>1. /\ n \in Nat /\ IsSeq(on) /\ Len(on) = n + 1
        /\ \A i \in 1..n : on[i] = tokens[i]
    BY SeqFacts, AppendFacts
  <1>2. IsReading(ReadingOf(on), on, n + 1) /\ IsReading(ReadingOf(tokens), tokens, n)
    BY <1>1, ReadingIs
  <1>3. PICK R, Q : R = ReadingOf(on) /\ Q = ReadingOf(tokens)
    OBVIOUS
  <1> HIDE DEF on, n
  <1> DEFINE T == {i \in Nat : i <= n => R[i] = Q[i]}
  <1>4. 0 \in T
    BY <1>2, <1>3 DEF IsReading
  <1>5. ASSUME NEW i \in Nat, i \in T PROVE i + 1 \in T
    <2> SUFFICES ASSUME i + 1 <= n PROVE R[i + 1] = Q[i + 1]
      OBVIOUS
    <2>1. R[i] = Q[i]
      <3>1. i <= n
        BY <1>1
      <3> QED
        BY <1>5, <3>1
    <2>2. i + 1 \in 1..n /\ i + 1 \in 1..(n + 1) /\ (i + 1) - 1 = i
      BY <1>1
    <2>3. R[i + 1] = Advance(R[(i + 1) - 1], on[i + 1].kind)
      BY <1>2, <1>3, <2>2 DEF IsReading
    <2>4. Q[i + 1] = Advance(Q[(i + 1) - 1], tokens[i + 1].kind)
      BY <1>2, <1>3, <2>2 DEF IsReading
    <2>5. on[i + 1] = tokens[i + 1]
      BY <1>1, <2>2
    <2> QED
      BY <2>1, <2>2, <2>3, <2>4, <2>5
  <1>6. n \in T
    <2> HIDE DEF T
    <2> QED
      BY <1>1, <1>4, <1>5, Induction
  <1>7. R[n] = Q[n]
    BY <1>1, <1>6
  <1>8. n + 1 \in 1..(n + 1) /\ (n + 1) - 1 = n
    BY <1>1
  <1>9. R[n + 1] = Advance(R[n], on[n + 1].kind)
    BY <1>2, <1>3, <1>8 DEF IsReading
  <1>10. tokens = <<>> => n = 0
    BY SeqFacts DEF n
  <1>11. Q[0] = <<"start", 0>>
    BY <1>2, <1>3 DEF IsReading
  <1> QED
    BY <1>1, <1>3, <1>7, <1>8, <1>9, <1>10, <1>11 DEF on, n
-----------------------------------------------------------------------------
(* The tokeniser, and what the first pass of fdbfs_query_init_exec finds.  *)
LEMMA MinIn ==
    ASSUME NEW S, S \subseteq Nat, S # {}
    PROVE  Min(S) \in S
  <1>1. \E x \in S : \A y \in S : x <= y
    BY LeastNat
  <1> QED
    BY <1>1 DEF Min

LEMMA KeywordKinds ==
    ASSUME NEW word
    PROVE  UqStrTok(word) \in TokeniserKinds
  <1> DEFINE taken == {k \in DOMAIN Keywords : Starts(word, k)}
  <1>1. CASE taken = {}
    BY <1>1 DEF UqStrTok, TokeniserKinds
  <1>2. CASE taken # {}
    <2>1. DOMAIN Keywords \subseteq Nat
      BY DEF Keywords
    <2>2. Min(taken) \in taken
      BY <1>2, <2>1, MinIn
    <2>3. UqStrTok(word) = Keywords[Min(taken)].kind
      BY <1>2 DEF UqStrTok
    <2> QED
      BY <2>2, <2>3 DEF TokeniserKinds
  <1> QED
    BY <1>1, <1>2

LEMMA TokenKind ==
    ASSUME NEW t, NEW i
    PROVE  Toktl(t, i).kind \in TokeniserKinds \cup {"END", "SPACE", "ILLEGAL"}
  <1>1. NumberKind(t, i) \in TokeniserKinds
    BY DEF NumberKind, TokeniserKinds
  <1>2. ASSUME NEW c, c \in DOMAIN Pairs PROVE Pairs[c] \in TokeniserKinds
    BY <1>2 DEF TokeniserKinds
  <1>3. ASSUME NEW c, c \in DOMAIN Singles PROVE Singles[c] \in TokeniserKinds
    BY <1>3 DEF TokeniserKinds
  <1>4. {"STRING", "REGEXP", "CINSENS"} \subseteq TokeniserKinds
    BY DEF TokeniserKinds
  <1>5. ASSUME NEW kind, NEW length PROVE Token(kind, length).kind = kind
    BY DEF Token
  <1> DEFINE K == TokeniserKinds \cup {"END", "SPACE", "ILLEGAL"}
             c == At(t, i)
             next == At(t, i + 1)
             word == SubSeq(t, i, i + Span(t, i, IdChars) - 1)
             id == c \in IdChars \ Digits /\ ~(c = "i" /\ next \notin IdChars)
             number == c \in Digits \/ (c = "-" /\ next \in Digits)
  <1>6. Toktl(t, i) =
          CASE c = "" -> Token("END", 0)
            [] c \in Blanks -> Token("SPACE", Span(t, i, Blanks))
            [] c \in {"'", "\""} -> Token("STRING", Delimited(t, i))
            [] c = "/" -> Token("REGEXP", Delimited(t, i))
            [] c \o next \in DOMAIN Pairs -> Token(Pairs[c \o next], 2)
            [] c \in DOMAIN Singles /\ c \o next \notin DOMAIN Pairs -> Token(Singles[c], 1)
            [] c = "i" /\ next \notin IdChars -> Token("CINSENS", 1)
            [] number -> Token(NumberKind(t, i), NumberLength(t, i))
            [] id -> Token(UqStrTok(word), Len(word))
            [] OTHER -> Token("ILLEGAL", 1)
    BY Zenon DEF Toktl
  <1>7. \A length :
           /\ Token("END", length).kind \in K /\ Token("SPACE", length).kind \in K
           /\ Token("ILLEGAL", length).kind \in K /\ Token("STRING", length).kind \in K
           /\ Token("REGEXP", length).kind \in K /\ Token("CINSENS", length).kind \in K
           /\ Token(NumberKind(t, i), length).kind \in K
           /\ Token(UqStrTok(word), length).kind \in K
           /\ c \o next \in DOMAIN Pairs => Token(Pairs[c \o next], length).kind \in K
           /\ c \in DOMAIN Singles => Token(Singles[c], length).kind \in K
    BY <1>1, <1>2, <1>3, <1>4, <1>5, KeywordKinds
  <1> HIDE DEF K, c, next, word
  <1>8. Toktl(t, i).kind \in K
    BY <1>6, <1>7, Zenon
  <1> QED
    BY <1>8 DEF K

\* The groups that the instructions leave open.
DepthOf(insts) ==
    Before(insts, Len(insts) + 1, "BEGIN_GRP") - Before(insts, Len(insts) + 1, "CLOSE_GRP")
Deepens(op) == IF op = "BEGIN_GRP" THEN 1 ELSE IF op = "CLOSE_GRP" THEN -1 ELSE 0

LEMMA BeforeOn ==
    ASSUME NEW insts, IsSeq(insts), NEW inst, NEW op
    PROVE  LET on == Append(insts, inst) IN
           /\ Before(insts, Len(insts) + 1, op) \in Nat
           /\ Before(on, Len(on) + 1, op) =
                 Before(insts, Len(insts) + 1, op) + (IF inst.op = op THEN 1 ELSE 0)
  <1> DEFINE on == Append(insts, inst)
             n == Len(insts)
             A == {j \in Nat : on[j].op = op}
  <1>1. /\ n \in Nat /\ Len(on) = n + 1 /\ on[n + 1] = inst
        /\ \A j \in 1..n : on[j] = insts[j]
    BY SeqFacts, AppendFacts
  <1> HIDE DEF on, n
  <1>2. {j \in 1..(n + 1) - 1 : insts[j].op = op} = A \cap 1..n
    BY <1>1
  <1>3. {j \in 1..(Len(on) + 1) - 1 : on[j].op = op} = A \cap 1..(n + 1)
    BY <1>1
  <1>4. Before(insts, n + 1, op) = Cardinality(A \cap 1..n)
    BY <1>2 DEF Before
  <1>5. Before(on, Len(on) + 1, op) = Cardinality(A \cap 1..(n + 1))
    BY <1>3 DEF Before
  <1>6. n + 1 \in A <=> inst.op = op
    BY <1>1
  <1> HIDE DEF A
  <1>7. /\ Cardinality(A \cap 1..n) \in Nat
        /\ Cardinality(A \cap 1..(n + 1)) = Cardinality(A \cap 1..n) + (IF n + 1 \in A THEN 1 ELSE 0)
    BY <1>1, CountStep
  <1> QED
    BY <1>4, <1>5, <1>6, <1>7 DEF on, n

LEMMA DepthOn ==
    ASSUME NEW insts, IsSeq(insts), NEW inst
    PROVE  /\ DepthOf(insts) \in Int
           /\ DepthOf(Append(insts, inst)) = DepthOf(insts) + Deepens(inst.op)
  <1> DEFINE on == Append(insts, inst)
  <1>1. /\ Before(insts, Len(insts) + 1, "BEGIN_GRP") \in Nat
        /\ Before(on, Len(on) + 1, "BEGIN_GRP") =
              Before(insts, Len(insts) + 1, "BEGIN_GRP") + (IF inst.op = "BEGIN_GRP" THEN 1 ELSE 0)
    BY BeforeOn
  <1>2. /\ Before(insts, Len(insts) + 1, "CLOSE_GRP") \in Nat
        /\ Before(on, Len(on) + 1, "CLOSE_GRP") =
              Before(insts, Len(insts) + 1, "CLOSE_GRP") + (IF inst.op = "CLOSE_GRP" THEN 1 ELSE 0)
    BY BeforeOn
  <1> HIDE DEF on
  <1> QED
    BY <1>1, <1>2 DEF DepthOf, Deepens, on

LEMMA DepthOfNone == DepthOf(<<>>) = 0
  <1>1. ASSUME NEW op PROVE Before(<<>>, Len(<<>>) + 1, op) = 0
    <2>1. Len(<<>>) = 0
      BY EmptyIsSeq, SeqFacts
    <2>2. {j \in 1..(Len(<<>>) + 1) - 1 : <<>>[j].op = op} = {}
      BY <2>1
    <2> QED
      BY <2>2, FS_EmptySet DEF Before
  <1> QED
    BY <1>1 DEF DepthOf

(* The first pass refuses what leaves a group open.                        *)
LEMMA CheckedGroups ==
    ASSUME NEW insts, IsSeq(insts)
    PROVE  /\ Checked(insts) # "prepared"
           /\ Checked(insts) = "fine" => DepthOf(insts) <= 0
  <1> DEFINE bad == {i \in DOMAIN insts : CheckOf(insts, i) # "fine"}
  <1>1. bad \subseteq Nat
    BY SeqFacts
  <1>2. CASE bad # {}
    <2>1. Min(bad) \in bad
      BY <1>1, <1>2, MinIn
    <2>2. Checked(insts) = CheckOf(insts, Min(bad))
      BY <1>2 DEF Checked
    <2>3. \A i : CheckOf(insts, i) \in {"INST_AFTER_END", "UNBALANCED_GROUP", "NO_SUCH_CAT", "fine"}
      BY DEF CheckOf
    <2> QED
      BY <2>1, <2>2, <2>3
  <1>3. CASE bad = {}
    <2> DEFINE begun == Before(insts, Len(insts) + 1, "BEGIN_GRP")
               closed == Before(insts, Len(insts) + 1, "CLOSE_GRP")
    <2>1. Checked(insts) =
            IF ~AllColumns(insts, Len(insts) + 1) /\ Selecting(insts) = {} THEN "NO_COLUMNS"
            ELSE IF begun > closed THEN "UNBALANCED_GROUP"
            ELSE IF ~Present(insts, "SETCAT") THEN "CATALOGUE_NOT_SET"
            ELSE "fine"
      BY <1>3 DEF Checked
    <2>2. begun \in Nat /\ closed \in Nat
      BY BeforeOn
    <2>3. DepthOf(insts) = begun - closed
      BY DEF DepthOf
    <2> HIDE DEF begun, closed
    <2> QED
      BY <2>1, <2>2, <2>3
  <1> QED
    BY <1>2, <1>3
-----------------------------------------------------------------------------
(* The parser between two passes of Parse.                                 *)
IsParser(p) ==
    /\ p = [stack |-> p.stack, errcnt |-> p.errcnt, major |-> p.major, minor |-> p.minor, hit |-> p.hit]
    /\ p.errcnt \in Int

\* The token looked at is the last of the text, or one of the two after it.
LooksAt(at, tokens, x) ==
    \/ at = "token" /\ x \in TokenKinds /\ x = tokens[Len(tokens)].kind
    \/ at = "eoquery" /\ x = "EOQUERY"
    \/ at = "end" /\ x = "$"

ParserInv ==
    /\ IsParser(parser) /\ IsSeq(fed) /\ IsSeq(queued) /\ lost \in BOOLEAN
    /\ phase \in {"read", "token", "eoquery", "end", "parsed", "executed", "refused"}
    /\ phase = "token" => fed # <<>>
    /\ Parsing(parser) => ~parser.hit /\ LooksAt(phase, fed, parser.major)
    /\ parser.stack # <<>> =>
          /\ Spelt(Tables, parser.stack)
          /\ Len(parser.stack) <= StackDepth
          /\ parser.errcnt < 0

\* What the rules queued begins the groups of the stack, and one more if the
\* stack was full once.
QueueInv ==
    DepthOf(queued) >= Groups(parser.stack, Len(parser.stack)) + (IF lost THEN 1 ELSE 0)

LEMMA KindsAreTokens ==
    /\ TokenKinds \subseteq Terminals(Tables) /\ {"EOQUERY", "$"} \subseteq Terminals(Tables)
    /\ "$" \notin TokenKinds /\ "EOQUERY" \notin TokenKinds /\ NoToken \notin TokenKinds
    /\ \A x \in Terminals(Tables) : Weight(x) = 0 /\ x # NoToken
  <1>1. {"oparen", "cparen"} \cap Terminals(Tables) = {} /\ {"EOQUERY", "$"} \subseteq Terminals(Tables)
    BY QueryTables DEF GroupsAreRules
  <1>2. NoToken \notin Terminals(Tables)
    BY QueryTables DEF Terminals
  <1>3. \A x \in Terminals(Tables) : Weight(x) = 0
    BY <1>1 DEF Weight
  <1> QED
    BY <1>1, <1>2, <1>3 DEF TokenKinds

LEMMA Looking ==
    ASSUME ParserInv, Parsing(parser)
    PROVE  /\ Spelt(Tables, parser.stack) /\ parser.stack # <<>>
           /\ TopState(parser) = Last(parser.stack).state
           /\ TopState(parser) \in Tables.states
           /\ parser.major \in Terminals(Tables)
           /\ Ordered(Tables, parser) = Order(TopState(parser), parser.major)
  <1>1. Spelt(Tables, parser.stack) /\ parser.stack # <<>> /\ LooksAt(phase, fed, parser.major)
    BY DEF ParserInv, Parsing
  <1>2. TopState(parser) = Last(parser.stack).state
    BY DEF TopState
  <1>3. TopState(parser) \in Tables.states
    BY <1>1, <1>2, Tabled, SpeltStates
  <1>4. parser.major \in Terminals(Tables)
    BY <1>1, KindsAreTokens DEF LooksAt
  <1>5. Ordered(Tables, parser) = FindAction(Tables, "shift", TopState(parser), parser.major)
    BY DEF Ordered
  <1> QED
    BY <1>1, <1>2, <1>3, <1>4, <1>5, OnToken

(* A shift. *)
LEMMA ShiftKeeps ==
    ASSUME ParserInv, ParseShift
    PROVE  LET t == Order(TopState(parser), parser.major) IN
           /\ t \in Tables.states /\ Leads(Tables, TopState(parser), parser.major, t)
           /\ Grown(parser.stack, parser'.stack, parser.major, t)
           /\ parser'.stack = Pushed(parser.stack, t, parser.major, parser.minor)
           /\ IsParser(parser') /\ parser'.hit = parser.hit /\ parser'.errcnt = parser.errcnt - 1
           /\ parser'.major = IF parser.major = "$" /\ parser'.stack # <<>> THEN "$" ELSE NoToken
           /\ lost' = (lost \/ parser'.stack = <<>>)
  <1> DEFINE t == Order(TopState(parser), parser.major)
  <1>1. Parsing(parser) /\ Ordered(Tables, parser) < Tables.nstate
        /\ parser' = Shift(parser, Ordered(Tables, parser))
        /\ lost' = (lost \/ parser'.stack = <<>>)
    BY DEF ParseShift
  <1>2. /\ Spelt(Tables, parser.stack)
        /\ TopState(parser) = Last(parser.stack).state
        /\ TopState(parser) \in Tables.states
        /\ parser.major \in Terminals(Tables)
        /\ Ordered(Tables, parser) = t
    BY <1>1, Looking
  <1>3. t \in Tables.states /\ parser.major \in Symbols(Tables)
    BY <1>1, <1>2, OnToken
  <1>4. Leads(Tables, Last(parser.stack).state, parser.major, t)
    BY <1>2, <1>3 DEF Leads, Order
  <1> DEFINE on == Pushed(parser.stack, t, parser.major, parser.minor)
  <1>5. Grown(parser.stack, on, parser.major, t)
    BY <1>2, <1>4, PushKeeps DEF ParserInv, Spelt
  <1> HIDE DEF t
  <1>6. parser' = [parser EXCEPT !.stack = on, !.errcnt = parser.errcnt - 1,
                          !.major = IF parser.major = "$" /\ on # <<>> THEN "$" ELSE NoToken]
    BY <1>1, <1>2 DEF Shift
  <1> HIDE DEF on
  <1>7. /\ parser'.stack = on /\ IsParser(parser') /\ parser'.hit = parser.hit
        /\ parser'.errcnt = parser.errcnt - 1
        /\ parser'.major = IF parser.major = "$" /\ on # <<>> THEN "$" ELSE NoToken
    <2>1. IsParser(parser)
      BY DEF ParserInv
    <2>2. PICK x : x = IF parser.major = "$" /\ on # <<>> THEN "$" ELSE NoToken
      OBVIOUS
    <2>3. parser' = [parser EXCEPT !.stack = on, !.errcnt = parser.errcnt - 1, !.major = x]
      BY <1>6, <2>2
    <2>4. parser' = [stack |-> on, errcnt |-> parser.errcnt - 1, major |-> x,
                     minor |-> parser.minor, hit |-> parser.hit]
      BY <2>1, <2>3 DEF IsParser
    <2>5. parser.errcnt - 1 \in Int
      BY <2>1 DEF IsParser
    <2> QED
      BY <2>2, <2>4, <2>5 DEF IsParser
  <1>8. Leads(Tables, TopState(parser), parser.major, t)
    BY <1>2, <1>4
  <1>9. Grown(parser.stack, parser'.stack, parser.major, t)
    BY <1>5, <1>7
  <1>10. parser'.major = IF parser.major = "$" /\ parser'.stack # <<>> THEN "$" ELSE NoToken
    BY <1>7
  <1>11. parser'.stack = Pushed(parser.stack, t, parser.major, parser.minor)
    BY <1>7 DEF on
  <1> QED
    BY <1>1, <1>3, <1>7, <1>8, <1>9, <1>10, <1>11, Zenon DEF t

(* A reduction: the rule that the tables order is on the stack. *)
LEMMA RuleOnStack ==
    ASSUME ParserInv, Reducing
    PROVE  /\ RuleOrdered \in 1..Tables.nrule
           /\ RuleOrdered = RuleOf(Tables, Order(TopState(parser), parser.major))
           /\ Reduces(Tables, Order(TopState(parser), parser.major))
           /\ Lowered(parser.stack, Popped(Tables, parser, RuleOrdered), RuleOrdered)
  <1>1. Parsing(parser)
        /\ Ordered(Tables, parser) \in Tables.nstate..(ErrorAction(Tables) - 1)
    BY DEF Reducing
  <1>2. /\ Spelt(Tables, parser.stack)
        /\ TopState(parser) = Last(parser.stack).state
        /\ TopState(parser) \in Tables.states
        /\ parser.major \in Terminals(Tables)
        /\ Ordered(Tables, parser) = Order(TopState(parser), parser.major)
    BY <1>1, Looking
  <1>3. RuleOrdered = RuleOf(Tables, Order(TopState(parser), parser.major))
    BY <1>2 DEF RuleOrdered, RuleOf
  <1>4. /\ RuleOrdered \in 1..Tables.nrule
        /\ Reduces(Tables, Order(TopState(parser), parser.major))
        /\ Holds(TopState(parser), RuleOrdered, RhsLength(Tables, RuleOrdered))
    BY <1>1, <1>2, <1>3, OnToken
  <1>5. Popped(Tables, parser, RuleOrdered) =
          SubSeq(parser.stack, 1, Len(parser.stack) - RhsLength(Tables, RuleOrdered))
    BY DEF Popped, RhsLength
  <1>6. Lowered(parser.stack, Popped(Tables, parser, RuleOrdered), RuleOrdered)
    BY <1>2, <1>4, <1>5, PopKeeps
  <1> QED
    BY <1>3, <1>4, <1>6

LEMMA WhatIsQueued ==
    ASSUME NEW r \in 1..Tables.nrule
    PROVE  /\ Deepens(Grammar[r].queues) = Weight(Grammar[r].lhs)
           /\ Weight(Grammar[r].lhs) # 0 => RhsLength(Tables, r) = 1
  <1>1. /\ Grammar[r].queues = "BEGIN_GRP" <=> Grammar[r].lhs = "oparen"
        /\ Grammar[r].queues = "CLOSE_GRP" <=> Grammar[r].lhs = "cparen"
        /\ r \in Rules("oparen") \cup Rules("cparen") => RhsLength(Tables, r) = 1
    BY Tabled, QueryTables DEF GroupsAreRules
  <1>2. Grammar[r].lhs \in {"oparen", "cparen"} => r \in Rules("oparen") \cup Rules("cparen")
    BY Tabled DEF Rules
  <1> QED
    BY <1>1, <1>2 DEF Deepens, Weight

LEMMA ReduceKeeps ==
    ASSUME ParserInv, ParseReduce
    PROVE  LET r == RuleOrdered
               rest == Popped(Tables, parser, r)
               lhs == Grammar[r].lhs
               t == Order(Last(rest).state, lhs)
           IN  /\ \/ t \in Tables.states /\ Grown(rest, parser'.stack, lhs, t)
                  \/ t = AcceptAction(Tables) /\ t \notin Tables.states /\ parser'.stack = <<>>
               /\ t \in Tables.states => parser'.stack = Pushed(rest, t, lhs, Argument)
               /\ parser'.minor = parser.minor
               /\ IsParser(parser') /\ parser'.hit = parser.hit
               /\ parser'.errcnt = parser.errcnt /\ parser'.major = parser.major
               /\ lost' = (lost \/ (parser'.stack = <<>> /\ t # AcceptAction(Tables)))
               /\ IsSeq(queued')
               /\ DepthOf(queued') = DepthOf(queued) + Weight(lhs)
               /\ DepthOf(queued) \in Int
  <1> DEFINE r == RuleOrdered
             rest == Popped(Tables, parser, r)
             lhs == Grammar[r].lhs
             t == Order(Last(rest).state, lhs)
             on == Pushed(rest, t, lhs, Argument)
             stack == IF t < Tables.nstate THEN on
                      ELSE IF t = AcceptAction(Tables) THEN <<>> ELSE rest
  <1>1. /\ Reducing
        /\ parser' = ReduceBy(Tables, parser, RuleOrdered, Argument)
        /\ queued' = IF Opcode = "nothing" THEN queued
                     ELSE Append(queued, [op |-> Opcode, value |-> Argument])
        /\ lost' = (lost \/ (parser'.stack = <<>> /\ ~Accepts(Tables, parser, RuleOrdered)))
    BY DEF ParseReduce
  <1>2. r \in 1..Tables.nrule /\ Lowered(parser.stack, rest, r)
    BY <1>1, RuleOnStack
  <1>3. /\ Spelt(Tables, rest) /\ Len(rest) <= Len(parser.stack)
        /\ Holds(Last(rest).state, r, 0) /\ Last(rest).state \in Tables.states
    <2>1. Len(parser.stack) \in Nat
      BY <1>1, Looking, Tabled, SpeltStates DEF Reducing
    <2> QED
      BY <1>2, <2>1 DEF Lowered
  <1>4. Len(parser.stack) <= StackDepth /\ IsParser(parser) /\ IsSeq(queued)
    BY <1>1 DEF ParserInv, Reducing, Parsing
  <1>5. Len(rest) <= StackDepth
    <2>1. StackDepth \in Nat /\ Len(parser.stack) \in Nat /\ Len(rest) \in Nat
      BY <1>1, <1>3, QueryConstants, Looking, Tabled, SpeltStates DEF Reducing
    <2> QED
      BY <1>3, <1>4, <2>1
  <1>6. /\ lhs \in Symbols(Tables)
        /\ FindAction(Tables, "reduce", Last(rest).state, lhs) = t
        /\ t \in Tables.states \cup {AcceptAction(Tables)}
        /\ t < Tables.nstate <=> t \in Tables.states
        /\ t = AcceptAction(Tables) => t \notin Tables.states
    BY <1>2, <1>3, OnRule
  <1>7. t \in Tables.states => Grown(rest, on, lhs, t)
    <2> SUFFICES ASSUME t \in Tables.states PROVE Grown(rest, on, lhs, t)
      OBVIOUS
    <2>1. Leads(Tables, Last(rest).state, lhs, t)
      BY <1>6, SMTT(30) DEF Leads, Order
    <2> HIDE DEF rest, lhs, t
    <2> QED
      BY <1>3, <1>5, <2>1, PushKeeps
  <1>8. parser' = [parser EXCEPT !.stack = stack]
    BY <1>1, <1>6, Tabled DEF ReduceBy, Popped
  <1> HIDE DEF rest, lhs, t, on
  <1>9. /\ parser'.stack = stack /\ IsParser(parser') /\ parser'.hit = parser.hit
        /\ parser'.errcnt = parser.errcnt /\ parser'.major = parser.major
        /\ parser'.minor = parser.minor
    <2> HIDE DEF stack
    <2>1. parser' = [stack |-> stack, errcnt |-> parser.errcnt, major |-> parser.major,
                     minor |-> parser.minor, hit |-> parser.hit]
      BY <1>4, <1>8 DEF IsParser
    <2> QED
      BY <1>4, <2>1 DEF IsParser
  <1>10. \/ t \in Tables.states /\ Grown(rest, parser'.stack, lhs, t)
         \/ t = AcceptAction(Tables) /\ t \notin Tables.states /\ parser'.stack = <<>>
    BY <1>6, <1>7, <1>9
  <1>11. Accepts(Tables, parser, RuleOrdered) <=> t = AcceptAction(Tables)
    BY <1>2, <1>6, Tabled DEF Accepts, rest, lhs
  <1>12. IsSeq(queued') /\ DepthOf(queued') = DepthOf(queued) + Deepens(Opcode) /\ DepthOf(queued) \in Int
    <2>1. DepthOf(queued) \in Int
      BY <1>4, DepthOn
    <2>2. CASE Opcode = "nothing"
      BY <1>1, <1>4, <2>1, <2>2 DEF Deepens
    <2>3. CASE Opcode # "nothing"
      <3> DEFINE inst == [op |-> Opcode, value |-> Argument]
      <3>1. inst.op = Opcode
        OBVIOUS
      <3> HIDE DEF inst
      <3>2. queued' = Append(queued, inst)
        BY <1>1, <2>3 DEF inst
      <3> QED
        BY <1>4, <2>1, <3>1, <3>2, DepthOn, AppendFacts
    <2> QED
      BY <2>2, <2>3
  <1>13. Deepens(Opcode) = Weight(lhs)
    BY <1>2, WhatIsQueued DEF Opcode, lhs
  <1>14. lost' = (lost \/ (parser'.stack = <<>> /\ t # AcceptAction(Tables)))
    BY <1>1, <1>11
  <1>15. t \in Tables.states => parser'.stack = Pushed(rest, t, lhs, Argument)
    BY <1>6, <1>9 DEF on
  <1> QED
    BY <1>9, <1>10, <1>12, <1>13, <1>14, <1>15 DEF rest, lhs, t

(* A syntax error empties the stack, and is reported.                      *)
LEMMA ErrorKeeps ==
    ASSUME ParserInv, ParseError
    PROVE  /\ parser'.stack = <<>> /\ IsParser(parser')
           /\ failed'
  <1>1. /\ Parsing(parser)
        /\ parser' = Recovered(Tables, parser)
        /\ failed' = (failed \/ Reported(parser))
    BY DEF ParseError
  <1>2. /\ Spelt(Tables, parser.stack) /\ parser.stack # <<>> /\ ~parser.hit
        /\ IsParser(parser) /\ parser.errcnt < 0
    BY <1>1, Looking DEF ParserInv
  <1>3. /\ Len(parser.stack) \in Nat \ {0} /\ DOMAIN parser.stack = 1..Len(parser.stack)
        /\ Last(parser.stack) = parser.stack[Len(parser.stack)]
        /\ \A n \in 1..Len(parser.stack) : parser.stack[n].state \in Tables.states
    BY <1>2, Tabled, SpeltStates, SeqFacts DEF Spelt
  <1>4. NeverRecovers(Tables)
    BY Tabled DEF WellMade
  <1>5. Last(parser.stack).symbol # "error"
    <2>1. CASE Len(parser.stack) = 1
      BY <1>2, <1>3, <2>1 DEF Spelt
    <2>2. CASE Len(parser.stack) # 1
      <3> DEFINE n == Len(parser.stack)
      <3>1. n - 1 \in 1..(n - 1) /\ n - 1 \in 1..n /\ (n - 1) + 1 = n
        <4> HIDE DEF n
        <4>1. n \in Nat \ {0} /\ n # 1
          BY <1>3, <2>2 DEF n
        <4> QED
          BY <4>1
      <3>2. Leads(Tables, parser.stack[n - 1].state, parser.stack[(n - 1) + 1].symbol,
                  parser.stack[(n - 1) + 1].state)
        BY <1>2, <3>1 DEF Spelt
      <3>3. Leads(Tables, parser.stack[n - 1].state, Last(parser.stack).symbol, Last(parser.stack).state)
        BY <1>3, <3>1, <3>2
      <3> QED
        BY <1>3, <1>4, <3>1, <3>3 DEF Leads, NeverRecovers
    <2> QED
      BY <2>1, <2>2
  <1> DEFINE kept == {n \in DOMAIN parser.stack :
                        FindAction(Tables, "shift", parser.stack[n].state, "error") < Tables.nstate}
  <1>6. kept = {}
    BY <1>3, <1>4 DEF NeverRecovers
  <1>7. parser' = [[parser EXCEPT !.stack = <<>>, !.major = NoToken] EXCEPT !.errcnt = 3, !.hit = TRUE]
    BY <1>1, <1>2, <1>5, <1>6 DEF Recovered
  <1>8. parser' = [stack |-> <<>>, errcnt |-> 3, major |-> NoToken, minor |-> parser.minor, hit |-> TRUE]
    BY <1>2, <1>7 DEF IsParser
  <1>9. parser'.stack = <<>> /\ IsParser(parser')
    BY <1>8 DEF IsParser
  <1>10. Reported(parser)
    BY <1>2 DEF Reported
  <1>11. failed'
    BY <1>1, <1>10, Zenon
  <1> QED
    BY <1>9, <1>11

(* A token for the parser, which starts afresh when its stack is empty.    *)
LEMMA FedKeeps ==
    ASSUME ParserInv, NEW x, NEW v, parser' = Fed(parser, x, v)
    PROVE  /\ parser'.stack = IF parser.stack = <<>> THEN <<Bottom>> ELSE parser.stack
           /\ IsParser(parser') /\ ~parser'.hit /\ parser'.major = x /\ parser'.minor = v
           /\ parser'.errcnt < 0
           /\ parser'.stack # <<>> /\ Spelt(Tables, parser'.stack) /\ Len(parser'.stack) <= StackDepth
           /\ Groups(parser'.stack, Len(parser'.stack)) = Groups(parser.stack, Len(parser.stack))
  <1> DEFINE opened == IF parser.stack = <<>> THEN [parser EXCEPT !.stack = <<Bottom>>, !.errcnt = -1]
                       ELSE parser
  <1>1. IsParser(parser)
    BY DEF ParserInv
  <1>2. parser' = [opened EXCEPT !.major = x, !.minor = v, !.hit = FALSE]
    BY DEF Fed
  <1>3. Spelt(Tables, <<Bottom>>) /\ Len(<<Bottom>>) = 1 /\ <<Bottom>> # <<>>
    BY SpeltBottom, OneIsSeq
  <1>4. StackDepth \in Nat /\ StackDepth >= 11
    BY QueryConstants
  <1>5. CASE parser.stack = <<>>
    <2>1. parser' = [stack |-> <<Bottom>>, errcnt |-> -1, major |-> x, minor |-> v, hit |-> FALSE]
      BY <1>1, <1>2, <1>5 DEF IsParser
    <2>2. Groups(<<Bottom>>, 1) = 0 /\ Groups(parser.stack, Len(parser.stack)) = 0
      <3>1. Groups(<<Bottom>>, 0 + 1) = Groups(<<Bottom>>, 0) + Weight(<<Bottom>>[0 + 1].symbol)
            /\ Groups(<<Bottom>>, 0) = 0
        BY GroupsStep
      <3>2. Weight(<<Bottom>>[1].symbol) = 0
        BY DEF Bottom, Weight
      <3>3. Len(parser.stack) = 0 /\ Groups(parser.stack, 0) = 0
        BY <1>5, EmptyIsSeq, SeqFacts, GroupsStep
      <3> QED
        BY <3>1, <3>2, <3>3
    <2>3. parser'.stack = <<Bottom>> /\ IsParser(parser') /\ parser'.hit = FALSE /\ parser'.major = x
          /\ parser'.minor = v /\ parser'.errcnt = -1
      BY <2>1 DEF IsParser
    <2> QED
      BY <1>3, <1>4, <1>5, <2>2, <2>3
  <1>6. CASE parser.stack # <<>>
    <2>1. parser' = [stack |-> parser.stack, errcnt |-> parser.errcnt, major |-> x, minor |-> v,
                     hit |-> FALSE]
      BY <1>1, <1>2, <1>6 DEF IsParser
    <2>2. parser'.stack = parser.stack /\ IsParser(parser') /\ parser'.hit = FALSE /\ parser'.major = x
          /\ parser'.minor = v /\ parser'.errcnt = parser.errcnt
      BY <1>1, <2>1 DEF IsParser
    <2>3. /\ Spelt(Tables, parser.stack) /\ Len(parser.stack) <= StackDepth /\ parser.errcnt < 0
      BY <1>6 DEF ParserInv
    <2> QED
      BY <1>6, <2>2, <2>3
  <1> QED
    BY <1>5, <1>6
-----------------------------------------------------------------------------
(* ParserInv and QueueInv are kept.                                        *)
LEMMA InitParser == Init => ParserInv /\ QueueInv
  <1> SUFFICES ASSUME Init PROVE ParserInv /\ QueueInv
    OBVIOUS
  <1>0. /\ parser = Allocated /\ queued = <<>> /\ fed = <<>> /\ lost = FALSE /\ phase = "read"
    BY Zenon DEF Init
  <1>1. /\ parser.stack = <<>> /\ IsParser(parser) /\ parser.major = NoToken
    BY <1>0 DEF Allocated, IsParser
  <1>2. IsSeq(fed) /\ IsSeq(queued)
    BY <1>0, EmptyIsSeq
  <1>3. ~Parsing(parser)
    BY <1>1 DEF Parsing
  <1>4. ParserInv
    BY <1>0, <1>1, <1>2, <1>3 DEF ParserInv
  <1>5. Groups(parser.stack, Len(parser.stack)) = 0
    BY <1>1, EmptyIsSeq, SeqFacts, GroupsStep
  <1>6. DepthOf(queued) = 0
    BY <1>0, DepthOfNone
  <1> QED
    BY <1>0, <1>4, <1>5, <1>6 DEF QueueInv

LEMMA ParserOnShift ==
    ASSUME ParserInv, QueueInv, ParseShift
    PROVE  ParserInv' /\ QueueInv'
  <1> DEFINE x == parser.major
             t == Order(TopState(parser), x)
  <1>1. /\ Parsing(parser) /\ UNCHANGED <<fed, queued, phase>>
    BY DEF ParseShift
  <1>2. /\ Grown(parser.stack, parser'.stack, x, t)
        /\ IsParser(parser') /\ parser'.hit = parser.hit /\ parser'.errcnt = parser.errcnt - 1
        /\ parser'.major = IF x = "$" /\ parser'.stack # <<>> THEN "$" ELSE NoToken
        /\ lost' = (lost \/ parser'.stack = <<>>)
    BY ShiftKeeps
  <1>3. /\ IsParser(parser) /\ IsSeq(fed) /\ IsSeq(queued) /\ lost \in BOOLEAN
        /\ phase \in {"read", "token", "eoquery", "end", "parsed", "executed", "refused"}
        /\ phase = "token" => fed # <<>>
        /\ ~parser.hit /\ LooksAt(phase, fed, x) /\ parser.errcnt < 0 /\ parser.errcnt \in Int
    BY <1>1 DEF ParserInv, Parsing, IsParser
  <1>4. x \in Terminals(Tables) /\ Weight(x) = 0
    BY <1>1, Looking, KindsAreTokens
  <1> HIDE DEF t, x
  <1>5. Parsing(parser') => ~parser'.hit /\ LooksAt(phase', fed', parser'.major)
    <2> SUFFICES ASSUME Parsing(parser') PROVE ~parser'.hit /\ LooksAt(phase', fed', parser'.major)
      OBVIOUS
    <2>1. x = "$" /\ parser'.major = "$"
      BY <1>2 DEF Parsing
    <2>2. phase = "end"
      BY <1>3, <2>1, KindsAreTokens DEF LooksAt
    <2> QED
      BY <1>1, <1>2, <1>3, <2>1, <2>2 DEF LooksAt
  <1>6. parser'.stack # <<>> =>
          Spelt(Tables, parser'.stack) /\ Len(parser'.stack) <= StackDepth /\ parser'.errcnt < 0
    BY <1>2, <1>3 DEF Grown
  <1>7. ParserInv'
    BY <1>1, <1>2, <1>3, <1>5, <1>6 DEF ParserInv
  <1>8. QueueInv'
    <2>1. DepthOf(queued) \in Int /\ Groups(parser.stack, Len(parser.stack)) \in Nat
      <3>1. Len(parser.stack) \in Nat /\ Spelt(Tables, parser.stack)
        BY <1>1, Looking, SeqFacts DEF Spelt
      <3> QED
        BY <1>3, <3>1, DepthOn, GroupsNat
    <2>2. CASE parser'.stack = <<>>
      <3>1. Groups(parser'.stack, Len(parser'.stack)) = 0
        BY <2>2, EmptyIsSeq, SeqFacts, GroupsStep
      <3>2. Groups(parser.stack, Len(parser.stack)) >= 1
        BY <1>2, <2>2 DEF Grown
      <3> QED
        BY <1>1, <1>2, <1>3, <2>1, <2>2, <3>1, <3>2 DEF QueueInv
    <2>3. CASE parser'.stack # <<>>
      <3>1. Groups(parser'.stack, Len(parser'.stack)) = Groups(parser.stack, Len(parser.stack)) + 0
        BY <1>2, <1>4, <2>3 DEF Grown
      <3> QED
        BY <1>1, <1>2, <1>3, <2>1, <2>3, <3>1 DEF QueueInv
    <2> QED
      BY <2>2, <2>3
  <1> QED
    BY <1>7, <1>8

LEMMA ParserOnReduce ==
    ASSUME ParserInv, QueueInv, ParseReduce
    PROVE  ParserInv' /\ QueueInv'
  <1> DEFINE r == RuleOrdered
             rest == Popped(Tables, parser, r)
             lhs == Grammar[r].lhs
             t == Order(Last(rest).state, lhs)
             st == parser.stack
             on == parser'.stack
  <1>1. /\ Reducing /\ Parsing(parser) /\ UNCHANGED <<fed, phase>>
    BY DEF ParseReduce, Reducing
  <1>2. r \in 1..Tables.nrule /\ Lowered(st, rest, r)
    BY <1>1, RuleOnStack
  <1>3. /\ \/ t \in Tables.states /\ Grown(rest, on, lhs, t)
           \/ t = AcceptAction(Tables) /\ t \notin Tables.states /\ on = <<>>
        /\ IsParser(parser') /\ parser'.hit = parser.hit
        /\ parser'.errcnt = parser.errcnt /\ parser'.major = parser.major
        /\ lost' = (lost \/ (on = <<>> /\ t # AcceptAction(Tables)))
        /\ IsSeq(queued')
        /\ DepthOf(queued') = DepthOf(queued) + Weight(lhs)
        /\ DepthOf(queued) \in Int
    BY ReduceKeeps
  <1>4. /\ IsSeq(fed) /\ lost \in BOOLEAN
        /\ phase \in {"read", "token", "eoquery", "end", "parsed", "executed", "refused"}
        /\ phase = "token" => fed # <<>>
        /\ ~parser.hit /\ LooksAt(phase, fed, parser.major) /\ parser.errcnt < 0 /\ parser.errcnt \in Int
        /\ Spelt(Tables, st) /\ Len(st) <= StackDepth
    BY <1>1 DEF ParserInv, Parsing, IsParser
  <1>5. Last(rest).state \in Tables.states /\ Groups(rest, Len(rest)) \in Nat
        /\ Groups(rest, Len(rest)) = Groups(st, Len(st))
    <2>1. Spelt(Tables, rest) /\ Len(rest) \in Nat
      BY <1>2, Tabled, SpeltStates DEF Lowered
    <2> QED
      BY <1>2, <2>1, GroupsNat DEF Lowered
  <1>6. StackDepth \in Nat /\ Len(st) \in Nat
    BY <1>4, QueryConstants, SeqFacts DEF Spelt
  <1>7. t = AcceptAction(Tables) => lhs # "cparen"
    BY <1>5, QueryTables DEF GroupsAreSpelt
  <1>8. t \in Tables.states => t # AcceptAction(Tables)
    BY Tabled
  <1>9. Weight(lhs) \in {-1, 0, 1} /\ (Weight(lhs) = -1 => lhs = "cparen")
    BY DEF Weight
  <1>10. Weight(lhs) # 0 => Len(rest) # StackDepth
    <2> SUFFICES ASSUME Weight(lhs) # 0 PROVE Len(rest) # StackDepth
      OBVIOUS
    <2>1. RhsLength(Tables, r) = 1
      BY <1>2, WhatIsQueued
    <2>2. Len(rest) = Len(st) - 1
      BY <1>2, <2>1 DEF Lowered
    <2> QED
      BY <1>4, <1>6, <2>2
  <1> HIDE DEF rest, lhs, t, st, on
  <1>11. on # <<>> => Spelt(Tables, on) /\ Len(on) <= StackDepth
    BY <1>3 DEF Grown
  <1>12. ParserInv'
    <2>1. Parsing(parser') => ~parser'.hit /\ LooksAt(phase', fed', parser'.major)
      BY <1>1, <1>3, <1>4
    <2>2. parser'.stack # <<>> =>
            Spelt(Tables, parser'.stack) /\ Len(parser'.stack) <= StackDepth /\ parser'.errcnt < 0
      BY <1>3, <1>4, <1>11 DEF on
    <2>3. lost' \in BOOLEAN
      BY <1>3
    <2> QED
      BY <1>1, <1>3, <1>4, <2>1, <2>2, <2>3 DEF ParserInv
  <1>13. DepthOf(queued) >= Groups(rest, Len(rest)) + (IF lost THEN 1 ELSE 0)
    BY <1>5 DEF QueueInv, st
  <1>14. on = <<>> => Groups(on, Len(on)) = 0
    BY EmptyIsSeq, SeqFacts, GroupsStep
  <1>15. DepthOf(queued') >= Groups(on, Len(on)) + (IF lost' THEN 1 ELSE 0)
    <2>1. CASE t = AcceptAction(Tables)
      <3>1. on = <<>> /\ lost' = lost /\ Weight(lhs) \in {0, 1}
        BY <2>1, <1>3, <1>4, <1>7, <1>8, <1>9
      <3> QED
        BY <1>3, <1>4, <1>5, <1>13, <1>14, <3>1
    <2>2. CASE t # AcceptAction(Tables) /\ on = <<>>
      <3>1. Len(rest) = StackDepth /\ Groups(rest, Len(rest)) >= 1
        BY <1>3, <2>2 DEF Grown
      <3>2. Weight(lhs) = 0
        BY <1>10, <3>1
      <3> QED
        BY <1>3, <1>5, <1>13, <1>14, <2>2, <3>1, <3>2
    <2>3. CASE t # AcceptAction(Tables) /\ on # <<>>
      <3>1. Groups(on, Len(on)) = Groups(rest, Len(rest)) + Weight(lhs)
        BY <1>3, <2>3 DEF Grown
      <3>2. lost' = lost
        BY <1>3, <1>4, <2>3
      <3>3. PICK c \in {0, 1} : c = (IF lost THEN 1 ELSE 0)
        OBVIOUS
      <3>4. DepthOf(queued) >= Groups(rest, Len(rest)) + c
        BY <1>13, <3>3
      <3>5. PICK p, q, w : p = DepthOf(queued) /\ q = Groups(rest, Len(rest)) /\ w = Weight(lhs)
        OBVIOUS
      <3>6. p \in Int /\ q \in Nat /\ w \in {-1, 0, 1} /\ p >= q + c
        BY <1>3, <1>5, <1>9, <3>4, <3>5
      <3>7. DepthOf(queued') = p + w /\ Groups(on, Len(on)) = q + w
        BY <1>3, <3>1, <3>5
      <3>8. p + w >= (q + w) + c
        BY <3>3, <3>6
      <3>9. DepthOf(queued') >= Groups(on, Len(on)) + c
        BY <3>7, <3>8
      <3> QED
        BY <3>2, <3>3, <3>9
    <2> QED
      BY <2>1, <2>2, <2>3
  <1> QED
    BY <1>12, <1>15 DEF QueueInv, on

LEMMA ParserOnError ==
    ASSUME ParserInv, QueueInv, ParseError
    PROVE  ParserInv' /\ QueueInv'
  <1>1. Parsing(parser) /\ UNCHANGED <<queued, fed, phase, lost>>
    BY DEF ParseError
  <1>2. parser'.stack = <<>> /\ IsParser(parser')
    BY ErrorKeeps
  <1>3. ~Parsing(parser')
    BY <1>2 DEF Parsing
  <1>4. ParserInv'
    BY <1>1, <1>2, <1>3 DEF ParserInv
  <1>5. Groups(parser'.stack, Len(parser'.stack)) = 0
    BY <1>2, EmptyIsSeq, SeqFacts, GroupsStep
  <1>6. Groups(parser.stack, Len(parser.stack)) \in Nat /\ DepthOf(queued) \in Int /\ lost \in BOOLEAN
    <2>1. Spelt(Tables, parser.stack) /\ Len(parser.stack) \in Nat /\ IsSeq(queued)
      BY <1>1, Looking, SeqFacts DEF Spelt, ParserInv
    <2> QED
      BY <2>1, GroupsNat, DepthOn DEF ParserInv
  <1> QED
    BY <1>1, <1>4, <1>5, <1>6 DEF QueueInv

LEMMA ParserOnFed ==
    ASSUME ParserInv, QueueInv, NEW x, NEW v, parser' = Fed(parser, x, v),
           UNCHANGED <<queued, lost>>, IsSeq(fed'),
           phase' \in {"token", "eoquery", "end"}, phase' = "token" => fed' # <<>>,
           LooksAt(phase', fed', x)
    PROVE  ParserInv' /\ QueueInv'
  <1>1. /\ IsParser(parser') /\ ~parser'.hit /\ parser'.major = x /\ parser'.errcnt < 0
        /\ parser'.stack # <<>> /\ Spelt(Tables, parser'.stack) /\ Len(parser'.stack) <= StackDepth
        /\ Groups(parser'.stack, Len(parser'.stack)) = Groups(parser.stack, Len(parser.stack))
    BY FedKeeps
  <1>2. ParserInv'
    BY <1>1 DEF ParserInv
  <1> QED
    BY <1>1, <1>2 DEF QueueInv

LEMMA ParserOnWait ==
    ASSUME ParserInv, QueueInv, UNCHANGED <<parser, fed, queued, lost>>,
           \/ phase' = phase
           \/ ~Parsing(parser) /\ phase' \in {"read", "parsed", "executed", "refused"}
    PROVE  ParserInv' /\ QueueInv'
  <1>1. ParserInv'
    <2>1. Parsing(parser') <=> Parsing(parser)
      BY DEF Parsing
    <2> QED
      BY <2>1 DEF ParserInv
  <1> QED
    BY <1>1 DEF QueueInv

LEMMA DeliveredKinds ==
    ASSUME ParserInv, NEW kind, NEW value, Deliver(kind, value), kind \in TokenKinds
    PROVE  /\ IsSeq(fed') /\ fed' # <<>>
           /\ fed' = Append(fed, [kind |-> kind, value |-> value])
           /\ fed'[Len(fed')].kind = kind
           /\ LooksAt(phase', fed', kind)
  <1> DEFINE token == [kind |-> kind, value |-> value]
  <1>1. fed' = Append(fed, token) /\ phase' = "token"
    BY DEF Deliver
  <1>2. token.kind = kind
    OBVIOUS
  <1> HIDE DEF token
  <1>3. IsSeq(fed)
    BY DEF ParserInv
  <1>4. IsSeq(fed') /\ fed' # <<>> /\ fed'[Len(fed')] = token
    BY <1>1, <1>3, AppendFacts
  <1> QED
    BY <1>1, <1>2, <1>4 DEF LooksAt, token

LEMMA TokensDelivered ==
    ASSUME Feed \/ QTok
    PROVE  \E token : token.kind \in TokenKinds /\ Deliver(token.kind, token.value)
  <1>1. CASE Feed
    <2>1. PICK token \in Tokens : Deliver(token.kind, token.value)
      BY <1>1, Zenon DEF Feed
    <2> QED
      BY <2>1, QueryConstants
  <1>2. CASE QTok
    <2> DEFINE token == [kind |-> NextToken.kind, value |-> Extracted(text, cp, NextToken)]
    <2>1. /\ NextToken.kind \notin {"END", "ILLEGAL", "SPACE"}
          /\ Deliver(NextToken.kind, Extracted(text, cp, NextToken))
      BY <1>2 DEF QTok, Delivers
    <2>2. NextToken.kind \in TokeniserKinds
      BY <2>1, TokenKind DEF NextToken
    <2>3. token.kind \in TokenKinds
      BY <2>2, QueryTables
    <2>4. Deliver(token.kind, token.value)
      BY <2>1
    <2> QED
      BY <2>3, <2>4
  <1> QED
    BY <1>1, <1>2

LEMMA ParserNext ==
    ASSUME ParserInv, QueueInv, [Next]_vars
    PROVE  ParserInv' /\ QueueInv'
  <1>1. CASE Feed \/ QTok
    <2>1. PICK token : token.kind \in TokenKinds /\ Deliver(token.kind, token.value)
      BY <1>1, TokensDelivered
    <2>2. /\ IsSeq(fed') /\ fed' # <<>> /\ LooksAt(phase', fed', token.kind)
      BY <2>1, DeliveredKinds
    <2>3. /\ parser' = Fed(parser, token.kind, token.value) /\ phase' = "token"
          /\ UNCHANGED <<queued, lost>>
      BY <2>1 DEF Deliver
    <2> QED
      BY <2>2, <2>3, ParserOnFed
  <1>2. CASE EndOfText
    <2>1. /\ parser' = Fed(parser, "EOQUERY", "none") /\ phase' = "eoquery"
          /\ UNCHANGED <<queued, lost, fed>>
      BY <1>2, Zenon DEF EndOfText
    <2>2. IsSeq(fed') /\ LooksAt(phase', fed', "EOQUERY")
      BY <2>1 DEF ParserInv, LooksAt
    <2> QED
      BY <2>1, <2>2, ParserOnFed
  <1>3. CASE EndOfQuery
    <2>1. /\ parser' = Fed(parser, "$", "none") /\ phase' = "end"
          /\ UNCHANGED <<queued, lost, fed>>
      BY <1>3 DEF EndOfQuery
    <2>2. IsSeq(fed') /\ LooksAt(phase', fed', "$")
      BY <2>1 DEF ParserInv, LooksAt
    <2> QED
      BY <2>1, <2>2, ParserOnFed
  <1>4. CASE SkipBlanks \/ ParseUnusable \/ UNCHANGED vars
    BY <1>4, ParserOnWait DEF SkipBlanks, ParseUnusable, vars
  <1>5. CASE QTokEmpty \/ Looked \/ Parsed \/ Exec
    <2>1. ~Parsing(parser) /\ phase' \in {"read", "parsed", "executed", "refused"}
      BY <1>5 DEF QTokEmpty, Looked, Parsed, Exec, Delivers, ParserInv, LooksAt
    <2>2. UNCHANGED <<parser, fed, queued, lost>>
      BY <1>5 DEF QTokEmpty, Looked, Parsed, Exec
    <2> QED
      BY <2>1, <2>2, ParserOnWait
  <1>6. CASE ParseShift
    BY <1>6, ParserOnShift
  <1>7. CASE ParseReduce
    BY <1>7, ParserOnReduce
  <1>8. CASE ParseError
    BY <1>8, ParserOnError
  <1> QED
    BY <1>1, <1>2, <1>3, <1>4, <1>5, <1>6, <1>7, <1>8 DEF Next
-----------------------------------------------------------------------------
(* The reading that goes with a stack: where it is, the two states on top   *)
(* tell; how many groups are open, all of the stack.                        *)
Knows(st, x, at) ==
    /\ <<Below(st), Last(st).state, x, at[1]>> \in Known
    /\ at[2] = Groups(st, Len(st)) + Opens(Last(st).state)

LEMMA KnownClosed ==
    ASSUME NEW k \in Known
    PROVE  Onwards(k) \subseteq Known /\ Agrees(k)
  BY QueryTables DEF KnowsReading

LEMMA CountedOpen ==
    ASSUME NEW st, Spelt(Tables, st), NEW x, NEW at, Knows(st, x, at)
    PROVE  /\ at[2] \in Int /\ Groups(st, Len(st)) \in Nat
           /\ Opens(Last(st).state) \in {-1, 0, 1}
  <1>1. Len(st) \in Nat
    BY SeqFacts DEF Spelt
  <1>2. Groups(st, Len(st)) \in Nat
    BY <1>1, GroupsNat
  <1>3. Opens(Last(st).state) \in {-1, 0, 1}
    BY DEF Opens
  <1> QED
    BY <1>2, <1>3 DEF Knows

LEMMA KnowsStart == Knows(<<Bottom>>, NoToken, <<"start", 0>>)
  <1>1. <<Bottom>>[1] = Bottom /\ Len(<<Bottom>>) = 1
    BY OneIsSeq
  <1>2. Last(<<Bottom>>).state = 0 /\ Below(<<Bottom>>) = 0
    BY <1>1 DEF Last, Below, Bottom
  <1>3. <<0, 0, NoToken, "start">> \in Known
    BY QueryTables DEF KnowsReading, Start
  <1>4. Opens(0) = 0
    <2>1. \A c \in Tables.configs[0] : c[2] = 0
      BY Tabled DEF WellMade, DotsMove
    <2>2. ASSUME NEW r PROVE ~Holds(0, r, 1)
      <3>1. <<r, 1>>[2] # 0
        OBVIOUS
      <3> QED
        BY <2>1, <3>1 DEF Holds
    <2> QED
      BY <2>2 DEF Opens, JustRead
  <1>5. Groups(<<Bottom>>, 1) = 0
    <2>1. Groups(<<Bottom>>, 0 + 1) = Groups(<<Bottom>>, 0) + Weight(<<Bottom>>[0 + 1].symbol)
          /\ Groups(<<Bottom>>, 0) = 0
      BY GroupsStep
    <2>2. Weight(<<Bottom>>[1].symbol) = 0
      BY <1>1 DEF Bottom, Weight
    <2> QED
      BY <2>1, <2>2
  <1> QED
    BY <1>1, <1>2, <1>3, <1>4, <1>5 DEF Knows

LEMMA KnowsToken ==
    ASSUME NEW st, NEW at, Knows(st, NoToken, at), NEW x \in TokenKinds \cup {"EOQUERY"}
    PROVE  Knows(st, x, at) /\ at[1] # "dead"
  <1> DEFINE k == <<Below(st), Last(st).state, NoToken, at[1]>>
  <1>1. k \in Known
    BY DEF Knows
  <1>2. k[1] = Below(st) /\ k[2] = Last(st).state /\ k[3] = NoToken /\ k[4] = at[1]
    OBVIOUS
  <1> HIDE DEF k
  <1>3. <<k[1], k[2], x, k[4]>> \in Onwards(k)
    BY <1>2 DEF Onwards
  <1>4. <<Below(st), Last(st).state, x, at[1]>> \in Known
    BY <1>1, <1>2, <1>3, KnownClosed
  <1>5. at[1] # "dead"
    BY <1>1, <1>2, KnownClosed DEF Agrees
  <1> QED
    BY <1>4, <1>5 DEF Knows

LEMMA ClosesOne ==
    ASSUME NEW w \in Condition
    PROVE  OneOpen(w, "CPAR")[2] = 0
  <1> DEFINE at == <<w, 1>>
             fixed == IF w \in DOMAIN Places
                      THEN {p[2] : p \in {q \in Places[w] : q[1] = "CPAR"}} ELSE {}
  <1>1. w \in {"empty", "name", "flags", "full"}
    BY DEF Condition
  <1>2. ASSUME w \in DOMAIN Places, NEW q \in Places[w] PROVE q[1] # "CPAR"
    BY <1>1, <1>2 DEF Places
  <1>3. fixed = {}
    BY <1>2
  <1>4. "CPAR" \notin Operators /\ "CPAR" \notin Literals
    BY DEF Operators, Literals
  <1>5. at[1] = w /\ at[2] = 1
    OBVIOUS
  <1> HIDE DEF at
  <1>6. Advance(at, "CPAR") = <<"full", 1 - 1>>
    BY <1>3, <1>4, <1>5 DEF Advance
  <1> QED
    BY <1>6 DEF OneOpen, at

(* A token that is shifted reads on ...                                    *)
LEMMA KnowsShift ==
    ASSUME NEW st, Spelt(Tables, st), NEW x \in TokenKinds, NEW at, Knows(st, x, at),
           Order(Last(st).state, x) \in Tables.states,
           NEW on, on # <<>>, Grown(st, on, x, Order(Last(st).state, x))
    PROVE  /\ Knows(on, NoToken, Advance(at, x))
           /\ Advance(at, x)[1] = OneOpen(at[1], x)[1] /\ OneOpen(at[1], x)[1] # "dead"
  <1> DEFINE s == Last(st).state
             a == Order(s, x)
             k == <<Below(st), s, x, at[1]>>
             next == OneOpen(at[1], x)
  <1>1. k \in Known
    BY DEF Knows
  <1>2. k[1] = Below(st) /\ k[2] = s /\ k[3] = x /\ k[4] = at[1]
    OBVIOUS
  <1> HIDE DEF k
  <1>3. x # NoToken /\ x # "EOQUERY" /\ x \in Terminals(Tables) /\ Weight(x) = 0
    BY KindsAreTokens
  <1>4. ~Reduces(Tables, a)
    <2>1. s \in Tables.states
      BY Tabled, SpeltStates
    <2>2. Reduces(Tables, a) <=> a \in Tables.nstate..(ErrorAction(Tables) - 1)
      BY <1>3, <2>1, OnToken
    <2> HIDE DEF a
    <2>3. a \in 0..(Tables.nstate - 1) /\ Tables.nstate \in Nat
      BY Tabled DEF a
    <2>4. a \notin Tables.nstate..(ErrorAction(Tables) - 1)
      BY <2>3
    <2> QED
      BY <2>2, <2>4
  <1>5. /\ Opens(s) = 0 /\ next[1] # "dead" /\ next[2] = 1 + Opens(a)
        /\ Opens(a) = -1 => Holds(s, ParenRule, 2)
    BY <1>1, <1>2, <1>3, KnownClosed DEF Agrees
  <1>6. <<s, a, NoToken, next[1]>> \in Known
    <2>1. <<s, a, NoToken, next[1]>> \in Onwards(k)
      BY <1>2, <1>3, <1>4 DEF Onwards
    <2> QED
      BY <1>1, <2>1, KnownClosed
  <1>7. at[2] = Groups(st, Len(st)) + 0 /\ Groups(st, Len(st)) \in Nat /\ at[2] \in Int
    BY <1>5, CountedOpen DEF Knows
  <1>8. x = "CPAR" /\ at[1] \in Condition => at[2] > 0
    <2> SUFFICES ASSUME x = "CPAR", at[1] \in Condition PROVE at[2] > 0
      OBVIOUS
    <2>1. next[2] = 0
      BY ClosesOne
    <2>2. Opens(a) = -1
      <3>1. Opens(a) \in {-1, 0, 1}
        BY DEF Opens
      <3> HIDE DEF a, next
      <3> QED
        BY <1>5, <2>1, <3>1
    <2>3. Len(st) \in 1..Len(st) /\ Last(st) = st[Len(st)]
      BY Tabled, SpeltStates
    <2>4. Groups(st, Len(st)) >= 1
      BY <1>5, <2>2, <2>3, InGroup
    <2> QED
      BY <1>7, <2>4
  <1>9. /\ Advance(at, x)[1] = next[1]
        /\ Advance(at, x)[2] = at[2] + next[2] - 1
    BY <1>7, <1>8, AdvanceUncounted
  <1>10. /\ Last(on).state = a /\ Below(on) = s
         /\ Groups(on, Len(on)) = Groups(st, Len(st)) + Weight(x)
    BY DEF Grown
  <1> HIDE DEF a, next, s
  <1>11. <<Below(on), Last(on).state, NoToken, Advance(at, x)[1]>> \in Known
    BY <1>6, <1>9, <1>10
  <1>12. Opens(a) \in Int
    BY DEF Opens
  <1>13. Advance(at, x)[2] = Groups(on, Len(on)) + Opens(Last(on).state)
    BY <1>3, <1>5, <1>7, <1>9, <1>10, <1>12
  <1>14. Knows(on, NoToken, Advance(at, x))
    BY <1>11, <1>13 DEF Knows
  <1> QED
    BY <1>5, <1>9, <1>14 DEF next

(* ... a rule that is reduced before does not change what has been read ... *)
LEMMA KnowsReduce ==
    ASSUME NEW st, Spelt(Tables, st), NEW x \in TokenKinds \cup {"EOQUERY"}, NEW at, Knows(st, x, at),
           Reduces(Tables, Order(Last(st).state, x)),
           NEW r, r = RuleOf(Tables, Order(Last(st).state, x)),
           NEW rest, Lowered(st, rest, r)
    PROVE  LET t == Order(Last(rest).state, Grammar[r].lhs) IN
           /\ t \in Tables.states
           /\ \A on : on # <<>> /\ Grown(rest, on, Grammar[r].lhs, t) => Knows(on, x, at)
  <1> DEFINE s == Last(st).state
             a == Order(s, x)
             k == <<Below(st), s, x, at[1]>>
             u == Last(rest).state
             lhs == Grammar[r].lhs
             t == Order(u, lhs)
  <1>1. k \in Known
    BY DEF Knows
  <1>2. k[1] = Below(st) /\ k[2] = s /\ k[3] = x /\ k[4] = at[1]
    OBVIOUS
  <1> HIDE DEF k
  <1>3. x # NoToken
    BY KindsAreTokens
  <1>4. u \in Uncovered(k, r)
    BY <1>2 DEF Uncovered, Lowered
  <1>5. /\ Opens(s) = Weight(lhs)
        /\ t \in Tables.states /\ Opens(t) = 0
    BY <1>1, <1>2, <1>3, <1>4, KnownClosed DEF Agrees
  <1>6. <<u, t, x, at[1]>> \in Known
    <2>1. <<u, t, x, at[1]>> \in Onwards(k)
      BY <1>2, <1>3, <1>4 DEF Onwards
    <2> QED
      BY <1>1, <2>1, KnownClosed
  <1>7. ASSUME NEW on, on # <<>>, Grown(rest, on, lhs, t) PROVE Knows(on, x, at)
    <2>1. /\ Last(on).state = t /\ Below(on) = u
          /\ Groups(on, Len(on)) = Groups(rest, Len(rest)) + Weight(lhs)
      BY <1>7 DEF Grown
    <2>2. Groups(rest, Len(rest)) = Groups(st, Len(st))
      BY DEF Lowered
    <2>3. at[2] = Groups(st, Len(st)) + Weight(lhs) /\ at[2] \in Int
      BY <1>5, CountedOpen DEF Knows
    <2> HIDE DEF u, t, lhs
    <2>4. <<Below(on), Last(on).state, x, at[1]>> \in Known
      BY <1>6, <2>1
    <2>5. Opens(Last(on).state) = 0 /\ Groups(on, Len(on)) = at[2]
      BY <1>5, <2>1, <2>2, <2>3
    <2>6. at[2] = Groups(on, Len(on)) + Opens(Last(on).state)
      BY <2>3, <2>5
    <2> QED
      BY <2>4, <2>6 DEF Knows
  <1> QED
    BY <1>5, <1>7

(* ... and a token that is an error is one that the text cannot have there. *)
LEMMA KnowsError ==
    ASSUME NEW st, Spelt(Tables, st), NEW x \in TokenKinds, NEW at, Knows(st, x, at),
           Order(Last(st).state, x) = ErrorAction(Tables)
    PROVE  Advance(at, x)[1] = "dead"
  <1> DEFINE s == Last(st).state
             k == <<Below(st), s, x, at[1]>>
  <1>1. k \in Known
    BY DEF Knows
  <1>2. k[2] = s /\ k[3] = x /\ k[4] = at[1]
    OBVIOUS
  <1> HIDE DEF k
  <1>3. x # NoToken
    BY KindsAreTokens
  <1>4. \/ OneOpen(at[1], x)[1] = "dead"
        \/ x = "CPAR" /\ at[1] \in Condition /\ s \in TopLevel
    BY <1>1, <1>2, <1>3, KnownClosed DEF Agrees
  <1>5. at[2] \in Int
    BY CountedOpen
  <1>6. CASE OneOpen(at[1], x)[1] = "dead"
    BY <1>5, <1>6, DeadAlone
  <1>7. CASE x = "CPAR" /\ at[1] \in Condition /\ s \in TopLevel
    <2>1. Groups(st, Len(st)) = 0
      BY <1>7, NoGroup
    <2>2. Opens(s) = 0
      <3>1. s \in Tables.states
        BY <1>7 DEF TopLevel
      <3> QED
        BY <1>7, <3>1, QueryTables DEF GroupsAreSpelt
    <2>3. at[2] = 0
      BY <2>1, <2>2 DEF Knows
    <2>4. ~(at[2] > 0)
      BY <2>3
    <2> QED
      BY <1>7, <2>4, ClosesNothing
  <1> QED
    BY <1>4, <1>6, <1>7
-----------------------------------------------------------------------------
(* The text as far as it has been read, while no stack has been emptied.   *)
ReadingBefore == ReadingOf(fed)[Len(fed) - 1]
ReadInv ==
    /\ phase = "read" /\ ~lost =>
          /\ failed => fed = <<>>
          /\ IF fed = <<>> THEN parser.stack = <<>>
             ELSE parser.stack # <<>> /\ Knows(parser.stack, NoToken, Reading)
    /\ phase = "token" /\ ~lost =>
          /\ failed => Len(fed) = 1 \/ Dead \/ (Reducing /\ Unusable)
          /\ IF parser.stack = <<>> THEN Dead /\ failed
             ELSE Knows(parser.stack, parser.major,
                        IF parser.major = NoToken THEN Reading ELSE ReadingBefore)
    /\ phase = "refused" /\ ~lost => Dead \/ Len(fed) = 1 \/ (cp > 0 /\ IsEmpty(NextToken))

\* What a full stack swallowed is missed by the first pass.
VerdictInv ==
    /\ verdict.code = "prepared" => phase = "executed"
    /\ lost => verdict.code # "prepared"

LEMMA TextKept ==
    ASSUME UNCHANGED <<fed, parser, cp, text>>
    PROVE  /\ Reading' = Reading /\ ReadingBefore' = ReadingBefore /\ (Dead' <=> Dead)
           /\ (Reducing' <=> Reducing) /\ (Unusable' <=> Unusable)
           /\ (IsEmpty(NextToken)' <=> IsEmpty(NextToken))
  <1>1. Reading' = Reading /\ ReadingBefore' = ReadingBefore /\ (Dead' <=> Dead)
    BY DEF Reading, ReadingBefore, Dead
  <1>2. RuleOrdered' = RuleOrdered /\ (Reducing' <=> Reducing)
    BY DEF RuleOrdered, Reducing
  <1>3. Unusable' <=> Unusable
    BY <1>2 DEF Unusable, Opcode, Argument
  <1>4. IsEmpty(NextToken)' <=> IsEmpty(NextToken)
    BY DEF IsEmpty, NextToken
  <1> QED
    BY <1>1, <1>2, <1>3, <1>4

LEMMA FedKept ==
    ASSUME UNCHANGED fed
    PROVE  Reading' = Reading /\ ReadingBefore' = ReadingBefore /\ (Dead' <=> Dead)
  BY DEF Reading, ReadingBefore, Dead

LEMMA ReadDeliver ==
    ASSUME ParserInv, ReadInv, NEW kind \in TokenKinds, NEW value, Deliver(kind, value), phase = "read"
    PROVE  ReadInv'
  <1> DEFINE token == [kind |-> kind, value |-> value]
  <1>1. /\ parser' = Fed(parser, kind, value) /\ fed' = Append(fed, token) /\ phase' = "token"
        /\ UNCHANGED <<failed, lost>>
    BY DEF Deliver
  <1> HIDE DEF token
  <1>2. /\ parser'.stack = IF parser.stack = <<>> THEN <<Bottom>> ELSE parser.stack
        /\ parser'.stack # <<>> /\ parser'.major = kind
    BY <1>1, FedKeeps
  <1>3. IsSeq(fed)
    BY DEF ParserInv
  <1>4. /\ ReadingOf(fed')[Len(fed') - 1] = ReadingOf(fed)[Len(fed)]
        /\ fed = <<>> => ReadingOf(fed')[Len(fed') - 1] = <<"start", 0>>
    BY <1>1, <1>3, ReadingOn
  <1>5. ReadingBefore' = ReadingOf(fed')[Len(fed') - 1]
    BY DEF ReadingBefore
  <1>6. parser'.major # NoToken
    BY <1>2, KindsAreTokens
  <1>7. ~lost => (failed => fed = <<>>)
    BY DEF ReadInv
  <1>8. fed = <<>> => Len(fed') = 1
    BY <1>1, <1>3, AppendFacts, EmptyIsSeq, SeqFacts
  <1>9. ~lost => Knows(parser'.stack, kind, ReadingBefore')
    <2> SUFFICES ASSUME ~lost PROVE Knows(parser'.stack, kind, ReadingBefore')
      OBVIOUS
    <2>1. CASE fed = <<>>
      <3>1. parser.stack = <<>>
        BY <2>1 DEF ReadInv
      <3>2. parser'.stack = <<Bottom>> /\ ReadingBefore' = <<"start", 0>>
        BY <1>2, <1>4, <1>5, <2>1, <3>1
      <3> QED
        BY <3>2, KnowsStart, KnowsToken
    <2>2. CASE fed # <<>>
      <3>1. parser.stack # <<>> /\ Knows(parser.stack, NoToken, Reading)
        BY <2>2 DEF ReadInv
      <3>2. parser'.stack = parser.stack /\ ReadingBefore' = Reading
        BY <1>2, <1>4, <1>5, <3>1 DEF Reading
      <3> QED
        BY <3>1, <3>2, KnowsToken
    <2> QED
      BY <2>1, <2>2
  <1>10. phase' = "token" /\ phase' # "read" /\ phase' # "refused" /\ lost' = lost /\ failed' = failed
    BY <1>1
  <1> QED
    BY <1>2, <1>6, <1>7, <1>8, <1>9, <1>10 DEF ReadInv

LEMMA ReadLooked ==
    ASSUME ParserInv, ReadInv, Looked
    PROVE  ReadInv'
  <1>1. /\ phase = "token" /\ ~Parsing(parser)
        /\ phase' = IF failed THEN "refused" ELSE "read"
        /\ UNCHANGED <<text, cp, parser, fed, failed, lost>>
    BY DEF Looked
  <1>2. /\ Reading' = Reading /\ (Dead' <=> Dead)
        /\ (IsEmpty(NextToken)' <=> IsEmpty(NextToken))
    BY <1>1, TextKept
  <1>3. ~Reducing
    BY <1>1 DEF Reducing
  <1>4. fed # <<>>
    BY <1>1 DEF ParserInv
  <1>5. parser.stack # <<>> => parser.major = NoToken
    BY <1>1 DEF Parsing
  <1>6. CASE failed
    BY <1>1, <1>2, <1>3, <1>6 DEF ReadInv
  <1>7. CASE ~failed
    BY <1>1, <1>2, <1>4, <1>5, <1>7 DEF ReadInv
  <1> QED
    BY <1>6, <1>7

LEMMA LookedAt ==
    ASSUME ParserInv, Parsing(parser), phase = "token"
    PROVE  /\ parser.major \in TokenKinds /\ parser.major # NoToken
           /\ Reading = Advance(ReadingBefore, parser.major)
  <1>1. parser.major \in TokenKinds /\ parser.major = fed[Len(fed)].kind /\ IsSeq(fed) /\ fed # <<>>
    BY DEF ParserInv, LooksAt
  <1>2. Len(fed) \in Nat \ {0}
    BY <1>1, SeqFacts
  <1>3. IsReading(ReadingOf(fed), fed, Len(fed))
    BY <1>1, ReadingIs
  <1>4. Reading = Advance(ReadingBefore, fed[Len(fed)].kind)
    <2>1. Len(fed) \in 1..Len(fed)
      BY <1>2
    <2> QED
      BY <1>3, <2>1 DEF IsReading, Reading, ReadingBefore
  <1>5. parser.major # NoToken
    BY DEF Parsing
  <1> QED
    BY <1>1, <1>4, <1>5

LEMMA ReadElsewhere ==
    ASSUME phase' \notin {"read", "token", "refused"}
    PROVE  ReadInv'
  BY DEF ReadInv

LEMMA ReadShift ==
    ASSUME ParserInv, ReadInv, ParseShift
    PROVE  ReadInv'
  <1> DEFINE x == parser.major
             st == parser.stack
             on == parser'.stack
             a == Order(TopState(parser), x)
  <1>1. /\ Parsing(parser) /\ Ordered(Tables, parser) < Tables.nstate
        /\ UNCHANGED <<fed, phase, failed>>
    BY DEF ParseShift
  <1>2. /\ a \in Tables.states /\ Grown(st, on, x, a)
        /\ parser'.major = IF x = "$" /\ on # <<>> THEN "$" ELSE NoToken
        /\ lost' = (lost \/ on = <<>>)
    BY ShiftKeeps
  <1>3. CASE phase # "token"
    <2>1. phase \in {"eoquery", "end"}
      BY <1>1, <1>3 DEF ParserInv, LooksAt
    <2> QED
      BY <1>1, <2>1, ReadElsewhere
  <1>4. CASE phase = "token" /\ ~lost'
    <2>1. ~lost /\ on # <<>>
      BY <1>2, <1>4
    <2>2. x \in TokenKinds /\ x # NoToken /\ Reading = Advance(ReadingBefore, x)
      BY <1>1, <1>4, LookedAt
    <2>3. Spelt(Tables, st) /\ st # <<>> /\ TopState(parser) = Last(st).state
      BY <1>1, Looking
    <2>4. Knows(st, x, ReadingBefore)
      BY <1>4, <2>1, <2>2, <2>3 DEF ReadInv
    <2>5. Knows(on, NoToken, Reading)
      BY <1>2, <2>1, <2>2, <2>3, <2>4, KnowsShift
    <2>6. parser'.major = NoToken
      BY <1>2, <2>2, KindsAreTokens
    <2>7. ~Reducing
      <3>1. Ordered(Tables, parser) = a
        BY <1>1, Looking
      <3>2. a \in 0..(Tables.nstate - 1) /\ Tables.nstate \in Nat
        BY <1>2, Tabled
      <3> HIDE DEF a
      <3>3. a \notin Tables.nstate..(ErrorAction(Tables) - 1)
        BY <3>2
      <3> QED
        BY <3>1, <3>3 DEF Reducing
    <2>8. failed => Len(fed) = 1 \/ Dead
      BY <1>4, <2>1, <2>7 DEF ReadInv
    <2>9. Reading' = Reading /\ (Dead' <=> Dead)
      BY <1>1, FedKept
    <2> HIDE DEF on, st, x, a
    <2>10. Knows(parser'.stack, parser'.major,
                 IF parser'.major = NoToken THEN Reading' ELSE ReadingBefore')
      BY <2>5, <2>6, <2>9 DEF on
    <2>11. failed' => Len(fed') = 1 \/ Dead'
      BY <1>1, <2>8, <2>9
    <2>12. parser'.stack # <<>> /\ phase' = "token"
      BY <1>1, <1>4, <2>1 DEF on
    <2> QED
      BY <2>10, <2>11, <2>12 DEF ReadInv
  <1>5. CASE phase = "token" /\ lost'
    BY <1>1, <1>5 DEF ReadInv
  <1> QED
    BY <1>3, <1>4, <1>5

LEMMA ReadReduce ==
    ASSUME ParserInv, ReadInv, ParseReduce
    PROVE  ReadInv'
  <1> DEFINE x == parser.major
             st == parser.stack
             on == parser'.stack
             r == RuleOrdered
             rest == Popped(Tables, parser, r)
             lhs == Grammar[r].lhs
             t == Order(Last(rest).state, lhs)
  <1>1. /\ Reducing /\ ~Unusable /\ Parsing(parser) /\ UNCHANGED <<fed, phase, failed>>
    BY DEF ParseReduce, Reducing
  <1>2. /\ \/ t \in Tables.states /\ Grown(rest, on, lhs, t)
           \/ t = AcceptAction(Tables) /\ t \notin Tables.states /\ on = <<>>
        /\ parser'.major = x
        /\ lost' = (lost \/ (on = <<>> /\ t # AcceptAction(Tables)))
    BY ReduceKeeps
  <1>3. CASE phase # "token"
    <2>1. phase \in {"eoquery", "end"}
      BY <1>1, <1>3 DEF ParserInv, LooksAt
    <2> QED
      BY <1>1, <2>1, ReadElsewhere
  <1>4. CASE phase = "token" /\ ~lost'
    <2>1. ~lost /\ (on = <<>> => t = AcceptAction(Tables))
      BY <1>2, <1>4
    <2>2. x \in TokenKinds /\ x # NoToken
      BY <1>1, <1>4, LookedAt
    <2>3. Spelt(Tables, st) /\ st # <<>> /\ TopState(parser) = Last(st).state
      BY <1>1, Looking
    <2>4. Knows(st, x, ReadingBefore)
      BY <1>4, <2>1, <2>2, <2>3 DEF ReadInv
    <2>5. /\ r = RuleOf(Tables, Order(Last(st).state, x)) /\ Reduces(Tables, Order(Last(st).state, x))
          /\ Lowered(st, rest, r)
      BY <1>1, <2>3, RuleOnStack
    <2>6. /\ t \in Tables.states
          /\ on # <<>> /\ Grown(rest, on, lhs, t) => Knows(on, x, ReadingBefore)
      BY <2>2, <2>3, <2>4, <2>5, KnowsReduce
    <2>7. t # AcceptAction(Tables)
      BY <2>6, Tabled
    <2> HIDE DEF on, st, x, r, rest, lhs, t
    <2>8. on # <<>> /\ Knows(on, x, ReadingBefore)
      BY <1>2, <2>1, <2>6, <2>7
    <2>9. Reading' = Reading /\ ReadingBefore' = ReadingBefore /\ (Dead' <=> Dead)
      BY <1>1, FedKept
    <2>10. Knows(parser'.stack, parser'.major,
                 IF parser'.major = NoToken THEN Reading' ELSE ReadingBefore')
      BY <1>2, <2>2, <2>8, <2>9 DEF on
    <2>11. failed => Len(fed) = 1 \/ Dead
      BY <1>1, <1>4, <2>1 DEF ReadInv
    <2>12. failed' => Len(fed') = 1 \/ Dead'
      BY <1>1, <2>9, <2>11
    <2>13. parser'.stack # <<>> /\ phase' = "token"
      BY <1>1, <1>4, <2>8 DEF on
    <2> QED
      BY <2>10, <2>12, <2>13 DEF ReadInv
  <1>5. CASE phase = "token" /\ lost'
    BY <1>1, <1>5 DEF ReadInv
  <1> QED
    BY <1>3, <1>4, <1>5

LEMMA ReadUnusable ==
    ASSUME ParserInv, ReadInv, ParseUnusable
    PROVE  ReadInv'
  <1>1. /\ Reducing /\ Unusable /\ Parsing(parser)
        /\ UNCHANGED <<text, cp, parser, fed, phase, lost>>
    BY DEF ParseUnusable, Reducing
  <1>2. /\ Reading' = Reading /\ ReadingBefore' = ReadingBefore /\ (Dead' <=> Dead)
        /\ (Reducing' <=> Reducing) /\ (Unusable' <=> Unusable)
    BY <1>1, TextKept
  <1>3. CASE phase # "token"
    <2>1. phase \in {"eoquery", "end"}
      BY <1>1, <1>3 DEF ParserInv, LooksAt
    <2> QED
      BY <1>1, <2>1, ReadElsewhere
  <1>4. CASE phase = "token"
    <2>1. parser.stack # <<>>
      BY <1>1 DEF Parsing
    <2>2. ~lost => Knows(parser.stack, parser.major,
                         IF parser.major = NoToken THEN Reading ELSE ReadingBefore)
      BY <1>4, <2>1 DEF ReadInv
    <2> QED
      BY <1>1, <1>2, <1>4, <2>1, <2>2 DEF ReadInv
  <1> QED
    BY <1>3, <1>4

LEMMA ReadError ==
    ASSUME ParserInv, ReadInv, ParseError
    PROVE  ReadInv'
  <1>1. /\ Parsing(parser) /\ Ordered(Tables, parser) = ErrorAction(Tables)
        /\ UNCHANGED <<fed, phase, lost>>
    BY DEF ParseError
  <1>2. parser'.stack = <<>> /\ failed'
    BY ErrorKeeps
  <1>3. CASE phase # "token"
    <2>1. phase \in {"eoquery", "end"}
      BY <1>1, <1>3 DEF ParserInv, LooksAt
    <2> QED
      BY <1>1, <2>1, ReadElsewhere
  <1>4. CASE phase = "token" /\ ~lost
    <2>1. /\ parser.major \in TokenKinds /\ parser.major # NoToken
          /\ Reading = Advance(ReadingBefore, parser.major)
      BY <1>1, <1>4, LookedAt
    <2>2. /\ Spelt(Tables, parser.stack) /\ parser.stack # <<>>
          /\ Order(Last(parser.stack).state, parser.major) = ErrorAction(Tables)
      BY <1>1, Looking
    <2>3. Knows(parser.stack, parser.major, ReadingBefore)
      BY <1>4, <2>1, <2>2 DEF ReadInv
    <2>4. Dead
      BY <2>1, <2>2, <2>3, KnowsError DEF Dead
    <2>5. Dead'
      BY <1>1, <2>4, FedKept
    <2> QED
      BY <1>1, <1>2, <1>4, <2>5 DEF ReadInv
  <1>5. CASE phase = "token" /\ lost
    BY <1>1, <1>5 DEF ReadInv
  <1> QED
    BY <1>3, <1>4, <1>5

LEMMA ReadNext ==
    ASSUME ParserInv, ReadInv, [Next]_vars
    PROVE  ReadInv'
  <1>1. CASE Feed \/ QTok
    <2>1. PICK token : token.kind \in TokenKinds /\ Deliver(token.kind, token.value)
      BY <1>1, TokensDelivered
    <2>2. phase = "read"
      BY <1>1 DEF Feed, QTok, Delivers
    <2> QED
      BY <2>1, <2>2, ReadDeliver
  <1>2. CASE SkipBlanks
    <2>1. phase = "read" /\ UNCHANGED <<parser, fed, phase, failed, lost>>
      BY <1>2 DEF SkipBlanks, Delivers
    <2>2. Reading' = Reading
      BY <2>1, FedKept
    <2> QED
      BY <2>1, <2>2 DEF ReadInv
  <1>3. CASE QTokEmpty
    <2>1. phase' = "refused" /\ cp > 0 /\ IsEmpty(NextToken) /\ UNCHANGED <<text, cp, parser, fed>>
      BY <1>3 DEF QTokEmpty, Delivers
    <2>2. cp' > 0 /\ IsEmpty(NextToken)'
      BY <2>1, TextKept
    <2> QED
      BY <2>1, <2>2 DEF ReadInv
  <1>4. CASE Looked
    BY <1>4, ReadLooked
  <1>5. CASE EndOfText \/ EndOfQuery \/ Parsed \/ Exec
    <2>1. phase' \in {"eoquery", "end", "parsed", "executed"}
      BY <1>5 DEF EndOfText, EndOfQuery, Parsed, Exec
    <2> QED
      BY <2>1, ReadElsewhere
  <1>6. CASE ParseShift
    BY <1>6, ReadShift
  <1>7. CASE ParseReduce
    BY <1>7, ReadReduce
  <1>8. CASE ParseUnusable
    BY <1>8, ReadUnusable
  <1>9. CASE ParseError
    BY <1>9, ReadError
  <1>10. CASE UNCHANGED vars
    <2>1. UNCHANGED <<text, cp, parser, fed, phase, failed, lost>>
      BY <1>10 DEF vars
    <2>2. /\ Reading' = Reading /\ ReadingBefore' = ReadingBefore /\ (Dead' <=> Dead)
          /\ (Reducing' <=> Reducing) /\ (Unusable' <=> Unusable)
          /\ (IsEmpty(NextToken)' <=> IsEmpty(NextToken))
      BY <2>1, TextKept
    <2> QED
      BY <2>1, <2>2 DEF ReadInv
  <1> QED
    BY <1>1, <1>2, <1>3, <1>4, <1>5, <1>6, <1>7, <1>8, <1>9, <1>10 DEF Next

LEMMA VerdictOnExec ==
    ASSUME ParserInv, QueueInv, Exec
    PROVE  lost => verdict'.code # "prepared"
  <1> SUFFICES ASSUME lost PROVE verdict'.code # "prepared"
    OBVIOUS
  <1>1. IsSeq(queued)
    BY DEF ParserInv
  <1>2. DepthOf(queued) \in Int
    BY <1>1, DepthOn
  <1>3. Groups(parser.stack, Len(parser.stack)) \in Nat
    <2>1. CASE parser.stack = <<>>
      <3>1. Len(parser.stack) = 0
        BY <2>1, EmptyIsSeq, SeqFacts
      <3>2. Groups(parser.stack, 0) = 0
        BY GroupsStep
      <3> QED
        BY <3>1, <3>2
    <2>2. CASE parser.stack # <<>>
      <3>1. Spelt(Tables, parser.stack)
        BY <2>2 DEF ParserInv
      <3>2. Len(parser.stack) \in Nat
        BY <3>1, SeqFacts DEF Spelt
      <3> QED
        BY <3>1, <3>2, GroupsNat
    <2> QED
      BY <2>1, <2>2
  <1>4. DepthOf(queued) >= 1
    BY <1>2, <1>3 DEF QueueInv
  <1>5. Checked(queued) # "fine" /\ Checked(queued) # "prepared"
    BY <1>1, <1>2, <1>4, CheckedGroups
  <1>6. verdict' = [NoVerdict EXCEPT !.code = Checked(queued)]
    BY <1>5 DEF Exec
  <1>7. verdict'.code = Checked(queued)
    BY <1>6 DEF NoVerdict
  <1> QED
    BY <1>5, <1>7

LEMMA VerdictNext ==
    ASSUME ParserInv, QueueInv, VerdictInv, [Next]_vars
    PROVE  VerdictInv'
  <1>1. CASE Exec
    <2>1. phase' = "executed" /\ lost' = lost
      BY <1>1 DEF Exec
    <2> QED
      BY <1>1, <2>1, VerdictOnExec DEF VerdictInv
  <1>2. CASE UNCHANGED vars
    BY <1>2 DEF VerdictInv, vars
  <1>3. ASSUME ParseShift \/ ParseReduce \/ ParseUnusable \/ ParseError PROVE VerdictInv'
    <2>1. Parsing(parser) /\ phase' = phase /\ verdict' = verdict
      BY <1>3 DEF ParseShift, ParseReduce, ParseUnusable, ParseError, Reducing
    <2>2. phase # "executed"
      BY <2>1 DEF ParserInv, LooksAt
    <2> QED
      BY <2>1, <2>2 DEF VerdictInv
  <1>4. ASSUME Feed \/ SkipBlanks \/ QTok \/ QTokEmpty \/ Looked \/ EndOfText \/ EndOfQuery \/ Parsed
        PROVE  VerdictInv'
    <2>1. phase # "executed"
      BY <1>4 DEF Feed, SkipBlanks, QTok, QTokEmpty, Looked, EndOfText, EndOfQuery, Parsed, Delivers
    <2>2. verdict' = verdict /\ lost' = lost
      BY <1>4 DEF Feed, SkipBlanks, QTok, QTokEmpty, Looked, EndOfText, EndOfQuery, Parsed, Deliver
    <2> QED
      BY <2>1, <2>2 DEF VerdictInv
  <1> QED
    BY <1>1, <1>2, <1>3, <1>4 DEF Next
-----------------------------------------------------------------------------
(* The parser of queries, on every text: its stack spells what the tables  *)
(* allow, the instructions queued keep count of the groups on it, and what *)
(* it has on top is what the reading of the text so far says; a text for   *)
(* which yy_shift emptied a full stack is never prepared                   *)
(* (lempar.c Parse, query.c fdbfs_query_parse).                            *)
TextInv == ParserInv /\ QueueInv /\ ReadInv /\ VerdictInv
THEOREM TextIsRead == Spec => []TextInv
  <1>1. Init => TextInv
    <2> SUFFICES ASSUME Init PROVE TextInv
      OBVIOUS
    <2>1. /\ parser = Allocated /\ fed = <<>> /\ lost = FALSE /\ phase = "read" /\ verdict = NoVerdict
      BY Zenon DEF Init
    <2>2. parser.stack = <<>>
      BY <2>1 DEF Allocated
    <2>3. ReadInv
      BY <2>1, <2>2 DEF ReadInv
    <2>4. VerdictInv
      BY <2>1 DEF VerdictInv, NoVerdict
    <2> QED
      BY <2>3, <2>4, InitParser DEF TextInv
  <1>2. TextInv /\ [Next]_vars => TextInv'
    BY ParserNext, ReadNext, VerdictNext DEF TextInv
  <1> QED
    BY <1>1, <1>2, PTL DEF Spec

(* Whatever the length of the text and however deep its groups: it is      *)
(* refused at the first token no query can have there and at no other, but *)
(* for a message that was pending or something empty; and when it is too   *)
(* deep for the stack, fdbfs_query_init_exec refuses it.                   *)
THEOREM TextRefusesAtOnce == Spec => []RefusesAtOnce
  <1>1. TextInv => RefusesAtOnce
    <2> SUFFICES ASSUME TextInv PROVE RefusesAtOnce
      OBVIOUS
    <2>1. CASE lost
      BY <2>1 DEF TextInv, VerdictInv, RefusesAtOnce
    <2>2. CASE ~lost
      <3>1. ASSUME phase = "read", fed # <<>> PROVE ~Dead
        <4>1. Knows(parser.stack, NoToken, Reading)
          BY <2>2, <3>1 DEF TextInv, ReadInv
        <4>2. "UQSTRING" \in TokenKinds
          BY QueryTables DEF TokeniserKinds
        <4> QED
          BY <4>1, <4>2, KnowsToken DEF Dead
      <3>2. phase = "refused" => Dead \/ Len(fed) = 1 \/ (cp > 0 /\ IsEmpty(NextToken))
        BY <2>2 DEF TextInv, ReadInv
      <3> QED
        BY <2>2, <3>1, <3>2 DEF RefusesAtOnce
    <2> QED
      BY <2>1, <2>2
  <1> QED
    BY <1>1, TextIsRead, PTL

(* In every state that the parser gets to, the packed table gives the      *)
(* action that FindActions computed, for the token looked at and for the   *)
(* rule reduced (lemon.c acttab_insert, lempar.c yy_find_shift_action).    *)
THEOREM TextTablesAgree == Spec => []TablesAgree
  <1>1. TextInv => TablesAgree
    <2> SUFFICES ASSUME TextInv PROVE TablesAgree
      OBVIOUS
    <2>1. ParserInv
      BY DEF TextInv
    <2>2. ASSUME Parsing(parser)
          PROVE  Ordered(Tables, parser) = Intended(Tables, TopState(parser), parser.major)
      BY <2>1, <2>2, Looking, OnToken
    <2>3. ASSUME Reducing
          PROVE  LET under == Last(Popped(Tables, parser, RuleOrdered)).state
                     lhs == Grammar[RuleOrdered].lhs
                 IN  FindAction(Tables, "reduce", under, lhs) = Intended(Tables, under, lhs)
      <3>1. /\ RuleOrdered \in 1..Tables.nrule
            /\ Lowered(parser.stack, Popped(Tables, parser, RuleOrdered), RuleOrdered)
        BY <2>1, <2>3, RuleOnStack
      <3> QED
        BY <3>1, OnRule DEF Lowered
    <2> QED
      BY <2>2, <2>3 DEF TablesAgree
  <1> QED
    BY <1>1, TextIsRead, PTL

(* A rule is reduced only when its right-hand side is on top of the stack, *)
(* symbol for symbol, and an entry below it: yy_reduce never pops further  *)
(* than there are entries (it does not ask), and the values its code reads *)
(* are those of the symbols that the rule names.                           *)
HandleOnStack ==
    Reducing =>
       LET n == RhsLength(Tables, RuleOrdered) stack == parser.stack
       IN  /\ RuleOrdered \in DOMAIN Grammar /\ n < Len(stack)
           /\ \A e \in 0..(n - 1) : stack[Len(stack) - e].symbol = Grammar[RuleOrdered].rhs[n - e]
THEOREM TextHandleOnStack == Spec => []HandleOnStack
  <1>1. TextInv => HandleOnStack
    <2> SUFFICES ASSUME TextInv, Reducing PROVE HandleOnStack
      BY DEF HandleOnStack
    <2>1. /\ RuleOrdered \in 1..Tables.nrule
          /\ Lowered(parser.stack, Popped(Tables, parser, RuleOrdered), RuleOrdered)
      BY RuleOnStack DEF TextInv
    <2> QED
      BY <2>1, Tabled DEF HandleOnStack, Lowered
  <1> QED
    BY <1>1, TextIsRead, PTL
-----------------------------------------------------------------------------
(* What a text means, one token further.  FlattenSeq is a recursive         *)
(* function: it exists, and takes what is appended behind what there was.  *)
IsFlat(f, s, n) ==
    /\ f = [i \in 1..n |-> f[i]]
    /\ \A i \in 1..n : f[i] = IF i = 1 THEN s[i] ELSE f[i - 1] \o s[i]

LEMMA FlatExists ==
    ASSUME NEW s, NEW n \in Nat
    PROVE  \E f : IsFlat(f, s, n)
  <1> DEFINE T == {m \in Nat : \E f : IsFlat(f, s, m)}
  <1>1. 0 \in T
    <2> DEFINE f == [i \in 1..0 |-> 0]
    <2>1. IsFlat(f, s, 0)
      BY DEF IsFlat
    <2> QED
      BY <2>1
  <1>2. ASSUME NEW m \in Nat, m \in T PROVE m + 1 \in T
    <2>1. PICK f : IsFlat(f, s, m)
      BY <1>2
    <2> DEFINE next == IF m + 1 = 1 THEN s[m + 1] ELSE f[m] \o s[m + 1]
               on == [i \in 1..(m + 1) |-> IF i = m + 1 THEN next ELSE f[i]]
    <2>2. ASSUME NEW i \in 1..(m + 1) PROVE on[i] = IF i = 1 THEN s[i] ELSE on[i - 1] \o s[i]
      <3>1. CASE i = m + 1
        <4>1. on[i] = next
          BY <3>1
        <4>2. i # 1 => on[i - 1] = f[m]
          <5>1. i # 1 => i - 1 \in 1..(m + 1) /\ i - 1 # m + 1 /\ i - 1 = m
            BY <3>1
          <5> QED
            BY <5>1
        <4> HIDE DEF on
        <4> QED
          BY <3>1, <4>1, <4>2
      <3>2. CASE i # m + 1
        <4>1. on[i] = f[i] /\ i \in 1..m
          BY <3>2
        <4>2. i # 1 => on[i - 1] = f[i - 1]
          <5>1. i # 1 => i - 1 \in 1..(m + 1) /\ i - 1 # m + 1
            BY <4>1
          <5> QED
            BY <5>1
        <4> HIDE DEF on
        <4> QED
          BY <2>1, <4>1, <4>2 DEF IsFlat
      <3> QED
        BY <3>1, <3>2
    <2>3. on = [i \in 1..(m + 1) |-> on[i]]
      OBVIOUS
    <2> HIDE DEF on
    <2>4. IsFlat(on, s, m + 1)
      BY <2>2, <2>3 DEF IsFlat
    <2> QED
      BY <2>4
  <1>3. n \in T
    <2> HIDE DEF T
    <2> QED
      BY <1>1, <1>2, Induction
  <1> QED
    BY <1>3

LEMMA FlattenIs ==
    ASSUME NEW s, IsSeq(s), s # <<>>
    PROVE  \E f : IsFlat(f, s, Len(s)) /\ FlattenSeq(s) = f[Len(s)]
  <1> DEFINE n == Len(s)
             F == CHOOSE f : f = [i \in 1..n |-> IF i = 1 THEN s[i] ELSE f[i - 1] \o s[i]]
  <1>1. n \in Nat /\ n # 0
    BY SeqFacts
  <1>2. PICK f : IsFlat(f, s, n)
    BY <1>1, FlatExists
  <1>3. f = [i \in 1..n |-> IF i = 1 THEN s[i] ELSE f[i - 1] \o s[i]]
    <2> HIDE DEF n
    <2>1. ASSUME NEW i \in 1..n PROVE f[i] = IF i = 1 THEN s[i] ELSE f[i - 1] \o s[i]
      BY <1>2 DEF IsFlat
    <2> QED
      BY <1>2, <2>1 DEF IsFlat
  <1>4. F = [i \in 1..n |-> IF i = 1 THEN s[i] ELSE F[i - 1] \o s[i]]
    <2> HIDE DEF n
    <2> QED
      BY <1>3, Zenon
  <1>5. FlattenSeq(s) = F[n]
    BY <1>1 DEF FlattenSeq
  <1> HIDE DEF F, n
  <1>6. IsFlat(F, s, n)
    <2>1. ASSUME NEW i \in 1..n PROVE F[i] = IF i = 1 THEN s[i] ELSE F[i - 1] \o s[i]
      BY <1>4
    <2>2. F = [i \in 1..n |-> F[i]]
      BY <1>4
    <2> QED
      BY <2>1, <2>2 DEF IsFlat
  <1> QED
    BY <1>5, <1>6 DEF n

LEMMA ListIsSeq ==
    ASSUME NEW f, NEW n \in Nat, f = [i \in 1..n |-> f[i]]
    PROVE  IsSeq(f) /\ Len(f) = n
  <1> DEFINE S == {f[i] : i \in 1..n}
  <1>1. f \in [1..n -> S]
    OBVIOUS
  <1> HIDE DEF S
  <1>2. f \in Seq(S)
    BY <1>1, SeqDef
  <1>3. DOMAIN f = 1..Len(f) /\ Len(f) \in Nat /\ DOMAIN f = 1..n
    BY <1>1, <1>2, LenProperties
  <1>4. Len(f) = n
    BY <1>3
  <1> QED
    BY <1>2, <1>4 DEF IsSeq

LEMMA SaidOn ==
    ASSUME NEW s, IsSeq(s), NEW e
    PROVE  s \o <<>> = s /\ s \o <<e>> = Append(s, e)
  <1>1. PICK S : s \in Seq(S)
    BY DEF IsSeq
  <1> DEFINE T == S \cup {e}
  <1>2. s \in Seq(T) /\ e \in T
    BY <1>1, SeqMonotonic
  <1> HIDE DEF T
  <1> QED
    BY <1>2, ConcatEmptySeq, AppendIsConcat

Instruction(tokens, i) == [op |-> OpMeant(tokens, i), value |-> tokens[i].value]
MeaningOn(tokens, n) ==
    /\ IsSeq(MeaningTo(tokens, n))
    /\ MeaningTo(tokens, n + 1) =
          IF OpMeant(tokens, n + 1) = "nothing" THEN MeaningTo(tokens, n)
          ELSE Append(MeaningTo(tokens, n), Instruction(tokens, n + 1))

LEMMA MeaningNone ==
    ASSUME NEW tokens
    PROVE  MeaningTo(tokens, 0) = <<>>
  <1> DEFINE s == [i \in 1..0 |-> Meant(tokens, i)]
  <1>1. IsSeq(s) /\ Len(s) = 0
    <2>1. s = [i \in 1..0 |-> s[i]]
      OBVIOUS
    <2> HIDE DEF s
    <2> QED
      BY <2>1, ListIsSeq
  <1>2. MeaningTo(tokens, 0) = FlattenSeq(s)
    BY DEF MeaningTo
  <1> HIDE DEF s
  <1>3. FlattenSeq(s) = s
    BY <1>1 DEF FlattenSeq
  <1> QED
    BY <1>1, <1>2, <1>3, SeqFacts

LEMMA FlattenNone ==
    ASSUME NEW s, IsSeq(s), Len(s) = 0
    PROVE  FlattenSeq(s) = <<>>
  <1>1. FlattenSeq(s) = s
    BY DEF FlattenSeq
  <1> QED
    BY <1>1, SeqFacts

LEMMA FlattenOn ==
    ASSUME NEW n \in Nat, NEW s, IsSeq(s), Len(s) = n, NEW on, IsSeq(on), Len(on) = n + 1,
           \A i \in 1..n : on[i] = s[i], IsSeq(on[n + 1])
    PROVE  FlattenSeq(on) = FlattenSeq(s) \o on[n + 1]
  <1>1. on # <<>>
    BY SeqFacts
  <1>2. PICK g : IsFlat(g, on, n + 1) /\ FlattenSeq(on) = g[n + 1]
    BY <1>1, FlattenIs
  <1>3. CASE n = 0
    <2>1. g[1] = on[1] /\ n + 1 = 1
      BY <1>2, <1>3 DEF IsFlat
    <2>2. IsSeq(on[1])
      BY <1>3
    <2>3. <<>> \o on[1] = on[1]
      BY <2>2, ConcatEmptySeq DEF IsSeq
    <2>4. FlattenSeq(s) = <<>>
      BY <1>3, FlattenNone
    <2> QED
      BY <1>2, <1>3, <2>1, <2>3, <2>4
  <1>4. CASE n # 0
    <2>1. s # <<>>
      BY <1>4, SeqFacts
    <2>2. PICK f : IsFlat(f, s, n) /\ FlattenSeq(s) = f[n]
      BY <2>1, FlattenIs
    <2> DEFINE T == {i \in Nat : i \in 1..n => g[i] = f[i]}
    <2>3. 0 \in T
      OBVIOUS
    <2>4. ASSUME NEW i \in Nat, i \in T PROVE i + 1 \in T
      <3> SUFFICES ASSUME i + 1 \in 1..n PROVE g[i + 1] = f[i + 1]
        OBVIOUS
      <3>1. i + 1 \in 1..(n + 1) /\ (i + 1) - 1 = i
        OBVIOUS
      <3>2. g[i + 1] = IF i + 1 = 1 THEN on[i + 1] ELSE g[i] \o on[i + 1]
        BY <1>2, <3>1 DEF IsFlat
      <3>3. f[i + 1] = IF i + 1 = 1 THEN s[i + 1] ELSE f[i] \o s[i + 1]
        BY <2>2, <3>1 DEF IsFlat
      <3>4. on[i + 1] = s[i + 1]
        OBVIOUS
      <3>5. i + 1 # 1 => g[i] = f[i]
        <4>1. i + 1 # 1 => i \in 1..n
          OBVIOUS
        <4>2. i \in 1..n => g[i] = f[i]
          BY <2>4, Zenon
        <4> QED
          BY <4>1, <4>2
      <3> QED
        BY <3>2, <3>3, <3>4, <3>5
    <2>5. n \in T
      <3> HIDE DEF T
      <3> QED
        BY <2>3, <2>4, Induction
    <2>6. g[n] = f[n]
      BY <2>5, <1>4
    <2>7. g[n + 1] = g[n] \o on[n + 1]
      <3>1. n + 1 \in 1..(n + 1) /\ n + 1 # 1 /\ (n + 1) - 1 = n
        BY <1>4
      <3>2. g[n + 1] = IF n + 1 = 1 THEN on[n + 1] ELSE g[(n + 1) - 1] \o on[n + 1]
        BY <1>2, <3>1 DEF IsFlat
      <3> QED
        BY <3>1, <3>2
    <2> QED
      BY <1>2, <2>2, <2>6, <2>7
  <1> QED
    BY <1>3, <1>4

LEMMA MeaningConcat ==
    ASSUME NEW tokens, NEW n \in Nat, IsSeq(MeaningTo(tokens, n))
    PROVE  MeaningTo(tokens, n + 1) = MeaningTo(tokens, n) \o Meant(tokens, n + 1)
  <1> DEFINE s == [i \in 1..n |-> Meant(tokens, i)]
             on == [i \in 1..(n + 1) |-> Meant(tokens, i)]
  <1>1. IsSeq(s) /\ Len(s) = n
    <2>1. s = [i \in 1..n |-> s[i]]
      OBVIOUS
    <2> HIDE DEF s
    <2> QED
      BY <2>1, ListIsSeq
  <1>2. IsSeq(on) /\ Len(on) = n + 1
    <2>1. on = [i \in 1..(n + 1) |-> on[i]]
      OBVIOUS
    <2> HIDE DEF on
    <2> QED
      BY <2>1, ListIsSeq
  <1>3. /\ MeaningTo(tokens, n) = FlattenSeq(s) /\ MeaningTo(tokens, n + 1) = FlattenSeq(on)
        /\ on[n + 1] = Meant(tokens, n + 1)
        /\ \A i \in 1..n : on[i] = s[i]
    BY DEF MeaningTo
  <1> HIDE DEF s, on
  <1>4. IsSeq(on[n + 1])
    BY <1>3, EmptyIsSeq, OneIsSeq DEF Meant
  <1> QED
    BY <1>1, <1>2, <1>3, <1>4, FlattenOn

LEMMA MeaningStep ==
    ASSUME NEW tokens, NEW n \in Nat
    PROVE  MeaningOn(tokens, n)
  <1>1. ASSUME NEW m \in Nat, IsSeq(MeaningTo(tokens, m))
        PROVE  MeaningOn(tokens, m) /\ IsSeq(MeaningTo(tokens, m + 1))
    <2>1. MeaningTo(tokens, m + 1) = MeaningTo(tokens, m) \o Meant(tokens, m + 1)
      BY <1>1, MeaningConcat
    <2>2. Meant(tokens, m + 1) = IF OpMeant(tokens, m + 1) = "nothing" THEN <<>>
                                 ELSE <<Instruction(tokens, m + 1)>>
      BY DEF Meant, Instruction
    <2>3. /\ MeaningTo(tokens, m) \o <<>> = MeaningTo(tokens, m)
          /\ MeaningTo(tokens, m) \o <<Instruction(tokens, m + 1)>> =
                Append(MeaningTo(tokens, m), Instruction(tokens, m + 1))
      BY <1>1, SaidOn
    <2>4. MeaningOn(tokens, m)
      BY <1>1, <2>1, <2>2, <2>3 DEF MeaningOn
    <2> QED
      BY <1>1, <2>4, AppendFacts DEF MeaningOn
  <1> DEFINE T == {m \in Nat : IsSeq(MeaningTo(tokens, m))}
  <1>2. 0 \in T
    BY MeaningNone, EmptyIsSeq
  <1>3. \A m \in Nat : m \in T => m + 1 \in T
    BY <1>1
  <1>4. n \in T
    <2> HIDE DEF T
    <2> QED
      BY <1>2, <1>3, Induction
  <1> QED
    BY <1>1, <1>4
-----------------------------------------------------------------------------
(* What the place of the reading tells of the tokens read.                 *)
Told(tokens, n, w) ==
    /\ w \in PlaceNames \ {"dead"}
    /\ w \in SelectPlaces <=> \A j \in 1..n : tokens[j].kind # "CATALOGUE"
    /\ w = "cat" <=> n >= 1 /\ tokens[n].kind = "CATALOGUE"
    /\ w = "query" <=> n >= 1 /\ tokens[n].kind = "QUERY"
    /\ w = "file" <=> n >= 1 /\ tokens[n].kind = "VFILE"
    /\ w = "path" <=> n >= 2 /\ tokens[n - 1].kind = "VFILE"
    /\ w = "close" <=> n >= 3 /\ tokens[n - 2].kind = "VFILE"

LEMMA ToldStart ==
    ASSUME NEW tokens
    PROVE  Told(tokens, 0, "start")
  <1>1. "start" \in PlaceNames \ {"dead"}
    BY DEF PlaceNames, Places
  <1>2. "start" \in SelectPlaces
    BY DEF SelectPlaces
  <1> QED
    BY <1>1, <1>2 DEF Told

LEMMA ToldOn ==
    ASSUME NEW tokens, NEW n \in Nat, NEW w, Told(tokens, n, w),
           tokens[n + 1].kind \in TokenKinds, OneOpen(w, tokens[n + 1].kind)[1] # "dead"
    PROVE  Told(tokens, n + 1, OneOpen(w, tokens[n + 1].kind)[1])
  <1>1. PICK x, v : x = tokens[n + 1].kind /\ v = OneOpen(w, x)[1]
    OBVIOUS
  <1>2. w \in PlaceNames /\ x \in TokenKinds /\ v # "dead"
    BY <1>1 DEF Told
  <1>3. /\ v \in PlaceNames
        /\ v \in SelectPlaces <=> w \in SelectPlaces /\ x # "CATALOGUE"
        /\ v = "cat" <=> x = "CATALOGUE"
        /\ v = "query" <=> x = "QUERY"
        /\ v = "file" <=> x = "VFILE"
        /\ v = "path" <=> w = "file"
        /\ v = "close" <=> w = "path"
    BY <1>1, <1>2, QueryTables DEF PlacesTell
  <1>4. v \in SelectPlaces <=> \A j \in 1..(n + 1) : tokens[j].kind # "CATALOGUE"
    <2>1. \A j : j \in 1..(n + 1) <=> j \in 1..n \/ j = n + 1
      OBVIOUS
    <2> QED
      BY <1>1, <1>3, <2>1 DEF Told
  <1>5. v = "path" <=> n + 1 >= 2 /\ tokens[(n + 1) - 1].kind = "VFILE"
    <2>1. (n + 1) - 1 = n /\ (n + 1 >= 2 <=> n >= 1)
      OBVIOUS
    <2> QED
      BY <1>3, <2>1 DEF Told
  <1>6. v = "close" <=> n + 1 >= 3 /\ tokens[(n + 1) - 2].kind = "VFILE"
    <2>1. (n + 1) - 2 = n - 1 /\ (n + 1 >= 3 <=> n >= 2)
      OBVIOUS
    <2> QED
      BY <1>3, <2>1 DEF Told
  <1>7. n + 1 >= 1
    OBVIOUS
  <1>8. Told(tokens, n + 1, v)
    BY <1>1, <1>2, <1>3, <1>4, <1>5, <1>6, <1>7 DEF Told
  <1> QED
    BY <1>1, <1>8

(* The instruction that a token stands for.                                *)
LEMMA OpIs ==
    ASSUME NEW tokens, NEW n \in Nat, NEW w, Told(tokens, n, w),
           tokens[n + 1].kind \notin {"QUERY", "REGEXP"}
    PROVE  OpMeant(tokens, n + 1) = OpRead(w, tokens[n + 1].kind)
  <1>1. PICK x : x = tokens[n + 1].kind
    OBVIOUS
  <1> DEFINE after == IF n + 1 = 1 THEN "none" ELSE tokens[(n + 1) - 1].kind
             selecting == ~\E j \in 1..(n + 1) : tokens[j].kind = "CATALOGUE"
             path == n + 1 > 2 /\ tokens[(n + 1) - 2].kind = "VFILE"
             close == n + 1 > 3 /\ tokens[(n + 1) - 3].kind = "VFILE"
  <1>2. OpMeant(tokens, n + 1) =
          IF x \in DOMAIN Named THEN Named[x]
          ELSE IF x = "UQSTRING"
          THEN IF selecting THEN "SELCN" ELSE IF after = "CATALOGUE" THEN "SETCAT" ELSE "COLNAME"
          ELSE IF x = "STRING" THEN IF path THEN "VOID" ELSE "STRING"
          ELSE IF selecting THEN "nothing"
          ELSE IF x = "OPAR" /\ after # "VFILE" THEN "BEGIN_GRP"
          ELSE IF x = "CPAR" /\ ~close THEN "CLOSE_GRP"
          ELSE "nothing"
    BY <1>1, Zenon DEF OpMeant
  <1>3. selecting <=> w \in SelectPlaces /\ x # "CATALOGUE"
    <2>1. \A j : j \in 1..(n + 1) <=> j \in 1..n \/ j = n + 1
      OBVIOUS
    <2> QED
      BY <1>1, <2>1 DEF Told
  <1>4. after = "CATALOGUE" <=> w = "cat"
    <2>1. CASE n = 0
      BY <2>1 DEF Told
    <2>2. CASE n # 0
      <3>1. (n + 1) - 1 = n /\ n >= 1 /\ n + 1 # 1
        BY <2>2
      <3> QED
        BY <3>1 DEF Told
    <2> QED
      BY <2>1, <2>2
  <1>5. after = "VFILE" <=> w = "file"
    <2>1. CASE n = 0
      BY <2>1 DEF Told
    <2>2. CASE n # 0
      <3>1. (n + 1) - 1 = n /\ n >= 1 /\ n + 1 # 1
        BY <2>2
      <3> QED
        BY <3>1 DEF Told
    <2> QED
      BY <2>1, <2>2
  <1>6. path <=> w = "path"
    <2>1. (n + 1) - 2 = n - 1 /\ (n + 1 > 2 <=> n >= 2)
      OBVIOUS
    <2> QED
      BY <2>1 DEF Told
  <1>7. close <=> w = "close"
    <2>1. (n + 1) - 3 = n - 2 /\ (n + 1 > 3 <=> n >= 3)
      OBVIOUS
    <2> QED
      BY <2>1 DEF Told
  <1> HIDE DEF after, selecting, path, close
  <1>8. OpRead(w, x) =
          IF x \in DOMAIN Named THEN Named[x]
          ELSE IF x = "UQSTRING"
          THEN IF w \in SelectPlaces THEN "SELCN" ELSE IF w = "cat" THEN "SETCAT" ELSE "COLNAME"
          ELSE IF x = "STRING" THEN IF w = "path" THEN "VOID" ELSE "STRING"
          ELSE IF w \in SelectPlaces THEN "nothing"
          ELSE IF x = "OPAR" /\ w # "file" THEN "BEGIN_GRP"
          ELSE IF x = "CPAR" /\ w # "close" THEN "CLOSE_GRP"
          ELSE "nothing"
    BY DEF OpRead
  <1>9. x = "CATALOGUE" => x \notin {"UQSTRING", "STRING", "OPAR", "CPAR"}
    OBVIOUS
  <1> QED
    BY <1>1, <1>2, <1>3, <1>4, <1>5, <1>6, <1>7, <1>8, <1>9

LEMMA QueryIs ==
    ASSUME NEW tokens, NEW n \in Nat, tokens[n + 1].kind = "QUERY"
    PROVE  OpMeant(tokens, n + 1) =
              IF n + 1 < Len(tokens) /\ tokens[(n + 1) + 1].kind = "COLS" THEN "BEGINQ_COLS" ELSE "BEGINQ_ALL"
  BY DEF OpMeant

LEMMA RegexIs ==
    ASSUME NEW tokens, NEW n \in Nat \ {0}, tokens[n + 1].kind = "REGEXP"
    PROVE  OpMeant(tokens, n + 1) = IF tokens[n].kind = "REGEQU" THEN "REGEXP" ELSE "NOTREGEXP"
  <1>1. "REGEXP" \notin DOMAIN Named
    BY DEF Named
  <1>2. n + 1 # 1 /\ (n + 1) - 1 = n
    OBVIOUS
  <1> QED
    BY <1>1, <1>2 DEF OpMeant
-----------------------------------------------------------------------------
(* What is queued is what the tokens say, but for the instruction that is  *)
(* owed, whose value is on the stack.                                      *)
Owing(st) == Owed(Below(st), Last(st).state)
Matches(insts, said) == Len(insts) = Len(said) /\ Agree(insts, said)
Expects(st, insts, said, o) ==
    /\ o[2] \in Nat /\ o[2] < Len(st)
    /\ Len(said) = Len(insts) + 1 /\ Agree(insts, said)
    /\ said[Len(said)].op = o[1]
    /\ HasValue(o[1]) => said[Len(said)].value = st[Len(st) - o[2]].value
SaidSoFar(st, insts, said) ==
    IF Owing(st) = {} THEN Matches(insts, said) ELSE \E o \in Owing(st) : Expects(st, insts, said, o)
Means(st, insts, tokens, n, w) ==
    /\ Told(tokens, n, w)
    /\ Len(st) > 1 /\ Last(st).symbol \in TokenKinds => n >= 1 /\ tokens[n].kind = Last(st).symbol
    /\ SaidSoFar(st, insts, MeaningTo(tokens, n))

LEMMA AgreeOn ==
    ASSUME NEW insts, IsSeq(insts), NEW said, IsSeq(said), Len(insts) <= Len(said),
           Agree(insts, said), NEW inst
    PROVE  Agree(insts, Append(said, inst))
  <1>1. Len(insts) \in Nat /\ Len(said) \in Nat /\ DOMAIN insts = 1..Len(insts)
    BY SeqFacts
  <1>2. \A i \in 1..Len(said) : Append(said, inst)[i] = said[i]
    BY AppendFacts
  <1>3. \A i \in 1..Len(insts) : Append(said, inst)[i] = said[i]
    BY <1>1, <1>2
  <1> QED
    BY <1>1, <1>3 DEF Agree

\* The last that was said is queued.
LEMMA AgreeLast ==
    ASSUME NEW insts, IsSeq(insts), NEW said, IsSeq(said), Len(said) = Len(insts) + 1,
           Agree(insts, said), NEW inst, inst.op = said[Len(said)].op,
           HasValue(inst.op) => inst.value = said[Len(said)].value
    PROVE  Matches(Append(insts, inst), said)
  <1> DEFINE on == Append(insts, inst)
  <1>1. Len(insts) \in Nat /\ DOMAIN insts = 1..Len(insts)
    BY SeqFacts
  <1>2. /\ IsSeq(on) /\ Len(on) = Len(insts) + 1 /\ on[Len(insts) + 1] = inst
        /\ \A i \in 1..Len(insts) : on[i] = insts[i]
    BY AppendFacts
  <1> HIDE DEF on
  <1>3. DOMAIN on = 1..(Len(insts) + 1)
    BY <1>2, SeqFacts
  <1>4. ASSUME NEW i \in DOMAIN on
        PROVE  on[i].op = said[i].op /\ (HasValue(on[i].op) => on[i].value = said[i].value)
    <2>1. CASE i = Len(insts) + 1
      BY <1>2, <2>1
    <2>2. CASE i # Len(insts) + 1
      <3>1. i \in DOMAIN insts /\ on[i] = insts[i]
        BY <1>1, <1>2, <1>3, <2>2
      <3> QED
        BY <3>1 DEF Agree
    <2> QED
      BY <2>1, <2>2
  <1>5. Agree(on, said)
    BY <1>4 DEF Agree
  <1> QED
    BY <1>2, <1>5 DEF Matches, on

LEMMA ExpectsNew ==
    ASSUME NEW insts, IsSeq(insts), NEW said, IsSeq(said), Matches(insts, said), NEW inst,
           NEW on, IsSeq(on), on # <<>>, on[Len(on)].value = inst.value
    PROVE  Expects(on, insts, Append(said, inst), <<inst.op, 0>>)
  <1> DEFINE o == <<inst.op, 0>>
             more == Append(said, inst)
  <1>1. Len(said) \in Nat /\ Len(insts) = Len(said) /\ Len(on) \in Nat /\ 0 < Len(on) /\ Len(on) - 0 = Len(on)
    BY SeqFacts DEF Matches
  <1>2. Len(more) = Len(said) + 1 /\ more[Len(said) + 1] = inst
    BY AppendFacts
  <1>3. Agree(insts, more)
    BY <1>1, AgreeOn DEF Matches
  <1>4. o[1] = inst.op /\ o[2] = 0
    OBVIOUS
  <1> HIDE DEF o, more
  <1>5. more[Len(more)] = inst
    BY <1>2
  <1>6. Expects(on, insts, more, o)
    BY <1>1, <1>2, <1>3, <1>4, <1>5 DEF Expects
  <1> QED
    BY <1>6 DEF o, more

(* Push, with the value.                                                   *)
LEMMA PushedEntries ==
    ASSUME NEW st, IsSeq(st), NEW t, NEW x, NEW v, Pushed(st, t, x, v) # <<>>
    PROVE  LET on == Pushed(st, t, x, v) IN
           /\ IsSeq(on) /\ Len(on) = Len(st) + 1
           /\ on[Len(on)] = Entry(t, x, v) /\ Last(on) = Entry(t, x, v)
           /\ \A i \in 1..Len(st) : on[i] = st[i]
  <1> DEFINE e == Entry(t, x, v)
  <1>1. Pushed(st, t, x, v) = Append(st, e)
    BY DEF Pushed, Entry
  <1> HIDE DEF e
  <1>2. /\ IsSeq(Append(st, e)) /\ Len(Append(st, e)) = Len(st) + 1
        /\ Append(st, e)[Len(st) + 1] = e
        /\ \A i \in 1..Len(st) : Append(st, e)[i] = st[i]
    BY AppendFacts
  <1>3. Last(Append(st, e)) = e
    BY <1>2, LastOfSeq
  <1> QED
    BY <1>1, <1>2, <1>3 DEF e

Enters(st, on, e) ==
    /\ IsSeq(on) /\ Len(on) = Len(st) + 1 /\ Last(on) = e
    /\ \A i \in 1..Len(st) : on[i] = st[i]
LEMMA PushedEnters ==
    ASSUME NEW st, IsSeq(st), NEW on, on # <<>>, NEW t, NEW x, NEW v, on = Pushed(st, t, x, v)
    PROVE  Enters(st, on, Entry(t, x, v))
  BY PushedEntries DEF Enters

LEMMA OwesKnown ==
    ASSUME NEW k \in Known
    PROVE  Owes(k)
  BY QueryTables DEF KnowsInstructions

\* What is owed moves down when something is pushed.
LEMMA ExpectsDeeper ==
    ASSUME NEW st, IsSeq(st), NEW on, IsSeq(on), NEW d \in Int, Len(on) = Len(st) + d,
           NEW insts, NEW said, NEW o, Expects(st, insts, said, o), o[2] + d >= 0,
           on[Len(st) - o[2]] = st[Len(st) - o[2]]
    PROVE  Expects(on, insts, said, <<o[1], o[2] + d>>)
  <1> DEFINE p == <<o[1], o[2] + d>>
  <1>1. p[1] = o[1] /\ p[2] = o[2] + d
    OBVIOUS
  <1>2. Len(st) \in Nat /\ Len(on) \in Nat
    BY SeqFacts
  <1>3. o[2] \in Nat /\ o[2] < Len(st)
    BY DEF Expects
  <1> HIDE DEF p
  <1>4. p[2] \in Nat /\ p[2] < Len(on) /\ Len(on) - p[2] = Len(st) - o[2]
    <2>1. PICK i, j, m : i = o[2] /\ j = p[2] /\ m = Len(st)
      OBVIOUS
    <2>2. i \in Nat /\ m \in Nat /\ i < m /\ j = i + d /\ j >= 0 /\ Len(on) = m + d
      BY <1>1, <1>2, <1>3, <2>1
    <2>3. j \in Nat /\ j < m + d /\ (m + d) - j = m - i
      BY <2>2
    <2> QED
      BY <2>1, <2>2, <2>3
  <1>5. Expects(on, insts, said, p)
    BY <1>1, <1>4 DEF Expects
  <1> QED
    BY <1>5 DEF p

(* A token that is shifted is one that was said.                           *)
LEMMA SaidShift ==
    ASSUME NEW st, Spelt(Tables, st), NEW insts, IsSeq(insts), NEW tokens, NEW n \in Nat, NEW w,
           NEW x \in TokenKinds, NEW v,
           tokens[n + 1].kind = x, tokens[n + 1].value = v, n + 1 = Len(tokens),
           Means(st, insts, tokens, n, w), <<Below(st), Last(st).state, x, w>> \in Known,
           Order(Last(st).state, x) \in Tables.states,
           NEW on, on # <<>>, on = Pushed(st, Order(Last(st).state, x), x, v)
    PROVE  SaidSoFar(on, insts, MeaningTo(tokens, n + 1))
  <1> DEFINE s == Last(st).state
             a == Order(s, x)
             k == <<Below(st), s, x, w>>
             said == MeaningTo(tokens, n)
             more == MeaningTo(tokens, n + 1)
             inst == Instruction(tokens, n + 1)
  <1>1. IsSeq(st) /\ Len(st) \in Nat \ {0} /\ Last(st) = st[Len(st)]
    BY Tabled, SpeltStates DEF Spelt
  <1>2. /\ IsSeq(on) /\ Len(on) = Len(st) + 1
        /\ on[Len(on)] = Entry(a, x, v) /\ Last(on) = Entry(a, x, v)
        /\ \A i \in 1..Len(st) : on[i] = st[i]
    BY <1>1, PushedEntries
  <1>3. Owing(on) = Owed(s, a)
    <2>1. Len(on) # 1 /\ Len(on) - 1 = Len(st) /\ Len(st) \in 1..Len(st)
      BY <1>1, <1>2
    <2>2. Below(on) = s
      BY <1>1, <1>2, <2>1 DEF Below
    <2>3. Last(on).state = a
      BY <1>2 DEF Entry
    <2> QED
      BY <2>2, <2>3 DEF Owing
  <1>4. k[1] = Below(st) /\ k[2] = s /\ k[3] = x /\ k[4] = w
    OBVIOUS
  <1>5. k \in Known
    OBVIOUS
  <1> HIDE DEF k
  <1>6. OwesOnShift(k, a)
    BY <1>4, <1>5, OwesKnown DEF Owes
  <1>7. /\ IsSeq(said)
        /\ more = IF OpMeant(tokens, n + 1) = "nothing" THEN said ELSE Append(said, inst)
    BY MeaningStep DEF MeaningOn
  <1>8. inst.op = OpMeant(tokens, n + 1) /\ inst.value = v
    BY DEF Instruction
  <1>9. SaidSoFar(st, insts, said) /\ Told(tokens, n, w)
    BY DEF Means
  <1>10. on[Len(on)].value = inst.value
    BY <1>2, <1>8 DEF Entry
  \* An instruction more, after which it is owed.
  <1>11. ASSUME Owing(st) = {}, OpMeant(tokens, n + 1) # "nothing",
                <<OpMeant(tokens, n + 1), 0>> \in Owing(on)
         PROVE  SaidSoFar(on, insts, more)
    <2>1. Matches(insts, said)
      BY <1>9, <1>11 DEF SaidSoFar
    <2> HIDE DEF inst, said, more
    <2>2. Expects(on, insts, Append(said, inst), <<inst.op, 0>>)
      BY <1>2, <1>7, <1>10, <2>1, ExpectsNew
    <2> QED
      BY <1>7, <1>8, <1>11, <2>2 DEF SaidSoFar
  <1>12. Owing(st) = Owed(k[1], k[2])
    BY <1>4 DEF Owing
  <1>13. CASE x = "QUERY"
    <2>1. Owing(st) = {} /\ Owing(on) = Beginning
      BY <1>3, <1>4, <1>6, <1>12, <1>13 DEF OwesOnShift
    <2>2. OpMeant(tokens, n + 1) = "BEGINQ_ALL"
      BY <1>13, QueryIs
    <2>3. <<"BEGINQ_ALL", 0>> \in Beginning
      BY DEF Beginning, Begins
    <2> QED
      BY <1>11, <2>1, <2>2, <2>3
  <1>14. CASE x = "REGEXP"
    <2>1. Owing(st) = {} /\ \E o \in RegexRead(s) : Owing(on) = {<<o, 0>>}
      BY <1>3, <1>4, <1>6, <1>12, <1>14 DEF OwesOnShift
    <2>2. PICK o \in RegexRead(s) : Owing(on) = {<<o, 0>>}
      BY <2>1
    <2>3. PICK q \in Rules("regex") :
             /\ Holds(s, q, 2) /\ Grammar[q].rhs[2] \in TokenKinds
             /\ o = IF Grammar[q].rhs[2] = "REGEQU" THEN "REGEXP" ELSE "NOTREGEXP"
      BY <2>2 DEF RegexRead
    <2>4. q \in 1..Tables.nrule /\ Tables.rules[q].rhs = Grammar[q].rhs
      BY <2>3, Tabled DEF Rules
    <2>5. SpellsBack(Tables, st, Len(st), q, 2)
      <3>1. Len(st) \in 1..Len(st) /\ Holds(st[Len(st)].state, q, 2) /\ 2 \in Nat
        BY <1>1, <2>3
      <3> QED
        BY <2>4, <3>1, RuleSpelt
    <2>6. Len(st) > 1 /\ st[Len(st)].symbol = Grammar[q].rhs[2]
      <3>1. 0 \in 0..(2 - 1) /\ Len(st) - 0 = Len(st) /\ 2 - 0 = 2
        BY <1>1
      <3>2. 2 < Len(st) /\ st[Len(st) - 0].symbol = Tables.rules[q].rhs[2 - 0]
        BY <2>5, <3>1 DEF SpellsBack
      <3> QED
        BY <1>1, <2>4, <3>1, <3>2
    <2>7. n >= 1 /\ tokens[n].kind = Grammar[q].rhs[2]
      BY <1>1, <2>3, <2>6 DEF Means
    <2>8. OpMeant(tokens, n + 1) = o /\ o # "nothing"
      BY <1>14, <2>3, <2>7, RegexIs
    <2> QED
      BY <1>11, <2>1, <2>2, <2>8
  <1>15. CASE x \notin {"QUERY", "REGEXP"}
    <2>1. OpMeant(tokens, n + 1) = OpRead(w, x)
      BY <1>9, <1>15, OpIs
    <2>2. CASE OpRead(w, x) # "nothing"
      <3>1. Owing(st) = {} /\ Owing(on) = {<<OpRead(w, x), 0>>}
        BY <1>3, <1>4, <1>6, <1>12, <1>15, <2>2 DEF OwesOnShift
      <3> QED
        BY <1>11, <2>1, <2>2, <3>1
    <2>3. CASE OpRead(w, x) = "nothing"
      <3>1. Owing(on) = Deeper(Owing(st), 1) /\ more = said
        BY <1>3, <1>4, <1>6, <1>7, <1>12, <1>15, <2>1, <2>3 DEF OwesOnShift
      <3> SUFFICES SaidSoFar(on, insts, more)
        OBVIOUS
      <3> HIDE DEF more, said
      <3>2. CASE Owing(st) = {}
        <4>1. Owing(on) = {}
          BY <3>1, <3>2 DEF Deeper
        <4> QED
          BY <1>9, <3>1, <3>2, <4>1 DEF SaidSoFar
      <3>3. CASE Owing(st) # {}
        <4>1. PICK o \in Owing(st) : Expects(st, insts, said, o)
          BY <1>9, <3>3 DEF SaidSoFar
        <4>2. o[2] \in Nat /\ o[2] < Len(st)
          BY <4>1 DEF Expects
        <4>3. Len(st) - o[2] \in 1..Len(st) /\ o[2] + 1 >= 0
          <5>1. PICK i : i = o[2]
            OBVIOUS
          <5>2. i \in Nat /\ i < Len(st)
            BY <4>2, <5>1
          <5>3. Len(st) - i \in 1..Len(st) /\ i + 1 >= 0
            BY <1>1, <5>2
          <5> QED
            BY <5>1, <5>3
        <4>4. Expects(on, insts, said, <<o[1], o[2] + 1>>)
          <5>1. on[Len(st) - o[2]] = st[Len(st) - o[2]]
            BY <1>2, <4>3
          <5>2. 1 \in Int /\ Len(on) = Len(st) + 1 /\ IsSeq(on) /\ IsSeq(st)
            BY <1>1, <1>2
          <5> QED
            BY <4>1, <4>3, <5>1, <5>2, ExpectsDeeper
        <4>5. <<o[1], o[2] + 1>> \in Owing(on)
          BY <3>1 DEF Deeper
        <4> QED
          BY <3>1, <4>4, <4>5 DEF SaidSoFar
      <3> QED
        BY <3>2, <3>3
    <2> QED
      BY <2>2, <2>3
  <1> QED
    BY <1>13, <1>14, <1>15

LEMMA MeansShift ==
    ASSUME NEW st, Spelt(Tables, st), NEW insts, IsSeq(insts), NEW tokens, NEW n \in Nat, NEW at,
           NEW x \in TokenKinds, NEW v,
           tokens[n + 1].kind = x, tokens[n + 1].value = v, n + 1 = Len(tokens),
           Means(st, insts, tokens, n, at[1]), Knows(st, x, at),
           Order(Last(st).state, x) \in Tables.states,
           NEW on, on # <<>>, on = Pushed(st, Order(Last(st).state, x), x, v),
           Grown(st, on, x, Order(Last(st).state, x))
    PROVE  Means(on, insts, tokens, n + 1, Advance(at, x)[1])
  <1>1. Advance(at, x)[1] = OneOpen(at[1], x)[1] /\ OneOpen(at[1], x)[1] # "dead"
    BY KnowsShift
  <1>2. Told(tokens, n + 1, Advance(at, x)[1])
    BY <1>1, ToldOn DEF Means
  <1>3. Last(on).symbol = x /\ n + 1 >= 1
    <2>1. Last(on) = Entry(Order(Last(st).state, x), x, v)
      BY PushedEntries DEF Spelt
    <2> QED
      BY <2>1 DEF Entry
  <1>4. SaidSoFar(on, insts, MeaningTo(tokens, n + 1))
    BY SaidShift DEF Knows
  <1> QED
    BY <1>2, <1>3, <1>4 DEF Means

(* The value that the code of a rule takes.                                *)
LEMMA OperandIs ==
    ASSUME NEW st, IsSeq(st), NEW r, NEW n \in Nat, n = RhsLength(Tables, r), n < Len(st),
           n >= OperandAt(r)
    PROVE  Operand(SubSeq(st, Len(st) - n + 1, Len(st))) = st[Len(st) - (n - OperandAt(r))].value
  <1> DEFINE m == Len(st)
             handle == SubSeq(st, m - n + 1, m)
  <1>1. PICK S : st \in Seq(S)
    BY DEF IsSeq
  <1>2. m \in Nat /\ \A i \in (m - n + 1)..m : st[i] \in S
    BY <1>1
  <1>3. OperandAt(r) = IF n >= 3 THEN 3 ELSE 1
    BY DEF OperandAt
  <1>4. n >= 1
    BY <1>3
  <1> HIDE DEF m
  <1>5. /\ handle \in Seq(S) /\ Len(handle) = n
        /\ \A i \in 1..n : handle[i] = st[(m - n) + i]
    <2>1. PICK l \in Int : l = m - n + 1
      BY <1>2
    <2>2. m \in Int /\ l <= m /\ m - l + 1 = n /\ handle = SubSeq(st, l, m)
      BY <1>2, <1>4, <2>1
    <2>3. \A i \in l..m : st[i] \in S
      BY <1>2, <2>1
    <2> HIDE DEF handle
    <2>4. /\ handle \in Seq(S) /\ Len(handle) = m - l + 1
          /\ \A i \in 1..(m - l + 1) : handle[i] = st[l + i - 1]
      BY <2>2, <2>3, SubSeqProperties
    <2>5. ASSUME NEW i \in 1..n PROVE l + i - 1 = (m - n) + i
      <3>1. m \in Int /\ n \in Int /\ i \in Int
        BY <2>2
      <3> QED
        BY <2>1, <3>1
    <2> QED
      BY <2>2, <2>4, <2>5
  <1>6. handle # <<>>
    <2> HIDE DEF handle
    <2> QED
      BY <1>4, <1>5, EmptySeq
  <1> HIDE DEF handle
  <1>7. CASE n >= 3
    <2>1. 3 \in 1..n /\ (m - n) + 3 = m - (n - 3)
      BY <1>2, <1>7
    <2>2. Operand(handle) = handle[3].value
      BY <1>5, <1>7 DEF Operand
    <2> QED
      BY <1>3, <1>5, <1>7, <2>1, <2>2 DEF handle, m
  <1>8. CASE ~(n >= 3)
    <2>1. 1 \in 1..n /\ (m - n) + 1 = m - (n - 1)
      BY <1>2, <1>4
    <2>2. Operand(handle) = handle[1].value
      BY <1>5, <1>6, <1>8 DEF Operand
    <2> QED
      BY <1>3, <1>5, <1>8, <2>1, <2>2 DEF handle, m
  <1> QED
    BY <1>7, <1>8

(* Behind the word QUERY, it is the last that was said.                    *)
LEMMA QueryLast ==
    ASSUME NEW tokens, NEW n \in Nat, Told(tokens, n, "query")
    PROVE  LET said == MeaningTo(tokens, n) IN
           /\ n >= 1 /\ tokens[n].kind = "QUERY"
           /\ OpMeant(tokens, n) = IF n < Len(tokens) /\ tokens[n + 1].kind = "COLS"
                                   THEN "BEGINQ_COLS" ELSE "BEGINQ_ALL"
           /\ IsSeq(MeaningTo(tokens, n - 1))
           /\ said = Append(MeaningTo(tokens, n - 1), Instruction(tokens, n))
           /\ said[Len(said)].op = OpMeant(tokens, n)
  <1>1. n >= 1 /\ tokens[n].kind = "QUERY"
    BY DEF Told
  <1>2. PICK m \in Nat : n = m + 1
    <2>1. n - 1 \in Nat /\ n = (n - 1) + 1
      BY <1>1
    <2> QED
      BY <2>1
  <1>3. OpMeant(tokens, m + 1) =
          IF m + 1 < Len(tokens) /\ tokens[(m + 1) + 1].kind = "COLS" THEN "BEGINQ_COLS" ELSE "BEGINQ_ALL"
    BY <1>1, <1>2, QueryIs
  <1>4. /\ IsSeq(MeaningTo(tokens, m))
        /\ MeaningTo(tokens, m + 1) = Append(MeaningTo(tokens, m), Instruction(tokens, m + 1))
    BY <1>3, MeaningStep DEF MeaningOn
  <1>5. LET said == MeaningTo(tokens, m + 1) IN said[Len(said)] = Instruction(tokens, m + 1)
    BY <1>4, AppendFacts
  <1>6. n - 1 = m
    BY <1>2
  <1>7. Instruction(tokens, m + 1).op = OpMeant(tokens, m + 1)
    BY DEF Instruction
  <1> QED
    BY <1>1, <1>2, <1>3, <1>4, <1>5, <1>6, <1>7

(* A rule that is reduced queues what was owed, or leaves it owed.         *)
LEMMA SaidReduce ==
    ASSUME NEW st, Spelt(Tables, st), NEW insts, IsSeq(insts), NEW tokens, NEW n \in Nat, NEW w,
           NEW x, x # NoToken, n < Len(tokens) /\ tokens[n + 1].kind = "COLS" <=> x = "COLS",
           Means(st, insts, tokens, n, w), <<Below(st), Last(st).state, x, w>> \in Known,
           Reduces(Tables, Order(Last(st).state, x)),
           NEW r, r = RuleOf(Tables, Order(Last(st).state, x)),
           NEW rest, rest = SubSeq(st, 1, Len(st) - RhsLength(Tables, r)), Lowered(st, rest, r),
           NEW v, v = Operand(SubSeq(st, Len(st) - RhsLength(Tables, r) + 1, Len(st))),
           NEW on, on # <<>>,
           on = Pushed(rest, Order(Last(rest).state, Grammar[r].lhs), Grammar[r].lhs, v)
    PROVE  LET op == Grammar[r].queues IN
           SaidSoFar(on, IF op = "nothing" THEN insts ELSE Append(insts, [op |-> op, value |-> v]),
                     MeaningTo(tokens, n))
  <1> DEFINE s == Last(st).state
             u == Last(rest).state
             lhs == Grammar[r].lhs
             t == Order(u, lhs)
             l == RhsLength(Tables, r)
             op == Grammar[r].queues
             k == <<Below(st), s, x, w>>
             said == MeaningTo(tokens, n)
             owed == Owing(st)
             inst == [op |-> op, value |-> v]
  <1>1. IsSeq(st) /\ Len(st) \in Nat \ {0} /\ Last(st) = st[Len(st)]
    BY Tabled, SpeltStates DEF Spelt
  <1>2. l \in Nat /\ l < Len(st) /\ Len(rest) = Len(st) - l
    BY DEF Lowered
  <1>3. IsSeq(rest) /\ \A i \in 1..Len(rest) : rest[i] = st[i]
    <2>1. Len(st) - l \in 0..Len(st)
      BY <1>1, <1>2, SMTT(30)
    <2> QED
      BY <1>1, <1>2, <2>1, PrefixFacts
  <1>4. /\ IsSeq(on) /\ Len(on) = Len(rest) + 1
        /\ Last(on) = Entry(t, lhs, v)
        /\ \A i \in 1..Len(rest) : on[i] = rest[i]
    <2>1. on = Pushed(rest, t, lhs, v)
      OBVIOUS
    <2> HIDE DEF t, lhs
    <2>2. Enters(rest, on, Entry(t, lhs, v))
      BY <1>3, <2>1, PushedEnters
    <2> QED
      BY <2>2 DEF Enters
  <1>5. Owing(on) = Owed(u, t)
    <2>1. Len(on) # 1 /\ Len(on) - 1 = Len(rest) /\ Len(rest) \in 1..Len(rest)
      <3>1. PICK i, j, m : i = Len(on) /\ j = Len(rest) /\ m = Len(st)
        OBVIOUS
      <3> HIDE DEF l
      <3>2. l \in Nat /\ l < m
        BY <1>2, <3>1
      <3>3. i = j + 1
        BY <1>4, <3>1
      <3>4. j = m - l /\ m \in Nat
        BY <1>1, <1>2, <3>1
      <3>5. i # 1 /\ i - 1 = j /\ j \in 1..j
        BY <3>2, <3>3, <3>4, SMTT(30)
      <3> QED
        BY <3>1, <3>5
    <2>2. Below(on) = u
      <3>1. on[Len(rest)] = rest[Len(rest)] /\ Last(rest) = rest[Len(rest)]
        BY <1>4, <2>1, LastOfSeq
      <3> QED
        BY <2>1, <3>1 DEF Below
    <2>3. Last(on).state = t
      BY <1>4 DEF Entry
    <2> QED
      BY <2>2, <2>3 DEF Owing
  <1>6. k[1] = Below(st) /\ k[2] = s /\ k[3] = x /\ k[4] = w /\ k \in Known
    OBVIOUS
  <1> HIDE DEF k
  <1>7. OwesOnReduce(k, r)
    BY <1>6, OwesKnown DEF Owes
  <1>8. u \in Uncovered(k, r)
    BY <1>6 DEF Uncovered, Lowered
  <1>9. Owed(k[1], k[2]) = owed
    BY <1>6 DEF Owing
  <1>10. SaidSoFar(st, insts, said) /\ Told(tokens, n, w)
    BY DEF Means
  <1>11. IsSeq(said)
    BY MeaningStep DEF MeaningOn
  <1> SUFFICES SaidSoFar(on, IF op = "nothing" THEN insts ELSE Append(insts, inst), said)
    OBVIOUS
  <1>12. CASE op = "nothing"
    <2>1. Owing(on) = Deeper(owed, 1 - l) /\ \A o \in owed : o[2] >= l
      BY <1>5, <1>7, <1>8, <1>9, <1>12 DEF OwesOnReduce
    <2> SUFFICES SaidSoFar(on, insts, said)
      BY <1>12
    <2> HIDE DEF owed, said, l
    <2>2. CASE owed = {}
      <3>1. Owing(on) = {}
        BY <2>1, <2>2 DEF Deeper
      <3> QED
        BY <1>10, <2>2, <3>1 DEF SaidSoFar, owed
    <2>3. CASE owed # {}
      <3>1. PICK o \in owed : Expects(st, insts, said, o)
        BY <1>10, <2>3 DEF SaidSoFar, owed
      <3>2. PICK i, m : i = o[2] /\ m = Len(st)
        OBVIOUS
      <3>3. i \in Nat /\ i < m /\ i >= l /\ m \in Nat
        BY <1>1, <2>1, <3>1, <3>2 DEF Expects
      <3>4. Len(rest) = m - l /\ Len(on) = m + (1 - l)
        <4>1. PICK j, h : j = Len(rest) /\ h = Len(on)
          OBVIOUS
        <4>2. j = m - l /\ h = j + 1 /\ l \in Nat
          BY <1>2, <1>4, <3>2, <4>1 DEF l
        <4>3. h = m + (1 - l)
          BY <3>3, <4>2
        <4> QED
          BY <4>1, <4>2, <4>3
      <3>5. l \in Nat
        BY <1>2 DEF l
      <3>6. m - i \in 1..(m - l) /\ 1 - l \in Int /\ i + (1 - l) >= 0
        BY <3>3, <3>5, SMTT(30)
      <3>7. on[m - i] = rest[m - i] /\ rest[m - i] = st[m - i]
        BY <1>3, <1>4, <3>4, <3>6
      <3>8. PICK d \in Int : d = 1 - l
        BY <3>6
      <3>9. Expects(on, insts, said, <<o[1], o[2] + d>>)
        <4>1. Len(on) = Len(st) + d
          BY <3>2, <3>4, <3>8
        <4>2. o[2] + d >= 0
          BY <3>2, <3>6, <3>8
        <4>3. on[Len(st) - o[2]] = st[Len(st) - o[2]]
          <5>1. Len(st) - o[2] = m - i
            BY <3>2
          <5>2. on[m - i] = st[m - i]
            BY <3>7
          <5> QED
            BY <5>1, <5>2
        <4>4. IsSeq(st)
          BY <1>1
        <4>5. IsSeq(on)
          BY <1>4
        <4>6. Expects(st, insts, said, o)
          BY <3>1
        <4> QED
          BY <4>1, <4>2, <4>3, <4>4, <4>5, <4>6, ExpectsDeeper
      <3>10. <<o[1], o[2] + d>> \in Owing(on)
        BY <2>1, <3>8 DEF Deeper
      <3> QED
        BY <3>9, <3>10 DEF SaidSoFar
    <2> QED
      BY <2>2, <2>3
  <1>13. CASE op # "nothing"
    <2>1. /\ Owing(on) = {} /\ l >= OperandAt(r)
          /\ owed = IF op \in Begins THEN Beginning ELSE {<<op, l - OperandAt(r)>>}
          /\ op \in Begins => w = "query" /\ (op = "BEGINQ_COLS" <=> x = "COLS")
      BY <1>5, <1>6, <1>7, <1>8, <1>9, <1>13 DEF OwesOnReduce
    <2> SUFFICES SaidSoFar(on, Append(insts, inst), said)
      BY <1>13
    <2> HIDE DEF owed, said, l
    <2>2. owed # {}
      BY <2>1 DEF Beginning, Begins
    <2>3. PICK o \in owed : Expects(st, insts, said, o)
      BY <1>10, <2>2 DEF SaidSoFar, owed
    <2>4. Len(said) = Len(insts) + 1 /\ Agree(insts, said)
      BY <2>3 DEF Expects
    <2>5. inst.op = said[Len(said)].op /\ (HasValue(inst.op) => inst.value = said[Len(said)].value)
      <3>1. CASE op \in Begins
        <4>1. said[Len(said)].op = op
          <5>1. Told(tokens, n, "query")
            BY <1>10, <2>1, <3>1
          <5>2. said[Len(said)].op = IF n < Len(tokens) /\ tokens[n + 1].kind = "COLS"
                                     THEN "BEGINQ_COLS" ELSE "BEGINQ_ALL"
            BY <5>1, QueryLast DEF said
          <5> QED
            BY <2>1, <3>1, <5>2 DEF Begins
        <4>2. ~HasValue(op)
          BY <3>1 DEF Begins, HasValue, Regexp
        <4> QED
          BY <4>1, <4>2
      <3>2. CASE op \notin Begins
        <4>1. o = <<op, l - OperandAt(r)>>
          BY <2>1, <3>2
        <4>2. said[Len(said)].op = op
          BY <2>3, <4>1 DEF Expects
        <4>3. HasValue(op) => said[Len(said)].value = st[Len(st) - (l - OperandAt(r))].value
          BY <2>3, <4>1, SMTT(30) DEF Expects
        <4>4. v = st[Len(st) - (l - OperandAt(r))].value
          BY <1>1, <1>2, <2>1, OperandIs DEF l
        <4> QED
          BY <4>2, <4>3, <4>4
      <3> QED
        BY <3>1, <3>2
    <2> HIDE DEF inst
    <2>6. Matches(Append(insts, inst), said)
      BY <1>11, <2>4, <2>5, AgreeLast
    <2> QED
      BY <2>1, <2>6, SMTT(30) DEF SaidSoFar
  <1> QED
    BY <1>12, <1>13

LEMMA MeansReduce ==
    ASSUME NEW st, Spelt(Tables, st), NEW insts, IsSeq(insts), NEW tokens, NEW n \in Nat, NEW w,
           NEW x, x # NoToken, n < Len(tokens) /\ tokens[n + 1].kind = "COLS" <=> x = "COLS",
           Means(st, insts, tokens, n, w), <<Below(st), Last(st).state, x, w>> \in Known,
           Reduces(Tables, Order(Last(st).state, x)),
           NEW r \in 1..Tables.nrule, r = RuleOf(Tables, Order(Last(st).state, x)),
           NEW rest, rest = SubSeq(st, 1, Len(st) - RhsLength(Tables, r)), Lowered(st, rest, r),
           NEW v, v = Operand(SubSeq(st, Len(st) - RhsLength(Tables, r) + 1, Len(st))),
           NEW on, on # <<>>,
           on = Pushed(rest, Order(Last(rest).state, Grammar[r].lhs), Grammar[r].lhs, v)
    PROVE  LET op == Grammar[r].queues IN
           Means(on, IF op = "nothing" THEN insts ELSE Append(insts, [op |-> op, value |-> v]), tokens, n, w)
  <1> DEFINE op == Grammar[r].queues
             more == IF op = "nothing" THEN insts ELSE Append(insts, [op |-> op, value |-> v])
  <1>1. SaidSoFar(on, more, MeaningTo(tokens, n))
    BY SaidReduce
  <1>2. Last(on).symbol \notin TokenKinds
    <2>1. Spelt(Tables, rest) /\ Holds(Last(rest).state, r, 0)
      BY DEF Lowered
    <2>2. IsSeq(rest) /\ Last(rest).state \in Tables.states
      BY <2>1, Tabled, SpeltStates DEF Spelt
    <2>3. Grammar[r].lhs \notin TokenKinds
      BY <2>1, <2>2, OnRule, KindsAreTokens
    <2> DEFINE lhs == Grammar[r].lhs
               t == Order(Last(rest).state, lhs)
    <2>4. on = Pushed(rest, t, lhs, v)
      OBVIOUS
    <2> HIDE DEF t, lhs
    <2>5. Enters(rest, on, Entry(t, lhs, v))
      BY <2>2, <2>4, PushedEnters, SMTT(30)
    <2>6. Last(on).symbol = lhs
      BY <2>5 DEF Enters, Entry
    <2> QED
      BY <2>3, <2>6 DEF lhs
  <1>3. Told(tokens, n, w)
    BY SMTT(30) DEF Means
  <1> HIDE DEF more
  <1>4. Means(on, more, tokens, n, w)
    BY <1>1, <1>2, <1>3 DEF Means
  <1> QED
    BY <1>4 DEF more
-----------------------------------------------------------------------------
(* What the tokens mean, when one more is there.  Only of QUERY does the   *)
(* token behind it decide.                                                 *)
LEMMA OpKept ==
    ASSUME NEW tokens, IsSeq(tokens), NEW token, NEW i \in 1..Len(tokens),
           i = Len(tokens) => tokens[i].kind # "QUERY"
    PROVE  Meant(Append(tokens, token), i) = Meant(tokens, i)
  <1> DEFINE on == Append(tokens, token)
  <1>1. Len(tokens) \in Nat /\ Len(on) = Len(tokens) + 1 /\ \A j \in 1..Len(tokens) : on[j] = tokens[j]
    BY SeqFacts, AppendFacts
  <1> HIDE DEF on
  <1>2. \A j \in 1..i : on[j] = tokens[j]
    BY <1>1
  <1>3. on[i] = tokens[i]
    BY <1>1
  <1>4. i # 1 => on[i - 1] = tokens[i - 1]
    <2>1. i # 1 => i - 1 \in 1..i
      OBVIOUS
    <2> QED
      BY <1>2, <2>1
  <1>5. i > 2 => on[i - 2] = tokens[i - 2]
    <2>1. i > 2 => i - 2 \in 1..i
      OBVIOUS
    <2> QED
      BY <1>2, <2>1
  <1>6. i > 3 => on[i - 3] = tokens[i - 3]
    <2>1. i > 3 => i - 3 \in 1..i
      OBVIOUS
    <2> QED
      BY <1>2, <2>1
  <1>7. (\E j \in 1..i : on[j].kind = "CATALOGUE") <=> (\E j \in 1..i : tokens[j].kind = "CATALOGUE")
    BY <1>2
  <1>8. tokens[i].kind = "QUERY" =>
           (i < Len(on) /\ on[i + 1].kind = "COLS" <=> i < Len(tokens) /\ tokens[i + 1].kind = "COLS")
    <2> SUFFICES ASSUME tokens[i].kind = "QUERY"
                 PROVE  i < Len(on) /\ on[i + 1].kind = "COLS" <=> i < Len(tokens) /\ tokens[i + 1].kind = "COLS"
      OBVIOUS
    <2>1. i < Len(tokens) /\ i < Len(on) /\ i + 1 \in 1..Len(tokens)
      BY <1>1
    <2>2. on[i + 1] = tokens[i + 1]
      BY <1>1, <2>1
    <2> QED
      BY <2>1, <2>2
  <1>9. OpMeant(on, i) = OpMeant(tokens, i)
    BY <1>3, <1>4, <1>5, <1>6, <1>7, <1>8 DEF OpMeant
  <1> QED
    BY <1>3, <1>9 DEF Meant, on

LEMMA SaidKept ==
    ASSUME NEW tokens, IsSeq(tokens), NEW token, NEW n \in 0..Len(tokens),
           n \in 1..Len(tokens) /\ n = Len(tokens) => tokens[n].kind # "QUERY"
    PROVE  MeaningTo(Append(tokens, token), n) = MeaningTo(tokens, n)
  <1> DEFINE on == Append(tokens, token)
  <1>1. Len(tokens) \in Nat
    BY SeqFacts
  <1>2. ASSUME NEW i \in 1..n PROVE Meant(on, i) = Meant(tokens, i)
    <2>1. i \in 1..Len(tokens)
      BY <1>1
    <2>2. i = Len(tokens) => n = i
      BY <1>1
    <2> QED
      BY <2>1, <2>2, OpKept
  <1> HIDE DEF on
  <1>3. [i \in 1..n |-> Meant(on, i)] = [i \in 1..n |-> Meant(tokens, i)]
    BY <1>2
  <1> QED
    BY <1>3 DEF MeaningTo, on

LEMMA ToldKept ==
    ASSUME NEW tokens, IsSeq(tokens), NEW token, NEW w, Told(tokens, Len(tokens), w)
    PROVE  Told(Append(tokens, token), Len(tokens), w)
  <1> DEFINE on == Append(tokens, token)
  <1>1. PICK n : n = Len(tokens)
    OBVIOUS
  <1>2. n \in Nat /\ \A j \in 1..n : on[j] = tokens[j]
    BY <1>1, SeqFacts, AppendFacts
  <1> HIDE DEF on
  <1>3. /\ n >= 1 => on[n] = tokens[n]
        /\ n >= 2 => on[n - 1] = tokens[n - 1]
        /\ n >= 3 => on[n - 2] = tokens[n - 2]
    <2>1. /\ n >= 1 => n \in 1..n
          /\ n >= 2 => n - 1 \in 1..n
          /\ n >= 3 => n - 2 \in 1..n
      BY <1>2
    <2> QED
      BY <1>2, <2>1
  <1>4. (\A j \in 1..n : on[j].kind # "CATALOGUE") <=> \A j \in 1..n : tokens[j].kind # "CATALOGUE"
    BY <1>2
  <1>5. Told(tokens, n, w)
    BY <1>1
  <1>6. Told(on, n, w)
    BY <1>3, <1>4, <1>5 DEF Told
  <1> QED
    BY <1>1, <1>6 DEF on

LEMMA SaidDeliver ==
    ASSUME NEW st, NEW insts, IsSeq(insts), NEW tokens, IsSeq(tokens), NEW token, NEW w,
           Told(tokens, Len(tokens), w), SaidSoFar(st, insts, MeaningTo(tokens, Len(tokens))),
           <<Below(st), Last(st).state, NoToken, w>> \in Known
    PROVE  SaidSoFar(st, insts, MeaningTo(Append(tokens, token), Len(tokens)))
  <1> DEFINE on == Append(tokens, token)
             n == Len(tokens)
             k == <<Below(st), Last(st).state, NoToken, w>>
  <1>1. n \in Nat
    BY SeqFacts
  <1>2. Told(on, n, w)
    BY ToldKept
  <1>3. CASE w # "query"
    <2>1. n \in 1..n => tokens[n].kind # "QUERY"
      BY <1>3 DEF Told
    <2>2. MeaningTo(on, n) = MeaningTo(tokens, n)
      BY <1>1, <2>1, SaidKept
    <2> QED
      BY <2>2
  <1>4. CASE w = "query"
    <2>1. Owing(st) = Beginning
      <3>1. k[1] = Below(st) /\ k[2] = Last(st).state /\ k[3] = NoToken /\ k[4] = w /\ k \in Known
        OBVIOUS
      <3> HIDE DEF k
      <3> QED
        BY <1>4, <3>1, OwesKnown DEF Owes, Owing
    <2> HIDE DEF on, n
    <2>2. Told(tokens, n, "query") /\ Told(on, n, "query")
      BY <1>2, <1>4 DEF n
    <2> DEFINE before == MeaningTo(tokens, n - 1)
               said == MeaningTo(tokens, n)
               more == MeaningTo(on, n)
    <2>3. n >= 1
      BY <2>2 DEF Told
    <2>4. IsSeq(before) /\ said = Append(before, Instruction(tokens, n))
      BY <1>1, <2>2, QueryLast
    <2>5. /\ more = Append(MeaningTo(on, n - 1), Instruction(on, n))
          /\ more[Len(more)].op \in Begins
      BY <1>1, <2>2, QueryLast DEF Begins
    <2>6. MeaningTo(on, n - 1) = before
      <3>1. n - 1 \in 0..Len(tokens) /\ n - 1 # Len(tokens)
        BY <1>1, <2>3 DEF n
      <3> QED
        BY <3>1, SaidKept DEF on
    <2> HIDE DEF before, said, more
    <2>7. /\ Len(said) = Len(before) + 1 /\ Len(more) = Len(before) + 1
          /\ \A i \in 1..Len(before) : said[i] = before[i] /\ more[i] = before[i]
      BY <2>4, <2>5, <2>6, AppendFacts
    <2>8. SaidSoFar(st, insts, said)
      BY DEF n, said
    <2>9. PICK o \in Beginning : Expects(st, insts, said, o)
      BY <2>1, <2>8 DEF SaidSoFar, Beginning, Begins
    <2>10. Len(said) = Len(insts) + 1 /\ Agree(insts, said) /\ 0 < Len(st)
      <3>1. o[2] = 0
        BY DEF Beginning
      <3> QED
        BY <2>9, <3>1 DEF Expects
    <2>11. Len(insts) = Len(before) /\ DOMAIN insts = 1..Len(before)
      <3>1. Len(insts) \in Nat /\ DOMAIN insts = 1..Len(insts) /\ Len(before) \in Nat
        BY <2>4, SeqFacts
      <3> QED
        BY <2>7, <2>10, <3>1
    <2>12. Agree(insts, more)
      BY <2>7, <2>10, <2>11 DEF Agree
    <2> DEFINE op == more[Len(more)].op
               p == <<op, 0>>
    <2>13. p \in Beginning /\ p[1] = op /\ p[2] = 0
      BY <2>5 DEF Beginning
    <2>14. ~HasValue(op)
      BY <2>5 DEF Begins, HasValue, Regexp
    <2> HIDE DEF p
    <2>15. Expects(st, insts, more, p)
      BY <2>7, <2>10, <2>11, <2>12, <2>13, <2>14 DEF Expects
    <2>16. SaidSoFar(st, insts, more)
      BY <2>1, <2>13, <2>15 DEF SaidSoFar
    <2> QED
      BY <2>16 DEF more, on, n
  <1> QED
    BY <1>3, <1>4

LEMMA MeansDeliver ==
    ASSUME NEW st, NEW insts, IsSeq(insts), NEW tokens, IsSeq(tokens), NEW token, NEW w,
           Means(st, insts, tokens, Len(tokens), w), <<Below(st), Last(st).state, NoToken, w>> \in Known
    PROVE  Means(st, insts, Append(tokens, token), Len(tokens), w)
  <1>1. PICK on, n : on = Append(tokens, token) /\ n = Len(tokens)
    OBVIOUS
  <1>2. Told(on, n, w)
    BY <1>1, ToldKept DEF Means
  <1>3. SaidSoFar(st, insts, MeaningTo(on, n))
    BY <1>1, SaidDeliver DEF Means
  <1>4. n >= 1 => on[n] = tokens[n]
    BY <1>1, SeqFacts, AppendFacts
  <1>5. Means(st, insts, tokens, n, w)
    BY <1>1
  <1>6. Means(st, insts, on, n, w)
    BY <1>2, <1>3, <1>4, <1>5 DEF Means
  <1> QED
    BY <1>1, <1>6

LEMMA MeansStart ==
    ASSUME NEW tokens
    PROVE  Means(<<Bottom>>, <<>>, tokens, 0, "start")
  <1>1. Len(<<Bottom>>) = 1 /\ Last(<<Bottom>>).state = 0
    BY SpeltBottom
  <1>2. Owing(<<Bottom>>) = {}
    BY <1>1, QueryTables DEF KnowsInstructions, Owing, Below
  <1>3. Agree(<<>>, <<>>)
    BY EmptyIsSeq, SeqFacts DEF Agree
  <1>4. SaidSoFar(<<Bottom>>, <<>>, MeaningTo(tokens, 0))
    BY <1>2, <1>3, MeaningNone DEF SaidSoFar, Matches
  <1> QED
    BY <1>1, <1>4, ToldStart DEF Means
-----------------------------------------------------------------------------
(* Behind the condition of a query that has begun at the bottom of the     *)
(* stack, no group is open.                                                *)
LEMMA QueryBegins ==
    ASSUME NEW st, Spelt(Tables, st), Holds(Last(st).state, QueryRule, 5)
    PROVE  Groups(st, Len(st)) = 0
  <1> DEFINE m == Len(st)
  <1>1. /\ m \in Nat \ {0} /\ m \in 1..Len(st) /\ Last(st) = st[m]
        /\ \A i \in 1..m : st[i].state \in Tables.states
        /\ \A i \in 2..m : st[i].state # 0
    BY Tabled, SpeltStates, SMTT(30)
  <1>2. /\ QueryRule \in 1..Tables.nrule /\ QueryRule # ParenRule
        /\ RhsLength(Tables, QueryRule) = 6
    BY ParenFacts, Tabled, QueryTables DEF GroupsAreRules, Rules
  <1>3. /\ 5 < m
        /\ \A e \in 0..5 : Holds(st[m - e].state, QueryRule, 5 - e)
        /\ \A e \in 0..4 : st[m - e].symbol = Tables.rules[QueryRule].rhs[5 - e]
    <2>1. SpellsBack(Tables, st, m, QueryRule, 5)
      BY <1>1, <1>2, RuleSpelt
    <2> QED
      BY <2>1 DEF SpellsBack, Holds
  <1>4. m = 6
    <2>1. Holds(st[m - 5].state, QueryRule, 5 - 5)
      BY <1>3
    <2>0. m \in Nat /\ 5 < m
      BY <1>1, <1>3
    <2> HIDE DEF m
    <2>2. m - 5 \in 1..m
      BY <2>0
    <2>3. st[m - 5].state = 0
      BY <1>1, <2>1, <2>2, QueryTables DEF GroupsAreSpelt
    <2>4. m - 5 \notin 2..m
      BY <1>1, <2>3
    <2> QED
      BY <2>0, <2>2, <2>4
  <1> HIDE DEF m
  <1>5. ASSUME NEW i \in (0 + 1)..(0 + 6) PROVE Weight(st[i].symbol) = 0
    <2>1. CASE i = 1
      BY <2>1 DEF Spelt, Weight
    <2>2. CASE i \in 2..6
      <3>1. 6 - i \in 0..4 /\ 6 - (6 - i) = i /\ 5 - (6 - i) = i - 1
        BY <2>2
      <3>2. st[i].symbol = Tables.rules[QueryRule].rhs[i - 1]
        BY <1>3, <1>4, <3>1
      <3>3. i - 1 \in 1..RhsLength(Tables, QueryRule)
        BY <2>2, <1>2, Tabled
      <3> QED
        BY <3>2, <3>3, <1>2, ParenFacts
    <2> QED
      BY <2>1, <2>2
  <1>6. Groups(st, 0 + 6) = Groups(st, 0)
    BY <1>5, GroupsFlat
  <1>7. Groups(st, 0) = 0
    BY GroupsStep
  <1> QED
    BY <1>4, <1>6, <1>7 DEF m

Prefix(insts, said) == Len(insts) <= Len(said) /\ Agree(insts, said)
LEMMA MeansPrefix ==
    ASSUME NEW st, NEW insts, IsSeq(insts), NEW said, SaidSoFar(st, insts, said)
    PROVE  Prefix(insts, said)
  <1>1. Len(insts) \in Nat
    BY SeqFacts
  <1>2. CASE Matches(insts, said)
    BY <1>1, <1>2 DEF Matches, Prefix
  <1>3. ASSUME NEW o, Expects(st, insts, said, o) PROVE Prefix(insts, said)
    BY <1>1, <1>3 DEF Expects, Prefix
  <1> QED
    BY <1>2, <1>3 DEF SaidSoFar
-----------------------------------------------------------------------------
(* What each pass of Parse does to what was said.                          *)
LEMMA OnReduce ==
    ASSUME ParserInv, ParseReduce, ~lost', parser.major \in TokenKinds \cup {"EOQUERY"},
           NEW at, Knows(parser.stack, parser.major, at),
           NEW n \in Nat, n < Len(fed) /\ fed[n + 1].kind = "COLS" <=> parser.major = "COLS",
           Means(parser.stack, queued, fed, n, at[1])
    PROVE  /\ parser'.stack # <<>> /\ parser'.major = parser.major /\ parser'.minor = parser.minor
           /\ Knows(parser'.stack, parser.major, at)
           /\ Means(parser'.stack, queued', fed, n, at[1])
  <1> DEFINE x == parser.major
             st == parser.stack
             on == parser'.stack
             r == RuleOrdered
             rest == Popped(Tables, parser, r)
             lhs == Grammar[r].lhs
             t == Order(Last(rest).state, lhs)
  <1>1. /\ Reducing /\ Parsing(parser)
        /\ queued' = IF Opcode = "nothing" THEN queued
                     ELSE Append(queued, [op |-> Opcode, value |-> Argument])
    BY DEF ParseReduce, Reducing
  <1>2. /\ \/ t \in Tables.states /\ Grown(rest, on, lhs, t)
           \/ t = AcceptAction(Tables) /\ t \notin Tables.states /\ on = <<>>
        /\ t \in Tables.states => on = Pushed(rest, t, lhs, Argument)
        /\ parser'.major = x /\ parser'.minor = parser.minor
        /\ lost' = (lost \/ (on = <<>> /\ t # AcceptAction(Tables)))
    BY ReduceKeeps
  <1>3. Spelt(Tables, st) /\ st # <<>> /\ TopState(parser) = Last(st).state
    BY <1>1, Looking
  <1>4. /\ r \in 1..Tables.nrule
        /\ r = RuleOf(Tables, Order(Last(st).state, x)) /\ Reduces(Tables, Order(Last(st).state, x))
        /\ Lowered(st, rest, r)
    BY <1>1, <1>3, RuleOnStack
  <1>5. x # NoToken
    BY KindsAreTokens
  <1>6. /\ t \in Tables.states
        /\ on # <<>> /\ Grown(rest, on, lhs, t) => Knows(on, x, at)
    BY <1>3, <1>4, KnowsReduce
  <1>7. t # AcceptAction(Tables)
    BY <1>6, Tabled
  <1>8. on # <<>>
    <2> HIDE DEF on, t
    <2> QED
      BY <1>2, <1>7
  <1>9. Knows(on, x, at) /\ on = Pushed(rest, t, lhs, Argument)
    <2> HIDE DEF on, t, rest, lhs
    <2> QED
      BY <1>2, <1>6, <1>7, <1>8
  <1>10. /\ rest = SubSeq(st, 1, Len(st) - RhsLength(Tables, r))
         /\ Argument = Operand(SubSeq(st, Len(st) - RhsLength(Tables, r) + 1, Len(st)))
         /\ IsSeq(queued)
    BY DEF Popped, Argument, Handle, RhsLength, ParserInv
  <1>11. <<Below(st), Last(st).state, x, at[1]>> \in Known
    BY DEF Knows
  <1>12. Means(on, IF Grammar[r].queues = "nothing" THEN queued
                   ELSE Append(queued, [op |-> Grammar[r].queues, value |-> Argument]), fed, n, at[1])
    <2>1. PICK p, q, v, w : p = rest /\ q = r /\ v = Argument /\ w = at[1]
      OBVIOUS
    <2>2. on = Pushed(p, Order(Last(p).state, Grammar[q].lhs), Grammar[q].lhs, v)
      BY <1>9, <2>1
    <2> HIDE DEF on, rest, r, st, x, t, lhs
    <2>3. /\ q \in 1..Tables.nrule /\ q = RuleOf(Tables, Order(Last(st).state, x))
          /\ p = SubSeq(st, 1, Len(st) - RhsLength(Tables, q)) /\ Lowered(st, p, q)
          /\ v = Operand(SubSeq(st, Len(st) - RhsLength(Tables, q) + 1, Len(st)))
          /\ <<Below(st), Last(st).state, x, w>> \in Known
      BY <1>4, <1>10, <1>11, <2>1
    <2>4. Means(st, queued, fed, n, w) /\ (n < Len(fed) /\ fed[n + 1].kind = "COLS" <=> x = "COLS")
      BY <2>1 DEF st, x
    <2>5. Means(on, IF Grammar[q].queues = "nothing" THEN queued
                    ELSE Append(queued, [op |-> Grammar[q].queues, value |-> v]), fed, n, w)
      BY <1>3, <1>4, <1>5, <1>8, <1>10, <2>2, <2>3, <2>4, MeansReduce
    <2> QED
      BY <2>1, <2>5
  <1>13. Means(on, queued', fed, n, at[1])
    BY <1>1, <1>12 DEF Opcode
  <1> QED
    BY <1>2, <1>8, <1>9, <1>13

LEMMA OnShift ==
    ASSUME ParserInv, ParseShift, ~lost', phase = "token", Knows(parser.stack, parser.major, ReadingBefore),
           Means(parser.stack, queued, fed, Len(fed) - 1, ReadingBefore[1]),
           parser.minor = fed[Len(fed)].value
    PROVE  parser'.major = NoToken /\ Means(parser'.stack, queued, fed, Len(fed), Reading[1])
  <1> DEFINE x == parser.major
             st == parser.stack
             on == parser'.stack
             a == Order(Last(st).state, x)
  <1>1. Parsing(parser) /\ Ordered(Tables, parser) < Tables.nstate
    BY DEF ParseShift
  <1>2. Spelt(Tables, st) /\ st # <<>> /\ TopState(parser) = Last(st).state
    BY <1>1, Looking
  <1>3. /\ a \in Tables.states /\ Grown(st, on, x, a)
        /\ on = Pushed(st, a, x, parser.minor)
        /\ parser'.major = IF x = "$" /\ on # <<>> THEN "$" ELSE NoToken
        /\ lost' = (lost \/ on = <<>>)
    BY <1>2, ShiftKeeps
  <1>4. on # <<>>
    BY <1>3
  <1>5. x \in TokenKinds /\ x # "$" /\ Reading = Advance(ReadingBefore, x)
    BY <1>1, LookedAt, KindsAreTokens
  <1>6. fed # <<>> /\ IsSeq(fed) /\ IsSeq(queued) /\ x = fed[Len(fed)].kind
    BY <1>1, <1>5, KindsAreTokens DEF ParserInv, LooksAt
  <1>7. PICK n \in Nat : n + 1 = Len(fed)
    <2>1. PICK m : m = Len(fed)
      OBVIOUS
    <2>2. m \in Nat \ {0}
      BY <1>6, <2>1, SeqFacts
    <2>3. m - 1 \in Nat /\ (m - 1) + 1 = m
      BY <2>2
    <2> QED
      BY <2>1, <2>3, Zenon
  <1>8. n = Len(fed) - 1
    BY <1>7
  <1>9. Means(st, queued, fed, n, ReadingBefore[1])
    BY <1>8
  <1> HIDE DEF st, x, on, a
  <1>10. fed[n + 1].kind = x /\ fed[n + 1].value = parser.minor
    BY <1>6, <1>7
  <1>11. Knows(st, x, ReadingBefore)
    BY DEF st, x
  <1>12. Means(on, queued, fed, n + 1, Advance(ReadingBefore, x)[1])
    <2>1. PICK v, at : v = parser.minor /\ at = ReadingBefore
      OBVIOUS
    <2>2. /\ on = Pushed(st, Order(Last(st).state, x), x, v)
          /\ Grown(st, on, x, Order(Last(st).state, x)) /\ Order(Last(st).state, x) \in Tables.states
      BY <1>3, <2>1 DEF a
    <2>3. Means(on, queued, fed, n + 1, Advance(at, x)[1])
      BY <1>2, <1>4, <1>5, <1>6, <1>7, <1>9, <1>10, <1>11, <2>1, <2>2, MeansShift
    <2> QED
      BY <2>1, <2>3
  <1>13. parser'.major = NoToken
    BY <1>3, <1>5
  <1> QED
    BY <1>5, <1>7, <1>12, <1>13 DEF on

\* EOQUERY is shifted behind a whole query ...
LEMMA OnEndShift ==
    ASSUME ParserInv, ParseShift, ~lost', phase = "eoquery", Knows(parser.stack, "EOQUERY", Reading),
           Means(parser.stack, queued, fed, Len(fed), Reading[1])
    PROVE  /\ Sentence /\ Matches(queued, Meaning)
           /\ parser'.major = NoToken /\ parser'.stack # <<>> /\ Last(parser'.stack).state \in EndStates
  <1> DEFINE st == parser.stack
             on == parser'.stack
             a == Order(Last(st).state, "EOQUERY")
             k == <<Below(st), Last(st).state, "EOQUERY", Reading[1]>>
  <1>1. Parsing(parser) /\ Ordered(Tables, parser) < Tables.nstate
    BY DEF ParseShift
  <1>2. /\ Spelt(Tables, st) /\ st # <<>> /\ TopState(parser) = Last(st).state
        /\ Last(st).state \in Tables.states
    BY <1>1, Looking
  <1>3. parser.major = "EOQUERY" /\ "EOQUERY" # "$"
    BY <1>1 DEF ParserInv, LooksAt
  <1>4. /\ a \in Tables.states /\ on = Pushed(st, a, "EOQUERY", parser.minor)
        /\ parser'.major = NoToken /\ lost' = (lost \/ on = <<>>)
    BY <1>2, <1>3, ShiftKeeps
  <1>5. on # <<>> /\ Last(on).state = a
    <2>1. on # <<>>
      BY <1>4
    <2>2. PICK b, v : b = a /\ v = parser.minor
      OBVIOUS
    <2> HIDE DEF on, st, a
    <2>3. on = Pushed(st, b, "EOQUERY", v) /\ IsSeq(st)
      BY <1>2, <1>4, <2>2 DEF Spelt
    <2>4. Enters(st, on, Entry(b, "EOQUERY", v))
      BY <2>1, <2>3, PushedEnters
    <2>5. Last(on).state = b
      BY <2>4 DEF Enters, Entry
    <2> QED
      BY <2>1, <2>2, <2>5
  <1>6. a \in EndStates
    BY <1>2, <1>4 DEF EndStates
  <1>7. k[1] = Below(st) /\ k[2] = Last(st).state /\ k[3] = "EOQUERY" /\ k[4] = Reading[1]
    OBVIOUS
  <1>8. k \in Known
    BY DEF Knows
  <1> HIDE DEF k
  <1>9. Reading[1] \in Condition /\ Opens(Last(st).state) = 0 /\ Holds(Last(st).state, QueryRule, 5)
    BY <1>4, <1>7, <1>8, KnownClosed DEF Agrees
  <1>10. Owing(st) = {}
    BY <1>4, <1>7, <1>8, OwesKnown DEF Owes, Owing
  <1>11. Groups(st, Len(st)) = 0
    BY <1>2, <1>9, QueryBegins
  <1>12. Reading[2] = 0
    BY <1>9, <1>11 DEF Knows
  <1>13. Matches(queued, Meaning)
    BY <1>10 DEF Means, SaidSoFar, Meaning
  <1> QED
    BY <1>4, <1>5, <1>6, <1>9, <1>12, <1>13 DEF Sentence

\* ... and is an error behind anything else.
LEMMA OnEndError ==
    ASSUME ParserInv, ParseError, phase = "eoquery", Knows(parser.stack, "EOQUERY", Reading),
           Means(parser.stack, queued, fed, Len(fed), Reading[1])
    PROVE  ~Sentence /\ Prefix(queued, Meaning) /\ parser'.stack = <<>> /\ failed'
  <1> DEFINE st == parser.stack
             s == Last(st).state
             k == <<Below(st), s, "EOQUERY", Reading[1]>>
  <1>1. Parsing(parser) /\ Ordered(Tables, parser) = ErrorAction(Tables)
    BY DEF ParseError
  <1>2. /\ Spelt(Tables, st) /\ st # <<>> /\ TopState(parser) = s
        /\ s \in Tables.states
        /\ Order(s, parser.major) = ErrorAction(Tables)
    BY <1>1, Looking
  <1>3. Order(s, "EOQUERY") = ErrorAction(Tables)
    BY <1>1, <1>2 DEF ParserInv, LooksAt
  <1>4. k[1] = Below(st) /\ k[2] = s /\ k[3] = "EOQUERY" /\ k[4] = Reading[1]
    OBVIOUS
  <1>5. k \in Known
    BY DEF Knows
  <1> HIDE DEF k
  <1>6. Reading[1] \in Condition => Opens(s) = 0 /\ Holds(s, ParenRule, 2)
    BY <1>3, <1>4, <1>5, KnownClosed DEF Agrees
  <1>7. ~Sentence
    <2> SUFFICES ASSUME Sentence PROVE FALSE
      OBVIOUS
    <2>1. Opens(s) = 0 /\ Holds(s, ParenRule, 2) /\ Reading[2] = 0
      BY <1>6 DEF Sentence
    <2>2. Len(st) \in 1..Len(st) /\ Last(st) = st[Len(st)]
      BY <1>2, Tabled, SpeltStates
    <2>3. Groups(st, Len(st)) >= 1
      BY <1>2, <2>1, <2>2, InGroup
    <2>4. Reading[2] = Groups(st, Len(st)) + Opens(s) /\ Groups(st, Len(st)) \in Nat
      BY <1>2, CountedOpen DEF Knows
    <2> HIDE DEF st, s
    <2> QED
      BY <2>1, <2>3, <2>4
  <1>8. Prefix(queued, Meaning)
    BY MeansPrefix DEF Means, Meaning, ParserInv
  <1> QED
    BY <1>7, <1>8, ErrorKeeps
-----------------------------------------------------------------------------
(* What is queued, while no stack has been emptied: what was said so far,  *)
(* and at the end of a whole query all of it.                              *)
SaidInv ==
    ~lost =>
       /\ phase = "read" =>
             IF fed = <<>> THEN queued = <<>> ELSE Means(parser.stack, queued, fed, Len(fed), Reading[1])
       /\ phase = "token" /\ parser.stack # <<>> =>
             IF parser.major = NoToken THEN Means(parser.stack, queued, fed, Len(fed), Reading[1])
             ELSE /\ parser.minor = fed[Len(fed)].value
                  /\ Means(parser.stack, queued, fed, Len(fed) - 1, ReadingBefore[1])

Endq == [op |-> "ENDQ", value |-> "none"]
Whole(insts, said) == Matches(insts, Append(said, Endq))
Reduced == {Order(0, "query"), Order(0, "command")}
Closing(p, insts, said) ==
    \/ p.stack # <<>> /\ p.major = "$" /\ Last(p.stack).state \in EndStates /\ Matches(insts, said)
    \/ /\ p.stack # <<>> => p.major = "$" /\ Len(p.stack) = 2 /\ Last(p.stack).state \in Reduced
       /\ Whole(insts, said)
Ended ==
    IF Sentence THEN Whole(queued, Meaning) ELSE failed /\ Prefix(queued, Meaning)
EndInv ==
    ~lost =>
       /\ phase = "eoquery" =>
             IF Parsing(parser)
             THEN Knows(parser.stack, "EOQUERY", Reading) /\ Means(parser.stack, queued, fed, Len(fed), Reading[1])
             ELSE IF Sentence
             THEN parser.stack # <<>> /\ Last(parser.stack).state \in EndStates /\ Matches(queued, Meaning)
             ELSE parser.stack = <<>> /\ failed /\ Prefix(queued, Meaning)
       /\ phase = "end" =>
             IF Sentence THEN Closing(parser, queued, Meaning)
             ELSE failed /\ Prefix(queued, Meaning) /\ (parser.stack # <<>> => Len(parser.stack) = 1)
       /\ phase = "parsed" => Ended

LEMMA SaidElsewhere ==
    ASSUME phase' \notin {"read", "token"}
    PROVE  SaidInv'
  BY DEF SaidInv

LEMMA SaidKeptOn ==
    ASSUME SaidInv, UNCHANGED <<parser, queued, fed, phase, lost>>
    PROVE  SaidInv'
  <1>1. Reading' = Reading /\ ReadingBefore' = ReadingBefore
    BY FedKept
  <1> QED
    BY <1>1 DEF SaidInv

LEMMA SaidOnDeliver ==
    ASSUME ParserInv, ReadInv, SaidInv, NEW kind \in TokenKinds, NEW value, Deliver(kind, value), phase = "read"
    PROVE  SaidInv'
  <1> DEFINE token == [kind |-> kind, value |-> value]
  <1>1. /\ parser' = Fed(parser, kind, value) /\ fed' = Append(fed, token) /\ phase' = "token"
        /\ UNCHANGED <<queued, lost>>
    BY DEF Deliver
  <1>2. token.value = value
    OBVIOUS
  <1> HIDE DEF token
  <1>3. /\ parser'.stack = IF parser.stack = <<>> THEN <<Bottom>> ELSE parser.stack
        /\ parser'.major = kind /\ parser'.minor = value
    BY <1>1, FedKeeps
  <1>4. IsSeq(fed) /\ IsSeq(queued)
    BY DEF ParserInv
  <1>5. /\ ReadingOf(fed')[Len(fed') - 1] = ReadingOf(fed)[Len(fed)]
        /\ fed = <<>> => ReadingOf(fed')[Len(fed') - 1] = <<"start", 0>>
    BY <1>1, <1>4, ReadingOn
  <1>6. ReadingBefore' = ReadingOf(fed')[Len(fed') - 1]
    BY DEF ReadingBefore
  <1>7. parser'.major # NoToken
    BY <1>3, KindsAreTokens
  <1>8. fed'[Len(fed')] = token /\ Len(fed') - 1 = Len(fed)
    <2>1. PICK n : n = Len(fed)
      OBVIOUS
    <2>2. n \in Nat /\ Len(fed') = n + 1 /\ fed'[n + 1] = token
      BY <1>1, <1>4, <2>1, SeqFacts, AppendFacts
    <2>3. (n + 1) - 1 = n
      BY <2>2
    <2> QED
      BY <2>1, <2>2, <2>3
  <1>9. ~lost => Means(parser'.stack, queued, fed', Len(fed), ReadingBefore'[1])
    <2> SUFFICES ASSUME ~lost PROVE Means(parser'.stack, queued, fed', Len(fed), ReadingBefore'[1])
      OBVIOUS
    <2>1. CASE fed = <<>>
      <3>1. parser.stack = <<>> /\ queued = <<>> /\ Len(fed) = 0
        BY <1>4, <2>1, SeqFacts DEF ReadInv, SaidInv
      <3>2. parser'.stack = <<Bottom>> /\ ReadingBefore'[1] = "start"
        BY <1>3, <1>5, <1>6, <2>1, <3>1
      <3> QED
        BY <3>1, <3>2, MeansStart
    <2>2. CASE fed # <<>>
      <3>1. parser.stack # <<>> /\ Knows(parser.stack, NoToken, Reading)
        BY <2>2 DEF ReadInv
      <3>2. Means(parser.stack, queued, fed, Len(fed), Reading[1])
        BY <2>2 DEF SaidInv
      <3>3. parser'.stack = parser.stack /\ ReadingBefore' = Reading
        BY <1>3, <1>5, <1>6, <3>1 DEF Reading
      <3>4. Means(parser.stack, queued, Append(fed, token), Len(fed), Reading[1])
        BY <1>4, <3>1, <3>2, MeansDeliver DEF Knows
      <3> QED
        BY <1>1, <3>3, <3>4
    <2> QED
      BY <2>1, <2>2
  <1> QED
    BY <1>1, <1>2, <1>3, <1>7, <1>8, <1>9 DEF SaidInv

LEMMA SaidOnLooked ==
    ASSUME ParserInv, ReadInv, SaidInv, Looked
    PROVE  SaidInv'
  <1>1. /\ phase = "token" /\ ~Parsing(parser)
        /\ phase' = IF failed THEN "refused" ELSE "read"
        /\ UNCHANGED <<parser, queued, fed, lost>>
    BY DEF Looked
  <1>2. CASE failed
    BY <1>1, <1>2, SaidElsewhere
  <1>3. CASE ~failed
    <2>1. fed # <<>>
      BY <1>1 DEF ParserInv
    <2>2. ~lost => parser.stack # <<>> /\ parser.major = NoToken
      BY <1>1, <1>3 DEF ReadInv, Parsing
    <2>3. ~lost => Means(parser.stack, queued, fed, Len(fed), Reading[1])
      BY <1>1, <2>2 DEF SaidInv
    <2>4. Reading' = Reading
      BY <1>1, FedKept
    <2> QED
      BY <1>1, <1>3, <2>1, <2>3, <2>4 DEF SaidInv
  <1> QED
    BY <1>2, <1>3

LEMMA SaidOnShift ==
    ASSUME ParserInv, ReadInv, SaidInv, ParseShift
    PROVE  SaidInv'
  <1>1. Parsing(parser) /\ UNCHANGED <<fed, phase, queued>>
    BY DEF ParseShift
  <1>2. phase # "read"
    BY <1>1 DEF ParserInv, LooksAt
  <1>3. CASE phase # "token"
    BY <1>1, <1>2, <1>3, SaidElsewhere
  <1>4. CASE phase = "token" /\ ~lost'
    <2>1. ~lost
      BY <1>4, ShiftKeeps
    <2>2. parser.stack # <<>> /\ parser.major # NoToken
      BY <1>1 DEF Parsing
    <2>3. Knows(parser.stack, parser.major, ReadingBefore)
      BY <1>4, <2>1, <2>2 DEF ReadInv
    <2>4. /\ parser.minor = fed[Len(fed)].value
          /\ Means(parser.stack, queued, fed, Len(fed) - 1, ReadingBefore[1])
      BY <1>4, <2>1, <2>2 DEF SaidInv
    <2>5. parser'.major = NoToken /\ Means(parser'.stack, queued, fed, Len(fed), Reading[1])
      BY <1>4, <2>3, <2>4, OnShift
    <2>6. Reading' = Reading
      BY <1>1, FedKept
    <2> QED
      BY <1>1, <1>4, <2>5, <2>6 DEF SaidInv
  <1>5. CASE phase = "token" /\ lost'
    BY <1>5 DEF SaidInv
  <1> QED
    BY <1>3, <1>4, <1>5

LEMMA SaidOnReduce ==
    ASSUME ParserInv, ReadInv, SaidInv, ParseReduce
    PROVE  SaidInv'
  <1>1. Parsing(parser) /\ UNCHANGED <<fed, phase>>
    BY DEF ParseReduce, Reducing
  <1>2. phase # "read"
    BY <1>1 DEF ParserInv, LooksAt
  <1>3. CASE phase # "token"
    BY <1>1, <1>2, <1>3, SaidElsewhere
  <1>4. CASE phase = "token" /\ ~lost'
    <2>1. ~lost
      BY <1>4, ReduceKeeps
    <2>2. parser.stack # <<>> /\ parser.major # NoToken
      BY <1>1 DEF Parsing
    <2>3. Knows(parser.stack, parser.major, ReadingBefore)
      BY <1>4, <2>1, <2>2 DEF ReadInv
    <2>4. /\ parser.minor = fed[Len(fed)].value
          /\ Means(parser.stack, queued, fed, Len(fed) - 1, ReadingBefore[1])
      BY <1>4, <2>1, <2>2 DEF SaidInv
    <2>5. parser.major \in TokenKinds /\ fed # <<>> /\ IsSeq(fed) /\ parser.major = fed[Len(fed)].kind
      BY <1>1, <1>4, KindsAreTokens DEF ParserInv, LooksAt
    <2>6. PICK n \in Nat : n = Len(fed) - 1 /\ n + 1 = Len(fed) /\ n < Len(fed)
      <3>1. PICK m : m = Len(fed)
        OBVIOUS
      <3>2. m \in Nat \ {0}
        BY <2>5, <3>1, SeqFacts
      <3>3. m - 1 \in Nat /\ (m - 1) + 1 = m /\ m - 1 < m
        BY <3>2
      <3> QED
        BY <3>1, <3>3, Zenon
    <2>7. PICK at : at = ReadingBefore
      OBVIOUS
    <2>8. /\ Knows(parser.stack, parser.major, at) /\ Means(parser.stack, queued, fed, n, at[1])
          /\ n < Len(fed) /\ fed[n + 1].kind = "COLS" <=> parser.major = "COLS"
      BY <2>3, <2>4, <2>5, <2>6, <2>7
    <2>9. /\ parser'.stack # <<>> /\ parser'.major = parser.major /\ parser'.minor = parser.minor
          /\ Means(parser'.stack, queued', fed, n, at[1])
      BY <1>4, <2>5, <2>8, OnReduce
    <2>10. ReadingBefore' = ReadingBefore
      BY <1>1, FedKept
    <2>11. Means(parser'.stack, queued', fed', Len(fed') - 1, ReadingBefore'[1])
      BY <1>1, <2>6, <2>7, <2>9, <2>10
    <2>12. parser'.minor = fed'[Len(fed')].value /\ parser'.major # NoToken /\ phase' = "token"
      BY <1>1, <1>4, <2>2, <2>4, <2>9
    <2> QED
      BY <2>11, <2>12 DEF SaidInv
  <1>5. CASE phase = "token" /\ lost'
    BY <1>5 DEF SaidInv
  <1> QED
    BY <1>3, <1>4, <1>5

LEMMA SaidNext ==
    ASSUME ParserInv, ReadInv, SaidInv, [Next]_vars
    PROVE  SaidInv'
  <1>1. CASE Feed \/ QTok
    <2>1. PICK token : token.kind \in TokenKinds /\ Deliver(token.kind, token.value)
      BY <1>1, TokensDelivered
    <2>2. phase = "read"
      BY <1>1 DEF Feed, QTok, Delivers
    <2> QED
      BY <2>1, <2>2, SaidOnDeliver
  <1>2. CASE SkipBlanks \/ ParseUnusable \/ UNCHANGED vars
    BY <1>2, SaidKeptOn DEF SkipBlanks, ParseUnusable, vars
  <1>3. CASE QTokEmpty \/ EndOfText \/ EndOfQuery \/ Parsed \/ Exec
    <2>1. phase' \in {"refused", "eoquery", "end", "parsed", "executed"}
      BY <1>3 DEF QTokEmpty, EndOfText, EndOfQuery, Parsed, Exec
    <2> QED
      BY <2>1, SaidElsewhere
  <1>4. CASE Looked
    BY <1>4, SaidOnLooked
  <1>5. CASE ParseShift
    BY <1>5, SaidOnShift
  <1>6. CASE ParseReduce
    BY <1>6, SaidOnReduce
  <1>7. CASE ParseError
    <2>1. Parsing(parser) /\ phase' = phase /\ parser'.stack = <<>>
      BY <1>7, ErrorKeeps DEF ParseError
    <2>2. phase # "read"
      BY <2>1 DEF ParserInv, LooksAt
    <2> QED
      BY <2>1, <2>2 DEF SaidInv
  <1> QED
    BY <1>1, <1>2, <1>3, <1>4, <1>5, <1>6, <1>7 DEF Next
-----------------------------------------------------------------------------
(* The end: EOQUERY, and the rules that are reduced behind it.             *)
LEMMA SentenceKept ==
    ASSUME UNCHANGED fed
    PROVE  Reading' = Reading /\ (Sentence' <=> Sentence) /\ Meaning' = Meaning
  <1>1. Reading' = Reading
    BY FedKept
  <1> QED
    BY <1>1 DEF Sentence, Meaning

LEMMA MeaningIsSeq ==
    ASSUME ParserInv
    PROVE  IsSeq(Meaning)
  <1>1. Len(fed) \in Nat
    BY SeqFacts DEF ParserInv
  <1> QED
    BY <1>1, MeaningStep DEF MeaningOn, Meaning

LEMMA WholeOn ==
    ASSUME NEW insts, IsSeq(insts), NEW said, IsSeq(said), Matches(insts, said), NEW v
    PROVE  Whole(Append(insts, [op |-> "ENDQ", value |-> v]), said)
  <1> DEFINE more == Append(said, Endq)
             inst == [op |-> "ENDQ", value |-> v]
  <1>1. Len(insts) \in Nat /\ Len(insts) = Len(said) /\ Agree(insts, said)
    BY SeqFacts DEF Matches
  <1>2. Agree(insts, more)
    BY <1>1, AgreeOn
  <1>3. IsSeq(more) /\ Len(more) = Len(insts) + 1 /\ more[Len(more)] = Endq
    BY <1>1, AppendFacts
  <1>4. inst.op = "ENDQ" /\ Endq.op = "ENDQ" /\ ~HasValue("ENDQ")
    BY DEF Endq, HasValue, Regexp
  <1> HIDE DEF more, inst
  <1>5. Matches(Append(insts, inst), more)
    BY <1>2, <1>3, <1>4, AgreeLast
  <1> QED
    BY <1>5 DEF Whole, more, inst

LEMMA OnLastReduce ==
    ASSUME ParserInv, ParseReduce, ~lost', phase = "end"
    PROVE  LET s == Last(parser.stack).state
               r == LastRule(s)
               rest == Popped(Tables, parser, r)
               t == Order(0, Grammar[r].lhs)
           IN  /\ s \in Tables.states /\ r \in 1..Tables.nrule /\ Lowered(parser.stack, rest, r)
               /\ Len(rest) = 1 /\ t \in Tables.states =>
                     parser'.stack # <<>> /\ Len(parser'.stack) = 2 /\ Last(parser'.stack).state = t
               /\ Len(rest) = 1 /\ t = AcceptAction(Tables) => parser'.stack = <<>>
               /\ parser'.major = "$"
               /\ queued' = IF Grammar[r].queues = "nothing" THEN queued
                            ELSE Append(queued, [op |-> Grammar[r].queues, value |-> Argument])
  <1> DEFINE s == Last(parser.stack).state
             r == LastRule(s)
             rest == Popped(Tables, parser, r)
             lhs == Grammar[r].lhs
             on == parser'.stack
  <1>1. /\ Reducing /\ Parsing(parser)
        /\ queued' = IF Opcode = "nothing" THEN queued
                     ELSE Append(queued, [op |-> Opcode, value |-> Argument])
    BY DEF ParseReduce, Reducing
  <1>2. TopState(parser) = s /\ s \in Tables.states /\ parser.major = "$"
    BY <1>1, Looking DEF ParserInv, LooksAt
  <1>3. r = RuleOrdered /\ r \in 1..Tables.nrule /\ Lowered(parser.stack, rest, r)
    BY <1>1, <1>2, RuleOnStack DEF LastRule
  <1> DEFINE t == Order(Last(rest).state, lhs)
  <1>4. /\ \/ t \in Tables.states /\ Grown(rest, on, lhs, t)
           \/ t = AcceptAction(Tables) /\ t \notin Tables.states /\ on = <<>>
        /\ parser'.major = "$"
        /\ lost' = (lost \/ (on = <<>> /\ t # AcceptAction(Tables)))
    BY <1>2, <1>3, ReduceKeeps
  <1>5. Len(rest) = 1 => Last(rest).state = 0
    <2>1. Spelt(Tables, rest)
      BY <1>3 DEF Lowered
    <2>2. Last(rest) = rest[Len(rest)] /\ rest[1].state = 0
      BY <2>1, Tabled, SpeltStates DEF Spelt
    <2> QED
      BY <2>2
  <1>6. AcceptAction(Tables) \notin Tables.states
    BY Tabled
  <1>7. t \in Tables.states => on # <<>> /\ Len(on) = Len(rest) + 1 /\ Last(on).state = t
    <2> SUFFICES ASSUME t \in Tables.states
                 PROVE  on # <<>> /\ Len(on) = Len(rest) + 1 /\ Last(on).state = t
      OBVIOUS
    <2> HIDE DEF t, rest, lhs, on
    <2>1. on # <<>> /\ Grown(rest, on, lhs, t)
      BY <1>4, <1>6
    <2> QED
      BY <2>1 DEF Grown
  <1>8. t = AcceptAction(Tables) => on = <<>>
    BY <1>4, <1>6
  <1>9. Len(rest) = 1 => t = Order(0, lhs)
    BY <1>5
  <1>10. Len(rest) = 1 => Len(rest) + 1 = 2
    OBVIOUS
  <1> HIDE DEF t, rest, on
  <1>11. /\ Len(rest) = 1 /\ Order(0, lhs) \in Tables.states =>
               on # <<>> /\ Len(on) = 2 /\ Last(on).state = Order(0, lhs)
         /\ Len(rest) = 1 /\ Order(0, lhs) = AcceptAction(Tables) => on = <<>>
    BY <1>7, <1>8, <1>9, <1>10
  <1>12. Opcode = Grammar[r].queues
    BY <1>3 DEF Opcode
  <1> QED
    BY <1>1, <1>2, <1>3, <1>4, <1>11, <1>12 DEF rest, on

\* A rule of one symbol leaves the bottom of two.
LEMMA LeavesOne ==
    ASSUME NEW st, NEW rest, NEW r, Lowered(st, rest, r), RhsLength(Tables, r) = 1, Len(st) = 2
    PROVE  Len(rest) = 1
  BY DEF Lowered

\* The rule of a query leaves the bottom.
LEMMA LeavesBottom ==
    ASSUME NEW st, NEW rest, Lowered(st, rest, QueryRule)
    PROVE  Len(rest) = 1
  <1>1. Spelt(Tables, rest) /\ Last(rest).state = 0
    BY QueryTables DEF Lowered, GroupsAreSpelt
  <1>2. /\ Len(rest) \in Nat \ {0} /\ Last(rest) = rest[Len(rest)]
        /\ \A i \in 2..Len(rest) : rest[i].state # 0
    BY <1>1, Tabled, SpeltStates
  <1>3. Len(rest) \notin 2..Len(rest)
    BY <1>1, <1>2
  <1>4. ASSUME NEW n \in Nat \ {0}, n \notin 2..n PROVE n = 1
    BY <1>4
  <1> QED
    BY <1>2, <1>3, <1>4, Zenon

LEMMA ClosingReduce ==
    ASSUME ParserInv, ParseReduce, ~lost', phase = "end", Closing(parser, queued, Meaning)
    PROVE  Closing(parser', queued', Meaning)
  <1> DEFINE s == Last(parser.stack).state
             r == LastRule(s)
             rest == Popped(Tables, parser, r)
             t == Order(0, Grammar[r].lhs)
             on == parser'.stack
  <1>1. /\ s \in Tables.states /\ r \in 1..Tables.nrule /\ Lowered(parser.stack, rest, r)
        /\ Len(rest) = 1 /\ t \in Tables.states => on # <<>> /\ Len(on) = 2 /\ Last(on).state = t
        /\ Len(rest) = 1 /\ t = AcceptAction(Tables) => on = <<>>
        /\ parser'.major = "$"
        /\ queued' = IF Grammar[r].queues = "nothing" THEN queued
                     ELSE Append(queued, [op |-> Grammar[r].queues, value |-> Argument])
    BY OnLastReduce
  <1>2. parser.stack # <<>>
    BY DEF ParseReduce, Reducing, Parsing
  <1> HIDE DEF rest, on
  <1>3. CASE s \in EndStates /\ Matches(queued, Meaning)
    <2>1. r = QueryRule /\ Grammar[r].queues = "ENDQ" /\ Grammar[r].lhs = "query"
      BY <1>3, QueryTables DEF QueryEnds, GroupsAreRules, Rules
    <2>2. Len(rest) = 1
      BY <1>1, <2>1, LeavesBottom
    <2>3. t = Order(0, "query") /\ t \in Tables.states
      BY <2>1, QueryTables DEF QueryEnds
    <2>4. on # <<>> /\ Len(on) = 2 /\ Last(on).state \in Reduced
      BY <1>1, <2>2, <2>3 DEF Reduced
    <2>5. queued' = Append(queued, [op |-> "ENDQ", value |-> Argument])
      BY <1>1, <2>1
    <2>6. Whole(queued', Meaning)
      BY <1>3, <2>5, MeaningIsSeq, WholeOn DEF ParserInv
    <2> QED
      BY <1>1, <2>4, <2>6 DEF Closing, on
  <1>4. CASE Len(parser.stack) = 2 /\ s = Order(0, "query") /\ Whole(queued, Meaning)
    <2>1. Ends(s, "command")
      BY <1>4, QueryTables DEF QueryEnds
    <2>2. Grammar[r].lhs = "command" /\ RhsLength(Tables, r) = 1 /\ Grammar[r].queues = "nothing"
      BY <2>1 DEF Ends, Rules
    <2>3. Len(rest) = 1
      BY <1>1, <1>4, <2>2, LeavesOne
    <2>4. t = Order(0, "command") /\ t \in Tables.states
      BY <2>2, QueryTables DEF QueryEnds
    <2>5. on # <<>> /\ Len(on) = 2 /\ Last(on).state \in Reduced
      BY <1>1, <2>3, <2>4 DEF Reduced
    <2> QED
      BY <1>1, <1>4, <2>2, <2>5 DEF Closing, on
  <1>5. CASE Len(parser.stack) = 2 /\ s = Order(0, "command") /\ Whole(queued, Meaning)
    <2>1. Ends(s, "statem")
      BY <1>5, QueryTables DEF QueryEnds
    <2>2. Grammar[r].lhs = "statem" /\ RhsLength(Tables, r) = 1 /\ Grammar[r].queues = "nothing"
      BY <2>1 DEF Ends, Rules
    <2>3. Len(rest) = 1
      BY <1>1, <1>5, <2>2, LeavesOne
    <2>4. t = AcceptAction(Tables)
      BY <2>2, QueryTables DEF QueryEnds
    <2>5. on = <<>>
      BY <1>1, <2>3, <2>4
    <2> QED
      BY <1>1, <1>5, <2>2, <2>5 DEF Closing, on
  <1> QED
    BY <1>2, <1>3, <1>4, <1>5 DEF Closing, Reduced

LEMMA ClosingReduces ==
    ASSUME ParserInv, Parsing(parser), phase = "end", Closing(parser, queued, Meaning)
    PROVE  Reducing
  <1> DEFINE s == Last(parser.stack).state
  <1>1. /\ parser.stack # <<>> /\ parser.major = "$"
        /\ Ordered(Tables, parser) = Order(s, "$")
    BY Looking DEF ParserInv, LooksAt
  <1>2. s \in EndStates \/ s = Order(0, "query") \/ s = Order(0, "command")
    BY <1>1 DEF Closing, Reduced
  <1>3. Reduces(Tables, Order(s, "$"))
    <2> HIDE DEF s
    <2> QED
      BY <1>2, QueryTables DEF QueryEnds, Ends
  <1> QED
    BY <1>1, <1>3 DEF Reducing, Reduces

LEMMA NothingReduces ==
    ASSUME ParserInv, Parsing(parser), phase = "end", Len(parser.stack) = 1
    PROVE  Ordered(Tables, parser) = ErrorAction(Tables)
  <1>1. /\ parser.major = "$" /\ Spelt(Tables, parser.stack)
        /\ Ordered(Tables, parser) = Order(Last(parser.stack).state, parser.major)
    BY Looking DEF ParserInv, LooksAt
  <1>2. Last(parser.stack).state = 0
    BY <1>1, Tabled, SpeltStates DEF Spelt
  <1> QED
    BY <1>1, <1>2, QueryTables DEF QueryEnds

LEMMA OneOrder ==
    /\ ~(Reducing /\ Ordered(Tables, parser) < Tables.nstate)
    /\ ~(Reducing /\ Ordered(Tables, parser) = ErrorAction(Tables))
    /\ ~(ErrorAction(Tables) < Tables.nstate)
  <1>1. PICK o, n, e : o = Ordered(Tables, parser) /\ n = Tables.nstate /\ e = ErrorAction(Tables)
    OBVIOUS
  <1>2. n \in Nat /\ e \in Nat /\ n <= e
    BY <1>1, Tabled
  <1>3. ~(o \in n..(e - 1) /\ o < n) /\ ~(o \in n..(e - 1) /\ o = e) /\ ~(e < n)
    BY <1>2
  <1> QED
    BY <1>1, <1>3 DEF Reducing

LEMMA EndElsewhere ==
    ASSUME phase' \notin {"eoquery", "end", "parsed"}
    PROVE  EndInv'
  BY DEF EndInv

LEMMA EndKept ==
    ASSUME EndInv, UNCHANGED <<parser, queued, fed, phase, lost>>, failed => failed'
    PROVE  EndInv'
  <1>1. Reading' = Reading /\ (Sentence' <=> Sentence) /\ Meaning' = Meaning
    BY SentenceKept
  <1>2. (Parsing(parser)' <=> Parsing(parser)) /\ (Ended => Ended')
    BY <1>1 DEF Ended
  <1>3. Closing(parser, queued, Meaning)' <=> Closing(parser, queued, Meaning)
    BY <1>1 DEF Closing
  <1> QED
    BY <1>1, <1>2, <1>3 DEF EndInv

LEMMA EndOnText ==
    ASSUME ParserInv, ReadInv, SaidInv, EndOfText
    PROVE  EndInv'
  <1>1. /\ phase = "read" /\ parser' = Fed(parser, "EOQUERY", "none") /\ phase' = "eoquery"
        /\ UNCHANGED <<queued, fed, lost>>
    BY DEF EndOfText
  <1>2. /\ parser'.stack = IF parser.stack = <<>> THEN <<Bottom>> ELSE parser.stack
        /\ parser'.stack # <<>> /\ parser'.major = "EOQUERY"
    BY <1>1, FedKeeps
  <1>3. Parsing(parser')
    BY <1>2, KindsAreTokens DEF Parsing
  <1>4. Reading' = Reading
    BY <1>1, FedKept
  <1>5. IsSeq(fed)
    BY DEF ParserInv
  <1>6. ~lost => Knows(parser'.stack, "EOQUERY", Reading) /\ Means(parser'.stack, queued, fed, Len(fed), Reading[1])
    <2> SUFFICES ASSUME ~lost
                 PROVE  /\ Knows(parser'.stack, "EOQUERY", Reading)
                        /\ Means(parser'.stack, queued, fed, Len(fed), Reading[1])
      OBVIOUS
    <2>1. CASE fed = <<>>
      <3>1. parser.stack = <<>> /\ queued = <<>> /\ Len(fed) = 0
        BY <1>1, <1>5, <2>1, SeqFacts DEF ReadInv, SaidInv
      <3>2. Reading = <<"start", 0>>
        BY <1>5, <3>1, ReadingIs DEF IsReading, Reading
      <3>3. parser'.stack = <<Bottom>> /\ Reading[1] = "start"
        BY <1>2, <3>1, <3>2
      <3>4. Knows(<<Bottom>>, "EOQUERY", Reading)
        BY <3>2, KnowsStart, KnowsToken
      <3>5. Means(<<Bottom>>, <<>>, fed, 0, "start")
        BY MeansStart
      <3> QED
        BY <3>1, <3>3, <3>4, <3>5
    <2>2. CASE fed # <<>>
      <3>1. parser.stack # <<>> /\ Knows(parser.stack, NoToken, Reading)
        BY <1>1, <2>2 DEF ReadInv
      <3>2. Knows(parser.stack, "EOQUERY", Reading)
        BY <3>1, KnowsToken
      <3>3. Means(parser.stack, queued, fed, Len(fed), Reading[1])
        BY <1>1, <2>2 DEF SaidInv
      <3> QED
        BY <1>2, <3>1, <3>2, <3>3
    <2> QED
      BY <2>1, <2>2
  <1> QED
    BY <1>1, <1>3, <1>4, <1>6 DEF EndInv

LEMMA EndOnQuery ==
    ASSUME ParserInv, EndInv, EndOfQuery
    PROVE  EndInv'
  <1>1. /\ phase = "eoquery" /\ ~Parsing(parser) /\ parser' = Fed(parser, "$", "none") /\ phase' = "end"
        /\ UNCHANGED <<queued, fed, failed, lost>>
    BY DEF EndOfQuery
  <1>2. /\ parser'.stack = IF parser.stack = <<>> THEN <<Bottom>> ELSE parser.stack
        /\ parser'.major = "$"
    BY <1>1, FedKeeps
  <1>3. (Sentence' <=> Sentence) /\ Meaning' = Meaning
    BY <1>1, SentenceKept
  <1>4. ~lost /\ Sentence => Closing(parser', queued', Meaning')
    BY <1>1, <1>2, <1>3 DEF EndInv, Closing
  <1>5. ~lost /\ ~Sentence => failed' /\ Prefix(queued', Meaning') /\ Len(parser'.stack) = 1
    BY <1>1, <1>2, <1>3, SpeltBottom DEF EndInv
  <1> QED
    BY <1>1, <1>3, <1>4, <1>5 DEF EndInv

LEMMA EndOnParsed ==
    ASSUME ParserInv, EndInv, Parsed
    PROVE  EndInv'
  <1>1. phase = "end" /\ ~Parsing(parser) /\ phase' = "parsed" /\ UNCHANGED <<parser, queued, fed, failed, lost>>
    BY DEF Parsed
  <1>2. (Sentence' <=> Sentence) /\ Meaning' = Meaning
    BY <1>1, SentenceKept
  <1>3. "$" # NoToken
    BY KindsAreTokens
  <1>4. ~lost => Ended
    BY <1>1, <1>3 DEF EndInv, Closing, Parsing, Ended
  <1>5. Ended => Ended'
    BY <1>1, <1>2 DEF Ended
  <1> QED
    BY <1>1, <1>4, <1>5 DEF EndInv

LEMMA EndOnShift ==
    ASSUME ParserInv, EndInv, ParseShift
    PROVE  EndInv'
  <1>1. /\ Parsing(parser) /\ Ordered(Tables, parser) < Tables.nstate
        /\ UNCHANGED <<fed, phase, queued, failed>> /\ lost' = (lost \/ parser'.stack = <<>>)
    BY DEF ParseShift
  <1>2. (Sentence' <=> Sentence) /\ Meaning' = Meaning
    BY <1>1, SentenceKept
  <1>3. CASE lost'
    BY <1>3 DEF EndInv
  <1>4. ~lost' => ~lost
    BY <1>1
  <1>5. CASE phase = "eoquery" /\ ~lost'
    <2>1. Knows(parser.stack, "EOQUERY", Reading) /\ Means(parser.stack, queued, fed, Len(fed), Reading[1])
      BY <1>1, <1>4, <1>5 DEF EndInv
    <2>2. /\ Sentence /\ Matches(queued, Meaning)
          /\ parser'.major = NoToken /\ parser'.stack # <<>> /\ Last(parser'.stack).state \in EndStates
      BY <1>5, <2>1, OnEndShift
    <2>3. ~Parsing(parser')
      BY <2>2 DEF Parsing
    <2> QED
      BY <1>1, <1>2, <1>5, <2>2, <2>3 DEF EndInv
  <1>6. CASE phase = "end" /\ ~lost'
    <2>1. ~Reducing /\ Ordered(Tables, parser) # ErrorAction(Tables)
      BY <1>1, OneOrder
    <2>2. Closing(parser, queued, Meaning) \/ Len(parser.stack) = 1
      BY <1>1, <1>4, <1>6 DEF EndInv, Parsing
    <2> QED
      BY <1>1, <1>6, <2>1, <2>2, ClosingReduces, NothingReduces
  <1>7. CASE phase \notin {"eoquery", "end"}
    <2>1. phase' \notin {"eoquery", "end", "parsed"}
      BY <1>1, <1>7 DEF ParserInv, LooksAt
    <2> QED
      BY <2>1, EndElsewhere
  <1> QED
    BY <1>3, <1>5, <1>6, <1>7

LEMMA EndOnReduce ==
    ASSUME ParserInv, EndInv, ParseReduce
    PROVE  EndInv'
  <1>1. /\ Parsing(parser) /\ Reducing /\ UNCHANGED <<fed, phase, failed>>
        /\ lost => lost'
    BY DEF ParseReduce, Reducing
  <1>2. Reading' = Reading /\ (Sentence' <=> Sentence) /\ Meaning' = Meaning
    BY <1>1, SentenceKept
  <1>3. CASE lost'
    BY <1>3 DEF EndInv
  <1>4. CASE phase = "eoquery" /\ ~lost'
    <2>1. PICK at : at = Reading
      OBVIOUS
    <2>2. parser.major = "EOQUERY" /\ IsSeq(fed)
      BY <1>1, <1>4 DEF ParserInv, LooksAt
    <2>3. PICK n \in Nat : n = Len(fed)
      BY <2>2, SeqFacts
    <2>4. /\ Knows(parser.stack, parser.major, at) /\ Means(parser.stack, queued, fed, n, at[1])
          /\ ~(n < Len(fed)) /\ parser.major # "COLS"
      BY <1>1, <1>4, <2>1, <2>2, <2>3 DEF EndInv
    <2>5. /\ parser'.stack # <<>> /\ parser'.major = parser.major
          /\ Knows(parser'.stack, parser.major, at) /\ Means(parser'.stack, queued', fed, n, at[1])
      BY <1>4, <2>2, <2>4, OnReduce
    <2>6. Parsing(parser')
      BY <1>1, <2>5 DEF Parsing
    <2>7. Knows(parser'.stack, "EOQUERY", Reading') /\ Means(parser'.stack, queued', fed', Len(fed'), Reading'[1])
      BY <1>1, <1>2, <2>1, <2>2, <2>3, <2>5
    <2> QED
      BY <1>1, <1>4, <2>6, <2>7 DEF EndInv
  <1>5. CASE phase = "end" /\ ~lost'
    <2>1. Ordered(Tables, parser) # ErrorAction(Tables)
      BY <1>1, OneOrder
    <2>2. parser.stack # <<>> /\ Len(parser.stack) # 1
      BY <1>1, <1>5, <2>1, NothingReduces DEF Parsing
    <2>3. Sentence /\ Closing(parser, queued, Meaning)
      BY <1>1, <1>5, <2>2 DEF EndInv
    <2>4. Closing(parser', queued', Meaning')
      BY <1>2, <1>5, <2>3, ClosingReduce
    <2> QED
      BY <1>1, <1>2, <1>5, <2>3, <2>4 DEF EndInv
  <1>6. CASE phase \notin {"eoquery", "end"}
    <2>1. phase' \notin {"eoquery", "end", "parsed"}
      BY <1>1, <1>6 DEF ParserInv, LooksAt
    <2> QED
      BY <2>1, EndElsewhere
  <1> QED
    BY <1>3, <1>4, <1>5, <1>6

LEMMA EndOnError ==
    ASSUME ParserInv, EndInv, ParseError
    PROVE  EndInv'
  <1>1. /\ Parsing(parser) /\ Ordered(Tables, parser) = ErrorAction(Tables)
        /\ UNCHANGED <<fed, phase, queued, lost>>
    BY DEF ParseError
  <1>2. (Sentence' <=> Sentence) /\ Meaning' = Meaning
    BY <1>1, SentenceKept
  <1>3. parser'.stack = <<>> /\ failed'
    BY ErrorKeeps
  <1>4. CASE phase = "eoquery"
    <2>1. ~lost => Knows(parser.stack, "EOQUERY", Reading) /\ Means(parser.stack, queued, fed, Len(fed), Reading[1])
      BY <1>1, <1>4 DEF EndInv
    <2>2. ~lost => ~Sentence /\ Prefix(queued, Meaning)
      BY <1>4, <2>1, OnEndError
    <2>3. ~Parsing(parser')
      BY <1>3 DEF Parsing
    <2> QED
      BY <1>1, <1>2, <1>3, <1>4, <2>2, <2>3 DEF EndInv
  <1>5. CASE phase = "end"
    <2>1. ~Reducing
      BY <1>1, OneOrder
    <2>2. ~lost => ~Sentence /\ Prefix(queued, Meaning)
      BY <1>1, <1>5, <2>1, ClosingReduces DEF EndInv
    <2> QED
      BY <1>1, <1>2, <1>3, <1>5, <2>2 DEF EndInv
  <1>6. CASE phase \notin {"eoquery", "end"}
    <2>1. phase' \notin {"eoquery", "end", "parsed"}
      BY <1>1, <1>6 DEF ParserInv, LooksAt
    <2> QED
      BY <2>1, EndElsewhere
  <1> QED
    BY <1>4, <1>5, <1>6

LEMMA EndNext ==
    ASSUME ParserInv, ReadInv, SaidInv, EndInv, [Next]_vars
    PROVE  EndInv'
  <1>1. CASE Feed \/ QTok
    <2>1. phase' = "token"
      BY <1>1 DEF Feed, QTok, Deliver
    <2> QED
      BY <2>1, EndElsewhere
  <1>2. CASE SkipBlanks \/ ParseUnusable \/ UNCHANGED vars
    BY <1>2, EndKept DEF SkipBlanks, ParseUnusable, vars
  <1>3. CASE QTokEmpty \/ Looked \/ Exec
    <2>1. phase' \in {"refused", "read", "executed"}
      BY <1>3 DEF QTokEmpty, Looked, Exec
    <2> QED
      BY <2>1, EndElsewhere
  <1>4. CASE EndOfText
    BY <1>4, EndOnText
  <1>5. CASE EndOfQuery
    BY <1>5, EndOnQuery
  <1>6. CASE Parsed
    BY <1>6, EndOnParsed
  <1>7. CASE ParseShift
    BY <1>7, EndOnShift
  <1>8. CASE ParseReduce
    BY <1>8, EndOnReduce
  <1>9. CASE ParseError
    BY <1>9, EndOnError
  <1> QED
    BY <1>1, <1>2, <1>3, <1>4, <1>5, <1>6, <1>7, <1>8, <1>9 DEF Next
-----------------------------------------------------------------------------
MeaningInv == TextInv /\ SaidInv /\ EndInv

LEMMA MeaningInit == Init => MeaningInv
  <1> SUFFICES ASSUME Init PROVE SaidInv /\ EndInv /\ TextInv
    BY DEF MeaningInv
  <1>1. phase = "read" /\ fed = <<>> /\ queued = <<>>
    BY Zenon DEF Init
  <1>2. SaidInv /\ EndInv
    BY <1>1 DEF SaidInv, EndInv
  <1>3. TextInv
    <2>1. /\ parser = Allocated /\ fed = <<>> /\ lost = FALSE /\ phase = "read" /\ verdict = NoVerdict
      BY Zenon DEF Init
    <2>2. parser.stack = <<>>
      BY <2>1 DEF Allocated
    <2>3. ReadInv /\ VerdictInv
      BY <2>1, <2>2 DEF ReadInv, VerdictInv, NoVerdict
    <2> QED
      BY <2>3, InitParser DEF TextInv
  <1> QED
    BY <1>2, <1>3

LEMMA MeaningNext == MeaningInv /\ [Next]_vars => MeaningInv'
  BY ParserNext, ReadNext, VerdictNext, SaidNext, EndNext DEF MeaningInv, TextInv

(* Whatever the length of the text and however deep its groups, what       *)
(* fdbfs_query_parse queued when it returns is what the tokens say, in     *)
(* their order and with their values; ENDQ ends it exactly when they are a *)
(* whole query, and otherwise an error was reported and what is queued is  *)
(* a beginning of it (queryparser.y, query.c fdbfs_query_parse).  (That    *)
(* the tokens are the longest words of the text is about strings: TLC      *)
(* checks it.)                                                             *)
THEOREM TextInstructions ==
    Spec => [](InstructionsFollowTokens /\ (cp = 0 => InstructionsFollowText))
  <1>1. Init => MeaningInv
    BY MeaningInit
  <1>2. MeaningInv /\ [Next]_vars => MeaningInv'
    BY MeaningNext
  <1>3. MeaningInv => InstructionsFollowTokens
    <2> SUFFICES ASSUME MeaningInv, phase = "parsed", ~lost
                 PROVE  IF Sentence
                        THEN /\ Len(queued) = Len(Meaning) + 1
                             /\ Agree(queued, Append(Meaning, [op |-> "ENDQ", value |-> "none"]))
                        ELSE failed /\ Len(queued) <= Len(Meaning) /\ Agree(queued, Meaning)
      BY DEF InstructionsFollowTokens
    <2>1. Ended
      BY DEF MeaningInv, EndInv
    <2>2. IsSeq(Meaning)
      BY MeaningIsSeq DEF MeaningInv, TextInv
    <2>3. Len(Append(Meaning, Endq)) = Len(Meaning) + 1
      BY <2>2, AppendFacts
    <2> QED
      BY <2>1, <2>3 DEF Ended, Whole, Matches, Prefix, Endq
  <1>4. InstructionsFollowTokens /\ cp = 0 => InstructionsFollowText
    BY DEF InstructionsFollowText
  <1> QED
    BY <1>1, <1>2, <1>3, <1>4, PTL DEF Spec
-----------------------------------------------------------------------------
(* The order of what is said: which instruction can stand behind which,    *)
(* and that there is one regular expression at most.                       *)
OpOf(insts, i) == IF i = 0 THEN "none" ELSE insts[i].op
InOrder(insts) == \A i \in 1..Len(insts) : <<OpOf(insts, i - 1), insts[i].op>> \in Adjacent
RegexOnce(insts) ==
    \A i, j \in 1..Len(insts) : insts[i].op \in Regexp /\ insts[j].op \in Regexp => i = j
SaidInOrder(insts, w) ==
    /\ IsSeq(insts) /\ InOrder(insts) /\ RegexOnce(insts)
    /\ <<w, OpOf(insts, Len(insts))>> \in Sayings
    /\ w \in BeforeRegex => \A i \in 1..Len(insts) : insts[i].op \notin Regexp

LEMMA SayingOn ==
    ASSUME NEW w \in PlaceNames, NEW p, <<w, p>> \in Sayings, NEW x \in TokenKinds,
           OneOpen(w, x)[1] # "dead"
    PROVE  /\ OpsRead(w, x) = {} => <<OneOpen(w, x)[1], p>> \in Sayings
           /\ \A op \in OpsRead(w, x) : <<OneOpen(w, x)[1], op>> \in Sayings /\ <<p, op>> \in Adjacent
  <1> DEFINE said == <<w, p>>
             v == OneOpen(w, x)[1]
             ops == OpsRead(w, x)
  <1>1. said[1] = w /\ said[2] = p
    OBVIOUS
  <1>2. SaidOnwards(said) \subseteq Sayings /\ said \in Sayings
    BY QueryTables DEF KnowsOrder
  <1> HIDE DEF said
  <1>3. (IF ops = {} THEN {<<v, said[2]>>} ELSE {<<v, op>> : op \in ops}) \subseteq SaidOnwards(said)
    BY <1>1 DEF SaidOnwards
  <1> HIDE DEF v
  <1>4. ASSUME NEW op \in ops PROVE <<p, op>> \in Adjacent
    <2> DEFINE xs == {y \in TokenKinds : OneOpen(said[1], y)[1] # "dead"}
    <2>1. x \in xs
      BY <1>1
    <2>2. op \in UNION {OpsRead(said[1], y) : y \in xs}
      BY <1>1, <2>1
    <2> HIDE DEF xs, ops
    <2>3. <<said[2], op>> \in {said[2]} \X UNION {OpsRead(said[1], y) : y \in xs}
      BY <2>2
    <2> QED
      BY <1>1, <1>2, <2>3 DEF Adjacent, xs
  <1> HIDE DEF ops
  <1> QED
    BY <1>1, <1>2, <1>3, <1>4 DEF v, ops

LEMMA InOrderOn ==
    ASSUME NEW insts, NEW w \in PlaceNames, SaidInOrder(insts, w), NEW x \in TokenKinds,
           OneOpen(w, x)[1] # "dead"
    PROVE  /\ OpsRead(w, x) = {} => SaidInOrder(insts, OneOpen(w, x)[1])
           /\ \A inst : inst.op \in OpsRead(w, x) => SaidInOrder(Append(insts, inst), OneOpen(w, x)[1])
  <1> DEFINE v == OneOpen(w, x)[1]
             n == Len(insts)
             p == OpOf(insts, n)
  <1>1. IsSeq(insts) /\ n \in Nat
    BY SeqFacts DEF SaidInOrder
  <1>2. <<w, p>> \in Sayings
    BY DEF SaidInOrder
  <1> HIDE DEF p
  <1>3. /\ OpsRead(w, x) = {} => <<v, p>> \in Sayings
        /\ \A op \in OpsRead(w, x) : <<v, op>> \in Sayings /\ <<p, op>> \in Adjacent
    BY <1>2, SayingOn
  <1>4. /\ v \in BeforeRegex => w \in BeforeRegex
        /\ x = "REGEXP" => w \in BeforeRegex /\ v \notin BeforeRegex
        /\ \A op \in OpsRead(w, x) : op \in Regexp => x = "REGEXP"
    <2>1. /\ v \in BeforeRegex => w \in BeforeRegex
          /\ x = "REGEXP" => w = "regexp" /\ v \notin BeforeRegex
          /\ OpsRead(w, x) \cap Regexp # {} => x = "REGEXP"
      BY QueryTables DEF KnowsOrder
    <2>2. "regexp" \in BeforeRegex
      BY DEF BeforeRegex, Places
    <2> HIDE DEF v
    <2> QED
      BY <2>1, <2>2
  <1> HIDE DEF v
  <1>5. ASSUME OpsRead(w, x) = {} PROVE SaidInOrder(insts, v)
    BY <1>3, <1>4, <1>5 DEF SaidInOrder, p, n
  <1>6. ASSUME NEW inst, inst.op \in OpsRead(w, x) PROVE SaidInOrder(Append(insts, inst), v)
    <2> DEFINE on == Append(insts, inst)
    <2>1. /\ IsSeq(on) /\ Len(on) = n + 1 /\ on[n + 1] = inst
          /\ \A i \in 1..n : on[i] = insts[i]
      BY <1>1, AppendFacts
    <2> HIDE DEF on
    <2>2. <<v, inst.op>> \in Sayings /\ <<p, inst.op>> \in Adjacent
      BY <1>3, <1>6
    <2>3. InOrder(on)
      <3> SUFFICES ASSUME NEW i \in 1..(n + 1) PROVE <<OpOf(on, i - 1), on[i].op>> \in Adjacent
        BY <2>1 DEF InOrder
      <3>1. OpOf(on, i - 1) = OpOf(insts, i - 1)
        <4>1. i - 1 # 0 => i - 1 \in 1..n
          BY <1>1
        <4> QED
          BY <2>1, <4>1 DEF OpOf
      <3>2. CASE i = n + 1
        <4>1. i - 1 = n
          BY <1>1, <3>2
        <4> QED
          BY <2>1, <2>2, <3>1, <3>2, <4>1 DEF p
      <3>3. CASE i # n + 1
        <4>1. i \in 1..n
          BY <1>1, <3>3
        <4> QED
          BY <2>1, <3>1, <4>1 DEF SaidInOrder, InOrder, n
      <3> QED
        BY <3>2, <3>3
    <2>4. OpOf(on, n + 1) = inst.op
      <3>1. n + 1 # 0
        BY <1>1
      <3> QED
        BY <2>1, <3>1 DEF OpOf
    <2>5. ASSUME NEW i \in 1..(n + 1), on[i].op \in Regexp
          PROVE  IF i = n + 1 THEN x = "REGEXP" ELSE i \in 1..n /\ insts[i].op \in Regexp
      <3>1. CASE i = n + 1
        BY <1>4, <1>6, <2>1, <2>5, <3>1
      <3>2. CASE i # n + 1
        <4>1. i \in 1..n
          BY <1>1, <3>2
        <4> QED
          BY <2>1, <2>5, <3>2, <4>1
      <3> QED
        BY <3>1, <3>2
    <2>6. w \in BeforeRegex => \A i \in 1..n : insts[i].op \notin Regexp
      BY DEF SaidInOrder
    <2>7. RegexOnce(on)
      <3> SUFFICES ASSUME NEW i \in 1..(n + 1), NEW j \in 1..(n + 1), on[i].op \in Regexp, on[j].op \in Regexp
                   PROVE  i = j
        BY <2>1 DEF RegexOnce
      <3>1. CASE i = n + 1 \/ j = n + 1
        BY <1>4, <2>5, <2>6, <3>1
      <3>2. CASE i # n + 1 /\ j # n + 1
        <4>1. i \in 1..n /\ insts[i].op \in Regexp /\ j \in 1..n /\ insts[j].op \in Regexp
          BY <2>5, <3>2
        <4> QED
          BY <4>1 DEF SaidInOrder, RegexOnce, n
      <3> QED
        BY <3>1, <3>2
    <2>8. v \in BeforeRegex => \A i \in 1..(n + 1) : on[i].op \notin Regexp
      BY <1>4, <2>5, <2>6
    <2>9. SaidInOrder(on, v)
      BY <2>1, <2>2, <2>3, <2>4, <2>7, <2>8 DEF SaidInOrder
    <2> QED
      BY <2>9 DEF on
  <1> QED
    BY <1>5, <1>6 DEF v

LEMMA AdvanceInt ==
    ASSUME NEW at, at[2] \in Int, NEW x
    PROVE  Advance(at, x)[2] \in Int
  <1> DEFINE w == at[1]
             fixed == IF w \in DOMAIN Places THEN {p[2] : p \in {q \in Places[w] : q[1] = x}} ELSE {}
  <1>1. Advance(at, x) =
          IF fixed # {} THEN <<CHOOSE k \in fixed : TRUE, at[2]>>
          ELSE IF w \in Condition /\ x \in Operators THEN <<"operand", at[2]>>
          ELSE IF w \in Condition /\ x = "CPAR" /\ at[2] > 0 THEN <<"full", at[2] - 1>>
          ELSE IF w = "empty" /\ x = "OPAR" THEN <<"empty", at[2] + 1>>
          ELSE IF w = "empty" /\ x = "UQSTRING" THEN <<"name", at[2]>>
          ELSE IF w = "operand" /\ x = "UQSTRING" THEN <<"full", at[2]>>
          ELSE IF w \in {"empty", "operand"} /\ x \in Literals THEN <<"full", at[2]>>
          ELSE IF w \in {"empty", "operand"} /\ x = "VFILE" THEN <<"file", at[2]>>
          ELSE <<"dead", at[2]>>
    BY Zenon DEF Advance
  <1>2. PICK c : c = CHOOSE k \in fixed : TRUE
    OBVIOUS
  <1> HIDE DEF fixed, w
  <1> QED
    BY <1>1, <1>2

\* While a reading lives, it goes as with one group open.
LEMMA Lives ==
    ASSUME NEW at, at[2] \in Int, at[1] \in PlaceNames, NEW x \in TokenKinds, Advance(at, x)[1] # "dead"
    PROVE  /\ Advance(at, x)[1] = OneOpen(at[1], x)[1]
           /\ at[1] # "dead" /\ Advance(at, x)[1] \in PlaceNames
  <1>1. x = "CPAR" /\ at[1] \in Condition => at[2] > 0
    BY ClosesNothing
  <1>2. Advance(at, x)[1] = OneOpen(at[1], x)[1]
    BY <1>1, AdvanceUncounted
  <1>3. /\ OneOpen(at[1], x)[1] \in PlaceNames
        /\ at[1] = "dead" => OneOpen(at[1], x)[1] = "dead"
    BY QueryTables DEF PlacesTell
  <1> QED
    BY <1>2, <1>3

LEMMA OpIsRead ==
    ASSUME NEW tokens, NEW n \in Nat, NEW w, Told(tokens, n, w), n = 0 => w = "start",
           tokens[n + 1].kind \in TokenKinds, OneOpen(w, tokens[n + 1].kind)[1] # "dead"
    PROVE  IF OpMeant(tokens, n + 1) = "nothing" THEN OpsRead(w, tokens[n + 1].kind) = {}
           ELSE OpMeant(tokens, n + 1) \in OpsRead(w, tokens[n + 1].kind)
  <1>1. PICK x : x = tokens[n + 1].kind
    OBVIOUS
  <1>2. CASE x = "QUERY"
    <2>1. OpMeant(tokens, n + 1) \in Begins /\ OpMeant(tokens, n + 1) # "nothing"
      BY <1>1, <1>2, QueryIs DEF Begins
    <2> QED
      BY <1>1, <1>2, <2>1 DEF OpsRead
  <1>3. CASE x = "REGEXP"
    <2>1. w = "regexp"
      BY <1>1, <1>3, QueryTables DEF KnowsOrder, Told
    <2>2. n \in Nat \ {0}
      BY <2>1
    <2>3. OpMeant(tokens, n + 1) \in Regexp /\ OpMeant(tokens, n + 1) # "nothing"
      BY <1>1, <1>3, <2>2, RegexIs DEF Regexp
    <2> QED
      BY <1>1, <1>3, <2>3 DEF OpsRead
  <1>4. CASE x \notin {"QUERY", "REGEXP"}
    <2>1. OpMeant(tokens, n + 1) = OpRead(w, x)
      BY <1>1, <1>4, OpIs
    <2>2. OpsRead(w, x) = {OpRead(w, x)} \ {"nothing"}
      BY <1>4 DEF OpsRead
    <2> QED
      BY <1>1, <2>1, <2>2
  <1> QED
    BY <1>2, <1>3, <1>4

LEMMA MeaningInOrder ==
    ASSUME NEW tokens, IsSeq(tokens), \A i \in 1..Len(tokens) : tokens[i].kind \in TokenKinds,
           ReadingOf(tokens)[Len(tokens)][1] # "dead"
    PROVE  SaidInOrder(MeaningTo(tokens, Len(tokens)), ReadingOf(tokens)[Len(tokens)][1])
  <1>1. PICK n, R : n = Len(tokens) /\ R = ReadingOf(tokens)
    OBVIOUS
  <1>2. n \in Nat /\ IsReading(R, tokens, n)
    BY <1>1, SeqFacts, ReadingIs
  <1> DEFINE Fine(m) == /\ R[m][2] \in Int /\ R[m][1] \in PlaceNames
                        /\ R[m][1] # "dead" =>
                              /\ Told(tokens, m, R[m][1]) /\ (m = 0 => R[m][1] = "start")
                              /\ SaidInOrder(MeaningTo(tokens, m), R[m][1])
             T == {m \in Nat : m <= n => Fine(m)}
  <1>3. Fine(0)
    <2>1. R[0][1] = "start" /\ R[0][2] = 0
      BY <1>2 DEF IsReading
    <2>2. Told(tokens, 0, "start")
      BY ToldStart
    <2>3. "start" \in PlaceNames
      BY <2>2 DEF Told
    <2>4. SaidInOrder(<<>>, "start")
      <3>1. IsSeq(<<>>) /\ Len(<<>>) = 0
        BY EmptyIsSeq, SeqFacts
      <3>2. <<"start", OpOf(<<>>, Len(<<>>))>> \in Sayings
        BY <3>1, QueryTables DEF OpOf, KnowsOrder
      <3> QED
        BY <3>1, <3>2 DEF SaidInOrder, InOrder, RegexOnce
    <2>5. SaidInOrder(MeaningTo(tokens, 0), "start")
      BY <2>4, MeaningNone
    <2> QED
      BY <2>1, <2>2, <2>3, <2>5
  <1>4. ASSUME NEW m \in Nat, m + 1 <= n, Fine(m) PROVE Fine(m + 1)
    <2>1. PICK x : x = tokens[m + 1].kind
      OBVIOUS
    <2>2. m + 1 \in 1..n /\ (m + 1) - 1 = m
      BY <1>2, <1>4
    <2>3. x \in TokenKinds /\ R[m + 1] = Advance(R[m], x)
      BY <1>1, <1>2, <2>1, <2>2 DEF IsReading
    <2>4. PICK w, v, said : w = R[m][1] /\ v = OneOpen(w, x)[1] /\ said = MeaningTo(tokens, m)
      OBVIOUS
    <2>5. R[m + 1][2] \in Int
      BY <1>4, <2>3, AdvanceInt
    <2>6. CASE R[m + 1][1] = "dead"
      BY <2>5, <2>6 DEF PlaceNames
    <2>7. CASE R[m + 1][1] # "dead"
      <3>1. v = R[m + 1][1] /\ w # "dead" /\ v \in PlaceNames /\ w \in PlaceNames
        BY <1>4, <2>3, <2>4, <2>7, Lives
      <3>2. Told(tokens, m, w) /\ (m = 0 => w = "start") /\ SaidInOrder(said, w)
        BY <1>4, <2>4, <3>1
      <3>3. Told(tokens, m + 1, v)
        BY <2>1, <2>3, <2>4, <2>7, <3>1, <3>2, ToldOn
      <3>4. IF OpMeant(tokens, m + 1) = "nothing" THEN OpsRead(w, x) = {}
            ELSE OpMeant(tokens, m + 1) \in OpsRead(w, x)
        BY <2>1, <2>3, <2>4, <2>7, <3>1, <3>2, OpIsRead
      <3>5. MeaningTo(tokens, m + 1) =
              IF OpMeant(tokens, m + 1) = "nothing" THEN said ELSE Append(said, Instruction(tokens, m + 1))
        BY <2>4, MeaningStep DEF MeaningOn
      <3>6. Instruction(tokens, m + 1).op = OpMeant(tokens, m + 1)
        BY DEF Instruction
      <3>7. SaidInOrder(MeaningTo(tokens, m + 1), v)
        BY <2>3, <2>4, <2>7, <3>1, <3>2, <3>4, <3>5, <3>6, InOrderOn
      <3>8. m + 1 # 0
        BY <1>4
      <3> QED
        BY <2>5, <3>1, <3>3, <3>7, <3>8
    <2> QED
      BY <2>6, <2>7
  <1> HIDE DEF Fine
  <1>5. 0 \in T
    BY <1>3
  <1>6. ASSUME NEW m \in Nat, m \in T PROVE m + 1 \in T
    <2> SUFFICES ASSUME m + 1 <= n PROVE Fine(m + 1)
      OBVIOUS
    <2>1. m <= n
      BY <1>2
    <2> QED
      BY <1>4, <1>6, <2>1
  <1>7. n \in T
    <2> HIDE DEF T
    <2> QED
      BY <1>2, <1>5, <1>6, Induction
  <1>8. Fine(n)
    BY <1>2, <1>7
  <1> QED
    BY <1>1, <1>8 DEF Fine
-----------------------------------------------------------------------------
(* What reaches fdbfs_query_init_exec is in that order.                    *)
Lined(insts) == IsSeq(insts) /\ InOrder(insts) /\ RegexOnce(insts)

LEMMA AgreeInOrder ==
    ASSUME NEW insts, IsSeq(insts), NEW said, Lined(said), Prefix(insts, said)
    PROVE  Lined(insts)
  <1>1. PICK n, m : n = Len(insts) /\ m = Len(said)
    OBVIOUS
  <1>2. n \in Nat /\ m \in Nat /\ n <= m /\ DOMAIN insts = 1..n
    BY <1>1, SeqFacts DEF Lined, Prefix
  <1>3. \A i \in 1..n : insts[i].op = said[i].op /\ i \in 1..m
    BY <1>2 DEF Prefix, Agree
  <1>4. InOrder(insts)
    <2> SUFFICES ASSUME NEW i \in 1..n PROVE <<OpOf(insts, i - 1), insts[i].op>> \in Adjacent
      BY <1>1 DEF InOrder
    <2>1. OpOf(insts, i - 1) = OpOf(said, i - 1)
      <3>1. i - 1 # 0 => i - 1 \in 1..n
        BY <1>2
      <3> QED
        BY <1>3, <3>1 DEF OpOf
    <2>2. insts[i].op = said[i].op /\ i \in 1..Len(said)
      BY <1>1, <1>3
    <2> QED
      BY <2>1, <2>2 DEF Lined, InOrder
  <1>5. RegexOnce(insts)
    <2> SUFFICES ASSUME NEW i \in 1..n, NEW j \in 1..n, insts[i].op \in Regexp, insts[j].op \in Regexp
                 PROVE  i = j
      BY <1>1 DEF RegexOnce
    <2>1. said[i].op \in Regexp /\ said[j].op \in Regexp /\ i \in 1..Len(said) /\ j \in 1..Len(said)
      BY <1>1, <1>3
    <2> QED
      BY <2>1 DEF Lined, RegexOnce
  <1> QED
    BY <1>4, <1>5 DEF Lined

LEMMA EndqInOrder ==
    ASSUME NEW said, NEW w \in Condition, SaidInOrder(said, w)
    PROVE  Lined(Append(said, Endq))
  <1> DEFINE on == Append(said, Endq)
             n == Len(said)
             p == OpOf(said, n)
  <1>1. n \in Nat /\ Lined(said)
    BY SeqFacts DEF SaidInOrder, Lined
  <1>2. /\ IsSeq(on) /\ Len(on) = n + 1 /\ on[n + 1] = Endq
        /\ \A i \in 1..n : on[i] = said[i]
    BY <1>1, AppendFacts DEF Lined
  <1>3. <<p, "ENDQ">> \in Adjacent
    <2> DEFINE saying == <<w, p>>
    <2>1. saying \in Sayings
      BY DEF SaidInOrder
    <2>2. saying[1] = w /\ saying[2] = p
      OBVIOUS
    <2> HIDE DEF saying, p
    <2>3. saying \in {t \in Sayings : t[1] \in Condition}
      BY <2>1, <2>2
    <2>4. <<saying[2], "ENDQ">> \in Adjacent
      BY <2>3 DEF Adjacent
    <2> QED
      BY <2>2, <2>4
  <1>4. Endq.op = "ENDQ" /\ "ENDQ" \notin Regexp
    BY DEF Endq, Regexp
  <1> HIDE DEF on, p
  <1>5. InOrder(on)
    <2> SUFFICES ASSUME NEW i \in 1..(n + 1) PROVE <<OpOf(on, i - 1), on[i].op>> \in Adjacent
      BY <1>2 DEF InOrder
    <2>1. OpOf(on, i - 1) = OpOf(said, i - 1)
      <3>1. i - 1 # 0 => i - 1 \in 1..n
        BY <1>1
      <3> QED
        BY <1>2, <3>1 DEF OpOf
    <2>2. CASE i = n + 1
      <3>1. i - 1 = n
        BY <1>1, <2>2
      <3> QED
        BY <1>2, <1>3, <1>4, <2>1, <2>2, <3>1 DEF p
    <2>3. CASE i # n + 1
      <3>1. i \in 1..n
        BY <1>1, <2>3
      <3> QED
        BY <1>1, <1>2, <2>1, <3>1 DEF Lined, InOrder, n
    <2> QED
      BY <2>2, <2>3
  <1>6. RegexOnce(on)
    <2> SUFFICES ASSUME NEW i \in 1..(n + 1), NEW j \in 1..(n + 1), on[i].op \in Regexp, on[j].op \in Regexp
                 PROVE  i = j
      BY <1>2 DEF RegexOnce
    <2>1. i # n + 1 /\ j # n + 1
      BY <1>2, <1>4
    <2>2. i \in 1..n /\ j \in 1..n
      BY <1>1, <2>1
    <2>3. said[i].op \in Regexp /\ said[j].op \in Regexp
      BY <1>2, <2>2
    <2> QED
      BY <1>1, <2>2, <2>3 DEF Lined, RegexOnce, n
  <1> QED
    BY <1>2, <1>5, <1>6 DEF Lined, on

AliveInv ==
    /\ \A i \in 1..Len(fed) : fed[i].kind \in TokenKinds
    /\ ~lost /\ phase \in {"eoquery", "end", "parsed"} => ~Dead

LEMMA EndedInOrder ==
    ASSUME ParserInv, AliveInv, Ended, ~Dead
    PROVE  Lined(queued)
  <1>1. SaidInOrder(Meaning, Reading[1])
    BY MeaningInOrder DEF ParserInv, AliveInv, Dead, Reading, Meaning
  <1>2. IsSeq(queued) /\ IsSeq(Meaning) /\ Lined(Meaning)
    BY <1>1 DEF ParserInv, SaidInOrder, Lined
  <1>3. CASE Sentence
    <2>1. Reading[1] \in Condition
      BY <1>3 DEF Sentence
    <2>2. Lined(Append(Meaning, Endq))
      BY <1>1, <2>1, EndqInOrder
    <2>3. Len(queued) = Len(Append(Meaning, Endq)) /\ Agree(queued, Append(Meaning, Endq))
      BY <1>3 DEF Ended, Whole, Matches
    <2>4. Len(queued) \in Nat
      BY <1>2, SeqFacts
    <2>5. Prefix(queued, Append(Meaning, Endq))
      BY <2>3, <2>4 DEF Prefix
    <2> QED
      BY <1>2, <2>2, <2>5, AgreeInOrder
  <1>4. CASE ~Sentence
    BY <1>2, <1>4, AgreeInOrder DEF Ended
  <1> QED
    BY <1>3, <1>4

LEMMA AliveNext ==
    ASSUME ParserInv, ReadInv, AliveInv, [Next]_vars
    PROVE  AliveInv'
  <1>1. CASE Feed \/ QTok
    <2>1. PICK token : token.kind \in TokenKinds /\ Deliver(token.kind, token.value)
      BY <1>1, TokensDelivered
    <2> DEFINE tok == [kind |-> token.kind, value |-> token.value]
    <2>2. fed' = Append(fed, tok) /\ phase' = "token"
      BY <2>1 DEF Deliver
    <2>3. tok.kind \in TokenKinds
      BY <2>1
    <2> HIDE DEF tok
    <2>4. /\ Len(fed) \in Nat /\ Len(fed') = Len(fed) + 1 /\ fed'[Len(fed) + 1] = tok
          /\ \A i \in 1..Len(fed) : fed'[i] = fed[i]
      BY <2>2, SeqFacts, AppendFacts DEF ParserInv
    <2>5. ASSUME NEW i \in 1..Len(fed') PROVE fed'[i].kind \in TokenKinds
      <3>1. CASE i = Len(fed) + 1
        BY <2>3, <2>4, <3>1
      <3>2. CASE i # Len(fed) + 1
        <4>1. i \in 1..Len(fed)
          BY <2>4, <3>2
        <4> QED
          BY <2>4, <4>1 DEF AliveInv
      <3> QED
        BY <3>1, <3>2
    <2> QED
      BY <2>2, <2>5 DEF AliveInv
  <1>2. CASE EndOfText
    <2>1. phase = "read" /\ UNCHANGED <<fed, lost>>
      BY <1>2 DEF EndOfText
    <2>2. (Dead' <=> Dead)
      BY <2>1, FedKept
    <2>3. ~lost => ~Dead
      <3>1. CASE fed = <<>>
        <4>1. Len(fed) = 0 /\ IsSeq(fed)
          BY <3>1, SeqFacts DEF ParserInv
        <4>2. Reading = <<"start", 0>>
          BY <4>1, ReadingIs DEF IsReading, Reading
        <4> QED
          BY <4>2 DEF Dead
      <3>2. CASE fed # <<>> /\ ~lost
        <4>1. Knows(parser.stack, NoToken, Reading)
          BY <2>1, <3>2 DEF ReadInv
        <4>2. "UQSTRING" \in TokenKinds
          BY QueryTables DEF TokeniserKinds
        <4> QED
          BY <4>1, <4>2, KnowsToken DEF Dead
      <3> QED
        BY <3>1, <3>2
    <2> QED
      BY <2>1, <2>2, <2>3 DEF AliveInv
  <1>3. CASE SkipBlanks \/ QTokEmpty \/ Looked \/ EndOfQuery \/ Parsed \/ Exec \/ UNCHANGED vars
    <2>1. fed' = fed /\ lost' = lost
      BY <1>3 DEF SkipBlanks, QTokEmpty, Looked, EndOfQuery, Parsed, Exec, vars
    <2>2. phase' \in {"eoquery", "end", "parsed"} => phase \in {"eoquery", "end", "parsed"}
      BY <1>3 DEF SkipBlanks, QTokEmpty, Looked, EndOfQuery, Parsed, Exec, vars
    <2>3. (Dead' <=> Dead)
      BY <2>1, FedKept
    <2> QED
      BY <2>1, <2>2, <2>3 DEF AliveInv
  <1>4. CASE ParseShift \/ ParseReduce \/ ParseUnusable \/ ParseError
    <2>1. fed' = fed /\ phase' = phase
      BY <1>4 DEF ParseShift, ParseReduce, ParseUnusable, ParseError
    <2>2. lost => lost'
      BY <1>4, Zenon DEF ParseShift, ParseReduce, ParseUnusable, ParseError
    <2>3. (Dead' <=> Dead)
      BY <2>1, FedKept
    <2> QED
      BY <2>1, <2>2, <2>3 DEF AliveInv
  <1> QED
    BY <1>1, <1>2, <1>3, <1>4 DEF Next

LEMMA ShapedIs ==
    ASSUME NEW insts, IsSeq(insts)
    PROVE  /\ Shaped(insts) # "prepared"
           /\ Shaped(insts) = "fine" => \A i \in 1..Len(insts) : ShapeOf(insts, i) = "fine"
  <1> DEFINE bad == {i \in DOMAIN insts : ShapeOf(insts, i) # "fine"}
  <1>1. bad \subseteq Nat /\ DOMAIN insts = 1..Len(insts)
    BY SeqFacts
  <1>2. Shaped(insts) = IF bad = {} THEN "fine" ELSE ShapeOf(insts, Min(bad))
    BY DEF Shaped
  <1>3. bad # {} => Min(bad) \in bad
    BY <1>1, MinIn
  <1>4. ASSUME NEW i PROVE ShapeOf(insts, i) \in {"OPERATION_WITHOUT_OPERANDS", "DOUBLE_OPERAND", "fine"}
    BY Zenon DEF ShapeOf
  <1> QED
    BY <1>1, <1>2, <1>3, <1>4

\* What a statement was made of.
SelectInv ==
    verdict.code = "prepared" =>
       /\ Lined(queued) /\ Checked(queued) = "fine" /\ Shaped(queued) = "fine"
       /\ verdict = [code |-> "prepared", sql |-> Select(queued), room |-> Room(queued)]

LEMMA SelectNext ==
    ASSUME ParserInv, QueueInv, EndInv, AliveInv, VerdictInv, SelectInv, [Next]_vars
    PROVE  SelectInv'
  <1>1. CASE Exec
    <2>1. /\ phase = "parsed" /\ queued' = queued
          /\ verdict' = IF Checked(queued) # "fine" THEN [NoVerdict EXCEPT !.code = Checked(queued)]
                        ELSE IF Shaped(queued) # "fine" THEN [NoVerdict EXCEPT !.code = Shaped(queued)]
                        ELSE [code |-> "prepared", sql |-> Select(queued), room |-> Room(queued)]
      BY <1>1, Zenon DEF Exec
    <2> SUFFICES ASSUME verdict'.code = "prepared"
                 PROVE  /\ Lined(queued) /\ Checked(queued) = "fine" /\ Shaped(queued) = "fine"
                        /\ verdict' = [code |-> "prepared", sql |-> Select(queued), room |-> Room(queued)]
      BY <2>1 DEF SelectInv
    <2>2. IsSeq(queued)
      BY DEF ParserInv
    <2>3. Checked(queued) # "prepared" /\ Shaped(queued) # "prepared"
      BY <2>2, CheckedGroups, ShapedIs
    <2>4. ASSUME NEW c PROVE [NoVerdict EXCEPT !.code = c].code = c
      BY DEF NoVerdict
    <2>5. Checked(queued) = "fine" /\ Shaped(queued) = "fine"
      BY <2>1, <2>3, <2>4
    <2>6. ~lost
      BY <1>1, VerdictOnExec
    <2>7. Ended /\ ~Dead
      BY <2>1, <2>6 DEF EndInv, AliveInv
    <2> QED
      BY <2>1, <2>5, <2>7, EndedInOrder
  <1>2. CASE UNCHANGED vars
    BY <1>2 DEF SelectInv, vars
  <1>3. ASSUME Next, ~Exec PROVE SelectInv'
    <2>1. verdict' = verdict
      BY <1>3 DEF Next, ParseShift, ParseReduce, ParseUnusable, ParseError, Feed, SkipBlanks, QTok, QTokEmpty,
                  Looked, EndOfText, EndOfQuery, Parsed, Deliver
    <2> SUFFICES ASSUME verdict.code = "prepared" PROVE SelectInv'
      BY <2>1 DEF SelectInv
    <2>2. phase = "executed"
      BY DEF VerdictInv
    <2>3. ~Parsing(parser)
      BY <2>2 DEF ParserInv, LooksAt
    <2> QED
      BY <1>3, <2>2, <2>3 DEF Next, ParseShift, ParseReduce, ParseUnusable, ParseError, Reducing, Feed, SkipBlanks,
                  QTok, QTokEmpty, Looked, EndOfText, EndOfQuery, Parsed, Delivers
  <1> QED
    BY <1>1, <1>2, <1>3
-----------------------------------------------------------------------------
(* Sums, and the length of a text made of pieces.                          *)
IsSum(f, s, n) == f[0] = 0 /\ \A i \in 1..n : f[i] = f[i - 1] + s[i]

LEMMA SumExists ==
    ASSUME NEW s, NEW n \in Nat
    PROVE  \E f : f = [i \in 0..n |-> f[i]] /\ IsSum(f, s, n)
  <1> DEFINE T == {m \in Nat : \E f : f = [i \in 0..m |-> f[i]] /\ IsSum(f, s, m)}
  <1>1. 0 \in T
    <2> DEFINE f == [i \in 0..0 |-> 0]
    <2>1. f = [i \in 0..0 |-> f[i]] /\ IsSum(f, s, 0)
      BY DEF IsSum
    <2> QED
      BY <2>1
  <1>2. ASSUME NEW m \in Nat, m \in T PROVE m + 1 \in T
    <2>1. PICK f : f = [i \in 0..m |-> f[i]] /\ IsSum(f, s, m)
      BY <1>2
    <2> DEFINE on == [i \in 0..(m + 1) |-> IF i = m + 1 THEN f[m] + s[m + 1] ELSE f[i]]
    <2>2. on[0] = 0
      BY <2>1 DEF IsSum
    <2>3. ASSUME NEW i \in 1..(m + 1) PROVE on[i] = on[i - 1] + s[i]
      <3>1. on[i - 1] = f[i - 1]
        <4>1. i - 1 \in 0..(m + 1) /\ i - 1 # m + 1
          OBVIOUS
        <4> QED
          BY <4>1
      <3>2. CASE i = m + 1
        <4>1. on[i] = f[m] + s[m + 1] /\ i - 1 = m
          BY <3>2
        <4> HIDE DEF on
        <4> QED
          BY <3>1, <3>2, <4>1
      <3>3. CASE i # m + 1
        <4>1. on[i] = f[i] /\ i \in 1..m
          BY <3>3
        <4> HIDE DEF on
        <4> QED
          BY <2>1, <3>1, <4>1 DEF IsSum
      <3> QED
        BY <3>2, <3>3
    <2>4. on = [i \in 0..(m + 1) |-> on[i]]
      OBVIOUS
    <2> HIDE DEF on
    <2>5. IsSum(on, s, m + 1)
      BY <2>2, <2>3 DEF IsSum
    <2> QED
      BY <2>4, <2>5
  <1>3. n \in T
    <2> HIDE DEF T
    <2> QED
      BY <1>1, <1>2, Induction
  <1> QED
    BY <1>3

LEMMA SumIs ==
    ASSUME NEW s, IsSeq(s)
    PROVE  \E f : IsSum(f, s, Len(s)) /\ SumOf(s) = f[Len(s)]
  <1> DEFINE n == Len(s)
             F == CHOOSE f : f = [i \in 0..n |-> IF i = 0 THEN 0 ELSE f[i - 1] + s[i]]
  <1>1. n \in Nat
    BY SeqFacts
  <1>2. PICK f : f = [i \in 0..n |-> f[i]] /\ IsSum(f, s, n)
    BY <1>1, SumExists
  <1>3. f = [i \in 0..n |-> IF i = 0 THEN 0 ELSE f[i - 1] + s[i]]
    <2> HIDE DEF n
    <2>1. ASSUME NEW i \in 0..n PROVE f[i] = IF i = 0 THEN 0 ELSE f[i - 1] + s[i]
      <3>1. i # 0 => i \in 1..n
        OBVIOUS
      <3> QED
        BY <1>2, <3>1 DEF IsSum
    <2> QED
      BY <1>2, <2>1
  <1>4. F = [i \in 0..n |-> IF i = 0 THEN 0 ELSE F[i - 1] + s[i]]
    <2> HIDE DEF n
    <2> QED
      BY <1>3, Zenon
  <1>5. SumOf(s) = F[n]
    BY DEF SumOf
  <1> HIDE DEF F, n
  <1>6. IsSum(F, s, n)
    <2>1. F[0] = 0
      BY <1>1, <1>4
    <2>2. ASSUME NEW i \in 1..n PROVE F[i] = F[i - 1] + s[i]
      <3>1. i \in 0..n /\ i # 0
        OBVIOUS
      <3> QED
        BY <1>4, <3>1
    <2> QED
      BY <2>1, <2>2 DEF IsSum
  <1> QED
    BY <1>5, <1>6 DEF n

\* Two sums of the same numbers.
LEMMA SumAgrees ==
    ASSUME NEW f, NEW g, NEW s, NEW t, NEW n \in Nat, IsSum(f, s, n), IsSum(g, t, n),
           \A i \in 1..n : s[i] = t[i]
    PROVE  f[n] = g[n]
  <1> DEFINE T == {m \in Nat : m <= n => f[m] = g[m]}
  <1>1. 0 \in T
    BY DEF IsSum
  <1>2. ASSUME NEW m \in Nat, m \in T PROVE m + 1 \in T
    <2> SUFFICES ASSUME m + 1 <= n PROVE f[m + 1] = g[m + 1]
      OBVIOUS
    <2>1. m + 1 \in 1..n /\ (m + 1) - 1 = m /\ m <= n
      OBVIOUS
    <2>2. f[m] = g[m]
      BY <1>2, <2>1
    <2>3. f[m + 1] = f[(m + 1) - 1] + s[m + 1] /\ g[m + 1] = g[(m + 1) - 1] + t[m + 1] /\ s[m + 1] = t[m + 1]
      BY <2>1 DEF IsSum
    <2> QED
      BY <2>1, <2>2, <2>3
  <1>3. n \in T
    <2> HIDE DEF T
    <2> QED
      BY <1>1, <1>2, Induction
  <1> QED
    BY <1>3

LEMMA SumOn ==
    ASSUME NEW s, IsSeq(s), NEW on, IsSeq(on), Len(on) = Len(s) + 1, \A i \in 1..Len(s) : on[i] = s[i]
    PROVE  SumOf(on) = SumOf(s) + on[Len(s) + 1]
  <1>1. PICK n \in Nat : n = Len(s)
    BY SeqFacts
  <1>2. PICK f : IsSum(f, s, n) /\ SumOf(s) = f[n]
    BY <1>1, SumIs
  <1>3. PICK g : IsSum(g, on, n + 1) /\ SumOf(on) = g[n + 1]
    BY <1>1, SumIs
  <1>4. IsSum(g, on, n)
    <2>1. \A i \in 1..n : i \in 1..(n + 1)
      OBVIOUS
    <2> QED
      BY <1>3, <2>1 DEF IsSum
  <1>5. g[n] = f[n]
    BY <1>1, <1>2, <1>4, SumAgrees
  <1>6. g[n + 1] = g[(n + 1) - 1] + on[n + 1] /\ (n + 1) - 1 = n
    <2>1. n + 1 \in 1..(n + 1) /\ (n + 1) - 1 = n
      OBVIOUS
    <2> QED
      BY <1>3, <2>1 DEF IsSum
  <1> QED
    BY <1>1, <1>2, <1>3, <1>5, <1>6

Lengths(sql) == [i \in DOMAIN sql |-> sql[i].length]
Weigh(sql) == SumOf(Lengths(sql))

LEMMA LengthsAre ==
    ASSUME NEW sql, IsSeq(sql)
    PROVE  IsSeq(Lengths(sql)) /\ Len(Lengths(sql)) = Len(sql) /\ \A i \in 1..Len(sql) : Lengths(sql)[i] = sql[i].length
  <1> DEFINE n == Len(sql)
             f == Lengths(sql)
  <1>1. n \in Nat /\ DOMAIN sql = 1..n
    BY SeqFacts
  <1> HIDE DEF n
  <1>2. f = [i \in 1..n |-> f[i]] /\ \A i \in 1..n : f[i] = sql[i].length
    BY <1>1 DEF Lengths
  <1> HIDE DEF f
  <1>3. IsSeq(f) /\ Len(f) = n
    BY <1>1, <1>2, ListIsSeq
  <1> QED
    BY <1>2, <1>3 DEF f, n

LEMMA WeighNone == Weigh(<<>>) = 0
  <1>1. IsSeq(<<>>) /\ Len(<<>>) = 0
    BY EmptyIsSeq, SeqFacts
  <1>2. IsSeq(Lengths(<<>>)) /\ Len(Lengths(<<>>)) = 0
    BY <1>1, LengthsAre
  <1>3. PICK f : IsSum(f, Lengths(<<>>), 0) /\ SumOf(Lengths(<<>>)) = f[0]
    BY <1>2, SumIs
  <1> QED
    BY <1>3 DEF IsSum, Weigh

LEMMA WeighOn ==
    ASSUME NEW sql, IsSeq(sql), NEW piece
    PROVE  Weigh(Append(sql, piece)) = Weigh(sql) + piece.length
  <1> DEFINE on == Append(sql, piece)
             n == Len(sql)
  <1>1. /\ n \in Nat /\ IsSeq(on) /\ Len(on) = n + 1 /\ on[n + 1] = piece
        /\ \A i \in 1..n : on[i] = sql[i]
    BY SeqFacts, AppendFacts
  <1> HIDE DEF on, n
  <1>2. IsSeq(Lengths(sql)) /\ Len(Lengths(sql)) = n /\ \A i \in 1..n : Lengths(sql)[i] = sql[i].length
    BY LengthsAre DEF n
  <1>3. IsSeq(Lengths(on)) /\ Len(Lengths(on)) = n + 1 /\ \A i \in 1..(n + 1) : Lengths(on)[i] = on[i].length
    BY <1>1, LengthsAre
  <1>4. \A i \in 1..n : Lengths(on)[i] = Lengths(sql)[i]
    BY <1>1, <1>2, <1>3
  <1>5. n + 1 \in 1..(n + 1)
    BY <1>1
  <1>6. SumOf(Lengths(on)) = SumOf(Lengths(sql)) + Lengths(on)[n + 1]
    BY <1>2, <1>3, <1>4, SumOn
  <1> QED
    BY <1>1, <1>3, <1>5, <1>6 DEF Weigh, on
-----------------------------------------------------------------------------
(* The text of the statement, one instruction further.                     *)
PieceOf(insts, i) == TextOf(insts, i)[1]
Opening(insts) ==
    LET selected == IF Selecting(insts) = {} THEN Piece("*", 1)
                    ELSE Piece("columns", SumOf([i \in DOMAIN insts |->
                            IF insts[i].op = "SELCN" THEN Width(insts[i].value) + 1 ELSE 0]) - 1)
        catalogue == insts[Max({i \in DOMAIN insts : insts[i].op = "SETCAT"})]
    IN  <<Piece("SELECT", 7), selected, Piece("FROM", 8), Piece("catalogue", Width(catalogue.value))>>
        \o (IF Conditional(insts) THEN <<Piece("WHERE", 7)>> ELSE <<>>)
Bodied(insts, n) == FlattenSeq([i \in 1..n |-> TextOf(insts, i)])
WrittenTo(insts, n) == Opening(insts) \o Bodied(insts, n)

LEMMA TextIs ==
    ASSUME NEW insts, NEW i
    PROVE  TextOf(insts, i) = IF insts[i].op \in TextOps THEN <<PieceOf(insts, i)>> ELSE <<>>
  <1> DEFINE op == insts[i].op
  <1>1. CASE op \in TextOps
    <2>1. \E p : TextOf(insts, i) = <<p>>
      <3>1. CASE op = "BEGIN_GRP"
        <4>1. TextOf(insts, i) = <<Piece("(", 1)>>
          BY <3>1 DEF TextOf, Binary, Comparison, Bound
        <4> QED
          BY <4>1
      <3>2. CASE op = "CLOSE_GRP"
        <4>1. TextOf(insts, i) = <<Piece(")", 1)>>
          BY <3>2 DEF TextOf, Binary, Comparison, Bound
        <4> QED
          BY <4>1
      <3>3. CASE op = "NOT"
        <4>1. TextOf(insts, i) = <<Piece("!", 2)>>
          BY <3>3 DEF TextOf, Binary, Comparison, Bound
        <4> QED
          BY <4>1
      <3>4. CASE op \in Binary
        <4>1. TextOf(insts, i) = <<Piece("binary", RoomOf(insts, i))>>
          BY <3>4 DEF TextOf, Binary, Comparison, Bound
        <4> QED
          BY <4>1
      <3>5. CASE op \in Bound
        <4>1. TextOf(insts, i) = <<Piece("?", 1)>>
          BY <3>5 DEF TextOf, Binary, Comparison, Bound
        <4> QED
          BY <4>1
      <3>6. CASE op = "UINT"
        BY <3>6 DEF TextOf, Binary, Comparison, Bound
      <3>7. CASE op = "COLNAME"
        BY <3>7 DEF TextOf, Binary, Comparison, Bound
      <3>8. CASE op = "REGEXP"
        <4>1. TextOf(insts, i) = <<Piece(Pattern("REGEXP", insts[i].value), Width(insts[i].value) + 10)>>
          BY <3>8 DEF TextOf, Binary, Comparison, Bound
        <4> QED
          BY <4>1
      <3>9. CASE op = "NOTREGEXP"
        <4>1. TextOf(insts, i) = <<Piece(Pattern("notregexp)", insts[i].value), Width(insts[i].value) + 5)>>
          BY <3>9 DEF TextOf, Binary, Comparison, Bound
        <4> QED
          BY <4>1
      <3> QED
        BY <1>1, <3>1, <3>2, <3>3, <3>4, <3>5, <3>6, <3>7, <3>8, <3>9 DEF TextOps, Operands, Regexp
    <2>2. PICK p : TextOf(insts, i) = <<p>>
      BY <2>1
    <2>3. <<p>>[1] = p
      OBVIOUS
    <2>4. PieceOf(insts, i) = p
      BY <2>2, <2>3 DEF PieceOf
    <2> QED
      BY <1>1, <2>2, <2>4
  <1>2. CASE op \notin TextOps
    <2>1. TextOf(insts, i) = <<>>
      BY <1>2 DEF TextOf, TextOps, Operands, Regexp
    <2> QED
      BY <1>2, <2>1
  <1> QED
    BY <1>1, <1>2

LEMMA ConcatOn ==
    ASSUME NEW s, IsSeq(s), NEW t, IsSeq(t), NEW e
    PROVE  IsSeq(s \o t) /\ s \o Append(t, e) = Append(s \o t, e)
  <1>1. PICK S : s \in Seq(S)
    BY DEF IsSeq
  <1>2. PICK T : t \in Seq(T)
    BY DEF IsSeq
  <1> DEFINE U == S \cup T \cup {e}
  <1>3. s \in Seq(U) /\ t \in Seq(U) /\ e \in U
    BY <1>1, <1>2, SeqMonotonic
  <1> HIDE DEF U
  <1>4. s \o t \in Seq(U) /\ <<e>> \in Seq(U)
    BY <1>3, ConcatProperties
  <1>5. Append(t, e) = t \o <<e>> /\ Append(s \o t, e) = (s \o t) \o <<e>>
    BY <1>3, <1>4, AppendIsConcat
  <1>6. s \o (t \o <<e>>) = (s \o t) \o <<e>>
    BY <1>3, <1>4, ConcatAssociative
  <1> QED
    BY <1>4, <1>5, <1>6 DEF IsSeq

LEMMA BodiedOn ==
    ASSUME NEW insts, NEW n \in Nat
    PROVE  /\ IsSeq(Bodied(insts, n)) /\ Bodied(insts, 0) = <<>>
           /\ Bodied(insts, n + 1) =
                 IF insts[n + 1].op \in TextOps THEN Append(Bodied(insts, n), PieceOf(insts, n + 1))
                 ELSE Bodied(insts, n)
  <1> DEFINE texts(m) == [i \in 1..m |-> TextOf(insts, i)]
  <1>1. ASSUME NEW m \in Nat PROVE IsSeq(texts(m)) /\ Len(texts(m)) = m
    <2>1. texts(m) = [i \in 1..m |-> texts(m)[i]]
      OBVIOUS
    <2> HIDE DEF texts
    <2> QED
      BY <2>1, ListIsSeq
  <1>2. ASSUME NEW m \in Nat, NEW i \in 1..m PROVE texts(m)[i] = TextOf(insts, i)
    OBVIOUS
  <1>3. ASSUME NEW m PROVE Bodied(insts, m) = FlattenSeq(texts(m))
    BY DEF Bodied
  <1> HIDE DEF texts
  <1>4. Bodied(insts, 0) = <<>>
    BY <1>1, <1>3, FlattenNone
  <1>5. ASSUME NEW m \in Nat, IsSeq(Bodied(insts, m))
        PROVE  /\ IsSeq(Bodied(insts, m + 1))
               /\ Bodied(insts, m + 1) =
                     IF insts[m + 1].op \in TextOps THEN Append(Bodied(insts, m), PieceOf(insts, m + 1))
                     ELSE Bodied(insts, m)
    <2>1. m + 1 \in 1..(m + 1) /\ m + 1 \in Nat /\ \A i \in 1..m : i \in 1..(m + 1)
      OBVIOUS
    <2>2. texts(m + 1)[m + 1] = TextOf(insts, m + 1) /\ \A i \in 1..m : texts(m + 1)[i] = texts(m)[i]
      BY <1>2, <2>1
    <2>3. IsSeq(TextOf(insts, m + 1))
      BY TextIs, OneIsSeq, EmptyIsSeq
    <2>4. Bodied(insts, m + 1) = Bodied(insts, m) \o TextOf(insts, m + 1)
      <3>1. PICK s, on : s = texts(m) /\ on = texts(m + 1)
        OBVIOUS
      <3>2. /\ IsSeq(s) /\ Len(s) = m /\ IsSeq(on) /\ Len(on) = m + 1
            /\ \A i \in 1..m : on[i] = s[i]
            /\ on[m + 1] = TextOf(insts, m + 1) /\ IsSeq(on[m + 1])
        BY <1>1, <2>1, <2>2, <2>3, <3>1
      <3>3. FlattenSeq(on) = FlattenSeq(s) \o on[m + 1]
        BY <3>2, FlattenOn
      <3> QED
        BY <1>3, <3>1, <3>2, <3>3
    <2>5. /\ Bodied(insts, m) \o <<>> = Bodied(insts, m)
          /\ Bodied(insts, m) \o <<PieceOf(insts, m + 1)>> = Append(Bodied(insts, m), PieceOf(insts, m + 1))
      BY <1>5, SaidOn
    <2>6. Bodied(insts, m + 1) =
             IF insts[m + 1].op \in TextOps THEN Append(Bodied(insts, m), PieceOf(insts, m + 1))
             ELSE Bodied(insts, m)
      BY <2>4, <2>5, TextIs
    <2> QED
      BY <1>5, <2>6, AppendFacts
  <1> DEFINE T == {m \in Nat : IsSeq(Bodied(insts, m))}
  <1>6. 0 \in T
    BY <1>4, EmptyIsSeq
  <1>7. \A m \in Nat : m \in T => m + 1 \in T
    BY <1>5
  <1>8. n \in T
    <2> HIDE DEF T
    <2> QED
      BY <1>6, <1>7, Induction
  <1> QED
    BY <1>4, <1>5, <1>8

LEMMA OpeningIs ==
    ASSUME NEW insts
    PROVE  /\ IsSeq(Opening(insts))
           /\ Len(Opening(insts)) = IF Conditional(insts) THEN 5 ELSE 4
           /\ \A i \in 1..4 : Opening(insts)[i].what \in {"SELECT", "*", "columns", "FROM", "catalogue"}
           /\ Conditional(insts) => Opening(insts)[5].what = "WHERE"
           /\ Weigh(Opening(insts)) =
                 7 + (IF Selecting(insts) = {} THEN 1
                      ELSE SumOf([i \in DOMAIN insts |->
                              IF insts[i].op = "SELCN" THEN Width(insts[i].value) + 1 ELSE 0]) - 1)
                   + 8 + Width(insts[Max({i \in DOMAIN insts : insts[i].op = "SETCAT"})].value)
                   + (IF Conditional(insts) THEN 7 ELSE 0)
  <1> DEFINE columns == SumOf([i \in DOMAIN insts |->
                              IF insts[i].op = "SELCN" THEN Width(insts[i].value) + 1 ELSE 0])
             selected == IF Selecting(insts) = {} THEN Piece("*", 1) ELSE Piece("columns", columns - 1)
             width == Width(insts[Max({i \in DOMAIN insts : insts[i].op = "SETCAT"})].value)
  <1>1. Opening(insts) =
           <<Piece("SELECT", 7), selected, Piece("FROM", 8), Piece("catalogue", width)>>
           \o (IF Conditional(insts) THEN <<Piece("WHERE", 7)>> ELSE <<>>)
    BY DEF Opening
  <1>2. selected.what \in {"*", "columns"} /\ selected.length = IF Selecting(insts) = {} THEN 1 ELSE columns - 1
    BY DEF Piece
  <1> HIDE DEF columns, selected, width
  <1> DEFINE four == <<Piece("SELECT", 7), selected, Piece("FROM", 8), Piece("catalogue", width)>>
             five == Append(four, Piece("WHERE", 7))
  <1>3. /\ IsSeq(four) /\ Len(four) = 4
        /\ four[1] = Piece("SELECT", 7) /\ four[2] = selected /\ four[3] = Piece("FROM", 8)
        /\ four[4] = Piece("catalogue", width)
    <2>1. IsSeq(four)
      <3> DEFINE S == {Piece("SELECT", 7), selected, Piece("FROM", 8), Piece("catalogue", width)}
      <3>1. four \in Seq(S)
        OBVIOUS
      <3> QED
        BY <3>1 DEF IsSeq
    <2> QED
      BY <2>1
  <1>4. Weigh(four) = 7 + selected.length + 8 + width
    <2> DEFINE one == Append(<<>>, Piece("SELECT", 7))
               two == Append(one, selected)
               three == Append(two, Piece("FROM", 8))
    <2>1. four = Append(three, Piece("catalogue", width))
      OBVIOUS
    <2>2. IsSeq(one) /\ IsSeq(two) /\ IsSeq(three)
      BY EmptyIsSeq, AppendFacts
    <2>3. /\ Weigh(one) = Weigh(<<>>) + 7
          /\ Weigh(two) = Weigh(one) + selected.length
          /\ Weigh(three) = Weigh(two) + 8
      <3>1. Piece("SELECT", 7).length = 7 /\ Piece("FROM", 8).length = 8
        BY DEF Piece
      <3> HIDE DEF one, two, three
      <3>2. Weigh(two) = Weigh(one) + selected.length
        BY <2>2, WeighOn DEF two
      <3>3. Weigh(three) = Weigh(two) + 8
        BY <2>2, <3>1, WeighOn DEF three
      <3>4. Weigh(one) = Weigh(<<>>) + 7
        BY <3>1, EmptyIsSeq, WeighOn DEF one
      <3> QED
        BY <3>2, <3>3, <3>4
    <2> HIDE DEF four, three, two, one
    <2>4. Weigh(four) = Weigh(three) + width
      <3>1. Piece("catalogue", width).length = width
        BY DEF Piece
      <3> QED
        BY <2>1, <2>2, <3>1, WeighOn
    <2> QED
      BY <2>3, <2>4, WeighNone
  <1>5. four \o <<Piece("WHERE", 7)>> = five /\ four \o <<>> = four
    BY <1>3, SaidOn
  <1> HIDE DEF four
  <1>6. /\ IsSeq(five) /\ Len(five) = 5 /\ five[5] = Piece("WHERE", 7) /\ \A i \in 1..4 : five[i] = four[i]
        /\ Weigh(five) = Weigh(four) + 7
    <2>1. /\ IsSeq(five) /\ Len(five) = Len(four) + 1 /\ five[Len(four) + 1] = Piece("WHERE", 7)
          /\ \A i \in 1..Len(four) : five[i] = four[i]
      <3>1. IsSeq(four)
        BY <1>3
      <3> QED
        BY <3>1, AppendFacts
    <2>2. Weigh(five) = Weigh(four) + Piece("WHERE", 7).length
      BY <1>3, WeighOn
    <2>3. Piece("WHERE", 7).length = 7
      BY DEF Piece
    <2> HIDE DEF five
    <2> QED
      BY <1>3, <2>1, <2>2, <2>3
  <1>7. Opening(insts) = IF Conditional(insts) THEN five ELSE four
    BY <1>1, <1>5 DEF four
  <1>8. \A i \in 1..4 : four[i].what \in {"SELECT", "*", "columns", "FROM", "catalogue"}
    <2>1. /\ four[1].what = "SELECT" /\ four[2].what = selected.what /\ four[3].what = "FROM"
          /\ four[4].what = "catalogue"
      BY <1>3 DEF Piece
    <2>2. \A i \in 1..4 : i = 1 \/ i = 2 \/ i = 3 \/ i = 4
      OBVIOUS
    <2> QED
      BY <1>2, <2>1, <2>2
  <1>9. five[5].what = "WHERE"
    BY <1>6 DEF Piece
  <1>10. Weigh(Opening(insts)) =
           7 + (IF Selecting(insts) = {} THEN 1 ELSE columns - 1) + 8 + width + (IF Conditional(insts) THEN 7 ELSE 0)
    <2> HIDE DEF five
    <2>1. PICK o : o = Weigh(Opening(insts))
      OBVIOUS
    <2>2. CASE Conditional(insts)
      <3>1. o = 7 + selected.length + 8 + width + 7
        BY <1>4, <1>6, <1>7, <2>1, <2>2
      <3> QED
        BY <1>2, <2>1, <2>2, <3>1
    <2>3. CASE ~Conditional(insts)
      <3>1. o = 7 + selected.length + 8 + width
        BY <1>4, <1>7, <2>1, <2>3
      <3> QED
        BY <1>2, <2>1, <2>3, <3>1
    <2> QED
      BY <2>2, <2>3
  <1> HIDE DEF five
  <1> QED
    BY <1>3, <1>6, <1>7, <1>8, <1>9, <1>10 DEF columns, width
-----------------------------------------------------------------------------
(* What the order and the first pass say of the instructions of a          *)
(* statement.                                                              *)
LEMMA Neighboured ==
    ASSUME NEW insts, Lined(insts), NEW i \in 1..Len(insts)
    PROVE  Neighbours(OpOf(insts, i - 1), insts[i].op)
  <1> DEFINE said == <<OpOf(insts, i - 1), insts[i].op>>
  <1>1. said \in Adjacent
    BY DEF Lined, InOrder
  <1>2. said[1] = OpOf(insts, i - 1) /\ said[2] = insts[i].op
    OBVIOUS
  <1> HIDE DEF said
  <1>3. Neighbours(said[1], said[2])
    BY <1>1, QueryTables DEF KnowsOrder
  <1> QED
    BY <1>2, <1>3

LEMMA CheckedIs ==
    ASSUME NEW insts, IsSeq(insts), Checked(insts) = "fine"
    PROVE  /\ \A i \in 1..Len(insts) : CheckOf(insts, i) = "fine"
           /\ \E i \in 1..Len(insts) : insts[i].op = "SETCAT"
  <1> DEFINE bad == {i \in DOMAIN insts : CheckOf(insts, i) # "fine"}
             begun == Before(insts, Len(insts) + 1, "BEGIN_GRP")
             closed == Before(insts, Len(insts) + 1, "CLOSE_GRP")
  <1>1. bad \subseteq Nat /\ DOMAIN insts = 1..Len(insts)
    BY SeqFacts
  <1>2. Checked(insts) =
          IF bad # {} THEN CheckOf(insts, Min(bad))
          ELSE IF ~AllColumns(insts, Len(insts) + 1) /\ Selecting(insts) = {} THEN "NO_COLUMNS"
          ELSE IF begun > closed THEN "UNBALANCED_GROUP"
          ELSE IF ~Present(insts, "SETCAT") THEN "CATALOGUE_NOT_SET"
          ELSE "fine"
    BY DEF Checked
  <1> HIDE DEF begun, closed
  <1>3. bad = {}
    <2>1. bad # {} => Min(bad) \in bad
      BY <1>1, MinIn
    <2> QED
      BY <1>2, <2>1
  <1>4. Present(insts, "SETCAT")
    BY <1>2, <1>3
  <1> QED
    BY <1>1, <1>3, <1>4 DEF Present

LEMMA MaxOfSome ==
    ASSUME NEW n \in Nat, NEW S, S \subseteq 1..n, S # {}
    PROVE  Max(S) \in S
  <1> DEFINE T == {m \in Nat : m <= n /\ n - m \in S}
  <1>1. T # {} /\ T \subseteq Nat
    <2>1. PICK x \in S : TRUE
      OBVIOUS
    <2>2. n - x \in Nat /\ n - x <= n /\ n - (n - x) = x
      BY <2>1
    <2>3. n - x \in T
      BY <2>1, <2>2
    <2> QED
      BY <2>3
  <1> HIDE DEF T
  <1>2. PICK m \in T : \A y \in T : m <= y
    BY <1>1, LeastNat
  <1>3. m \in Nat /\ m <= n /\ n - m \in S
    BY <1>2 DEF T
  <1>4. ASSUME NEW y \in S PROVE n - m >= y
    <2>1. y \in Nat /\ n - y \in Nat /\ n - y <= n /\ n - (n - y) = y
      BY <1>4
    <2>2. n - y \in T
      BY <1>4, <2>1 DEF T
    <2>3. m <= n - y
      BY <1>2, <2>2
    <2> QED
      BY <1>3, <2>1, <2>3
  <1>5. \E x \in S : \A y \in S : x >= y
    BY <1>3, <1>4
  <1> QED
    BY <1>5 DEF Max

\* BEGINQ_ALL or BEGINQ_COLS is queued first, and only there.
LEMMA BeginsFirst ==
    ASSUME NEW insts, Lined(insts), NEW i \in 1..Len(insts)
    PROVE  insts[i].op \in Begins <=> i = 1
  <1>1. insts[i].op \in Begins <=> OpOf(insts, i - 1) = "none"
    BY Neighboured DEF Neighbours
  <1>2. i = 1 => OpOf(insts, i - 1) = "none"
    BY DEF OpOf
  <1>3. i # 1 => OpOf(insts, i - 1) # "none"
    <2> SUFFICES ASSUME i # 1 PROVE OpOf(insts, i - 1) # "none"
      OBVIOUS
    <2>1. PICK j : j = i - 1
      OBVIOUS
    <2>2. j \in 1..Len(insts) /\ j # 0
      <3>1. Len(insts) \in Nat
        BY SeqFacts DEF Lined
      <3> QED
        BY <2>1, <3>1
    <2>3. Neighbours(OpOf(insts, j - 1), insts[j].op)
      BY <2>2, Neighboured
    <2>4. insts[j].op # "none"
      BY <2>3 DEF Neighbours, Begins, TextOps, Binary, Comparison, Operands, Bound, Regexp
    <2> QED
      BY <2>1, <2>2, <2>4 DEF OpOf
  <1> QED
    BY <1>1, <1>2, <1>3

\* If any column is selected, all that are named are.
LEMMA SelectingAll ==
    ASSUME NEW insts, Lined(insts), NEW i \in Selecting(insts), NEW j \in 1..Len(insts),
           insts[j].op = "SELCN"
    PROVE  j \in Selecting(insts)
  <1>1. DOMAIN insts = 1..Len(insts) /\ Len(insts) \in Nat
    BY SeqFacts DEF Lined
  <1>2. ASSUME NEW n \in 1..Len(insts), insts[n].op = "SELCN"
        PROVE  AllColumns(insts, n) <=> insts[1].op = "BEGINQ_ALL"
    <2> DEFINE at == {m \in 1..n-1 : insts[m].op \in {"BEGINQ_COLS", "BEGINQ_ALL"}}
    <2>1. n # 1
      <3>1. insts[n].op \notin Begins
        BY <1>2 DEF Begins
      <3> QED
        BY <3>1, BeginsFirst
    <2>2. at = {1}
      <3>1. 1 \in 1..n-1 /\ 1..n-1 \subseteq 1..Len(insts)
        BY <1>1, <2>1
      <3>2. \A m \in 1..Len(insts) : insts[m].op \in {"BEGINQ_COLS", "BEGINQ_ALL"} <=> m = 1
        BY BeginsFirst DEF Begins
      <3> QED
        BY <3>1, <3>2
    <2>3. Max({1}) = 1
      <3>1. Max({1}) \in {1}
        BY MaxOfSome
      <3> QED
        BY <3>1
    <2>4. LastOf(insts, n, {"BEGINQ_COLS", "BEGINQ_ALL"}) = IF at = {} THEN "none" ELSE insts[Max(at)].op
      BY DEF LastOf
    <2> HIDE DEF at
    <2> QED
      BY <2>2, <2>3, <2>4 DEF AllColumns
  <1>3. i \in 1..Len(insts) /\ insts[i].op = "SELCN" /\ ~AllColumns(insts, i)
    BY <1>1 DEF Selecting
  <1>4. ~AllColumns(insts, j)
    BY <1>2, <1>3
  <1> QED
    BY <1>1, <1>4 DEF Selecting
-----------------------------------------------------------------------------
(* What an instruction writes is no longer than the room it was given, but *)
(* for a column in front of NOTREGEXP, whose room is short of 9 characters *)
(* where that of NOTREGEXP has 8 to spare.                                 *)
TextLength(insts, i) == IF insts[i].op \in TextOps THEN PieceOf(insts, i).length ELSE 0
Negated(insts, i) == i < Len(insts) /\ insts[i + 1].op = "NOTREGEXP"
HasRoom(insts, i) ==
    LET op == insts[i].op
        need == TextLength(insts, i)
        room == RoomOf(insts, i)
        width == Width(insts[i].value)
    IN  /\ need \in Nat /\ room \in Nat
        /\ op = "SELCN" => need = 0 /\ room = IF i \in Selecting(insts) THEN width + 1 ELSE 0
        /\ op = "SETCAT" => need = 0 /\ room = width
        /\ op = "NOTREGEXP" => need + 8 <= room
        /\ op = "COLNAME" /\ Negated(insts, i) => need <= room + 9
        /\ op # "NOTREGEXP" /\ ~(op = "COLNAME" /\ Negated(insts, i)) => need <= room

\* The length of a piece, once it is known which.
LEMMA LengthIs ==
    ASSUME NEW insts, NEW i, insts[i].op \in TextOps, NEW what, NEW n, TextOf(insts, i) = <<Piece(what, n)>>
    PROVE  TextLength(insts, i) = n
  <1>1. <<Piece(what, n)>>[1] = Piece(what, n) /\ Piece(what, n).length = n
    BY DEF Piece
  <1>2. PieceOf(insts, i) = Piece(what, n)
    BY <1>1 DEF PieceOf
  <1> QED
    BY <1>1, <1>2 DEF TextLength

LEMMA RoomIs ==
    ASSUME NEW insts, IsSeq(insts), NEW i \in 1..Len(insts), Width(insts[i].value) \in Nat,
           insts[i].op \in Begins \cup {"SELCN", "SETCAT", "ENDQ"} \cup TextOps
    PROVE  HasRoom(insts, i)
  <1>1. PICK op, w, selected : op = insts[i].op /\ w = Width(insts[i].value) /\ selected = Selecting(insts)
    OBVIOUS
  <1>2. w \in Nat /\ (i \in selected => op = "SELCN")
    BY <1>1 DEF Selecting
  <1>3. RoomOf(insts, i) =
          CASE op = "AND" -> 5
            [] op = "OR" -> 4
            [] op \in {"EQUAL", "NEQU", "GTHEQU", "LTHEQU", "NOT"} -> 2
            [] op \in {"SETCAT", "UINT"} -> w
            [] op = "COLNAME" \/ i \in selected -> w + 1
            [] op \in Regexp -> w + 13
            [] op \in {"BEGIN_GRP", "CLOSE_GRP", "GTHAN", "LTHAN"} \cup Bound -> 1
            [] OTHER -> 0
    BY <1>1 DEF RoomOf
  <1>4. TextOf(insts, i) =
          CASE op = "BEGIN_GRP" -> <<Piece("(", 1)>>
            [] op = "CLOSE_GRP" -> <<Piece(")", 1)>>
            [] op = "NOT" -> <<Piece("!", 2)>>
            [] op \in Binary -> <<Piece("binary", RoomOf(insts, i))>>
            [] op \in Bound -> <<Piece("?", 1)>>
            [] op = "UINT" -> <<Piece("operand", w)>>
            [] op = "COLNAME" /\ ~Negated(insts, i) -> <<Piece("operand", w)>>
            [] op = "COLNAME" /\ Negated(insts, i) -> <<Piece("notregexp(", 10 + w)>>
            [] op = "REGEXP" -> <<Piece(Pattern("REGEXP", insts[i].value), w + 10)>>
            [] op = "NOTREGEXP" -> <<Piece(Pattern("notregexp)", insts[i].value), w + 5)>>
            [] OTHER -> <<>>
    BY <1>1 DEF TextOf, Negated
  <1> DEFINE need == TextLength(insts, i)
             room == RoomOf(insts, i)
  <1>5. /\ op \in TextOps => op \notin {"SELCN", "SETCAT", "ENDQ"} \cup Begins
        /\ op \notin TextOps => need = 0
    BY <1>1 DEF TextLength, TextOps, Begins, Binary, Comparison, Operands, Bound, Regexp
  <1> HIDE DEF need, room
  <1>6. ASSUME op = "BEGIN_GRP" PROVE need = 1 /\ room = 1
    <2>1. room = 1
      BY <1>2, <1>3, <1>6 DEF room, Bound, Regexp
    <2>2. TextOf(insts, i) = <<Piece("(", 1)>>
      BY <1>4, <1>6 DEF Binary, Comparison, Bound
    <2>3. op \in TextOps
      BY <1>6 DEF TextOps, Operands, Regexp
    <2> QED
      BY <1>1, <2>1, <2>2, <2>3, LengthIs DEF need
  <1>7. ASSUME op = "CLOSE_GRP" PROVE need = 1 /\ room = 1
    <2>1. room = 1
      BY <1>2, <1>3, <1>7 DEF room, Bound, Regexp
    <2>2. TextOf(insts, i) = <<Piece(")", 1)>>
      BY <1>4, <1>7 DEF Binary, Comparison, Bound
    <2>3. op \in TextOps
      BY <1>7 DEF TextOps, Operands, Regexp
    <2> QED
      BY <1>1, <2>1, <2>2, <2>3, LengthIs DEF need
  <1>8. ASSUME op = "NOT" PROVE need = 2 /\ room = 2
    <2>1. room = 2
      BY <1>2, <1>3, <1>8 DEF room, Bound, Regexp
    <2>2. TextOf(insts, i) = <<Piece("!", 2)>>
      BY <1>4, <1>8 DEF Binary, Comparison, Bound
    <2>3. op \in TextOps
      BY <1>8 DEF TextOps, Operands, Regexp
    <2> QED
      BY <1>1, <2>1, <2>2, <2>3, LengthIs DEF need
  <1>9. ASSUME op \in Bound PROVE need = 1 /\ room = 1
    <2>1. room = 1
      BY <1>2, <1>3, <1>9 DEF room, Bound, Regexp
    <2>2. TextOf(insts, i) = <<Piece("?", 1)>>
      BY <1>4, <1>9 DEF Binary, Comparison, Bound
    <2>3. op \in TextOps
      BY <1>9 DEF TextOps, Operands, Regexp
    <2> QED
      BY <1>1, <2>1, <2>2, <2>3, LengthIs DEF need
  <1>10. ASSUME op = "UINT" PROVE need = w /\ room = w
    <2>1. room = w
      BY <1>2, <1>3, <1>10 DEF room, Bound, Regexp
    <2>2. TextOf(insts, i) = <<Piece("operand", w)>>
      BY <1>4, <1>10 DEF Binary, Comparison, Bound
    <2>3. op \in TextOps
      BY <1>10 DEF TextOps, Operands, Regexp
    <2> QED
      BY <1>1, <2>1, <2>2, <2>3, LengthIs DEF need
  <1>11. ASSUME op = "REGEXP" PROVE need = w + 10 /\ room = w + 13
    <2>1. room = w + 13
      BY <1>2, <1>3, <1>11 DEF room, Bound, Regexp
    <2>2. TextOf(insts, i) = <<Piece(Pattern("REGEXP", insts[i].value), w + 10)>>
      BY <1>4, <1>11 DEF Binary, Comparison, Bound
    <2>3. op \in TextOps
      BY <1>11 DEF TextOps, Operands, Regexp
    <2> QED
      BY <1>1, <2>1, <2>2, <2>3, LengthIs DEF need
  <1>12. ASSUME op = "NOTREGEXP" PROVE need = w + 5 /\ room = w + 13
    <2>1. room = w + 13
      BY <1>2, <1>3, <1>12 DEF room, Bound, Regexp
    <2>2. TextOf(insts, i) = <<Piece(Pattern("notregexp)", insts[i].value), w + 5)>>
      BY <1>4, <1>12 DEF Binary, Comparison, Bound
    <2>3. op \in TextOps
      BY <1>12 DEF TextOps, Operands, Regexp
    <2> QED
      BY <1>1, <2>1, <2>2, <2>3, LengthIs DEF need
  <1>13. ASSUME op \in Binary PROVE need = room /\ room \in Nat
    <2>1. room \in Nat
      BY <1>2, <1>3, <1>13 DEF room, Bound, Regexp, Binary, Comparison
    <2>2. TextOf(insts, i) = <<Piece("binary", RoomOf(insts, i))>>
      BY <1>4, <1>13 DEF Binary, Comparison, Bound
    <2>3. op \in TextOps
      BY <1>13 DEF TextOps
    <2> QED
      BY <1>1, <2>1, <2>2, <2>3, LengthIs DEF need, room
  <1>14. ASSUME op = "COLNAME" PROVE room = w + 1 /\ need = IF Negated(insts, i) THEN 10 + w ELSE w
    <2>1. room = w + 1
      BY <1>2, <1>3, <1>14 DEF room, Bound, Regexp
    <2>2. op \in TextOps
      BY <1>14 DEF TextOps, Operands
    <2>3. ASSUME Negated(insts, i) PROVE need = 10 + w
      <3>1. TextOf(insts, i) = <<Piece("notregexp(", 10 + w)>>
        BY <1>4, <1>14, <2>3 DEF Binary, Comparison, Bound
      <3> QED
        BY <1>1, <2>2, <3>1, LengthIs DEF need
    <2>4. ASSUME ~Negated(insts, i) PROVE need = w
      <3>1. TextOf(insts, i) = <<Piece("operand", w)>>
        BY <1>4, <1>14, <2>4 DEF Binary, Comparison, Bound
      <3> QED
        BY <1>1, <2>2, <3>1, LengthIs DEF need
    <2> QED
      BY <2>1, <2>3, <2>4
  <1>15. ASSUME op = "SELCN" PROVE need = 0 /\ room = IF i \in selected THEN w + 1 ELSE 0
    BY <1>3, <1>5, <1>15 DEF room, Bound, Regexp
  <1>16. ASSUME op = "SETCAT" PROVE need = 0 /\ room = w
    BY <1>2, <1>3, <1>5, <1>16 DEF room, Bound, Regexp
  <1>17. ASSUME op \in Begins \cup {"ENDQ"} PROVE need = 0 /\ room = 0
    BY <1>2, <1>3, <1>5, <1>17 DEF room, Bound, Regexp, Begins
  <1> DEFINE Right == /\ need \in Nat /\ room \in Nat
                      /\ op = "SELCN" => need = 0 /\ room = IF i \in selected THEN w + 1 ELSE 0
                      /\ op = "SETCAT" => need = 0 /\ room = w
                      /\ op = "NOTREGEXP" => need + 8 <= room
                      /\ op = "COLNAME" /\ Negated(insts, i) => need <= room + 9
                      /\ op # "NOTREGEXP" /\ ~(op = "COLNAME" /\ Negated(insts, i)) => need <= room
  <1>18. op \in TextOps => Right
    <2>1. op \in Binary \cup Bound => op \notin {"NOTREGEXP", "COLNAME", "SELCN", "SETCAT"}
      BY DEF Binary, Comparison, Bound
    <2>2. op \in TextOps => \/ op \in {"BEGIN_GRP", "CLOSE_GRP", "NOT", "UINT", "REGEXP", "NOTREGEXP", "COLNAME"}
                            \/ op \in Binary \/ op \in Bound
      BY DEF TextOps, Operands, Regexp
    <2>3. CASE op \in Binary \cup Bound
      BY <1>2, <1>9, <1>13, <2>1, <2>3
    <2>4. CASE op \in {"BEGIN_GRP", "CLOSE_GRP", "NOT", "UINT", "REGEXP", "NOTREGEXP"}
      <3>1. op \notin {"COLNAME", "SELCN", "SETCAT"}
        BY <2>4
      <3>2. CASE op = "NOTREGEXP"
        BY <1>2, <1>12, <3>2
      <3>3. CASE op # "NOTREGEXP"
        <4>1. need \in Nat /\ room \in Nat /\ need <= room
          BY <1>2, <1>6, <1>7, <1>8, <1>10, <1>11, <2>4, <3>3
        <4> QED
          BY <3>1, <3>3, <4>1
      <3> QED
        BY <3>2, <3>3
    <2>5. CASE op = "COLNAME"
      BY <1>2, <1>14, <2>5
    <2> QED
      BY <2>2, <2>3, <2>4, <2>5
  <1>19. op \in Begins \cup {"SELCN", "SETCAT", "ENDQ"} => Right
    BY <1>2, <1>15, <1>16, <1>17 DEF Begins
  <1>20. Right
    BY <1>1, <1>18, <1>19
  <1> QED
    BY <1>1, <1>20 DEF HasRoom, need, room
LEMMA WrittenOn ==
    ASSUME NEW insts, NEW n \in Nat
    PROVE  /\ IsSeq(WrittenTo(insts, n)) /\ WrittenTo(insts, 0) = Opening(insts)
           /\ insts[n + 1].op \in TextOps =>
                 /\ WrittenTo(insts, n + 1) = Append(WrittenTo(insts, n), PieceOf(insts, n + 1))
                 /\ Weigh(WrittenTo(insts, n + 1)) = Weigh(WrittenTo(insts, n)) + TextLength(insts, n + 1)
           /\ insts[n + 1].op \notin TextOps =>
                 /\ WrittenTo(insts, n + 1) = WrittenTo(insts, n)
                 /\ TextLength(insts, n + 1) = 0
  <1> DEFINE o == Opening(insts)
             b == Bodied(insts, n)
             piece == PieceOf(insts, n + 1)
  <1>1. IsSeq(o)
    BY OpeningIs
  <1>2. /\ IsSeq(b) /\ Bodied(insts, 0) = <<>>
        /\ Bodied(insts, n + 1) = IF insts[n + 1].op \in TextOps THEN Append(b, piece) ELSE b
    BY BodiedOn
  <1>3. o \o <<>> = o
    BY <1>1, SaidOn
  <1>4. IsSeq(o \o b) /\ o \o Append(b, piece) = Append(o \o b, piece)
    BY <1>1, <1>2, ConcatOn, SMTT(30)
  <1>5. Weigh(Append(o \o b, piece)) = Weigh(o \o b) + piece.length
    BY <1>4, WeighOn
  <1>6. /\ WrittenTo(insts, n) = o \o b /\ WrittenTo(insts, 0) = o \o Bodied(insts, 0)
        /\ WrittenTo(insts, n + 1) = o \o Bodied(insts, n + 1)
    BY DEF WrittenTo
  <1>7. TextLength(insts, n + 1) = IF insts[n + 1].op \in TextOps THEN piece.length ELSE 0
    BY DEF TextLength
  <1> HIDE DEF o, b, piece
  <1>8. WrittenTo(insts, 0) = o
    BY <1>2, <1>3, <1>6
  <1>9. insts[n + 1].op \in TextOps =>
          /\ WrittenTo(insts, n + 1) = Append(WrittenTo(insts, n), piece)
          /\ Weigh(WrittenTo(insts, n + 1)) = Weigh(WrittenTo(insts, n)) + TextLength(insts, n + 1)
    BY <1>2, <1>4, <1>5, <1>6, <1>7
  <1>10. insts[n + 1].op \notin TextOps =>
          WrittenTo(insts, n + 1) = WrittenTo(insts, n) /\ TextLength(insts, n + 1) = 0
    BY <1>2, <1>6, <1>7
  <1> QED
    BY <1>4, <1>6, <1>8, <1>9, <1>10 DEF o, piece

\* What is missing behind n instructions, when r is NOTREGEXP, or none is (0).
Short(r, n) == IF r = 0 \/ n + 1 < r THEN 0 ELSE IF n + 1 = r THEN 9 ELSE 1

LEMMA ShortOn ==
    ASSUME NEW r \in Nat \ {1}, NEW n \in Nat
    PROVE  /\ Short(r, 0) = 0 /\ Short(r, n) \in Nat
           /\ n >= r => Short(r, n) <= 1
           /\ n + 1 = r => Short(r, n + 1) = Short(r, n) - 8
           /\ (n + 1) + 1 = r => Short(r, n + 1) = Short(r, n) + 9
           /\ n + 1 # r /\ (n + 1) + 1 # r => Short(r, n + 1) = Short(r, n)
  BY DEF Short

\* One instruction further, with the room it was given.
LEMMA RoomOn ==
    ASSUME NEW insts, Lined(insts), NEW i \in 1..Len(insts), Width(insts[i].value) \in Nat,
           NEW r \in Nat \ {1}, NEW n \in Nat, n + 1 = i,
           \A j \in 1..Len(insts) : insts[j].op = "NOTREGEXP" <=> j = r
    PROVE  TextLength(insts, i) + Short(r, n) <= RoomOf(insts, i) + Short(r, i)
  <1>1. Neighbours(OpOf(insts, i - 1), insts[i].op)
    BY Neighboured
  <1>2. HasRoom(insts, i)
    BY <1>1, RoomIs DEF Lined, Neighbours
  <1>3. PICK need, room, m : need = TextLength(insts, i) /\ room = RoomOf(insts, i) /\ m = Len(insts)
    OBVIOUS
  <1>4. need \in Nat /\ room \in Nat /\ m \in Nat /\ i \in 1..m
    BY <1>2, <1>3, SeqFacts DEF HasRoom, Lined
  <1>5. CASE i = r
    <2>1. need + 8 <= room
      BY <1>2, <1>3, <1>5 DEF HasRoom
    <2>2. PICK before, after : before = Short(r, n) /\ after = Short(r, i)
      OBVIOUS
    <2>3. n + 1 = r
      BY <1>5
    <2>4. after = before - 8 /\ before \in Nat
      BY <2>2, <2>3, ShortOn
    <2>5. need + before <= room + after
      BY <1>4, <2>1, <2>4
    <2> QED
      BY <1>3, <2>2, <2>5
  <1>6. CASE i + 1 = r
    <2>1. need <= room + 9
      <3>1. CASE Negated(insts, i)
        <4>1. i + 1 \in 1..m /\ insts[i + 1].op = "NOTREGEXP"
          BY <1>3, <1>4, <3>1 DEF Negated
        <4>2. Neighbours(OpOf(insts, (i + 1) - 1), insts[i + 1].op)
          BY <1>3, <4>1, Neighboured
        <4>3. (i + 1) - 1 = i /\ i # 0
          BY <1>4
        <4>4. insts[i].op = "COLNAME"
          BY <4>1, <4>2, <4>3 DEF Neighbours, OpOf, Regexp
        <4> QED
          BY <1>2, <1>3, <3>1, <4>4 DEF HasRoom
      <3>2. CASE ~Negated(insts, i)
        <4>1. insts[i].op # "NOTREGEXP"
          BY <1>3, <1>4, <1>6
        <4>2. need <= room
          BY <1>2, <1>3, <3>2, <4>1 DEF HasRoom
        <4> QED
          BY <1>4, <4>2
      <3> QED
        BY <3>1, <3>2
    <2>2. Short(r, i) = Short(r, n) + 9 /\ Short(r, n) \in Nat
      BY <1>6, ShortOn
    <2>3. need + Short(r, n) <= room + Short(r, i)
      BY <1>4, <2>1, <2>2
    <2> QED
      BY <1>3, <2>3
  <1>7. CASE i # r /\ i + 1 # r
    <2>1. insts[i].op # "NOTREGEXP" /\ ~Negated(insts, i)
      <3>1. i < m => i + 1 \in 1..m
        BY <1>4
      <3> QED
        BY <1>3, <1>7, <3>1 DEF Negated
    <2>2. need <= room
      BY <1>2, <1>3, <2>1 DEF HasRoom
    <2>3. Short(r, i) = Short(r, n) /\ Short(r, n) \in Nat
      BY <1>7, ShortOn
    <2>4. need + Short(r, n) <= room + Short(r, i)
      BY <1>4, <2>2, <2>3
    <2> QED
      BY <1>3, <2>4
  <1> QED
    BY <1>5, <1>6, <1>7

LEMMA SelectWritten ==
    ASSUME NEW insts, IsSeq(insts)
    PROVE  Select(insts) = WrittenTo(insts, Len(insts))
  <1>1. DOMAIN insts = 1..Len(insts)
    BY SeqFacts
  <1>2. Bodied(insts, Len(insts)) = FlattenSeq([i \in DOMAIN insts |-> TextOf(insts, i)])
    BY <1>1 DEF Bodied
  <1> QED
    BY <1>2, Zenon DEF Select, WrittenTo, Opening

\* The sum of what each instruction gives.
LEMMA SumOfEach ==
    ASSUME NEW insts, IsSeq(insts), NEW s, s = [i \in DOMAIN insts |-> s[i]]
    PROVE  \E f : IsSum(f, s, Len(insts)) /\ SumOf(s) = f[Len(insts)]
  <1>1. DOMAIN insts = 1..Len(insts) /\ Len(insts) \in Nat
    BY SeqFacts
  <1>2. IsSeq(s) /\ Len(s) = Len(insts)
    BY <1>1, ListIsSeq
  <1> QED
    BY <1>2, SumIs

(* The text of the statement fits the room that the first pass made.       *)
LEMMA Fitting ==
    ASSUME NEW insts, Lined(insts), Checked(insts) = "fine",
           \A i \in 1..Len(insts) : Width(insts[i].value) \in Nat
    PROVE  1 + Weigh(Select(insts)) <= Room(insts)
  <1>1. PICK n : n = Len(insts)
    OBVIOUS
  <1>2. n \in Nat /\ DOMAIN insts = 1..n /\ IsSeq(insts)
    BY <1>1, SeqFacts DEF Lined
  <1> DEFINE rooms == [i \in DOMAIN insts |-> RoomOf(insts, i)]
             columns == [i \in DOMAIN insts |->
                           IF insts[i].op = "SELCN" THEN Width(insts[i].value) + 1 ELSE 0]
             at == {i \in DOMAIN insts : insts[i].op = "SETCAT"}
  <1>3. PICK a : IsSum(a, rooms, n) /\ SumOf(rooms) = a[n]
    BY <1>1, <1>2, SumOfEach
  <1>4. PICK c : IsSum(c, columns, n) /\ SumOf(columns) = c[n]
    BY <1>1, <1>2, SumOfEach
  <1>5. PICK k : k = Max(at) /\ k \in 1..n /\ insts[k].op = "SETCAT"
    <2>1. at # {} /\ at \subseteq 1..n
      BY <1>1, <1>2, CheckedIs
    <2>2. Max(at) \in at
      BY <1>2, <2>1, MaxOfSome
    <2> QED
      BY <1>2, <2>2
  <1>6. PICK w : w = Width(insts[k].value) /\ w \in Nat
    BY <1>1, <1>5
  <1>7. PICK r : r \in Nat \ {1} /\ r <= n /\ \A j \in 1..n : insts[j].op = "NOTREGEXP" <=> j = r
    <2>1. CASE \E j \in 1..n : insts[j].op = "NOTREGEXP"
      <3>1. PICK j \in 1..n : insts[j].op = "NOTREGEXP"
        BY <2>1
      <3>2. insts[j].op \notin Begins
        BY <3>1 DEF Begins
      <3>3. j # 1
        BY <1>1, <3>2, BeginsFirst
      <3>4. \A i \in 1..n : insts[i].op = "NOTREGEXP" => i = j
        BY <1>1, <3>1 DEF Lined, RegexOnce, Regexp
      <3>5. j \in Nat \ {1} /\ j <= n /\ \A i \in 1..n : insts[i].op = "NOTREGEXP" <=> i = j
        BY <1>2, <3>1, <3>3, <3>4
      <3> QED
        BY <3>5
    <2>2. CASE ~\E j \in 1..n : insts[j].op = "NOTREGEXP"
      <3>1. 0 \in Nat \ {1} /\ 0 <= n /\ \A i \in 1..n : insts[i].op = "NOTREGEXP" <=> i = 0
        BY <1>2, <2>2
      <3> QED
        BY <3>1
    <2> QED
      BY <2>1, <2>2
  <1>8. PICK sel, o, weight :
          /\ sel = (Selecting(insts) # {}) /\ o = Weigh(Opening(insts))
          /\ weight = [m \in Nat |-> Weigh(WrittenTo(insts, m))]
    OBVIOUS
  <1>9. sel \in BOOLEAN
    BY <1>8
  <1>10. o = 7 + (IF sel THEN c[n] - 1 ELSE 1) + 8 + w + (IF Conditional(insts) THEN 7 ELSE 0)
    <2>1. o = 7 + (IF Selecting(insts) = {} THEN 1 ELSE SumOf(columns) - 1) + 8
                + Width(insts[Max(at)].value) + (IF Conditional(insts) THEN 7 ELSE 0)
      BY <1>8, OpeningIs
    <2> HIDE DEF columns, at
    <2> QED
      BY <1>4, <1>5, <1>6, <1>8, <2>1
  <1>11. ASSUME NEW i \in 1..n
         PROVE  rooms[i] = RoomOf(insts, i)
                /\ columns[i] = IF insts[i].op = "SELCN" THEN Width(insts[i].value) + 1 ELSE 0
    BY <1>2
  <1> HIDE DEF rooms, columns, at
  <1>12. ASSUME NEW m \in Nat, m + 1 \in 1..n
         PROVE  LET i == m + 1 IN
                /\ rooms[i] \in Nat /\ columns[i] \in Nat /\ TextLength(insts, i) \in Nat
                /\ TextLength(insts, i) + (IF sel THEN columns[i] ELSE 0) + (IF i = k THEN w ELSE 0) + Short(r, m)
                     <= rooms[i] + Short(r, i)
    <2>1. PICK i \in 1..n : i = m + 1
      BY <1>12
    <2>2. Neighbours(OpOf(insts, i - 1), insts[i].op) /\ Width(insts[i].value) \in Nat
      BY <1>1, Neighboured
    <2>3. HasRoom(insts, i)
      BY <1>1, <1>2, <2>2, RoomIs DEF Neighbours
    <2>4. rooms[i] \in Nat /\ TextLength(insts, i) \in Nat
      BY <1>11, <2>3 DEF HasRoom
    <2>5. columns[i] \in Nat
      BY <1>11, <2>2
    <2>6. TextLength(insts, i) + Short(r, m) <= rooms[i] + Short(r, i)
      <3>1. TextLength(insts, i) + Short(r, m) <= RoomOf(insts, i) + Short(r, i)
        BY <1>1, <1>7, <2>1, <2>2, RoomOn
      <3> QED
        BY <1>11, <3>1
    <2>7. insts[i].op \in {"SELCN", "SETCAT"} => Short(r, i) >= Short(r, m)
      <3> SUFFICES ASSUME insts[i].op \in {"SELCN", "SETCAT"} PROVE Short(r, i) >= Short(r, m)
        OBVIOUS
      <3>1. i # r
        BY <1>7
      <3>2. PICK before, after : before = Short(r, m) /\ after = Short(r, i)
        OBVIOUS
      <3>3. before \in Nat /\ (after = before \/ after = before + 9)
        BY <1>7, <2>1, <3>1, <3>2, ShortOn
      <3>4. after >= before
        BY <3>3
      <3> QED
        BY <3>2, <3>4
    <2>8. ASSUME sel, columns[i] # 0
          PROVE  TextLength(insts, i) = 0 /\ rooms[i] = columns[i] /\ Short(r, i) >= Short(r, m) /\ i # k
      <3>1. insts[i].op = "SELCN"
        BY <1>11, <2>8
      <3>2. i \in Selecting(insts)
        BY <1>1, <1>8, <2>8, <3>1, SelectingAll
      <3> QED
        BY <1>5, <1>11, <2>3, <2>7, <3>1, <3>2 DEF HasRoom
    <2>9. ASSUME i = k PROVE TextLength(insts, i) = 0 /\ rooms[i] = w /\ Short(r, i) >= Short(r, m)
      BY <1>5, <1>6, <1>11, <2>3, <2>7, <2>9 DEF HasRoom
    <2>10. PICK need, room, col, before, after :
             /\ need = TextLength(insts, i) /\ room = rooms[i] /\ col = columns[i]
             /\ before = Short(r, m) /\ after = Short(r, i)
      OBVIOUS
    <2>11. before \in Nat /\ after \in Nat
      BY <1>7, <2>1, <2>10, ShortOn
    <2>12. PICK p, q : p = (IF sel THEN col ELSE 0) /\ q = (IF i = k THEN w ELSE 0)
      OBVIOUS
    <2>13. need + p + q + before <= room + after
      <3>1. CASE sel /\ col # 0
        <4>1. need = 0 /\ room = col /\ after >= before /\ p = col /\ q = 0
          BY <2>8, <2>10, <2>12, <3>1
        <4> QED
          BY <2>4, <2>10, <2>11, <4>1
      <3>2. CASE ~(sel /\ col # 0) /\ i = k
        <4>1. need = 0 /\ room = w /\ after >= before /\ p = 0 /\ q = w
          BY <2>9, <2>10, <2>12, <3>2
        <4> QED
          BY <1>6, <2>11, <4>1
      <3>3. CASE ~(sel /\ col # 0) /\ i # k
        <4>1. need + before <= room + after /\ p = 0 /\ q = 0
          BY <2>6, <2>10, <2>12, <3>3
        <4> QED
          BY <2>4, <2>10, <2>11, <4>1
      <3> QED
        BY <3>1, <3>2, <3>3
    <2> QED
      BY <2>1, <2>4, <2>5, <2>10, <2>12, <2>13
  <1>13. c[0] = 0 /\ a[0] = 0 /\ weight[0] = o
    BY <1>3, <1>4, <1>8, WrittenOn DEF IsSum
  <1>14. ASSUME NEW m \in Nat, m + 1 \in 1..n, weight[m] \in Int
         PROVE  /\ c[m + 1] = c[m] + columns[m + 1] /\ a[m + 1] = a[m] + rooms[m + 1]
                /\ weight[m + 1] = weight[m] + TextLength(insts, m + 1)
    <2>1. (m + 1) - 1 = m
      OBVIOUS
    <2>2. c[m + 1] = c[(m + 1) - 1] + columns[m + 1] /\ a[m + 1] = a[(m + 1) - 1] + rooms[m + 1]
      BY <1>3, <1>4, <1>14 DEF IsSum
    <2>3. weight[m + 1] = weight[m] + TextLength(insts, m + 1)
      <3>1. weight[m] = Weigh(WrittenTo(insts, m)) /\ weight[m + 1] = Weigh(WrittenTo(insts, m + 1))
        BY <1>8
      <3>2. CASE insts[m + 1].op \in TextOps
        BY <3>1, <3>2, WrittenOn
      <3>3. CASE insts[m + 1].op \notin TextOps
        <4>1. WrittenTo(insts, m + 1) = WrittenTo(insts, m) /\ TextLength(insts, m + 1) = 0
          BY <3>3, WrittenOn
        <4>2. weight[m + 1] = weight[m]
          BY <3>1, <4>1
        <4> QED
          BY <1>14, <4>1, <4>2
      <3> QED
        BY <3>2, <3>3
    <2> QED
      BY <2>1, <2>2, <2>3
  <1> HIDE DEF columns
  <1>15. \A m \in Nat : m <= n => c[m] \in Nat
    <2> DEFINE U == {m \in Nat : m <= n => c[m] \in Nat}
    <2>1. 0 \in U
      BY <1>13
    <2>2. ASSUME NEW m \in Nat, m \in U PROVE m + 1 \in U
      <3> SUFFICES ASSUME m + 1 <= n PROVE c[m + 1] \in Nat
        OBVIOUS
      <3>1. m + 1 \in 1..n /\ m <= n /\ (m + 1) - 1 = m
        BY <1>2
      <3>2. c[m + 1] = c[(m + 1) - 1] + columns[m + 1]
        BY <1>4, <3>1 DEF IsSum
      <3>3. columns[m + 1] \in Nat
        BY <1>12, <3>1
      <3> QED
        BY <2>2, <3>1, <3>2, <3>3
    <2> HIDE DEF U
    <2>3. \A m \in Nat : m \in U
      BY <2>1, <2>2, Induction
    <2> QED
      BY <2>3 DEF U
  <1>16. c[n] \in Nat /\ o \in Int
    <2>1. n <= n
      BY <1>2
    <2>2. c[n] \in Nat
      BY <1>2, <1>15, <2>1
    <2>3. PICK d : d = c[n]
      OBVIOUS
    <2> QED
      BY <1>6, <1>9, <1>10, <2>2, <2>3
  <1> DEFINE Claim(m) ==
               /\ a[m] \in Int /\ weight[m] \in Int
               /\ weight[m] + (IF sel THEN c[m] ELSE 0) + (IF m >= k THEN w ELSE 0) <= o + a[m] + Short(r, m)
             T == {m \in Nat : m <= n => Claim(m)}
  <1>17. Claim(0)
    <2>1. Short(r, 0) = 0 /\ ~(0 >= k)
      BY <1>5, <1>7, ShortOn
    <2> QED
      BY <1>13, <1>16, <2>1
  <1>18. ASSUME NEW m \in Nat, m + 1 <= n, Claim(m) PROVE Claim(m + 1)
    <2>1. m + 1 \in 1..n /\ m <= n
      BY <1>2, <1>18
    <2>2. PICK i, need, room, col, before, after :
             /\ i = m + 1 /\ need = TextLength(insts, i) /\ room = rooms[i] /\ col = columns[i]
             /\ before = Short(r, m) /\ after = Short(r, i)
      OBVIOUS
    <2>3. PICK p, q : p = (IF sel THEN col ELSE 0) /\ q = (IF i = k THEN w ELSE 0)
      OBVIOUS
    <2>4. room \in Nat /\ col \in Nat /\ need \in Nat /\ need + p + q + before <= room + after
      BY <1>12, <2>1, <2>2, <2>3
    <2>5. before \in Nat /\ after \in Nat
      BY <1>7, <2>2, ShortOn
    <2>6. PICK x, y, z, u, v : x = weight[m] /\ y = a[m] /\ z = c[m] /\ u = (IF sel THEN z ELSE 0)
                               /\ v = (IF m >= k THEN w ELSE 0)
      OBVIOUS
    <2>7. x \in Int /\ y \in Int /\ z \in Nat /\ x + u + v <= o + y + before
      BY <1>15, <1>18, <2>1, <2>2, <2>6
    <2>8. weight[i] = x + need /\ a[i] = y + room /\ c[i] = z + col
      BY <1>14, <2>1, <2>2, <2>6, <2>7
    <2>9. (IF sel THEN z + col ELSE 0) = u + p /\ u \in Int /\ p \in Int
      BY <2>3, <2>4, <2>6, <2>7
    <2>10. (IF i >= k THEN w ELSE 0) = v + q /\ v \in Int /\ q \in Int
      BY <1>5, <1>6, <2>2, <2>3, <2>6
    <2>11. (x + need) + (u + p) + (v + q) <= o + (y + room) + after
      BY <1>16, <2>4, <2>5, <2>7, <2>9, <2>10
    <2>12. x + need \in Int /\ y + room \in Int
      BY <2>4, <2>7
    <2> QED
      BY <2>2, <2>8, <2>9, <2>10, <2>11, <2>12
  <1> HIDE DEF Claim
  <1>19. \A m \in Nat : m \in T
    <2>1. 0 \in T
      BY <1>17
    <2>2. ASSUME NEW m \in Nat, m \in T PROVE m + 1 \in T
      <3> SUFFICES ASSUME m + 1 <= n PROVE Claim(m + 1)
        OBVIOUS
      <3>1. m <= n
        BY <1>2
      <3> QED
        BY <1>18, <2>2, <3>1
    <2> HIDE DEF T
    <2> QED
      BY <2>1, <2>2, Induction
  <1>20. Claim(n) /\ n >= k
    BY <1>2, <1>5, <1>19
  <1>21. Room(insts) = 30 + (IF sel THEN 2 ELSE 0) + a[n]
    BY <1>3, <1>8 DEF Room, rooms
  <1>22. Weigh(Select(insts)) = weight[n]
    BY <1>1, <1>2, <1>8, SelectWritten
  <1>23. PICK x, y, z, short : x = weight[n] /\ y = a[n] /\ z = c[n] /\ short = Short(r, n)
    OBVIOUS
  <1>24. short \in Nat /\ short <= 1
    BY <1>2, <1>7, <1>23, ShortOn
  <1>25. x \in Int /\ y \in Int /\ x + (IF sel THEN z ELSE 0) + w <= o + y + short
    BY <1>20, <1>23 DEF Claim
  <1>26. 1 + x <= 30 + (IF sel THEN 2 ELSE 0) + y
    <2>1. CASE sel
      <3>1. o <= 7 + (z - 1) + 8 + w + 7
        BY <1>6, <1>10, <1>16, <1>23, <2>1
      <3>2. x + z + w <= o + y + short
        BY <1>25, <2>1
      <3>3. x \in Int /\ y \in Int /\ z \in Int /\ o \in Int
        BY <1>16, <1>23, <1>25
      <3>4. w \in Int /\ short \in Int /\ short <= 1
        BY <1>6, <1>24
      <3>5. o <= 21 + z + w
        BY <3>1, <3>3, <3>4
      <3>6. 1 + x <= 30 + 2 + y
        BY <3>2, <3>3, <3>4, <3>5
      <3> QED
        BY <2>1, <3>6
    <2>2. CASE ~sel
      <3>1. o <= 7 + 1 + 8 + w + 7
        BY <1>6, <1>10, <2>2
      <3>2. x + 0 + w <= o + y + short
        BY <1>25, <2>2
      <3>3. 1 + x <= 30 + 0 + y
        BY <1>6, <1>16, <1>24, <1>25, <3>1, <3>2
      <3> QED
        BY <2>2, <3>3
    <2> QED
      BY <2>1, <2>2
  <1> QED
    BY <1>21, <1>22, <1>23, <1>26
-----------------------------------------------------------------------------
(* The condition of a statement.  What it is made of stands together.      *)
TextFrom(insts, f, m) ==
    LET n == Len(insts) IN
    /\ f \in Nat \ {0} /\ m \in Nat /\ f <= m + 1 /\ m <= n
    /\ \A i \in 1..n : insts[i].op \in TextOps <=> f <= i /\ i <= m
    /\ m = n \/ (m + 1 = n /\ insts[n].op = "ENDQ")

\* ENDQ is the last.
LEMMA EndqLast ==
    ASSUME NEW insts, Lined(insts), NEW i \in 1..Len(insts), i # Len(insts)
    PROVE  /\ insts[i].op # "ENDQ" /\ i + 1 \in 1..Len(insts)
           /\ Neighbours(insts[i].op, insts[i + 1].op)
  <1>1. Len(insts) \in Nat
    BY SeqFacts DEF Lined
  <1>2. i + 1 \in 1..Len(insts) /\ (i + 1) - 1 = i /\ i # 0
    BY <1>1
  <1>3. Neighbours(OpOf(insts, (i + 1) - 1), insts[i + 1].op)
    BY <1>2, Neighboured
  <1>4. Neighbours(insts[i].op, insts[i + 1].op)
    BY <1>2, <1>3 DEF OpOf
  <1> QED
    BY <1>2, <1>4 DEF Neighbours

LEMMA NoText ==
    /\ "ENDQ" \notin TextOps /\ "SETCAT" \notin TextOps
    /\ {"BEGIN_GRP", "CLOSE_GRP", "NOT", "COLNAME", "NOTREGEXP"} \subseteq TextOps
    /\ Binary \subseteq TextOps /\ Operands \subseteq TextOps /\ Regexp \subseteq TextOps
    /\ {"BEGIN_GRP", "STRING", "COLNAME", "UINT", "INT"} \subseteq TextOps
    /\ \A op \in TextOps : \/ op \in {"BEGIN_GRP", "CLOSE_GRP", "NOT"}
                           \/ op \in Binary \/ op \in Operands \/ op \in Regexp
    /\ \A op \in Operands : op \notin Binary \cup Regexp \cup {"BEGIN_GRP", "CLOSE_GRP", "NOT", "SETCAT"}
  BY DEF TextOps, Binary, Comparison, Operands, Bound, Regexp

LEMMA TextStands ==
    ASSUME NEW insts, Lined(insts), \E i \in 1..Len(insts) : insts[i].op = "SETCAT"
    PROVE  \E f, m : TextFrom(insts, f, m)
  <1>1. PICK n : n = Len(insts)
    OBVIOUS
  <1>2. n \in Nat \ {0}
    BY <1>1, SeqFacts DEF Lined
  <1>3. PICK m : /\ m \in Nat /\ m <= n /\ (m = n \/ (m + 1 = n /\ insts[n].op = "ENDQ"))
                 /\ insts[n].op = "ENDQ" => m + 1 = n
    <2>1. CASE insts[n].op = "ENDQ"
      <3>1. n - 1 \in Nat /\ n - 1 <= n /\ (n - 1) + 1 = n
        BY <1>2
      <3> QED
        BY <2>1, <3>1
    <2>2. CASE insts[n].op # "ENDQ"
      <3>1. n \in Nat /\ n <= n
        BY <1>2
      <3> QED
        BY <2>2, <3>1
    <2> QED
      BY <2>1, <2>2
  <1>4. ASSUME NEW i \in 1..n, insts[i].op \in TextOps, i + 1 <= m PROVE insts[i + 1].op \in TextOps
    <2>1. i # n /\ i + 1 \in 1..n
      BY <1>2, <1>3, <1>4
    <2>2. Neighbours(insts[i].op, insts[i + 1].op)
      BY <1>1, <2>1, EndqLast
    <2>3. insts[i + 1].op # "ENDQ"
      <3>1. CASE i + 1 = n
        <4>1. m + 1 # n
          BY <1>2, <1>3, <1>4, <3>1
        <4> QED
          BY <1>3, <3>1, <4>1
      <3>2. CASE i + 1 # n
        BY <1>1, <2>1, <3>2, EndqLast
      <3> QED
        BY <3>1, <3>2
    <2> QED
      BY <1>4, <2>2, <2>3 DEF Neighbours
  <1> DEFINE S == {i \in 1..n : insts[i].op \in TextOps}
  <1>5. \A i \in S : i <= m
    <2> SUFFICES ASSUME NEW i \in S PROVE i <= m
      OBVIOUS
    <2>1. CASE i = n
      <3>1. insts[n].op # "ENDQ"
        BY <2>1, NoText
      <3> QED
        BY <1>2, <1>3, <2>1, <3>1
    <2>2. CASE i # n
      BY <1>2, <1>3, <2>2
    <2> QED
      BY <2>1, <2>2
  <1>6. CASE S = {}
    <2>1. m + 1 \in Nat \ {0} /\ m + 1 <= m + 1
      BY <1>3
    <2>2. ASSUME NEW i \in 1..n PROVE ~(m + 1 <= i /\ i <= m) /\ insts[i].op \notin TextOps
      BY <1>3, <1>6
    <2>3. TextFrom(insts, m + 1, m)
      <3> HIDE DEF S
      <3>1. PICK f : f = m + 1
        OBVIOUS
      <3>2. \A i \in 1..n : insts[i].op \in TextOps <=> f <= i /\ i <= m
        BY <2>2, <3>1
      <3>3. TextFrom(insts, f, m)
        BY <1>1, <1>3, <2>1, <3>1, <3>2 DEF TextFrom
      <3> QED
        BY <3>1, <3>3
    <2> QED
      BY <2>3
  <1>7. CASE S # {}
    <2>1. S \subseteq Nat
      OBVIOUS
    <2> HIDE DEF S
    <2>2. PICK f \in S : \A y \in S : f <= y
      BY <1>7, <2>1, LeastNat
    <2>3. f \in 1..n /\ insts[f].op \in TextOps /\ f <= m
      BY <1>5, <2>2 DEF S
    <2>4. \A i \in Nat : f <= i /\ i <= m => insts[i].op \in TextOps
      <3> DEFINE T == {i \in Nat : f <= i /\ i <= m => insts[i].op \in TextOps}
      <3>1. 0 \in T
        BY <2>3
      <3>2. ASSUME NEW i \in Nat, i \in T PROVE i + 1 \in T
        <4> SUFFICES ASSUME f <= i + 1, i + 1 <= m PROVE insts[i + 1].op \in TextOps
          OBVIOUS
        <4>1. CASE f = i + 1
          BY <2>3, <4>1
        <4>2. CASE f # i + 1
          <5>1. f <= i /\ i <= m /\ i \in 1..n
            BY <1>2, <1>3, <2>3, <4>2
          <5>2. insts[i].op \in TextOps
            BY <3>2, <5>1
          <5> QED
            BY <1>4, <5>1, <5>2
        <4> QED
          BY <4>1, <4>2
      <3> HIDE DEF T
      <3>3. \A i \in Nat : i \in T
        BY <3>1, <3>2, Induction
      <3> QED
        BY <3>3 DEF T
    <2>5. ASSUME NEW i \in 1..n PROVE insts[i].op \in TextOps <=> f <= i /\ i <= m
      <3>1. insts[i].op \in TextOps => i \in S
        BY DEF S
      <3> QED
        BY <1>5, <2>2, <2>4, <3>1
    <2>6. f \in Nat \ {0} /\ f <= m + 1
      BY <1>3, <2>3
    <2>7. TextFrom(insts, f, m)
      BY <1>1, <1>3, <2>5, <2>6 DEF TextFrom
    <2> QED
      BY <2>7
  <1> QED
    BY <1>6, <1>7

\* A group is closed only behind where one began, and what the first pass
\* lets through does not end in an open one.
LEMMA ClosedWasBegun ==
    ASSUME NEW insts, NEW i \in 1..Len(insts), CheckOf(insts, i) = "fine", insts[i].op = "CLOSE_GRP"
    PROVE  \E j \in 1..i-1 : insts[j].op = "BEGIN_GRP"
  <1> DEFINE S(op) == {j \in 1..i-1 : insts[j].op = op}
  <1>1. ASSUME NEW op PROVE Before(insts, i, op) = Cardinality(S(op)) /\ Cardinality(S(op)) \in Nat
    <2>1. 1 \in Int /\ i - 1 \in Int /\ S(op) \subseteq 1..i-1
      OBVIOUS
    <2>2. IsFiniteSet(1..i-1)
      BY <2>1, FS_Interval
    <2>3. IsFiniteSet(S(op))
      BY <2>2, FS_Subset
    <2> QED
      BY <2>3, FS_CardinalityType DEF Before
  <1>2. ~(Before(insts, i, "BEGIN_GRP") <= Before(insts, i, "CLOSE_GRP"))
    BY DEF CheckOf
  <1> SUFFICES ASSUME S("BEGIN_GRP") = {} PROVE FALSE
    OBVIOUS
  <1>3. Before(insts, i, "BEGIN_GRP") = 0
    BY <1>1, FS_EmptySet
  <1>4. Before(insts, i, "CLOSE_GRP") \in Nat
    BY <1>1
  <1> QED
    BY <1>2, <1>3, <1>4

LEMMA BeforeNext ==
    ASSUME NEW insts, NEW n \in Nat, NEW op
    PROVE  /\ Before(insts, n + 1, op) \in Nat
           /\ n = 0 => Before(insts, n + 1, op) = 0
           /\ Before(insts, (n + 1) + 1, op) = Before(insts, n + 1, op) + (IF insts[n + 1].op = op THEN 1 ELSE 0)
  <1> DEFINE A == {j \in Nat : insts[j].op = op}
  <1>1. ASSUME NEW k \in Nat PROVE {j \in 1..(k + 1) - 1 : insts[j].op = op} = A \cap 1..k
    OBVIOUS
  <1>2. n + 1 \in Nat
    OBVIOUS
  <1>3. n + 1 \in A <=> insts[n + 1].op = op
    OBVIOUS
  <1>4. /\ Before(insts, n + 1, op) = Cardinality(A \cap 1..n)
        /\ Before(insts, (n + 1) + 1, op) = Cardinality(A \cap 1..(n + 1))
    BY <1>1, <1>2 DEF Before
  <1> HIDE DEF A
  <1>5. /\ Cardinality(A \cap 1..n) \in Nat
        /\ Cardinality(A \cap 1..(n + 1)) = Cardinality(A \cap 1..n) + (IF n + 1 \in A THEN 1 ELSE 0)
    BY CountStep
  <1>6. n = 0 => Cardinality(A \cap 1..n) = 0
    <2>1. n = 0 => A \cap 1..n = {}
      OBVIOUS
    <2> QED
      BY <2>1, FS_EmptySet
  <1> QED
    BY <1>3, <1>4, <1>5, <1>6

LEMMA BegunBeforeClosed ==
    ASSUME NEW insts, NEW n \in Nat, n <= Len(insts), Len(insts) \in Nat,
           \A i \in 1..Len(insts) : CheckOf(insts, i) = "fine"
    PROVE  Before(insts, n + 1, "BEGIN_GRP") >= Before(insts, n + 1, "CLOSE_GRP")
  <1> DEFINE T == {m \in Nat : m <= Len(insts) =>
                      Before(insts, m + 1, "BEGIN_GRP") >= Before(insts, m + 1, "CLOSE_GRP")}
  <1>1. 0 \in T
    <2>1. PICK z \in Nat : z = 0
      OBVIOUS
    <2>2. ASSUME NEW k \in Nat, NEW op PROVE k = 0 => Before(insts, k + 1, op) = 0
      BY BeforeNext
    <2>3. \A op : Before(insts, z + 1, op) = 0
      BY <2>1, <2>2, Zenon
    <2>4. Before(insts, z + 1, "BEGIN_GRP") >= Before(insts, z + 1, "CLOSE_GRP")
      BY <2>3
    <2> QED
      BY <2>1, <2>4
  <1>2. ASSUME NEW m \in Nat, m \in T PROVE m + 1 \in T
    <2> SUFFICES ASSUME m + 1 <= Len(insts)
                 PROVE  Before(insts, (m + 1) + 1, "BEGIN_GRP") >= Before(insts, (m + 1) + 1, "CLOSE_GRP")
      OBVIOUS
    <2>1. m + 1 \in 1..Len(insts) /\ m <= Len(insts)
      OBVIOUS
    <2>2. PICK b, c : b = Before(insts, m + 1, "BEGIN_GRP") /\ c = Before(insts, m + 1, "CLOSE_GRP")
      OBVIOUS
    <2>3. PICK on, shut : on = Before(insts, (m + 1) + 1, "BEGIN_GRP") /\ shut = Before(insts, (m + 1) + 1, "CLOSE_GRP")
      OBVIOUS
    <2>4. /\ b \in Nat /\ c \in Nat
          /\ on = b + (IF insts[m + 1].op = "BEGIN_GRP" THEN 1 ELSE 0)
          /\ shut = c + (IF insts[m + 1].op = "CLOSE_GRP" THEN 1 ELSE 0)
      BY <2>2, <2>3, BeforeNext
    <2>5. b >= c
      BY <1>2, <2>1, <2>2
    <2>6. insts[m + 1].op = "CLOSE_GRP" => ~(b <= c)
      <3>1. CheckOf(insts, m + 1) = "fine"
        BY <2>1
      <3> QED
        BY <2>2, <3>1 DEF CheckOf
    <2>7. on >= shut
      BY <2>4, <2>5, <2>6
    <2> QED
      BY <2>3, <2>7
  <1> HIDE DEF T
  <1>3. n \in T
    BY <1>1, <1>2, Induction
  <1> QED
    BY <1>3 DEF T

LEMMA LastNotBegun ==
    ASSUME NEW insts, Lined(insts), Checked(insts) = "fine", NEW f, NEW m, TextFrom(insts, f, m), m \in 1..Len(insts)
    PROVE  insts[m].op # "BEGIN_GRP"
  <1> SUFFICES ASSUME insts[m].op = "BEGIN_GRP" PROVE FALSE
    OBVIOUS
  <1>1. PICK n : n = Len(insts)
    OBVIOUS
  <1>2. n \in Nat /\ IsSeq(insts) /\ m \in 1..n /\ (m = n \/ (m + 1 = n /\ insts[n].op = "ENDQ"))
    BY <1>1, SeqFacts DEF Lined, TextFrom
  <1>3. PICK k : k = m - 1
    OBVIOUS
  <1>4. k \in Nat /\ k + 1 = m /\ k <= n
    BY <1>2, <1>3
  <1>5. PICK b, c : b = Before(insts, k + 1, "BEGIN_GRP") /\ c = Before(insts, k + 1, "CLOSE_GRP")
    OBVIOUS
  <1>6. b >= c
    BY <1>1, <1>2, <1>4, <1>5, CheckedIs, BegunBeforeClosed
  <1>7. /\ b \in Nat /\ c \in Nat
        /\ Before(insts, m + 1, "BEGIN_GRP") = b + 1
        /\ Before(insts, m + 1, "CLOSE_GRP") = c
    BY <1>4, <1>5, BeforeNext, SMTT(30)
  <1>8. Before(insts, n + 1, "BEGIN_GRP") = b + 1 /\ Before(insts, n + 1, "CLOSE_GRP") = c
    <2>1. CASE m = n
      BY <1>7, <2>1
    <2>2. CASE m + 1 = n /\ insts[n].op = "ENDQ"
      <3>1. /\ Before(insts, (m + 1) + 1, "BEGIN_GRP") = Before(insts, m + 1, "BEGIN_GRP") + 0
            /\ Before(insts, (m + 1) + 1, "CLOSE_GRP") = Before(insts, m + 1, "CLOSE_GRP") + 0
        BY <1>2, <2>2, BeforeNext
      <3> QED
        BY <1>7, <2>2, <3>1
    <2> QED
      BY <1>2, <2>1, <2>2
  <1>9. DepthOf(insts) <= 0
    BY <1>2, CheckedGroups
  <1>10. (b + 1) - c <= 0
    BY <1>1, <1>8, <1>9 DEF DepthOf
  <1> QED
    BY <1>6, <1>7, <1>10

\* The groups a condition begins with come before all of its operands.
LEMMA NoOperandYet ==
    ASSUME NEW insts, Lined(insts), NEW f, NEW m, TextFrom(insts, f, m),
           NEW k \in 1..Len(insts), insts[k].op = "BEGIN_GRP"
    PROVE  \A j \in 1..k : insts[j].op \notin Operands
  <1>1. PICK n : n = Len(insts)
    OBVIOUS
  <1>2. n \in Nat /\ \A i \in 1..n : insts[i].op \in TextOps <=> f <= i /\ i <= m
    BY <1>1, SeqFacts DEF Lined, TextFrom
  <1>3. f \in Nat /\ m \in Nat
    BY DEF TextFrom
  <1> DEFINE T == {i \in Nat : i \in 1..n /\ insts[i].op = "BEGIN_GRP" => \A j \in 1..i : insts[j].op \notin Operands}
  <1>4. 0 \in T
    OBVIOUS
  <1>5. ASSUME NEW i \in Nat, i \in T PROVE i + 1 \in T
    <2> SUFFICES ASSUME i + 1 \in 1..n, insts[i + 1].op = "BEGIN_GRP", NEW j \in 1..(i + 1)
                 PROVE  insts[j].op \notin Operands
      OBVIOUS
    <2>1. CASE j = i + 1
      BY <2>1, NoText
    <2>2. CASE j # i + 1
      <3>1. j \in 1..i /\ i \in 1..n /\ i # 0 /\ (i + 1) - 1 = i
        BY <1>2, <2>2
      <3>2. Neighbours(insts[i].op, insts[i + 1].op)
        BY <1>1, <3>1, Neighboured DEF OpOf
      <3>3. insts[i].op \in {"SETCAT", "BEGIN_GRP"}
        BY <3>2 DEF Neighbours
      <3>4. CASE insts[i].op = "BEGIN_GRP"
        BY <1>5, <3>1, <3>4
      <3>5. CASE insts[i].op = "SETCAT"
        <4>1. ~(f <= i /\ i <= m) /\ f <= i + 1 /\ i + 1 <= m
          BY <1>2, <3>1, <3>5, NoText
        <4>2. ~(f <= j)
          BY <1>3, <3>1, <4>1
        <4>3. insts[j].op \notin TextOps
          BY <1>2, <3>1, <4>2
        <4> QED
          BY <4>3, NoText
      <3> QED
        BY <3>3, <3>4, <3>5
    <2> QED
      BY <2>1, <2>2
  <1>6. k \in T
    <2> HIDE DEF T
    <2> QED
      BY <1>4, <1>5, Induction
  <1> QED
    BY <1>1, <1>6

LEMMA OperandBefore ==
    ASSUME NEW insts, NEW i \in Nat, ShapeOf(insts, i) = "fine", insts[i].op \in Binary \cup Regexp
    PROVE  \E j \in 1..i-1 : insts[j].op \in Operands
  <1> DEFINE at == {j \in 1..i-1 : insts[j].op \in Operands \cup Binary \cup Regexp}
  <1>1. SawOperand(insts, i)
    BY Zenon DEF ShapeOf
  <1>2. (IF at = {} THEN "none" ELSE insts[Max(at)].op) \in Operands
    BY <1>1 DEF SawOperand, LastOf
  <1>3. "none" \notin Operands
    BY DEF Operands, Bound
  <1>4. at # {}
    BY <1>2, <1>3
  <1>5. Max(at) \in at
    <2>1. CASE i = 0
      <3>1. 1..i-1 = {}
        BY <2>1
      <3> QED
        BY <1>4, <3>1
    <2>2. CASE i # 0
      <3>1. i - 1 \in Nat /\ at \subseteq 1..i-1
        BY <2>2
      <3> HIDE DEF at
      <3> QED
        BY <1>4, <3>1, MaxOfSome
    <2> QED
      BY <2>1, <2>2
  <1> QED
    BY <1>2, <1>4, <1>5

\* What stands for an instruction in the condition.
KindOf(insts, i) == Class(PieceOf(insts, i))
Fits(p, q) == p \in DOMAIN Follows /\ q \in Follows[p]

LEMMA FitsIs ==
    /\ \A p : ~Fits(p, "!")
    /\ \A q : Fits("begin", q) <=> q \in {"operand", "call", "open"}
    /\ \A q : Fits("binary", q) <=> q \in {"operand", "call", "open"}
    /\ \A q : Fits("open", q) <=> q \in {"operand", "call", "open"}
    /\ \A q : Fits("operand", q) <=> q \in {"binary", "postfix", "close", "end"}
    /\ \A q : Fits("postfix", q) <=> q \in {"binary", "close", "end"}
    /\ \A q : Fits("close", q) <=> q \in {"binary", "close", "end"}
    /\ \A q : Fits("called", q) <=> q \in {"binary", "close", "end"}
    /\ \A q : Fits("call", q) <=> q = "called"
  BY DEF Fits, Follows

LEMMA KindIs ==
    ASSUME NEW insts, NEW i, insts[i].op \in TextOps
    PROVE  /\ PieceOf(insts, i).what # "WHERE"
           /\ insts[i].op = "BEGIN_GRP" => KindOf(insts, i) = "open"
           /\ insts[i].op = "CLOSE_GRP" => KindOf(insts, i) = "close"
           /\ insts[i].op = "NOT" => KindOf(insts, i) = "!"
           /\ insts[i].op \in Binary => KindOf(insts, i) = "binary"
           /\ insts[i].op = "REGEXP" /\ IsLiteral(insts[i].value) => KindOf(insts, i) = "postfix"
           /\ insts[i].op = "NOTREGEXP" /\ IsLiteral(insts[i].value) => KindOf(insts, i) = "called"
           /\ insts[i].op \in Operands =>
                 KindOf(insts, i) = IF insts[i].op = "COLNAME" /\ Negated(insts, i) THEN "call" ELSE "operand"
  <1> DEFINE op == insts[i].op
             width == Width(insts[i].value)
  <1>1. ASSUME NEW what, NEW l, TextOf(insts, i) = <<Piece(what, l)>>
        PROVE  PieceOf(insts, i).what = what
    <2>1. PICK p : p = Piece(what, l)
      OBVIOUS
    <2>2. p.what = what /\ <<p>>[1] = p
      BY <2>1 DEF Piece
    <2>3. TextOf(insts, i) = <<p>>
      BY <1>1, <2>1
    <2> QED
      BY <2>2, <2>3 DEF PieceOf
  <1>2. CASE op = "BEGIN_GRP"
    <2>1. TextOf(insts, i) = <<Piece("(", 1)>>
      BY <1>2 DEF TextOf, Binary, Comparison, Bound
    <2>2. PieceOf(insts, i).what = "("
      BY <1>1, <2>1
    <2> QED
      BY <1>2, <2>2 DEF KindOf, Class, Binary, Comparison, Operands, Bound
  <1>3. CASE op = "CLOSE_GRP"
    <2>1. TextOf(insts, i) = <<Piece(")", 1)>>
      BY <1>3 DEF TextOf, Binary, Comparison, Bound
    <2>2. PieceOf(insts, i).what = ")"
      BY <1>1, <2>1
    <2> QED
      BY <1>3, <2>2 DEF KindOf, Class, Binary, Comparison, Operands, Bound
  <1>4. CASE op = "NOT"
    <2>1. TextOf(insts, i) = <<Piece("!", 2)>>
      BY <1>4 DEF TextOf, Binary, Comparison, Bound
    <2>2. PieceOf(insts, i).what = "!"
      BY <1>1, <2>1
    <2> QED
      BY <1>4, <2>2 DEF KindOf, Class, Binary, Comparison, Operands, Bound
  <1>5. CASE op \in Binary
    <2>1. TextOf(insts, i) = <<Piece("binary", RoomOf(insts, i))>>
      BY <1>5 DEF TextOf, Binary, Comparison, Bound
    <2>2. PieceOf(insts, i).what = "binary"
      BY <1>1, <2>1
    <2> QED
      BY <1>5, <2>2 DEF KindOf, Class, Binary, Comparison, Operands, Bound
  <1>6. CASE op \in Bound
    <2>1. TextOf(insts, i) = <<Piece("?", 1)>>
      BY <1>6 DEF TextOf, Binary, Comparison, Bound
    <2>2. PieceOf(insts, i).what = "?"
      BY <1>1, <2>1
    <2> QED
      BY <1>6, <2>2 DEF KindOf, Class, Binary, Comparison, Operands, Bound
  <1>7. CASE op = "UINT"
    <2>1. TextOf(insts, i) = <<Piece("operand", width)>>
      BY <1>7 DEF TextOf, Binary, Comparison, Bound
    <2>2. PieceOf(insts, i).what = "operand"
      BY <1>1, <2>1
    <2> QED
      BY <1>7, <2>2 DEF KindOf, Class, Binary, Comparison, Operands, Bound
  <1>8. CASE op = "COLNAME"
    <2>1. TextOf(insts, i) = IF Negated(insts, i) THEN <<Piece("notregexp(", 10 + width)>>
                             ELSE <<Piece("operand", width)>>
      BY <1>8 DEF TextOf, Binary, Comparison, Bound, Negated
    <2>2. PieceOf(insts, i).what = IF Negated(insts, i) THEN "notregexp(" ELSE "operand"
      BY <1>1, <2>1
    <2> QED
      BY <1>8, <2>2 DEF KindOf, Class, Binary, Comparison, Operands, Bound
  <1>9. CASE op = "REGEXP"
    <2>1. TextOf(insts, i) = <<Piece(Pattern("REGEXP", insts[i].value), width + 10)>>
      BY <1>9 DEF TextOf, Binary, Comparison, Bound
    <2>2. PieceOf(insts, i).what = IF IsLiteral(insts[i].value) THEN "REGEXP" ELSE "broken"
      BY <1>1, <2>1 DEF Pattern
    <2> QED
      BY <1>9, <2>2 DEF KindOf, Class, Binary, Comparison, Operands, Bound
  <1>10. CASE op = "NOTREGEXP"
    <2>1. TextOf(insts, i) = <<Piece(Pattern("notregexp)", insts[i].value), width + 5)>>
      BY <1>10 DEF TextOf, Binary, Comparison, Bound
    <2>2. PieceOf(insts, i).what = IF IsLiteral(insts[i].value) THEN "notregexp)" ELSE "broken"
      BY <1>1, <2>1 DEF Pattern
    <2> QED
      BY <1>10, <2>2 DEF KindOf, Class, Binary, Comparison, Operands, Bound
  <1> QED
    BY <1>2, <1>3, <1>4, <1>5, <1>6, <1>7, <1>8, <1>9, <1>10 DEF TextOps, Operands, Regexp

\* Whether a condition can be read, token by token.
Standing(sql, t, k) == IF k = 1 THEN "begin" ELSE IF k = t + 2 THEN "end" ELSE Class(sql[k + 4])

LEMMA ReadableIs ==
    ASSUME NEW sql, IsSeq(sql), NEW t \in Nat, Len(sql) = 5 + t, sql[5].what = "WHERE"
    PROVE  IsReadable(sql) <=> \A k \in 1..(t + 1) : Fits(Standing(sql, t, k), Standing(sql, t, k + 1))
  <1> DEFINE body == [i \in 1..Len(sql) - 5 |-> Class(sql[i + 5])]
             classes == <<"begin">> \o body \o <<"end">>
  <1>1. Len(sql) - 5 = t /\ 5 \in DOMAIN sql
    BY SeqFacts
  <1>2. IsReadable(sql) <=> \A i \in 1..Len(classes) - 1 :
                              classes[i] \in DOMAIN Follows /\ classes[i+1] \in Follows[classes[i]]
    <2> HIDE DEF classes
    <2>1. {i \in DOMAIN sql : sql[i].what = "WHERE"} # {}
      BY <1>1
    <2> QED
      BY <2>1, Zenon DEF IsReadable, classes
  <1>3. Len(classes) = t + 2 /\ \A k \in 1..(t + 2) : classes[k] = Standing(sql, t, k)
    <2>1. body = [i \in 1..t |-> body[i]] /\ \A i \in 1..t : body[i] = Class(sql[i + 5])
      BY <1>1
    <2> HIDE DEF body
    <2>2. IsSeq(body) /\ Len(body) = t
      BY <2>1, ListIsSeq
    <2>3. PICK S : body \in Seq(S)
      BY <2>2 DEF IsSeq
    <2> DEFINE U == S \cup {"begin", "end"}
    <2>4. body \in Seq(U) /\ <<"begin">> \in Seq(U) /\ <<"end">> \in Seq(U)
      BY <2>3, SeqMonotonic
    <2> HIDE DEF U
    <2> DEFINE front == <<"begin">> \o body
    <2>5. Len(<<"begin">>) = 1 /\ <<"begin">>[1] = "begin" /\ Len(<<"end">>) = 1 /\ <<"end">>[1] = "end"
      OBVIOUS
    <2>6. /\ front \in Seq(U) /\ Len(front) = 1 + t
          /\ \A i \in 1..(1 + t) : front[i] = IF i <= 1 THEN <<"begin">>[i] ELSE body[i - 1]
      BY <2>2, <2>4, <2>5, ConcatProperties
    <2>7. classes = front \o <<"end">>
      OBVIOUS
    <2> HIDE DEF front
    <2>8. /\ Len(classes) = (1 + t) + 1
          /\ \A i \in 1..((1 + t) + 1) : classes[i] = IF i <= 1 + t THEN front[i] ELSE <<"end">>[i - (1 + t)]
      BY <2>4, <2>5, <2>6, <2>7, ConcatProperties
    <2> HIDE DEF classes
    <2>9. ASSUME NEW k \in 1..(t + 2) PROVE classes[k] = Standing(sql, t, k)
      <3>1. CASE k = 1
        <4>1. k \in 1..((1 + t) + 1) /\ k <= 1 + t /\ k \in 1..(1 + t) /\ k <= 1
          BY <3>1
        <4>2. classes[k] = front[k] /\ front[k] = <<"begin">>[k]
          BY <2>6, <2>8, <4>1
        <4> QED
          BY <2>5, <3>1, <4>2 DEF Standing
      <3>2. CASE k = t + 2
        <4>1. k \in 1..((1 + t) + 1) /\ ~(k <= 1 + t) /\ k - (1 + t) = 1 /\ k # 1
          BY <3>2
        <4>2. classes[k] = <<"end">>[k - (1 + t)]
          BY <2>8, <4>1
        <4> QED
          BY <2>5, <3>2, <4>1, <4>2 DEF Standing
      <3>3. CASE k # 1 /\ k # t + 2
        <4>1. k \in 1..((1 + t) + 1) /\ k <= 1 + t /\ k \in 1..(1 + t) /\ ~(k <= 1) /\ k - 1 \in 1..t
          BY <3>3
        <4>2. classes[k] = body[k - 1]
          BY <2>6, <2>8, <4>1
        <4>3. (k - 1) + 5 = k + 4
          OBVIOUS
        <4> QED
          BY <2>1, <3>3, <4>1, <4>2, <4>3 DEF Standing
      <3> QED
        BY <3>1, <3>2, <3>3
    <2> QED
      BY <2>8, <2>9
  <1> HIDE DEF classes
  <1>4. Len(classes) - 1 = t + 1
    BY <1>3
  <1>5. ASSUME NEW k \in 1..(t + 1)
        PROVE  Fits(Standing(sql, t, k), Standing(sql, t, k + 1)) <=>
                  classes[k] \in DOMAIN Follows /\ classes[k+1] \in Follows[classes[k]]
    <2>1. k \in 1..(t + 2) /\ k + 1 \in 1..(t + 2)
      OBVIOUS
    <2>2. classes[k] = Standing(sql, t, k) /\ classes[k + 1] = Standing(sql, t, k + 1)
      BY <1>3, <2>1
    <2> QED
      BY <2>2, Zenon DEF Fits
  <1> QED
    BY <1>2, <1>4, <1>5

\* The condition stands behind the opening, an instruction after the other.
CountTo(f, m, k, c) ==
    /\ k < f => c = 0
    /\ f <= k /\ k <= m => c = (k + 1) - f
    /\ m < k => c = (m + 1) - f
StandsBehind(sql, insts, f, o, c) ==
    /\ IsSeq(sql) /\ Len(sql) = o + c
    /\ \A i \in 1..o : sql[i] = Opening(insts)[i]
    /\ \A i \in 1..c : sql[o + i] = PieceOf(insts, (f + i) - 1)

LEMMA StandsOn ==
    ASSUME NEW sql, NEW insts, NEW f \in Nat \ {0}, NEW o \in Nat, NEW c \in Nat,
           StandsBehind(sql, insts, f, o, c), NEW piece, piece = PieceOf(insts, f + c)
    PROVE  StandsBehind(Append(sql, piece), insts, f, o, c + 1)
  <1> DEFINE on == Append(sql, piece)
  <1>1. IsSeq(sql) /\ Len(sql) = o + c
    BY DEF StandsBehind
  <1>2. /\ IsSeq(on) /\ Len(on) = (o + c) + 1 /\ on[(o + c) + 1] = piece
        /\ \A i \in 1..(o + c) : on[i] = sql[i]
    BY <1>1, AppendFacts
  <1> HIDE DEF on
  <1>3. ASSUME NEW i \in 1..o PROVE on[i] = Opening(insts)[i]
    <2>1. i \in 1..(o + c)
      OBVIOUS
    <2> QED
      BY <1>2, <2>1 DEF StandsBehind
  <1>4. ASSUME NEW i \in 1..(c + 1) PROVE on[o + i] = PieceOf(insts, (f + i) - 1)
    <2>1. CASE i = c + 1
      <3>1. o + i = (o + c) + 1 /\ (f + i) - 1 = f + c
        BY <2>1
      <3> QED
        BY <1>2, <3>1
    <2>2. CASE i # c + 1
      <3>1. i \in 1..c /\ o + i \in 1..(o + c)
        BY <2>2
      <3> QED
        BY <1>2, <3>1 DEF StandsBehind
    <2> QED
      BY <2>1, <2>2
  <1>5. Len(on) = o + (c + 1)
    BY <1>2
  <1>6. StandsBehind(on, insts, f, o, c + 1)
    BY <1>2, <1>3, <1>4, <1>5 DEF StandsBehind
  <1> QED
    BY <1>6 DEF on

LEMMA SelectStands ==
    ASSUME NEW insts, Lined(insts), NEW f, NEW m, TextFrom(insts, f, m)
    PROVE  StandsBehind(Select(insts), insts, f, Len(Opening(insts)), (m + 1) - f)
  <1>1. PICK n, o : n = Len(insts) /\ o = Len(Opening(insts))
    OBVIOUS
  <1>2. n \in Nat /\ o \in Nat
    BY <1>1, SeqFacts, OpeningIs DEF Lined
  <1>3. /\ f \in Nat \ {0} /\ m \in Nat /\ f <= m + 1 /\ m <= n
        /\ \A i \in 1..n : insts[i].op \in TextOps <=> f <= i /\ i <= m
    BY <1>1 DEF TextFrom
  <1> DEFINE Fine(k) == \E c \in Nat : CountTo(f, m, k, c) /\ StandsBehind(WrittenTo(insts, k), insts, f, o, c)
             T == {k \in Nat : k <= n => Fine(k)}
  <1>4. Fine(0)
    <2>1. PICK c \in Nat : c = 0
      OBVIOUS
    <2>2. CountTo(f, m, 0, c)
      BY <1>3, <2>1 DEF CountTo
    <2>3. WrittenTo(insts, 0) = Opening(insts)
      BY WrittenOn
    <2>4. StandsBehind(Opening(insts), insts, f, o, c)
      <3>1. IsSeq(Opening(insts))
        BY OpeningIs
      <3>2. o + c = o /\ 1..c = {}
        BY <1>2, <2>1
      <3> QED
        BY <1>1, <3>1, <3>2 DEF StandsBehind
    <2> QED
      BY <2>2, <2>3, <2>4
  <1>5. ASSUME NEW k \in Nat, k + 1 <= n, Fine(k) PROVE Fine(k + 1)
    <2>1. PICK c \in Nat : CountTo(f, m, k, c) /\ StandsBehind(WrittenTo(insts, k), insts, f, o, c)
      BY <1>5
    <2>2. k + 1 \in 1..n
      BY <1>2, <1>5
    <2>3. CASE insts[k + 1].op \in TextOps
      <3>1. f <= k + 1 /\ k + 1 <= m
        BY <1>3, <2>2, <2>3
      <3>2. c = (k + 1) - f /\ CountTo(f, m, k + 1, c + 1)
        <4>1. CASE k < f
          BY <1>3, <2>1, <3>1, <4>1 DEF CountTo
        <4>2. CASE ~(k < f)
          BY <1>3, <2>1, <3>1, <4>2 DEF CountTo
        <4> QED
          BY <4>1, <4>2
      <3>3. f + c = k + 1
        BY <1>3, <3>2
      <3>4. WrittenTo(insts, k + 1) = Append(WrittenTo(insts, k), PieceOf(insts, k + 1))
        BY <2>3, WrittenOn
      <3>5. PICK piece : piece = PieceOf(insts, k + 1)
        OBVIOUS
      <3>6. piece = PieceOf(insts, f + c)
        BY <3>3, <3>5
      <3>7. StandsBehind(Append(WrittenTo(insts, k), piece), insts, f, o, c + 1)
        BY <1>2, <1>3, <2>1, <3>6, StandsOn
      <3>8. WrittenTo(insts, k + 1) = Append(WrittenTo(insts, k), piece)
        BY <3>4, <3>5, Zenon
      <3>9. StandsBehind(WrittenTo(insts, k + 1), insts, f, o, c + 1)
        BY <3>7, <3>8, Zenon
      <3>10. c + 1 \in Nat
        OBVIOUS
      <3> QED
        BY <3>2, <3>9, <3>10
    <2>4. CASE insts[k + 1].op \notin TextOps
      <3>1. ~(f <= k + 1 /\ k + 1 <= m)
        BY <1>3, <2>2, <2>4
      <3>2. CountTo(f, m, k + 1, c)
        <4>1. CASE k < f
          BY <1>3, <2>1, <3>1, <4>1 DEF CountTo
        <4>2. CASE ~(k < f)
          BY <1>3, <2>1, <3>1, <4>2 DEF CountTo
        <4> QED
          BY <4>1, <4>2
      <3>3. WrittenTo(insts, k + 1) = WrittenTo(insts, k)
        BY <2>4, WrittenOn
      <3> QED
        BY <2>1, <3>2, <3>3
    <2> QED
      BY <2>3, <2>4
  <1> HIDE DEF Fine
  <1>6. 0 \in T
    BY <1>4
  <1>7. ASSUME NEW k \in Nat, k \in T PROVE k + 1 \in T
    <2> SUFFICES ASSUME k + 1 <= n PROVE Fine(k + 1)
      OBVIOUS
    <2>1. k <= n
      BY <1>2
    <2> QED
      BY <1>5, <1>7, <2>1
  <1>8. n \in T
    <2> HIDE DEF T
    <2> QED
      BY <1>2, <1>6, <1>7, Induction
  <1>9. PICK c \in Nat : CountTo(f, m, n, c) /\ StandsBehind(WrittenTo(insts, n), insts, f, o, c)
    BY <1>2, <1>8 DEF Fine
  <1>10. c = (m + 1) - f
    <2>1. CASE m < n
      BY <1>9, <2>1 DEF CountTo
    <2>2. CASE ~(m < n)
      <3>1. m = n
        BY <1>2, <1>3, <2>2
      <3> QED
        BY <1>3, <1>9, <3>1 DEF CountTo
    <2> QED
      BY <2>1, <2>2
  <1>11. Select(insts) = WrittenTo(insts, n)
    BY <1>1, SelectWritten DEF Lined
  <1> QED
    BY <1>1, <1>9, <1>10, <1>11

\* What stands next to what in a condition that both passes let through.
Passed(insts, f, m) ==
    /\ Lined(insts) /\ Checked(insts) = "fine" /\ TextFrom(insts, f, m)
    /\ \A i \in 1..Len(insts) : ShapeOf(insts, i) = "fine"

LEMMA InText ==
    ASSUME NEW insts, NEW f, NEW m, Passed(insts, f, m), NEW i \in Nat, f <= i, i <= m
    PROVE  i \in 1..Len(insts) /\ insts[i].op \in TextOps
  <1>1. Len(insts) \in Nat
    BY SeqFacts DEF Passed, Lined
  <1>2. /\ f \in Nat \ {0} /\ m \in Nat /\ m <= Len(insts)
        /\ \A k \in 1..Len(insts) : insts[k].op \in TextOps <=> f <= k /\ k <= m
    BY DEF Passed, TextFrom
  <1>3. i \in 1..Len(insts)
    BY <1>1, <1>2
  <1> QED
    BY <1>2, <1>3

\* An operator or a closing parenthesis is not what the condition begins
\* with, or a group.
LEMMA NeedsOperand ==
    ASSUME NEW insts, NEW f, NEW m, Passed(insts, f, m), NEW i \in Nat, f <= i, i <= m,
           insts[i].op \in Binary \cup Regexp
    PROVE  i # f /\ insts[i - 1].op # "BEGIN_GRP"
  <1>1. i \in 1..Len(insts) /\ Len(insts) \in Nat
    BY InText, SeqFacts DEF Passed, Lined
  <1>2. ShapeOf(insts, i) = "fine"
    BY <1>1 DEF Passed
  <1>3. PICK j \in 1..i-1 : insts[j].op \in Operands
    BY <1>2, OperandBefore
  <1>4. f \in Nat /\ m \in Nat /\ \A k \in 1..Len(insts) : insts[k].op \in TextOps <=> f <= k /\ k <= m
    BY DEF Passed, TextFrom
  <1>5. j \in 1..Len(insts)
    BY <1>1, <1>3
  <1>6. f <= j
    BY <1>3, <1>4, <1>5, NoText
  <1>7. i # f
    BY <1>3, <1>4, <1>6
  <1>8. insts[i - 1].op # "BEGIN_GRP"
    <2> SUFFICES ASSUME insts[i - 1].op = "BEGIN_GRP" PROVE FALSE
      OBVIOUS
    <2>1. PICK k : k = i - 1
      OBVIOUS
    <2>2. k \in 1..Len(insts) /\ j \in 1..k
      BY <1>1, <1>3, <2>1
    <2>3. insts[j].op \notin Operands
      BY <2>1, <2>2, NoOperandYet DEF Passed
    <2> QED
      BY <1>3, <2>3
  <1> QED
    BY <1>7, <1>8

LEMMA FirstIs ==
    ASSUME NEW insts, NEW f, NEW m, Passed(insts, f, m), f <= m, insts[f].op # "NOT"
    PROVE  /\ f \in 1..Len(insts) /\ insts[f].op \in TextOps
           /\ insts[f].op = "BEGIN_GRP" \/ insts[f].op \in Operands
  <1>1. f \in Nat /\ m \in Nat /\ f <= f
    BY DEF Passed, TextFrom
  <1>2. f \in 1..Len(insts) /\ insts[f].op \in TextOps
    BY <1>1, InText
  <1>3. insts[f].op \notin Binary \cup Regexp
    BY <1>1, NeedsOperand
  <1>4. insts[f].op # "CLOSE_GRP"
    <2> SUFFICES ASSUME insts[f].op = "CLOSE_GRP" PROVE FALSE
      OBVIOUS
    <2>1. CheckOf(insts, f) = "fine"
      BY <1>2, CheckedIs DEF Passed, Lined
    <2>2. PICK j \in 1..f-1 : insts[j].op = "BEGIN_GRP"
      BY <1>2, <2>1, ClosedWasBegun
    <2>3. j \in 1..Len(insts) /\ ~(f <= j)
      <3>1. Len(insts) \in Nat
        BY SeqFacts DEF Passed, Lined
      <3> QED
        BY <1>2, <2>2, <3>1
    <2>4. insts[j].op \notin TextOps
      BY <2>3 DEF Passed, TextFrom
    <2> QED
      BY <2>2, <2>4, NoText
  <1> QED
    BY <1>2, <1>3, <1>4, NoText

LEMMA FirstFits ==
    ASSUME NEW insts, NEW f, NEW m, Passed(insts, f, m), f <= m, insts[f].op # "NOT"
    PROVE  Fits("begin", KindOf(insts, f))
  <1>1. KindOf(insts, f) \in {"operand", "call", "open"}
    BY FirstIs, KindIs
  <1> QED
    BY <1>1, FitsIs

LEMMA NextFits ==
    ASSUME NEW insts, NEW f, NEW m, Passed(insts, f, m), NEW i \in Nat, f <= i, i + 1 <= m,
           insts[i].op # "NOT", insts[i + 1].op # "NOT",
           ~(insts[i].op = "BEGIN_GRP" /\ insts[i + 1].op = "CLOSE_GRP"), PatternsWhole(insts)
    PROVE  Fits(KindOf(insts, i), KindOf(insts, i + 1))
  <1>1. f \in Nat \ {0} /\ m \in Nat /\ i <= m /\ f <= i + 1 /\ (i + 1) - 1 = i
    BY DEF Passed, TextFrom
  <1>2. i \in 1..Len(insts) /\ i + 1 \in 1..Len(insts) /\ i # Len(insts)
    <2>1. i + 1 \in Nat
      OBVIOUS
    <2>2. i \in 1..Len(insts) /\ i + 1 \in 1..Len(insts)
      BY <1>1, <2>1, InText
    <2>3. Len(insts) \in Nat
      BY SeqFacts DEF Passed, Lined
    <2> QED
      BY <2>2, <2>3
  <1>3. PICK p, q : p = insts[i].op /\ q = insts[i + 1].op
    OBVIOUS
  <1>4. Neighbours(p, q)
    BY <1>2, <1>3, EndqLast DEF Passed
  <1>5. p \in TextOps /\ q \in TextOps /\ p # "NOT" /\ q # "NOT"
    <2>1. i + 1 \in Nat
      OBVIOUS
    <2> QED
      BY <1>1, <1>3, <2>1, InText
  <1>6. q \in Regexp => p = "COLNAME"
    BY <1>4 DEF Neighbours
  <1>7. q \in Binary \cup Regexp => p # "BEGIN_GRP"
    <2>1. i + 1 \in Nat
      OBVIOUS
    <2>2. q \in Binary \cup Regexp => insts[(i + 1) - 1].op # "BEGIN_GRP"
      BY <1>1, <1>3, <2>1, NeedsOperand
    <2> QED
      BY <1>1, <1>3, <2>2
  <1>8. PICK a, b : a = KindOf(insts, i) /\ b = KindOf(insts, i + 1)
    OBVIOUS
  <1>9. /\ p = "BEGIN_GRP" => a = "open"
        /\ p = "CLOSE_GRP" => a = "close"
        /\ p \in Binary => a = "binary"
        /\ p = "REGEXP" => a = "postfix"
        /\ p = "NOTREGEXP" => a = "called"
        /\ p \in Operands => a = IF p = "COLNAME" /\ Negated(insts, i) THEN "call" ELSE "operand"
    BY <1>2, <1>3, <1>5, <1>8, KindIs DEF PatternsWhole, Regexp
  <1>10. /\ q = "BEGIN_GRP" => b = "open"
         /\ q = "CLOSE_GRP" => b = "close"
         /\ q \in Binary => b = "binary"
         /\ q = "REGEXP" => b = "postfix"
         /\ q = "NOTREGEXP" => b = "called"
         /\ q \in Operands => b \in {"call", "operand"}
    BY <1>2, <1>3, <1>5, <1>8, KindIs DEF PatternsWhole, Regexp
  <1>11. Negated(insts, i) <=> q = "NOTREGEXP"
    <2>1. i < Len(insts)
      BY <1>2
    <2> QED
      BY <1>3, <2>1 DEF Negated
  <1>12. q \in Regexp <=> q \in {"REGEXP", "NOTREGEXP"}
    BY DEF Regexp
  <1>13. CASE p = "BEGIN_GRP"
    <2>1. q = "BEGIN_GRP" \/ q \in Operands
      BY <1>3, <1>5, <1>7, <1>13, NoText
    <2>2. a = "open" /\ b \in {"operand", "call", "open"}
      BY <1>9, <1>10, <1>13, <2>1
    <2> QED
      BY <1>8, <2>2, FitsIs
  <1>14. CASE p \in Binary
    <2>1. q \in Operands
      BY <1>4, <1>14 DEF Neighbours
    <2>2. a = "binary" /\ b \in {"operand", "call"}
      BY <1>9, <1>10, <1>14, <2>1
    <2> QED
      BY <1>8, <2>2, FitsIs
  <1>15. CASE p \in Regexp \cup {"CLOSE_GRP"}
    <2>1. q \in Binary \/ q = "CLOSE_GRP"
      <3>1. q \in Binary \cup {"NOT", "CLOSE_GRP", "ENDQ"}
        BY <1>4, <1>15 DEF Neighbours
      <3> QED
        BY <1>5, <3>1, NoText
    <2>2. b \in {"binary", "close"} /\ a \in {"close", "postfix", "called"}
      BY <1>9, <1>10, <1>15, <2>1 DEF Regexp
    <2> QED
      BY <1>8, <2>2, FitsIs
  <1>16. CASE p \in Operands
    <2>1. q \in Binary \/ q = "CLOSE_GRP" \/ q \in Regexp
      <3>1. q \in Binary \cup Regexp \cup {"NOT", "CLOSE_GRP", "ENDQ"}
        BY <1>4, <1>16 DEF Neighbours
      <3> QED
        BY <1>5, <3>1, NoText
    <2>2. CASE q = "NOTREGEXP"
      <3>1. a = "call" /\ b = "called"
        BY <1>6, <1>9, <1>10, <1>11, <1>12, <1>16, <2>2
      <3> QED
        BY <1>8, <3>1, FitsIs
    <2>3. CASE q # "NOTREGEXP"
      <3>1. a = "operand" /\ b \in {"binary", "close", "postfix"}
        BY <1>9, <1>10, <1>11, <1>12, <1>16, <2>1, <2>3
      <3> QED
        BY <1>8, <3>1, FitsIs
    <2> QED
      BY <2>2, <2>3
  <1> QED
    BY <1>5, <1>13, <1>14, <1>15, <1>16, NoText

LEMMA LastFits ==
    ASSUME NEW insts, NEW f, NEW m, Passed(insts, f, m), f <= m, insts[m].op # "NOT",
           insts[Len(insts)].op \notin Binary, PatternsWhole(insts)
    PROVE  Fits(KindOf(insts, m), "end")
  <1>1. PICK n, p : n = Len(insts) /\ p = insts[m].op
    OBVIOUS
  <1>2. f \in Nat /\ m \in Nat /\ m <= m /\ (m = n \/ (m + 1 = n /\ insts[n].op = "ENDQ"))
    BY <1>1 DEF Passed, TextFrom
  <1>3. m \in 1..n /\ p \in TextOps /\ n \in Nat
    BY <1>1, <1>2, InText, SeqFacts DEF Passed, Lined
  <1>4. p # "BEGIN_GRP"
    BY <1>1, <1>3, LastNotBegun DEF Passed
  <1>5. p \notin Binary /\ ~Negated(insts, m)
    <2>1. CASE m = n
      BY <1>1, <1>3, <2>1 DEF Negated
    <2>2. CASE m + 1 = n /\ insts[n].op = "ENDQ"
      <3>1. m # n
        BY <1>3, <2>2
      <3>2. Neighbours(p, "ENDQ")
        BY <1>1, <1>3, <2>2, <3>1, EndqLast DEF Passed
      <3>3. "ENDQ" \notin Operands
        BY NoText
      <3>4. p \notin Binary
        BY <3>2, <3>3 DEF Neighbours
      <3>5. ~Negated(insts, m)
        BY <2>2 DEF Negated
      <3> QED
        BY <3>4, <3>5
    <2> QED
      BY <1>2, <2>1, <2>2
  <1>6. p = "CLOSE_GRP" \/ p \in Operands \/ p \in Regexp
    BY <1>1, <1>3, <1>4, <1>5, NoText
  <1>7. KindOf(insts, m) \in {"operand", "close", "postfix", "called"}
    BY <1>1, <1>3, <1>5, <1>6, KindIs DEF PatternsWhole, Regexp
  <1> QED
    BY <1>7, FitsIs

\* The instructions of a condition that can be read.
Tidy(insts) ==
    /\ ~Present(insts, "NOT")
    /\ \A i \in 2..Len(insts) : insts[i].op = "CLOSE_GRP" => insts[i-1].op # "BEGIN_GRP"
    /\ Conditional(insts) \/ \A i \in DOMAIN insts : insts[i].op \notin Operands
    /\ insts[Len(insts)].op \notin Binary

LEMMA ConditionStands ==
    ASSUME NEW insts, NEW f, NEW m, Passed(insts, f, m), Conditional(insts)
    PROVE  /\ f <= m
           /\ IsReadable(Select(insts)) <=>
                 /\ Fits("begin", KindOf(insts, f))
                 /\ \A i \in f..m-1 : Fits(KindOf(insts, i), KindOf(insts, i + 1))
                 /\ Fits(KindOf(insts, m), "end")
  <1>1. PICK n, sql, t : n = Len(insts) /\ sql = Select(insts) /\ t = (m + 1) - f
    OBVIOUS
  <1>2. /\ f \in Nat \ {0} /\ m \in Nat
        /\ \A i \in 1..n : insts[i].op \in TextOps <=> f <= i /\ i <= m
    BY <1>1 DEF Passed, TextFrom
  <1>3. f <= m
    <2>1. PICK i \in 1..n : insts[i].op \in TextOps
      BY <1>1, SeqFacts, NoText DEF Conditional, Passed, Lined
    <2> QED
      BY <1>2, <2>1
  <1>4. t \in Nat /\ t >= 1
    BY <1>1, <1>2, <1>3
  <1>5. Len(Opening(insts)) = 5 /\ Opening(insts)[5].what = "WHERE"
    BY OpeningIs
  <1>6. StandsBehind(sql, insts, f, 5, t)
    BY <1>1, <1>5, SelectStands DEF Passed
  <1>7. IsSeq(sql) /\ Len(sql) = 5 + t /\ sql[5].what = "WHERE"
    <2>1. 5 \in 1..5
      OBVIOUS
    <2> QED
      BY <1>5, <1>6, <2>1 DEF StandsBehind
  <1>8. IsReadable(sql) <=> \A k \in 1..(t + 1) : Fits(Standing(sql, t, k), Standing(sql, t, k + 1))
    BY <1>4, <1>7, ReadableIs
  <1>9. Standing(sql, t, 1) = "begin" /\ Standing(sql, t, t + 2) = "end"
    BY <1>4 DEF Standing
  <1>10. ASSUME NEW i \in f..m PROVE Standing(sql, t, (i - f) + 2) = KindOf(insts, i)
    <2>1. PICK k : k = (i - f) + 1
      OBVIOUS
    <2>2. k \in 1..t /\ (f + k) - 1 = i
      BY <1>1, <1>2, <2>1
    <2>3. k + 1 # 1 /\ k + 1 # t + 2 /\ (k + 1) + 4 = 5 + k /\ (i - f) + 2 = k + 1
      BY <1>2, <1>4, <2>1, <2>2
    <2>4. sql[5 + k] = PieceOf(insts, (f + k) - 1)
      BY <1>6, <2>2 DEF StandsBehind
    <2>5. Standing(sql, t, k + 1) = Class(sql[5 + k])
      BY <2>3 DEF Standing
    <2>6. Standing(sql, t, k + 1) = KindOf(insts, i)
      BY <2>2, <2>4, <2>5 DEF KindOf
    <2> QED
      BY <2>3, <2>6
  <1> DEFINE S(k) == Standing(sql, t, k)
  <1>11. S(1) = "begin" /\ S(t + 2) = "end" /\ \A i \in f..m : S((i - f) + 2) = KindOf(insts, i)
    BY <1>9, <1>10
  <1>12. IsReadable(sql) <=> \A k \in 1..(t + 1) : Fits(S(k), S(k + 1))
    BY <1>8
  <1> HIDE DEF S
  <1>13. S(2) = KindOf(insts, f) /\ S(t + 1) = KindOf(insts, m)
    <2>1. f \in f..m /\ m \in f..m /\ (f - f) + 2 = 2 /\ (m - f) + 2 = t + 1
      BY <1>1, <1>2, <1>3
    <2>2. S((f - f) + 2) = KindOf(insts, f) /\ S((m - f) + 2) = KindOf(insts, m)
      BY <1>11, <2>1
    <2> QED
      BY <2>1, <2>2
  <1>14. ASSUME \A k \in 1..(t + 1) : Fits(S(k), S(k + 1))
         PROVE  /\ Fits("begin", KindOf(insts, f))
                /\ \A i \in f..m-1 : Fits(KindOf(insts, i), KindOf(insts, i + 1))
                /\ Fits(KindOf(insts, m), "end")
    <2>1. 1 \in 1..(t + 1) /\ 1 + 1 = 2 /\ t + 1 \in 1..(t + 1) /\ (t + 1) + 1 = t + 2
      BY <1>4
    <2>2. Fits(S(1), S(1 + 1)) /\ Fits(S(t + 1), S((t + 1) + 1))
      BY <1>14, <2>1
    <2>3. Fits(S(1), S(2)) /\ Fits(S(t + 1), S(t + 2))
      BY <2>1, <2>2
    <2>4. ASSUME NEW i \in f..m-1 PROVE Fits(KindOf(insts, i), KindOf(insts, i + 1))
      <3>1. PICK k : k = (i - f) + 2
        OBVIOUS
      <3>2. i \in f..m /\ i + 1 \in f..m /\ k \in 1..(t + 1) /\ ((i + 1) - f) + 2 = k + 1
        BY <1>1, <1>2, <3>1
      <3>3. S(k) = KindOf(insts, i) /\ S(((i + 1) - f) + 2) = KindOf(insts, i + 1)
        BY <1>11, <3>1, <3>2
      <3>4. S(k + 1) = KindOf(insts, i + 1)
        BY <3>2, <3>3
      <3> QED
        BY <1>14, <3>2, <3>3, <3>4
    <2> QED
      BY <1>11, <1>13, <2>3, <2>4
  <1>15. ASSUME Fits("begin", KindOf(insts, f)), Fits(KindOf(insts, m), "end"),
                \A i \in f..m-1 : Fits(KindOf(insts, i), KindOf(insts, i + 1)),
                NEW k \in 1..(t + 1)
         PROVE  Fits(S(k), S(k + 1))
    <2>1. CASE k = 1
      <3>1. k + 1 = 2
        BY <2>1
      <3> QED
        BY <1>11, <1>13, <1>15, <2>1, <3>1
    <2>2. CASE k = t + 1
      <3>1. k + 1 = t + 2
        BY <1>4, <2>2
      <3> QED
        BY <1>11, <1>13, <1>15, <2>2, <3>1
    <2>3. CASE k # 1 /\ k # t + 1
      <3>1. PICK i : i = (f + k) - 2
        OBVIOUS
      <3>2. /\ i \in f..m-1 /\ i \in f..m /\ i + 1 \in f..m
            /\ (i - f) + 2 = k /\ ((i + 1) - f) + 2 = k + 1
        BY <1>1, <1>2, <1>4, <2>3, <3>1
      <3>3. S((i - f) + 2) = KindOf(insts, i) /\ S(((i + 1) - f) + 2) = KindOf(insts, i + 1)
        BY <1>11, <3>2
      <3>4. S(k) = KindOf(insts, i) /\ S(k + 1) = KindOf(insts, i + 1)
        BY <3>2, <3>3
      <3> QED
        BY <1>15, <3>2, <3>4
    <2> QED
      BY <2>1, <2>2, <2>3
  <1> QED
    BY <1>1, <1>3, <1>12, <1>14, <1>15

LEMMA ConditionReads ==
    ASSUME NEW insts, NEW f, NEW m, Passed(insts, f, m), Conditional(insts), PatternsWhole(insts)
    PROVE  IsReadable(Select(insts)) <=> Tidy(insts)
  <1> DEFINE Fit == /\ Fits("begin", KindOf(insts, f))
                    /\ \A i \in f..m-1 : Fits(KindOf(insts, i), KindOf(insts, i + 1))
                    /\ Fits(KindOf(insts, m), "end")
  <1>1. f <= m /\ (IsReadable(Select(insts)) <=> Fit)
    BY ConditionStands
  <1> HIDE DEF Fit
  <1>2. PICK n : n = Len(insts)
    OBVIOUS
  <1>3. /\ f \in Nat \ {0} /\ m \in Nat /\ n \in Nat /\ m <= n
        /\ \A i \in 1..n : insts[i].op \in TextOps <=> f <= i /\ i <= m
        /\ m = n \/ (m + 1 = n /\ insts[n].op = "ENDQ")
        /\ DOMAIN insts = 1..n
    BY <1>2, SeqFacts DEF Passed, Lined, TextFrom
  <1>4. ASSUME Tidy(insts) PROVE Fit
    <2>1. \A i \in 1..n : insts[i].op # "NOT"
      BY <1>3, <1>4 DEF Tidy, Present
    <2>2. f \in 1..n /\ m \in 1..n
      BY <1>1, <1>3
    <2>3. Fits("begin", KindOf(insts, f))
      BY <1>1, <2>1, <2>2, FirstFits
    <2>4. Fits(KindOf(insts, m), "end")
      BY <1>1, <1>4, <2>1, <2>2, LastFits DEF Tidy
    <2>5. ASSUME NEW i \in f..m-1 PROVE Fits(KindOf(insts, i), KindOf(insts, i + 1))
      <3>1. i \in Nat /\ f <= i /\ i + 1 <= m /\ i \in 1..n /\ i + 1 \in 1..n /\ i + 1 \in 2..n /\ (i + 1) - 1 = i
        BY <1>3
      <3>2. insts[i + 1].op = "CLOSE_GRP" => insts[(i + 1) - 1].op # "BEGIN_GRP"
        BY <1>2, <1>4, <3>1 DEF Tidy
      <3>3. ~(insts[i].op = "BEGIN_GRP" /\ insts[i + 1].op = "CLOSE_GRP")
        BY <3>1, <3>2
      <3>4. insts[i].op # "NOT" /\ insts[i + 1].op # "NOT"
        BY <2>1, <3>1
      <3> QED
        BY <3>1, <3>3, <3>4, NextFits
    <2> QED
      BY <2>3, <2>4, <2>5 DEF Fit
  <1>5. ASSUME Fit PROVE Tidy(insts)
    <2>1. ASSUME NEW i \in 1..n, insts[i].op = "NOT" PROVE FALSE
      <3>1. f <= i /\ i <= m /\ insts[i].op \in TextOps
        BY <1>3, <2>1, NoText
      <3>2. KindOf(insts, i) = "!"
        BY <2>1, <3>1, KindIs
      <3>3. CASE i = f
        BY <1>5, <3>2, <3>3, FitsIs DEF Fit
      <3>4. CASE i # f
        <4>1. PICK j : j = i - 1
          OBVIOUS
        <4>2. j \in f..m-1 /\ j + 1 = i
          BY <1>3, <3>1, <3>4, <4>1
        <4>3. Fits(KindOf(insts, j), KindOf(insts, j + 1))
          BY <1>5, <4>2 DEF Fit
        <4> QED
          BY <3>2, <4>2, <4>3, FitsIs
      <3> QED
        BY <3>3, <3>4
    <2>2. ASSUME NEW i \in 2..n, insts[i].op = "CLOSE_GRP", insts[i-1].op = "BEGIN_GRP" PROVE FALSE
      <3>1. PICK j : j = i - 1
        OBVIOUS
      <3>2. i \in 1..n /\ j \in 1..n /\ j + 1 = i
        BY <1>3, <3>1
      <3>3. insts[j].op = "BEGIN_GRP" /\ insts[i].op \in TextOps /\ insts[j].op \in TextOps
        BY <2>2, <3>1, NoText
      <3>4. j \in f..m-1
        BY <1>3, <3>2, <3>3
      <3>5. KindOf(insts, j) = "open" /\ KindOf(insts, i) = "close"
        BY <2>2, <3>3, KindIs
      <3>6. Fits(KindOf(insts, j), KindOf(insts, j + 1))
        BY <1>5, <3>4 DEF Fit
      <3>7. Fits("open", "close")
        BY <3>2, <3>5, <3>6
      <3> QED
        BY <3>7, FitsIs
    <2>3. ASSUME insts[n].op \in Binary PROVE FALSE
      <3>1. insts[n].op \in TextOps /\ insts[n].op # "ENDQ"
        BY <2>3, NoText
      <3>2. m = n
        BY <1>3, <3>1
      <3>3. KindOf(insts, m) = "binary"
        BY <2>3, <3>1, <3>2, KindIs
      <3>4. Fits("binary", "end")
        BY <1>5, <3>3 DEF Fit
      <3> QED
        BY <3>4, FitsIs
    <2> QED
      BY <1>2, <1>3, <2>1, <2>2, <2>3 DEF Tidy, Present
  <1> QED
    BY <1>1, <1>4, <1>5

LEMMA NoConditionReads ==
    ASSUME NEW insts, NEW f, NEW m, Passed(insts, f, m), ~Conditional(insts)
    PROVE  IsReadable(Select(insts)) <=> Tidy(insts)
  <1>1. PICK n, sql, t : n = Len(insts) /\ sql = Select(insts) /\ t = (m + 1) - f
    OBVIOUS
  <1>2. /\ f \in Nat \ {0} /\ m \in Nat /\ n \in Nat /\ m <= n /\ f <= m + 1
        /\ \A i \in 1..n : insts[i].op \in TextOps <=> f <= i /\ i <= m
        /\ DOMAIN insts = 1..n
    BY <1>1, SeqFacts DEF Passed, Lined, TextFrom
  <1>3. t \in Nat /\ (t = 0 <=> ~(f <= m))
    BY <1>1, <1>2
  <1>4. Len(Opening(insts)) = 4 /\ \A i \in 1..4 : Opening(insts)[i].what # "WHERE"
    BY OpeningIs
  <1>5. StandsBehind(sql, insts, f, 4, t)
    BY <1>1, <1>4, SelectStands DEF Passed
  <1>6. IsSeq(sql) /\ Len(sql) = 4 + t /\ DOMAIN sql = 1..(4 + t)
    BY <1>5, SeqFacts DEF StandsBehind
  <1>7. ASSUME NEW i \in 1..(4 + t) PROVE sql[i].what # "WHERE"
    <2>1. CASE i \in 1..4
      BY <1>4, <1>5, <2>1 DEF StandsBehind
    <2>2. CASE i \notin 1..4
      <3>1. PICK k, j : k = i - 4 /\ j = (f + k) - 1
        OBVIOUS
      <3>2. k \in 1..t /\ 4 + k = i
        BY <1>3, <2>2, <3>1
      <3>3. j \in 1..n /\ f <= j /\ j <= m
        BY <1>1, <1>2, <3>1, <3>2
      <3>4. sql[4 + k] = PieceOf(insts, (f + k) - 1)
        BY <1>5, <3>2 DEF StandsBehind
      <3>5. sql[i] = PieceOf(insts, j)
        BY <3>1, <3>2, <3>4
      <3>6. insts[j].op \in TextOps
        BY <1>2, <3>3
      <3> QED
        BY <3>5, <3>6, KindIs
    <2> QED
      BY <2>1, <2>2
  <1>8. {i \in DOMAIN sql : sql[i].what = "WHERE"} = {}
    BY <1>6, <1>7
  <1>9. IsReadable(sql) <=> Len(sql) = 4
    BY <1>8, Zenon DEF IsReadable
  <1>10. IsReadable(sql) <=> ~(f <= m)
    BY <1>3, <1>6, <1>9
  <1>11. ASSUME ~(f <= m) PROVE Tidy(insts)
    <2>1. \A i \in 1..n : insts[i].op \notin TextOps
      BY <1>2, <1>11
    <2>2. n \in 1..n
      <3>1. \E i \in 1..n : insts[i].op = "SETCAT"
        BY <1>1, CheckedIs DEF Passed, Lined
      <3> QED
        BY <1>2, <3>1
    <2>3. \A i \in 2..n : i \in 1..n
      BY <1>2
    <2> QED
      BY <1>1, <1>2, <2>1, <2>2, <2>3, NoText DEF Tidy, Present
  <1>12. ASSUME Tidy(insts), f <= m PROVE FALSE
    <2>1. f \in 1..n
      BY <1>2, <1>12
    <2>2. insts[f].op # "NOT"
      BY <1>2, <1>12, <2>1 DEF Tidy, Present
    <2>3. insts[f].op = "BEGIN_GRP" \/ insts[f].op \in Operands
      BY <1>12, <2>2, FirstIs
    <2>4. insts[f].op # "BEGIN_GRP"
      BY <1>2, <2>1 DEF Conditional
    <2>5. insts[f].op \notin Operands
      BY <1>2, <1>12, <2>1 DEF Tidy
    <2> QED
      BY <2>3, <2>4, <2>5
  <1> QED
    BY <1>1, <1>10, <1>11, <1>12

\* Which statements can be read, and that each of them fits.
LEMMA Selected ==
    ASSUME NEW insts, Lined(insts), Checked(insts) = "fine", Shaped(insts) = "fine",
           NEW select, select.sql = Select(insts), select.room = Room(insts)
    PROVE  /\ SelectReads(select, insts)
           /\ (\A i \in DOMAIN insts : Width(insts[i].value) \in Nat) => SelectFits(select)
  <1>1. IsSeq(insts) /\ DOMAIN insts = 1..Len(insts)
    BY SeqFacts DEF Lined
  <1>2. \E i \in 1..Len(insts) : insts[i].op = "SETCAT"
    BY <1>1, CheckedIs
  <1>3. PICK f, m : TextFrom(insts, f, m)
    BY <1>2, TextStands
  <1>4. Passed(insts, f, m)
    BY <1>1, <1>3, ShapedIs DEF Passed
  <1>5. PatternsWhole(insts) => (IsReadable(Select(insts)) <=> Tidy(insts))
    BY <1>4, ConditionReads, NoConditionReads
  <1>6. SelectReads(select, insts)
    BY <1>5 DEF SelectReads, Tidy
  <1>7. ASSUME \A i \in DOMAIN insts : Width(insts[i].value) \in Nat PROVE SelectFits(select)
    <2>1. 1 + Weigh(Select(insts)) <= Room(insts)
      BY <1>1, <1>7, Fitting
    <2>2. Length(Select(insts)) = 1 + Weigh(Select(insts))
      BY DEF Length, Weigh, Lengths
    <2> QED
      BY <2>1, <2>2 DEF SelectFits
  <1> QED
    BY <1>6, <1>7

\* What the prover does not know of a string: that its length is a number.
WidthsKnown == \A i \in DOMAIN queued : Width(queued[i].value) \in Nat

(* Whatever the text, a SELECT that fdbfs_query_init_exec hands to SQLite  *)
(* is one that SQLite can read, but for a "!", an empty group, a condition *)
(* for which no WHERE was written and a text that ended behind an          *)
(* operator, as long as the quotes in its regular expression are doubled;  *)
(* and it fits, with its final NUL, the buffer its first pass made room    *)
(* for.  The column before a !~ gets 9 characters less than it writes      *)
(* ("notregexp(" and no blank): the 8 that !~ has to spare and the 7 of    *)
(* the first sizeof make up for them, because the tokens of a text leave   *)
(* place for one regular expression.                                       *)
THEOREM TextSelect ==
    Spec => [](/\ verdict.code = "prepared" => SelectReads(verdict, queued)
               /\ WidthsKnown => PreparedIsReadable)
  <1> DEFINE Inv == MeaningInv /\ AliveInv /\ SelectInv
  <1>1. Init => Inv
    <2> SUFFICES ASSUME Init PROVE AliveInv /\ SelectInv
      BY MeaningInit
    <2>1. phase = "read" /\ fed = <<>> /\ verdict = NoVerdict
      BY Zenon DEF Init
    <2>2. Len(fed) = 0
      BY <2>1, EmptyIsSeq, SeqFacts
    <2> QED
      BY <2>1, <2>2 DEF AliveInv, SelectInv, NoVerdict
  <1>2. Inv /\ [Next]_vars => Inv'
    <2> SUFFICES ASSUME Inv, [Next]_vars PROVE MeaningInv' /\ AliveInv' /\ SelectInv'
      OBVIOUS
    <2>1. ParserInv /\ QueueInv /\ ReadInv /\ VerdictInv /\ EndInv
      BY DEF MeaningInv, TextInv
    <2> QED
      BY <2>1, MeaningNext, AliveNext, SelectNext
  <1>3. Inv => (verdict.code = "prepared" => SelectReads(verdict, queued)) /\ (WidthsKnown => PreparedIsReadable)
    <2> SUFFICES ASSUME Inv, verdict.code = "prepared"
                 PROVE  SelectReads(verdict, queued) /\ (WidthsKnown => SelectFits(verdict))
      BY DEF PreparedIsReadable
    <2>1. /\ Lined(queued) /\ Checked(queued) = "fine" /\ Shaped(queued) = "fine"
          /\ verdict.sql = Select(queued) /\ verdict.room = Room(queued)
      BY DEF SelectInv
    <2> QED
      BY <2>1, Selected DEF WidthsKnown
  <1> QED
    BY <1>1, <1>2, <1>3, PTL DEF Spec
=============================================================================
