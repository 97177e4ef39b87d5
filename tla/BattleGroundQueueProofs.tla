----------------------- MODULE BattleGroundQueueProofs -----------------------
(***************************************************************************)
(* Proofs about BattleGroundQueue, for every finite set of players, every  *)
(* set of battlegrounds and every size of a team.                          *)
(*                                                                         *)
(* The handlers are compositions of operations on one record of the whole  *)
(* state, and so is the invariant Inv: every operation is shown to keep it *)
(* or, where an operation leaves a player's place half changed, what the   *)
(* next one needs of it.  The lists of players and groups are walked by    *)
(* folds, which come first.                                                *)
(***************************************************************************)
EXTENDS BattleGroundQueue, FiniteSetTheorems, SequenceTheorems, WellFoundedInduction, TLAPS

-----------------------------------------------------------------------------
(* Folds.  A fold is defined by recursion; that it exists, and what holds  *)
(* after each of its steps, is shown by least counterexamples.             *)

LEMMA LeastNatural ==
  ASSUME NEW T, T \subseteq Nat, T # {}
  PROVE  \E x \in T : \A y \in T : x <= y
<1> DEFINE R == OpToRel(<, Nat)
<1>1. IsWellFoundedOn(R, Nat)
  BY NatLessThanWellFounded
<1>2. \A x, y \in Nat : y < x => <<y, x>> \in R
  BY DEF OpToRel
<1> HIDE DEF R
<1>3. PICK x \in T : \A y \in T : <<y, x>> \notin R
  BY <1>1, WFMin
<1>4. ASSUME NEW y \in T PROVE x <= y
  <2>1. x \in Nat /\ y \in Nat
    OBVIOUS
  <2>2. ~(y < x)
    BY <1>2, <1>3, <2>1
  <2> QED BY <2>1, <2>2
<1> QED BY <1>4

LEMMA MaxIs ==
  ASSUME NEW S, S \subseteq Int, NEW m \in S, \A y \in S : y <= m
  PROVE  Max(S) = m
<1>1. \A y \in S : m >= y
  OBVIOUS
<1>2. Max(S) \in S /\ \A y \in S : Max(S) >= y
  BY <1>1 DEF Max
<1>3. Max(S) <= m /\ Max(S) >= m /\ m \in Int /\ Max(S) \in Int
  BY <1>2
<1> QED BY <1>3

LEMMA MaxOfPart ==
  ASSUME NEW n \in Nat, NEW S \in SUBSET (1 .. n), S # {}
  PROVE  Max(S) \in S
<1> DEFINE T == {i \in Nat : n - i \in S}
<1>1. PICK y \in S : TRUE
  OBVIOUS
<1>2. n - y \in Nat /\ n - (n - y) = y
  OBVIOUS
<1>3. n - y \in T
  BY <1>1, <1>2
<1>4. PICK x \in T : \A z \in T : x <= z
  BY <1>3, LeastNatural
<1>5. n - x \in S /\ x \in Nat
  OBVIOUS
<1>6. ASSUME NEW z \in S PROVE z <= n - x
  <2>1. n - z \in T
    OBVIOUS
  <2>2. x <= n - z
    BY <1>4, <2>1
  <2> QED BY <1>5, <2>2
<1>7. Max(S) = n - x
  <2>1. S \subseteq Int
    OBVIOUS
  <2> HIDE DEF T
  <2> QED BY <1>5, <1>6, <2>1, MaxIs
<1> QED BY <1>5, <1>7

\* h folds F over 1 .. n, from b.
Folds2(h, F, b, n) ==
    \A S \in SUBSET (1 .. n) : h[S] = IF S = {} THEN b ELSE F[<<Max(S), h[S \ {Max(S)}]>>]

LEMMA FoldExists ==
  ASSUME NEW n \in Nat, NEW ST, NEW b \in ST, NEW F,
         \A i \in 1 .. n, x \in ST : F[<<i, x>>] \in ST
  PROVE  \E h \in [SUBSET (1 .. n) -> ST] : Folds2(h, F, b, n)
<1> DEFINE P(m) == \E h \in [SUBSET (1 .. m) -> ST] : Folds2(h, F, b, m)
           T == {m \in Nat : m <= n /\ ~P(m)}
<1> SUFFICES ASSUME T # {} PROVE FALSE
  <2>1. n \notin T => P(n)
    <3> HIDE DEF P
    <3> QED OBVIOUS
  <2> QED BY <2>1
<1>1. PICK m \in T : \A y \in T : m <= y
  BY LeastNatural
<1>2. m \in Nat /\ m <= n /\ ~\E h \in [SUBSET (1 .. m) -> ST] : Folds2(h, F, b, m)
  OBVIOUS
<1>3. CASE m = 0
  <2> DEFINE h == [S \in SUBSET (1 .. m) |-> b]
  <2>1. \A S \in SUBSET (1 .. m) : S = {} /\ h[S] = b
    BY <1>3
  <2>2. Folds2(h, F, b, m)
    BY <2>1 DEF Folds2
  <2> QED BY <1>2, <2>2
<1>4. CASE m # 0
  <2>1. m - 1 \in Nat /\ m - 1 <= n /\ ~(m <= m - 1)
    BY <1>2, <1>4
  <2>2. m - 1 \notin T
    BY <1>1, <2>1
  <2>3. PICK h \in [SUBSET (1 .. m - 1) -> ST] : Folds2(h, F, b, m - 1)
    BY <2>1, <2>2
  <2> DEFINE g == [S \in SUBSET (1 .. m) |->
                     IF m \in S THEN F[<<m, h[S \ {m}]>>] ELSE h[S]]
  <2>4. \A S \in SUBSET (1 .. m) : S \ {m} \in SUBSET (1 .. m - 1)
    BY <1>2
  <2>5. g \in [SUBSET (1 .. m) -> ST]
    <3> SUFFICES ASSUME NEW S \in SUBSET (1 .. m) PROVE g[S] \in ST
      OBVIOUS
    <3>1. CASE m \in S
      <4>1. m \in 1 .. n /\ h[S \ {m}] \in ST
        BY <1>2, <1>4, <2>4
      <4> QED BY <3>1, <4>1
    <3>2. CASE m \notin S
      <4>1. S \in SUBSET (1 .. m - 1)
        BY <2>4, <3>2
      <4> QED BY <3>2, <4>1
    <3> QED BY <3>1, <3>2
  <2>6. ASSUME NEW S \in SUBSET (1 .. m)
        PROVE  g[S] = IF S = {} THEN b ELSE F[<<Max(S), g[S \ {Max(S)}]>>]
    <3>1. CASE m \in S
      <4>1. Max(S) = m
        <5>1. S \subseteq Int /\ \A y \in S : y <= m
          BY <1>2
        <5> QED BY <3>1, <5>1, MaxIs
      <4>2. S \ {m} \in SUBSET (1 .. m) /\ S # {} /\ m \notin S \ {m}
        BY <3>1
      <4>3. g[S \ {m}] = h[S \ {m}]
        BY <4>2
      <4>4. g[S] = F[<<m, h[S \ {m}]>>]
        BY <3>1
      <4> HIDE DEF g
      <4> QED BY <4>1, <4>2, <4>3, <4>4
    <3>2. CASE m \notin S
      <4>1. S \in SUBSET (1 .. m - 1) /\ g[S] = h[S]
        BY <2>4, <3>2
      <4>2. h[S] = IF S = {} THEN b ELSE F[<<Max(S), h[S \ {Max(S)}]>>]
        BY <2>3, <4>1 DEF Folds2
      <4>3. S # {} => Max(S) \in S /\ S \ {Max(S)} \in SUBSET (1 .. m)
        BY <2>1, <4>1, MaxOfPart
      <4>4. S # {} => g[S \ {Max(S)}] = h[S \ {Max(S)}]
        BY <3>2, <4>3
      <4> HIDE DEF g
      <4> QED BY <4>1, <4>2, <4>4
    <3> QED BY <3>1, <3>2
  <2>7. Folds2(g, F, b, m)
    <3> HIDE DEF g
    <3> QED BY <2>6 DEF Folds2
  <2> QED BY <1>2, <2>5, <2>7
<1> QED BY <1>3, <1>4

\* What is true at the start and stays true with every step is true at the end.
LEMMA FoldHolds ==
  ASSUME NEW n \in Nat, NEW h, NEW ST, h[{}] \in ST[0],
         \A k \in 1 .. n : Max(1 .. k) = k /\ (1 .. k) \ {k} = 1 .. k - 1 =>
             (h[1 .. k - 1] \in ST[k - 1] => h[1 .. k] \in ST[k])
  PROVE  h[1 .. n] \in ST[n]
<1> DEFINE T == {m \in Nat : m <= n /\ h[1 .. m] \notin ST[m]}
<1> SUFFICES ASSUME T # {} PROVE FALSE
  OBVIOUS
<1>1. PICK m \in T : \A y \in T : m <= y
  BY LeastNatural
<1>2. m \in Nat /\ m <= n /\ h[1 .. m] \notin ST[m]
  OBVIOUS
<1>3. 1 .. 0 = {}
  OBVIOUS
<1>4. m # 0
  BY <1>2, <1>3
<1>5. m - 1 \in Nat /\ m - 1 <= n /\ ~(m <= m - 1) /\ m \in 1 .. n
  BY <1>2, <1>4
<1>6. h[1 .. m - 1] \in ST[m - 1]
  BY <1>1, <1>5
<1>7. Max(1 .. m) = m
  <2>1. 1 .. m \subseteq Int /\ m \in 1 .. m /\ \A y \in 1 .. m : y <= m
    BY <1>5
  <2> QED BY <2>1, MaxIs
<1>8. (1 .. m) \ {m} = 1 .. m - 1
  BY <1>5
<1> QED BY <1>2, <1>5, <1>6, <1>7, <1>8

-----------------------------------------------------------------------------
(* What is left of a sequence, and what is selected from it *)

LEMMA SeqFacts ==
  ASSUME NEW S, NEW q \in Seq(S)
  PROVE  /\ Len(q) \in Nat /\ DOMAIN q = 1 .. Len(q)
         /\ \A i \in 1 .. Len(q) : q[i] \in S
         /\ ToSet(q) \in SUBSET S /\ \A x : x \in ToSet(q) <=> \E i \in 1 .. Len(q) : x = q[i]
BY DEF ToSet

LEMMA AppendFacts ==
  ASSUME NEW S, NEW q \in Seq(S), NEW x \in S
  PROVE  Append(q, x) \in Seq(S) /\ ToSet(Append(q, x)) = ToSet(q) \cup {x}
<1>1. Append(q, x) \in Seq(S) /\ Len(Append(q, x)) = Len(q) + 1 /\ Len(q) \in Nat
      /\ \A i \in 1 .. Len(q) + 1 : Append(q, x)[i] = IF i = Len(q) + 1 THEN x ELSE q[i]
  BY AppendProperties, LenProperties
<1>2. \A i \in 1 .. Len(q) : Append(q, x)[i] = q[i] /\ i \in 1 .. Len(q) + 1
  BY <1>1
<1>3. Append(q, x)[Len(q) + 1] = x /\ Len(q) + 1 \in 1 .. Len(q) + 1
  BY <1>1
<1>4. \A i \in 1 .. Len(q) + 1 : i \in 1 .. Len(q) \/ i = Len(q) + 1
  BY <1>1
<1>5. \A y : y \in ToSet(Append(q, x)) <=> \E i \in 1 .. Len(q) + 1 : y = Append(q, x)[i]
  <2>1. PICK a : a = Append(q, x)
    OBVIOUS
  <2>2. a \in Seq(S) /\ Len(a) = Len(q) + 1
    BY <1>1, <2>1
  <2>3. \A y : y \in ToSet(a) <=> \E i \in 1 .. Len(a) : y = a[i]
    BY <2>2, SeqFacts
  <2> QED BY <2>1, <2>2, <2>3
<1>6. \A y : y \in ToSet(q) <=> \E i \in 1 .. Len(q) : y = q[i]
  BY SeqFacts
<1>7. ASSUME NEW y PROVE y \in ToSet(Append(q, x)) <=> y \in ToSet(q) \cup {x}
  <2>1. ASSUME y \in ToSet(Append(q, x)) PROVE y \in ToSet(q) \cup {x}
    BY <1>2, <1>3, <1>4, <1>5, <1>6, <2>1
  <2>2. ASSUME y \in ToSet(q) \cup {x} PROVE y \in ToSet(Append(q, x))
    BY <1>2, <1>3, <1>5, <1>6, <2>2
  <2> QED BY <2>1, <2>2
<1> QED BY <1>1, <1>7

LEMMA EmptyFacts ==
  ASSUME NEW S
  PROVE  << >> \in Seq(S) /\ ToSet(<< >>) = {}
BY EmptySeq DEF ToSet

LEMMA PrefixFacts ==
  ASSUME NEW n \in Nat, NEW k \in 1 .. n
  PROVE  1 .. k \in SUBSET (1 .. n) /\ 1 .. k # {} /\ k - 1 \in 0 .. n /\ k \in 0 .. n
<1>1. k \in 1 .. k
  OBVIOUS
<1> QED BY <1>1

LEMMA WithoutFacts ==
  ASSUME NEW S, NEW q \in Seq(S), NEW x
  PROVE  Without(q, x) \in Seq(S) /\ ToSet(Without(q, x)) \subseteq ToSet(q) \ {x}
<1> DEFINE n == Len(q)
           Step(r, y) == IF y = x THEN r ELSE Append(r, y)
           E(f) == f = [s \in SUBSET (1 .. n) |-> IF s = {} THEN << >>
                                                  ELSE Step(f[s \ {Max(s)}], q[Max(s)])]
           it == CHOOSE f : E(f)
           F == [z \in (1 .. n) \X Seq(S) |-> Step(z[2], q[z[1]])]
           ST == [k \in 0 .. n |-> {r \in Seq(S) : ToSet(r) \subseteq ToSet(q) \ {x}}]
<1>1. n \in Nat /\ DOMAIN q = 1 .. n /\ (\A i \in 1 .. n : q[i] \in S /\ q[i] \in ToSet(q))
      /\ << >> \in Seq(S)
  BY SeqFacts, EmptyFacts
<1>2. Without(q, x) = it[1 .. n]
  BY <1>1 DEF Without, FoldLeft, MapThenFoldSet
<1>3. \A i \in 1 .. n, r \in Seq(S) : F[<<i, r>>] = Step(r, q[i]) /\ F[<<i, r>>] \in Seq(S)
  BY <1>1, AppendProperties
<1>4. PICK h \in [SUBSET (1 .. n) -> Seq(S)] : Folds2(h, F, << >>, n)
  <2> HIDE DEF n, F
  <2> QED BY <1>1, <1>3, FoldExists
<1>5. E(h)
  <2> SUFFICES ASSUME NEW s \in SUBSET (1 .. n)
               PROVE  h[s] = IF s = {} THEN << >> ELSE Step(h[s \ {Max(s)}], q[Max(s)])
    BY <1>4
  <2>1. h[s] = IF s = {} THEN << >> ELSE F[<<Max(s), h[s \ {Max(s)}]>>]
    BY <1>4 DEF Folds2
  <2>2. s # {} => Max(s) \in 1 .. n /\ h[s \ {Max(s)}] \in Seq(S)
    <3>1. s # {} => Max(s) \in s /\ s \ {Max(s)} \in SUBSET (1 .. n)
      BY <1>1, MaxOfPart
    <3> QED BY <1>4, <3>1
  <2> HIDE DEF F, Step
  <2> QED BY <1>3, <2>1, <2>2
<1>6. E(it)
  <2> HIDE DEF E
  <2> QED BY <1>5
<1>7. it[{}] \in ST[0]
  <2>1. it[{}] = << >>
    <3> HIDE DEF it, Step
    <3> QED BY <1>6
  <2>2. it[{}] \in Seq(S) /\ ToSet(it[{}]) \subseteq ToSet(q) \ {x}
    <3> HIDE DEF it
    <3> QED BY <2>1, EmptyFacts
  <2> HIDE DEF it
  <2> QED BY <1>1, <2>2
<1>8. ASSUME NEW k \in 1 .. n, Max(1 .. k) = k, (1 .. k) \ {k} = 1 .. k - 1, it[1 .. k - 1] \in ST[k - 1]
      PROVE  it[1 .. k] \in ST[k]
  <2>1. 1 .. k \in SUBSET (1 .. n) /\ 1 .. k # {} /\ k - 1 \in 0 .. n /\ k \in 0 .. n
    <3> HIDE DEF n
    <3> QED BY <1>1, PrefixFacts
  <2>2. it[1 .. k] = Step(it[1 .. k - 1], q[k])
    <3> HIDE DEF it, Step
    <3> QED BY <1>6, <1>8, <2>1
  <2>3. PICK r : r = it[1 .. k - 1]
    OBVIOUS
  <2>4. r \in Seq(S) /\ ToSet(r) \subseteq ToSet(q) \ {x}
    <3>1. k - 1 \in 0 .. n
      BY <2>1
    <3> HIDE DEF it
    <3> QED BY <1>8, <2>3, <3>1
  <2>5. q[k] # x => Append(r, q[k]) \in Seq(S) /\ ToSet(Append(r, q[k])) = ToSet(r) \cup {q[k]}
    BY <1>1, <2>4, AppendFacts
  <2>6. it[1 .. k] \in Seq(S) /\ ToSet(it[1 .. k]) \subseteq ToSet(q) \ {x}
    <3> HIDE DEF it
    <3> QED BY <1>1, <2>2, <2>3, <2>4, <2>5
  <2> HIDE DEF it
  <2> QED BY <2>1, <2>6
<1>9. it[1 .. n] \in ST[n]
  <2> HIDE DEF ST, it, n
  <2> QED BY <1>1, <1>7, <1>8, FoldHolds
<1> HIDE DEF it
<1> QED BY <1>1, <1>2, <1>9

\* A group without p.
Less(g, p) == [g EXCEPT !.players = @ \ {p}]

LEMMA GroupsWithoutFacts ==
  ASSUME NEW q \in Seq(Group), NEW p \in Player
  PROVE  /\ GroupsWithout(q, p) \in Seq(Group)
         /\ ToSet(GroupsWithout(q, p)) = {Less(g, p) : g \in {x \in ToSet(q) : x.players # {p}}}
<1> DEFINE n == Len(q)
           Step(r, g) == IF g.players = {p} THEN r ELSE Append(r, Less(g, p))
           E(f) == f = [s \in SUBSET (1 .. n) |-> IF s = {} THEN << >>
                                                  ELSE Step(f[s \ {Max(s)}], q[Max(s)])]
           it == CHOOSE f : E(f)
           F == [z \in (1 .. n) \X Seq(Group) |-> Step(z[2], q[z[1]])]
           Kept(k) == {Less(q[i], p) : i \in {j \in 1 .. k : q[j].players # {p}}}
           ST == [k \in 0 .. n |-> {r \in Seq(Group) : ToSet(r) = Kept(k)}]
<1>1. n \in Nat /\ DOMAIN q = 1 .. n /\ (\A i \in 1 .. n : q[i] \in Group)
      /\ << >> \in Seq(Group) /\ ToSet(<< >>) = {}
  BY SeqFacts, EmptyFacts
<1>2. GroupsWithout(q, p) = it[1 .. n]
  BY <1>1 DEF GroupsWithout, FoldLeft, MapThenFoldSet, Less
<1>3. \A g \in Group : g.players # {p} => Less(g, p) \in Group
  BY DEF Group, Less
<1>4. ASSUME NEW i \in 1 .. n, NEW r \in Seq(Group)
      PROVE  F[<<i, r>>] = Step(r, q[i]) /\ F[<<i, r>>] \in Seq(Group)
  <2>1. F[<<i, r>>] = Step(r, q[i])
    OBVIOUS
  <2>2. Step(r, q[i]) \in Seq(Group)
    BY <1>1, <1>3, AppendProperties
  <2> QED BY <2>1, <2>2
<1>5. PICK h \in [SUBSET (1 .. n) -> Seq(Group)] : Folds2(h, F, << >>, n)
  <2> HIDE DEF n, F
  <2> QED BY <1>1, <1>4, FoldExists
<1>6. E(h)
  <2> SUFFICES ASSUME NEW s \in SUBSET (1 .. n)
               PROVE  h[s] = IF s = {} THEN << >> ELSE Step(h[s \ {Max(s)}], q[Max(s)])
    BY <1>5
  <2>1. h[s] = IF s = {} THEN << >> ELSE F[<<Max(s), h[s \ {Max(s)}]>>]
    BY <1>5 DEF Folds2
  <2>2. s # {} => Max(s) \in 1 .. n /\ h[s \ {Max(s)}] \in Seq(Group)
    <3>1. s # {} => Max(s) \in s /\ s \ {Max(s)} \in SUBSET (1 .. n)
      BY <1>1, MaxOfPart
    <3> QED BY <1>5, <3>1
  <2> HIDE DEF F, Step
  <2> QED BY <1>4, <2>1, <2>2
<1>7. E(it)
  <2> HIDE DEF E
  <2> QED BY <1>6
<1>8. it[{}] \in ST[0]
  <2>1. it[{}] = << >>
    <3> HIDE DEF it, Step
    <3> QED BY <1>7
  <2>2. Kept(0) = {} /\ 0 \in 0 .. n
    BY <1>1
  <2> HIDE DEF it, Kept
  <2> QED BY <1>1, <2>1, <2>2
<1>9. ASSUME NEW k \in 1 .. n, Max(1 .. k) = k, (1 .. k) \ {k} = 1 .. k - 1, it[1 .. k - 1] \in ST[k - 1]
      PROVE  it[1 .. k] \in ST[k]
  <2>1. 1 .. k \in SUBSET (1 .. n) /\ 1 .. k # {} /\ k - 1 \in 0 .. n /\ k \in 0 .. n
    <3> HIDE DEF n
    <3> QED BY <1>1, PrefixFacts
  <2>2. it[1 .. k] = Step(it[1 .. k - 1], q[k])
    <3> HIDE DEF it, Step
    <3> QED BY <1>7, <1>9, <2>1
  <2>3. PICK r : r = it[1 .. k - 1]
    OBVIOUS
  <2>4. r \in Seq(Group) /\ ToSet(r) = Kept(k - 1)
    <3> HIDE DEF it, Kept
    <3> QED BY <1>9, <2>1, <2>3
  <2>5. q[k].players # {p} => /\ Append(r, Less(q[k], p)) \in Seq(Group)
                              /\ ToSet(Append(r, Less(q[k], p))) = ToSet(r) \cup {Less(q[k], p)}
    <3>1. PICK x : x = Less(q[k], p)
      OBVIOUS
    <3>2. q[k].players # {p} => x \in Group
      BY <1>1, <1>3, <3>1
    <3>3. x \in Group => Append(r, x) \in Seq(Group) /\ ToSet(Append(r, x)) = ToSet(r) \cup {x}
      BY <2>4, AppendFacts
    <3> QED BY <3>1, <3>2, <3>3
  <2>6. Kept(k) = IF q[k].players = {p} THEN Kept(k - 1) ELSE Kept(k - 1) \cup {Less(q[k], p)}
    <3>1. \A i \in 1 .. k : i = k \/ i \in 1 .. k - 1
      BY <2>1
    <3>2. \A i \in 1 .. k - 1 : i \in 1 .. k
      BY <2>1
    <3>3. k \in 1 .. k
      BY <2>1
    <3> QED BY <3>1, <3>2, <3>3, Zenon
  <2>7. it[1 .. k] \in Seq(Group) /\ ToSet(it[1 .. k]) = Kept(k)
    <3> HIDE DEF it, Kept
    <3> QED BY <1>1, <2>2, <2>3, <2>4, <2>5, <2>6
  <2> HIDE DEF it, Kept
  <2> QED BY <2>1, <2>7
<1>10. it[1 .. n] \in ST[n]
  <2> HIDE DEF ST, it, n
  <2> QED BY <1>1, <1>8, <1>9, FoldHolds
<1>11. it[1 .. n] \in Seq(Group) /\ ToSet(it[1 .. n]) = Kept(n)
  <2> HIDE DEF it, Kept
  <2> QED BY <1>1, <1>10
<1>12. Kept(n) = {Less(g, p) : g \in {x \in ToSet(q) : x.players # {p}}}
  <2>1. \A x : x \in ToSet(q) <=> \E i \in 1 .. n : x = q[i]
    BY SeqFacts
  <2> QED BY <2>1, Zenon
<1> QED BY <1>2, <1>11, <1>12

\* The players that wait in groups of q that are not invited, group by group.
Waiters(q) == {g.players : g \in {x \in ToSet(q) : x.invited = None}}

\* A pool with at most m players.
Pool(P, m) == {r \in [groups : SUBSET P, count : Nat] :
                  Cardinality(UNION r.groups) <= r.count /\ r.count <= m}

LEMMA SelectFacts ==
  ASSUME NEW q \in Seq(Group), NEW m \in Nat, NEW desired \in Nat, NEW enough \in Nat, desired <= m,
         NEW P \in SUBSET (SUBSET Player), NEW pool \in Pool(P, m), Waiters(q) \subseteq P
  PROVE  Select(q, pool, desired, enough) \in Pool(P, m)
<1> DEFINE n == Len(q)
           Step(sel, g) == IF /\ g.invited = None /\ sel.count < enough
                              /\ sel.count + Cardinality(g.players) <= desired
                           THEN [groups |-> sel.groups \cup {g.players},
                                 count |-> sel.count + Cardinality(g.players)]
                           ELSE sel
           E(f) == f = [s \in SUBSET (1 .. n) |-> IF s = {} THEN pool
                                                  ELSE Step(f[s \ {Max(s)}], q[Max(s)])]
           it == CHOOSE f : E(f)
           F == [z \in (1 .. n) \X Pool(P, m) |-> Step(z[2], q[z[1]])]
           ST == [k \in 0 .. n |-> Pool(P, m)]
<1>1. n \in Nat /\ DOMAIN q = 1 .. n
      /\ \A i \in 1 .. n : q[i] \in Group /\ (q[i].invited = None => q[i].players \in P)
  BY SeqFacts DEF Waiters
<1>2. Select(q, pool, desired, enough) = it[1 .. n]
  BY <1>1 DEF Select, FoldLeft, MapThenFoldSet
<1>3. ASSUME NEW g \in Group, NEW r \in Pool(P, m), g.invited = None => g.players \in P
      PROVE  Step(r, g) \in Pool(P, m)
  <2>1. CASE /\ g.invited = None /\ r.count < enough
             /\ r.count + Cardinality(g.players) <= desired
    <3>1. IsFiniteSet(Player) /\ UNION r.groups \in SUBSET Player /\ g.players \in SUBSET Player
      BY BattleGroundConstants DEF Pool, Group
    <3>2. IsFiniteSet(UNION r.groups) /\ IsFiniteSet(g.players)
      BY <3>1, FS_Subset
    <3>4. PICK A, B : A = UNION r.groups /\ B = g.players
      OBVIOUS
    <3>3. UNION (r.groups \cup {B}) = A \cup B
      BY <3>4
    <3>5. /\ Cardinality(A \cup B) = Cardinality(A) + Cardinality(B) - Cardinality(A \cap B)
          /\ Cardinality(A) \in Nat /\ Cardinality(B) \in Nat /\ Cardinality(A \cap B) \in Nat
          /\ Cardinality(A \cup B) \in Nat
      <4>1. IsFiniteSet(A) /\ IsFiniteSet(B) /\ IsFiniteSet(A \cap B) /\ IsFiniteSet(A \cup B)
        BY <3>2, <3>4, FS_Union, FS_Intersection
      <4> QED BY <4>1, FS_Union, FS_CardinalityType
    <3>6. r.count \in Nat /\ Cardinality(A) <= r.count /\ r.groups \cup {B} \in SUBSET P
      BY <1>3, <2>1, <3>4 DEF Pool
    <3>7. Step(r, g) = [groups |-> r.groups \cup {B}, count |-> r.count + Cardinality(B)]
      BY <2>1, <3>4
    <3>8. Cardinality(UNION (r.groups \cup {B})) <= r.count + Cardinality(B)
      <4>1. Cardinality(A \cup B) <= r.count + Cardinality(B)
        <5>1. PICK a, c, i, u, z : /\ a = Cardinality(A) /\ c = Cardinality(B)
                                   /\ i = Cardinality(A \cap B) /\ u = Cardinality(A \cup B)
                                   /\ z = r.count
          OBVIOUS
        <5>2. u = a + c - i /\ a \in Nat /\ c \in Nat /\ i \in Nat /\ z \in Nat /\ a <= z
          BY <3>5, <3>6, <5>1
        <5>3. u <= z + c
          BY <5>2
        <5> QED BY <5>1, <5>3
      <4> QED BY <3>3, <4>1
    <3>9. r.count + Cardinality(B) <= m /\ r.count + Cardinality(B) \in Nat
      BY <2>1, <3>4, <3>5, <3>6
    <3>10. PICK G, c : G = r.groups \cup {B} /\ c = r.count + Cardinality(B)
      OBVIOUS
    <3>11. [groups |-> G, count |-> c] \in Pool(P, m)
      BY <3>6, <3>8, <3>9, <3>10 DEF Pool
    <3> HIDE DEF Step
    <3> QED BY <3>7, <3>10, <3>11
  <2> QED BY <2>1
<1>4. ASSUME NEW i \in 1 .. n, NEW r \in Pool(P, m)
      PROVE  F[<<i, r>>] = Step(r, q[i]) /\ F[<<i, r>>] \in Pool(P, m)
  <2>1. F[<<i, r>>] = Step(r, q[i])
    OBVIOUS
  <2>2. Step(r, q[i]) \in Pool(P, m)
    <3> HIDE DEF Step
    <3> QED BY <1>1, <1>3
  <2> QED BY <2>1, <2>2
<1>5. PICK h \in [SUBSET (1 .. n) -> Pool(P, m)] : Folds2(h, F, pool, n)
  <2> HIDE DEF n, F
  <2> QED BY <1>1, <1>4, FoldExists
<1>6. E(h)
  <2> SUFFICES ASSUME NEW s \in SUBSET (1 .. n)
               PROVE  h[s] = IF s = {} THEN pool ELSE Step(h[s \ {Max(s)}], q[Max(s)])
    BY <1>5
  <2>1. h[s] = IF s = {} THEN pool ELSE F[<<Max(s), h[s \ {Max(s)}]>>]
    BY <1>5 DEF Folds2
  <2>2. s # {} => Max(s) \in 1 .. n /\ h[s \ {Max(s)}] \in Pool(P, m)
    <3>1. s # {} => Max(s) \in s /\ s \ {Max(s)} \in SUBSET (1 .. n)
      BY <1>1, MaxOfPart
    <3> QED BY <1>5, <3>1
  <2> HIDE DEF F, Step
  <2> QED BY <1>4, <2>1, <2>2
<1>7. E(it)
  <2> HIDE DEF E
  <2> QED BY <1>6
<1>8. it[{}] \in ST[0]
  <2>1. it[{}] = pool
    <3> HIDE DEF it, Step
    <3> QED BY <1>7
  <2> HIDE DEF it
  <2> QED BY <1>1, <2>1
<1>9. ASSUME NEW k \in 1 .. n, Max(1 .. k) = k, (1 .. k) \ {k} = 1 .. k - 1, it[1 .. k - 1] \in ST[k - 1]
      PROVE  it[1 .. k] \in ST[k]
  <2>1. 1 .. k \in SUBSET (1 .. n) /\ 1 .. k # {} /\ k - 1 \in 0 .. n /\ k \in 0 .. n
    <3> HIDE DEF n
    <3> QED BY <1>1, PrefixFacts
  <2>2. it[1 .. k] = Step(it[1 .. k - 1], q[k])
    <3> HIDE DEF it, Step
    <3> QED BY <1>7, <1>9, <2>1
  <2>3. it[1 .. k - 1] \in Pool(P, m)
    <3> HIDE DEF it
    <3> QED BY <1>9, <2>1
  <2> HIDE DEF it, Step
  <2> QED BY <1>1, <1>3, <2>1, <2>2, <2>3
<1>10. it[1 .. n] \in ST[n]
  <2> HIDE DEF ST, it, n
  <2> QED BY <1>1, <1>8, <1>9, FoldHolds
<1> HIDE DEF it
<1> QED BY <1>1, <1>2, <1>10

-----------------------------------------------------------------------------
(* The inductive invariant, of a record s of everything as the handlers    *)
(* work on; n is MaxPlayersPerTeam.                                        *)

PlayerRecord == [at : {"world", "to_bg", "travel", "offline"},
                 bg : BG \cup {None}, slot : BG \cup {None, Free},
                 deserter : {"no", "due", "yes"}, events : Seq(Event)]

States == [player : [Player -> PlayerRecord], queue : [Kind -> [Team -> Seq(Group)]],
           bgs : [BG -> BattleGround \cup {None}], free : Seq(BG),
           scheduled : BOOLEAN, late : BOOLEAN, tainted : SUBSET BG]

Running(s) == {b \in BG : s.bgs[b] # None}

\* What a player is invited to: a battleground, or None while he waits.
Invites(s, p) == {g.invited : g \in GroupsOf(s, p)}

\* The battlegrounds he is a member of.
MemberOf(s, p) == {b \in Running(s) : p \in s.bgs[b].members}

\* The groups of a team's queues are of that team, and nobody is in two groups.
QueueInv(s) ==
    /\ \A k \in Kind, t \in Team : \A g \in ToSet(s.queue[k][t]) :
          \A p \in g.players : TeamOf[p] = t
    /\ \A g, h \in Groups(s) : g.players \cap h.players # {} => g = h

\* A player me who is invited to I and a member of M, when R run and T are tainted.
PlayerInv(me, I, M, R, T) ==
    /\ \A i \in I :
          /\ me.slot = i \/ (me.slot = None /\ i \in T)
          /\ me.slot \in BG => [bg |-> i, now |-> TRUE] \in ToSet(me.events)
          /\ me.at \in {"world", "travel"} /\ M = {}
    /\ I = {} /\ me.slot \notin T \cup {Free} =>
          /\ me.slot = me.bg /\ me.bg \in R
          /\ me.at = "to_bg" \/ (me.at = "world" /\ me.bg \in M)
    /\ me.at = "to_bg" => me.slot = me.bg /\ me.bg # None /\ I = {}
    /\ me.at = "world" /\ me.bg \in R \ T => me.bg \in M
    /\ \A b \in M : me.bg = b /\ (me.at = "offline" \/ (me.at = "world" /\ me.slot = b))

PInv(s, p) == PlayerInv(s.player[p], Invites(s, p), MemberOf(s, p), Running(s), s.tainted)

\* He has a place in b: he is invited to it, on his way to it or a member.
Placed(s, p, b) ==
    \/ b \in Invites(s, p)
    \/ s.player[p].at = "to_bg" /\ s.player[p].bg = b
    \/ b \in MemberOf(s, p)

PlacedOf(s, b, t) == {p \in Player : TeamOf[p] = t /\ Placed(s, p, b)}

CountInv(s, n) ==
    \A b \in Running(s) \ s.tainted, t \in Team :
        /\ s.bgs[b].invited[t] = Cardinality(PlacedOf(s, b, t))
        /\ s.bgs[b].invited[t] <= n

Inv(s, n) ==
    /\ s \in States
    /\ ToSet(s.free) \subseteq Running(s)
    /\ QueueInv(s)
    /\ \A p \in Player : PInv(s, p)
    /\ CountInv(s, n)

LEMMA GroupsFacts ==
  ASSUME NEW s \in States
  PROVE  /\ \A g : g \in Groups(s) <=> \E k \in Kind, t \in Team : g \in ToSet(s.queue[k][t])
         /\ Groups(s) \subseteq Group
         /\ \A p : GroupsOf(s, p) = {g \in Groups(s) : p \in g.players}
         /\ \A p, i : i \in Invites(s, p) <=> \E g \in Groups(s) : p \in g.players /\ g.invited = i
         /\ \A p : Invites(s, p) \subseteq BG \cup {None}
<1>1. \A g : g \in Groups(s) <=> \E k \in Kind, t \in Team : g \in ToSet(s.queue[k][t])
  BY DEF Groups
<1>2. \A k \in Kind, t \in Team : ToSet(s.queue[k][t]) \subseteq Group
  BY SeqFacts DEF States
<1>3. \A p : GroupsOf(s, p) = {g \in Groups(s) : p \in g.players}
  BY DEF GroupsOf
<1>4. Groups(s) \subseteq Group
  BY <1>1, <1>2
<1>5. \A p, i : i \in Invites(s, p) <=> \E g \in Groups(s) : p \in g.players /\ g.invited = i
  BY <1>3 DEF Invites
<1> QED BY <1>1, <1>3, <1>4, <1>5 DEF Group

LEMMA RunningFacts ==
  ASSUME NEW s \in States
  PROVE  /\ \A b \in Running(s) : b \in BG /\ s.bgs[b] \in BattleGround
         /\ \A p : MemberOf(s, p) \subseteq Running(s)
         /\ None \notin Running(s) /\ Free \notin Running(s)
BY BattleGroundConstants DEF Running, MemberOf, States

\* Only what is said about p is different in t.
Only(s, t, p) ==
    /\ \A q \in Player \ {p} : /\ t.player[q] = s.player[q] /\ Invites(t, q) = Invites(s, q)
                               /\ MemberOf(t, q) = MemberOf(s, q)
    /\ Running(t) = Running(s) /\ t.tainted = s.tainted

LEMMA PlacedFinite ==
  ASSUME NEW s, NEW b, NEW t
  PROVE  IsFiniteSet(PlacedOf(s, b, t)) /\ Cardinality(PlacedOf(s, b, t)) \in Nat
BY BattleGroundConstants, FS_Subset, FS_CardinalityType DEF PlacedOf

LEMMA OnePlayer ==
  ASSUME NEW n \in Nat, NEW s, NEW t, NEW p \in Player, Inv(s, n),
         t \in States, ToSet(t.free) \subseteq Running(t), QueueInv(t), Only(s, t, p), PInv(t, p),
         \A b \in Running(s) \ s.tainted :
            /\ Placed(t, p, b) => Placed(s, p, b)
            /\ \A u \in Team : t.bgs[b].invited[u] =
                  IF u = TeamOf[p] /\ Placed(s, p, b) /\ ~Placed(t, p, b)
                  THEN s.bgs[b].invited[u] - 1 ELSE s.bgs[b].invited[u]
  PROVE  Inv(t, n)
<1>1. ASSUME NEW q \in Player PROVE PInv(t, q)
  <2>1. CASE q = p
    BY <2>1
  <2>2. CASE q # p
    BY <2>2 DEF Inv, PInv, Only
  <2> QED BY <2>1, <2>2
<1>2. ASSUME NEW b \in Running(t) \ t.tainted, NEW u \in Team
      PROVE  /\ t.bgs[b].invited[u] = Cardinality(PlacedOf(t, b, u))
             /\ t.bgs[b].invited[u] <= n
  <2>1. b \in Running(s) \ s.tainted
    BY DEF Only
  <2>2. /\ s.bgs[b].invited[u] = Cardinality(PlacedOf(s, b, u))
        /\ s.bgs[b].invited[u] <= n
    BY <2>1 DEF Inv, CountInv
  <2>3. \A q \in Player \ {p} : Placed(t, q, b) <=> Placed(s, q, b)
    BY DEF Only, Placed
  <2>4. IsFiniteSet(PlacedOf(s, b, u)) /\ Cardinality(PlacedOf(s, b, u)) \in Nat
    BY PlacedFinite
  <2>5. CASE u = TeamOf[p] /\ Placed(s, p, b) /\ ~Placed(t, p, b)
    <3>1. PlacedOf(t, b, u) = PlacedOf(s, b, u) \ {p} /\ p \in PlacedOf(s, b, u)
      BY <2>3, <2>5 DEF PlacedOf
    <3>2. Cardinality(PlacedOf(t, b, u)) = Cardinality(PlacedOf(s, b, u)) - 1
      BY <2>4, <3>1, FS_RemoveElement
    <3>3. t.bgs[b].invited[u] = s.bgs[b].invited[u] - 1
      BY <2>1, <2>5
    <3> QED BY <2>2, <2>4, <3>2, <3>3
  <2>6. CASE ~(u = TeamOf[p] /\ Placed(s, p, b) /\ ~Placed(t, p, b))
    <3>1. PlacedOf(t, b, u) = PlacedOf(s, b, u)
      BY <2>1, <2>3, <2>6 DEF PlacedOf
    <3>2. t.bgs[b].invited[u] = s.bgs[b].invited[u]
      BY <2>1, <2>6
    <3> QED BY <2>2, <3>1, <3>2
  <2> QED BY <2>5, <2>6
<1> QED BY <1>1, <1>2 DEF Inv, CountInv

-----------------------------------------------------------------------------
(* The queue without a player *)

LEMMA LessFacts ==
  ASSUME NEW g \in Group, NEW p
  PROVE  /\ Less(g, p).players = g.players \ {p} /\ Less(g, p).invited = g.invited
         /\ g.players # {p} => Less(g, p) \in Group
         /\ p \notin g.players => Less(g, p) = g
BY DEF Group, Less

LEMMA UnqueuedQueue ==
  ASSUME NEW s \in States, QueueInv(s), NEW p \in Player
  PROVE  /\ Unqueued(s, p).queue \in [Kind -> [Team -> Seq(Group)]]
         /\ \A k \in Kind, u \in Team : \A g :
               g \in ToSet(Unqueued(s, p).queue[k][u]) <=>
                  \E x \in ToSet(s.queue[k][u]) : x.players # {p} /\ g = Less(x, p)
<1> PICK t : t = Unqueued(s, p)
  OBVIOUS
<1>1. \A k \in Kind, u \in Team : s.queue[k][u] \in Seq(Group)
  BY DEF States
<1>2. TeamOf[p] \in Team
  BY BattleGroundConstants
<1>3. t.queue = [k \in Kind |-> [s.queue[k] EXCEPT ![TeamOf[p]] = GroupsWithout(@, p)]]
  <2> DEFINE Q == [k \in Kind |-> [s.queue[k] EXCEPT ![TeamOf[p]] = GroupsWithout(@, p)]]
  <2>1. t = [s EXCEPT !.queue = Q, !.player[p].events = Outdated(@)]
    BY Zenon DEF Unqueued
  <2> HIDE DEF Q
  <2>2. t.queue = Q
    BY <2>1 DEF States
  <2> QED BY <2>2 DEF Q
<1>4. ASSUME NEW k \in Kind, NEW u \in Team
      PROVE  t.queue[k][u] = IF u = TeamOf[p] THEN GroupsWithout(s.queue[k][u], p) ELSE s.queue[k][u]
  BY <1>2, <1>3 DEF States
<1>5. ASSUME NEW k \in Kind, NEW u \in Team
      PROVE  /\ GroupsWithout(s.queue[k][u], p) \in Seq(Group)
             /\ \A g : g \in ToSet(GroupsWithout(s.queue[k][u], p)) <=>
                  \E x \in ToSet(s.queue[k][u]) : x.players # {p} /\ g = Less(x, p)
  <2>1. /\ GroupsWithout(s.queue[k][u], p) \in Seq(Group)
        /\ ToSet(GroupsWithout(s.queue[k][u], p))
               = {Less(g, p) : g \in {x \in ToSet(s.queue[k][u]) : x.players # {p}}}
    BY <1>1, GroupsWithoutFacts
  <2> QED BY <2>1, Zenon
<1>6. t.queue \in [Kind -> [Team -> Seq(Group)]]
  <2>1. \A k \in Kind : [s.queue[k] EXCEPT ![TeamOf[p]] = GroupsWithout(@, p)] \in [Team -> Seq(Group)]
    BY <1>1, <1>2, <1>5 DEF States
  <2> QED BY <1>3, <2>1
<1>7. ASSUME NEW k \in Kind, NEW u \in Team, u # TeamOf[p], NEW g
      PROVE  g \in ToSet(s.queue[k][u]) <=>
                  \E x \in ToSet(s.queue[k][u]) : x.players # {p} /\ g = Less(x, p)
  <2>1. \A x \in ToSet(s.queue[k][u]) : p \notin x.players /\ x \in Group
    BY <1>1, <1>7, SeqFacts DEF QueueInv
  <2>2. \A x \in ToSet(s.queue[k][u]) : x.players # {p} /\ Less(x, p) = x
    BY <2>1, LessFacts
  <2> QED BY <2>2, Zenon
<1>8. ASSUME NEW k \in Kind, NEW u \in Team, NEW g
      PROVE  g \in ToSet(t.queue[k][u]) <=>
                  \E x \in ToSet(s.queue[k][u]) : x.players # {p} /\ g = Less(x, p)
  <2>1. CASE u = TeamOf[p]
    <3>1. t.queue[k][u] = GroupsWithout(s.queue[k][u], p)
      BY <1>4, <2>1
    <3> QED BY <1>5, <3>1, Zenon
  <2>2. CASE u # TeamOf[p]
    <3>1. t.queue[k][u] = s.queue[k][u]
      BY <1>4, <2>2
    <3> QED BY <1>7, <2>2, <3>1, Zenon
  <2> QED BY <2>1, <2>2
<1> QED BY <1>6, <1>8

LEMMA UnqueuedFacts ==
  ASSUME NEW s \in States, QueueInv(s), NEW p \in Player, NEW t, t = Unqueued(s, p)
  PROVE  /\ t \in States /\ QueueInv(t)
         /\ t.bgs = s.bgs /\ t.free = s.free /\ t.tainted = s.tainted
         /\ \A q \in Player \ {p} : t.player[q] = s.player[q] /\ Invites(t, q) = Invites(s, q)
         /\ t.player[p] = [s.player[p] EXCEPT !.events = t.player[p].events]
         /\ Invites(t, p) = {}
<1>1. /\ t.queue \in [Kind -> [Team -> Seq(Group)]]
      /\ \A k \in Kind, u \in Team : \A g :
            g \in ToSet(t.queue[k][u]) <=>
               \E x \in ToSet(s.queue[k][u]) : x.players # {p} /\ g = Less(x, p)
  <2>1. /\ Unqueued(s, p).queue \in [Kind -> [Team -> Seq(Group)]]
        /\ \A k \in Kind, u \in Team : \A g :
               g \in ToSet(Unqueued(s, p).queue[k][u]) <=>
                  \E x \in ToSet(s.queue[k][u]) : x.players # {p} /\ g = Less(x, p)
    BY UnqueuedQueue
  <2> QED BY <2>1, Zenon
<1>2. /\ t.bgs = s.bgs /\ t.free = s.free /\ t.tainted = s.tainted
      /\ t.scheduled = s.scheduled /\ t.late = s.late
      /\ t.player = [s.player EXCEPT ![p].events = Outdated(@)]
      /\ t = [t EXCEPT !.player = t.player]
      /\ DOMAIN t = {"player", "queue", "bgs", "free", "scheduled", "late", "tainted"}
  BY DEF Unqueued, States
<1>3. s.player \in [Player -> PlayerRecord] /\ s.player[p].events \in Seq(Event)
  BY DEF States, PlayerRecord
<1>4. Outdated(s.player[p].events) \in Seq(Event)
  <2>1. PICK q : q = s.player[p].events
    OBVIOUS
  <2>2. q \in Seq(Event)
    BY <1>3, <2>1
  <2>3. Len(q) \in Nat /\ DOMAIN q = 1 .. Len(q) /\ \A i \in 1 .. Len(q) : q[i] \in Event
    BY <2>2, SeqFacts
  <2>4. [i \in 1 .. Len(q) |-> [q[i] EXCEPT !.now = FALSE]] \in Seq(Event)
    <3>1. \A i \in 1 .. Len(q) : [q[i] EXCEPT !.now = FALSE] \in Event
      BY <2>3 DEF Event
    <3> QED BY <2>3, <3>1
  <2> QED BY <2>1, <2>3, <2>4 DEF Outdated
<1>5. /\ t.player \in [Player -> PlayerRecord]
      /\ \A q \in Player \ {p} : t.player[q] = s.player[q]
      /\ t.player[p] = [s.player[p] EXCEPT !.events = t.player[p].events]
  <2>1. PICK A \in Seq(Event) : t.player = [s.player EXCEPT ![p].events = A]
    BY <1>2, <1>4
  <2>2. [s.player[p] EXCEPT !.events = A] \in PlayerRecord
    BY <1>3 DEF PlayerRecord
  <2>3. t.player[p] = [s.player[p] EXCEPT !.events = A]
    BY <1>3, <2>1
  <2>4. t.player[p].events = A
    BY <1>3, <2>3 DEF PlayerRecord
  <2> QED BY <1>3, <2>1, <2>2, <2>3, <2>4
<1>6. t \in States
  <2>1. t = [player |-> t.player, queue |-> t.queue, bgs |-> t.bgs, free |-> t.free,
             scheduled |-> t.scheduled, late |-> t.late, tainted |-> t.tainted]
    BY DEF Unqueued, States
  <2> QED BY <1>1, <1>2, <1>5, <2>1 DEF States
<1>7. \A g : g \in Groups(t) <=> \E h \in Groups(s) : h.players # {p} /\ g = Less(h, p)
  <2>1. \A g : g \in Groups(t) <=> \E k \in Kind, u \in Team : g \in ToSet(t.queue[k][u])
    BY <1>6, GroupsFacts
  <2>2. \A g : g \in Groups(s) <=> \E k \in Kind, u \in Team : g \in ToSet(s.queue[k][u])
    BY GroupsFacts
  <2>3. ASSUME NEW g, g \in Groups(t) PROVE \E h \in Groups(s) : h.players # {p} /\ g = Less(h, p)
    <3>1. PICK k \in Kind, u \in Team : g \in ToSet(t.queue[k][u])
      BY <2>1, <2>3
    <3>2. PICK h \in ToSet(s.queue[k][u]) : h.players # {p} /\ g = Less(h, p)
      BY <1>1, <3>1
    <3> QED BY <2>2, <3>2
  <2>4. ASSUME NEW h \in Groups(s), h.players # {p} PROVE Less(h, p) \in Groups(t)
    <3>1. PICK k \in Kind, u \in Team : h \in ToSet(s.queue[k][u])
      BY <2>2
    <3>2. Less(h, p) \in ToSet(t.queue[k][u])
      BY <1>1, <2>4, <3>1
    <3> QED BY <2>1, <3>2
  <2> QED BY <2>3, <2>4, Zenon
<1>8. Groups(s) \subseteq Group
  BY GroupsFacts
<1>9. /\ \A q, i : i \in Invites(s, q) <=> \E g \in Groups(s) : q \in g.players /\ g.invited = i
      /\ \A q, i : i \in Invites(t, q) <=> \E g \in Groups(t) : q \in g.players /\ g.invited = i
  BY <1>6, GroupsFacts
<1>10. Invites(t, p) = {}
  BY <1>7, <1>8, <1>9, LessFacts
<1>11. ASSUME NEW q \in Player \ {p} PROVE Invites(t, q) = Invites(s, q)
  <2>1. ASSUME NEW i, i \in Invites(t, q) PROVE i \in Invites(s, q)
    BY <1>7, <1>8, <1>9, <2>1, LessFacts
  <2>2. ASSUME NEW i, i \in Invites(s, q) PROVE i \in Invites(t, q)
    <3>1. PICK g \in Groups(s) : q \in g.players /\ g.invited = i
      BY <1>9, <2>2
    <3>2. g.players # {p} /\ Less(g, p) \in Groups(t)
      BY <1>7, <3>1
    <3>3. q \in Less(g, p).players /\ Less(g, p).invited = i
      BY <1>8, <3>1, LessFacts
    <3> QED BY <1>9, <3>2, <3>3
  <2> QED BY <2>1, <2>2
<1>12. QueueInv(t)
  <2>1. ASSUME NEW k \in Kind, NEW u \in Team, NEW g \in ToSet(t.queue[k][u]), NEW q \in g.players
        PROVE  TeamOf[q] = u
    <3>1. PICK h \in ToSet(s.queue[k][u]) : g = Less(h, p)
      BY <1>1
    <3>2. h \in Group
      BY <1>8, <3>1, GroupsFacts
    <3>3. q \in h.players
      BY <3>1, <3>2, LessFacts
    <3> QED BY <3>1, <3>3 DEF QueueInv
  <2>2. ASSUME NEW g \in Groups(t), NEW h \in Groups(t), g.players \cap h.players # {} PROVE g = h
    <3>1. PICK gs \in Groups(s), hs \in Groups(s) : g = Less(gs, p) /\ h = Less(hs, p)
      BY <1>7
    <3>2. gs.players \cap hs.players # {}
      BY <1>8, <2>2, <3>1, LessFacts
    <3> QED BY <3>1, <3>2 DEF QueueInv
  <2> QED BY <2>1, <2>2 DEF QueueInv
<1> QED BY <1>2, <1>5, <1>6, <1>10, <1>11, <1>12

-----------------------------------------------------------------------------
(* The operations the handlers are built from *)

LEMMA SameFacts ==
  ASSUME NEW s, NEW t
  PROVE  /\ t.queue = s.queue => /\ Groups(t) = Groups(s) /\ \A p : Invites(t, p) = Invites(s, p)
                                 /\ QueueInv(s) => QueueInv(t)
         /\ Running(t) = Running(s) /\ (\A b \in Running(s) : t.bgs[b].members = s.bgs[b].members)
               => \A p : MemberOf(t, p) = MemberOf(s, p)
<1>1. ASSUME t.queue = s.queue PROVE Groups(t) = Groups(s)
  BY <1>1 DEF Groups
<1>2. ASSUME t.queue = s.queue PROVE \A p : Invites(t, p) = Invites(s, p)
  BY <1>1, <1>2 DEF Invites, GroupsOf
<1>3. ASSUME t.queue = s.queue, QueueInv(s) PROVE QueueInv(t)
  BY <1>1, <1>3 DEF QueueInv
<1>4. ASSUME Running(t) = Running(s), \A b \in Running(s) : t.bgs[b].members = s.bgs[b].members
      PROVE  \A p : MemberOf(t, p) = MemberOf(s, p)
  BY <1>4 DEF MemberOf
<1> QED BY <1>1, <1>2, <1>3, <1>4

\* t differs from s in the counters only.
Recounted(s, t) ==
    /\ t \in States /\ t.player = s.player /\ t.queue = s.queue /\ t.free = s.free
    /\ t.tainted = s.tainted /\ Running(t) = Running(s)
    /\ \A b \in Running(s) : /\ t.bgs[b].members = s.bgs[b].members
                             /\ t.bgs[b].status = s.bgs[b].status
                             /\ t.bgs[b].offline = s.bgs[b].offline

Decreased(x) == (x + Counts - 1) % Counts

LEMMA DecreasedFacts ==
  ASSUME NEW x \in 0 .. Counts - 1
  PROVE  Decreased(x) \in 0 .. Counts - 1 /\ (x > 0 => Decreased(x) = x - 1)
<1>1. IsFiniteSet(Player) /\ Counts \in Nat /\ Counts > 0
  <2>1. Cardinality(Player) \in Nat
    BY BattleGroundConstants, FS_CardinalityType
  <2> QED BY BattleGroundConstants, <2>1
<1> QED BY <1>1 DEF Decreased

LEMMA DecreaseFacts ==
  ASSUME NEW s \in States, NEW b \in Running(s), NEW u \in Team
  PROVE  LET t == DecreaseInvitedCount(s, b, u) IN
         /\ Recounted(s, t)
         /\ \A c \in Running(s), v \in Team :
               t.bgs[c].invited[v] = IF c = b /\ v = u THEN Decreased(s.bgs[c].invited[v])
                                                       ELSE s.bgs[c].invited[v]
<1> PICK t : t = DecreaseInvitedCount(s, b, u)
  OBVIOUS
<1>1. /\ b \in BG /\ s.bgs[b] \in BattleGround
      /\ s.bgs \in [BG -> BattleGround \cup {None}]
  BY RunningFacts DEF States
<1>2. s.bgs[b].invited \in [Team -> 0 .. Counts - 1]
  BY <1>1 DEF BattleGround
<1>3. t = [s EXCEPT !.bgs[b].invited[u] = Decreased(@)]
  BY DEF DecreaseInvitedCount, Decreased
<1>4. PICK x : x = [s.bgs[b] EXCEPT !.invited[u] = Decreased(@)]
  OBVIOUS
<1>5. t = [s EXCEPT !.bgs = [s.bgs EXCEPT ![b] = x]]
  BY <1>3, <1>4 DEF States
<1>6. /\ x \in BattleGround /\ x.members = s.bgs[b].members /\ x.status = s.bgs[b].status
      /\ x.offline = s.bgs[b].offline
      /\ \A v \in Team : x.invited[v] = IF v = u THEN Decreased(s.bgs[b].invited[u]) ELSE s.bgs[b].invited[v]
  <2>1. Decreased(s.bgs[b].invited[u]) \in 0 .. Counts - 1
    BY <1>2, DecreasedFacts
  <2> QED BY <1>1, <1>2, <1>4, <2>1 DEF BattleGround
<1>7. /\ t.bgs = [s.bgs EXCEPT ![b] = x]
      /\ t.player = s.player /\ t.queue = s.queue /\ t.free = s.free /\ t.tainted = s.tainted
      /\ t \in States
  <2>1. [s.bgs EXCEPT ![b] = x] \in [BG -> BattleGround \cup {None}]
    BY <1>1, <1>6
  <2> QED BY <1>5, <2>1 DEF States
<1>8. /\ t.bgs[b] = x /\ x # None
      /\ \A c \in BG : c # b => t.bgs[c] = s.bgs[c]
  BY <1>1, <1>6, <1>7, NoneIsNothing
<1>9. Running(t) = Running(s)
  BY <1>8 DEF Running
<1>10. Recounted(s, t)
  BY <1>6, <1>7, <1>8, <1>9, RunningFacts DEF Recounted
<1>11. ASSUME NEW c \in Running(s), NEW v \in Team
       PROVE  t.bgs[c].invited[v] = IF c = b /\ v = u THEN Decreased(s.bgs[c].invited[v])
                                                      ELSE s.bgs[c].invited[v]
  BY <1>6, <1>8, RunningFacts
<1> QED BY <1>10, <1>11

LEMMA UncountedFacts ==
  ASSUME NEW s \in States, QueueInv(s), NEW p \in Player
  PROVE  LET t == Uncounted(s, p) IN
         /\ Recounted(s, t)
         /\ \A c \in Running(s), v \in Team :
               t.bgs[c].invited[v] = IF c \in Invites(s, p) /\ v = TeamOf[p]
                                     THEN Decreased(s.bgs[c].invited[v])
                                     ELSE s.bgs[c].invited[v]
<1> DEFINE C == Invites(s, p) \cap Running(s)
<1>1. Uncounted(s, p) = IF C = {} THEN s ELSE DecreaseInvitedCount(s, CHOOSE b \in C : TRUE, TeamOf[p])
  BY DEF Uncounted, Invites, Running
<1>2. TeamOf[p] \in Team
  BY BattleGroundConstants
<1>3. CASE C = {}
  <2>1. Uncounted(s, p) = s
    BY <1>1, <1>3
  <2>2. Recounted(s, s)
    BY DEF Recounted
  <2>3. \A c \in Running(s) : c \notin Invites(s, p)
    BY <1>3
  <2> QED BY <2>1, <2>2, <2>3
<1>4. CASE C # {}
  <2>1. PICK b : b = CHOOSE x \in C : TRUE
    OBVIOUS
  <2>2. b \in C
    BY <1>4, <2>1
  <2>3. \A c \in C : c = b
    BY <2>2, GroupsFacts DEF QueueInv
  <2>4. PICK t : t = Uncounted(s, p)
    OBVIOUS
  <2>5. t = DecreaseInvitedCount(s, b, TeamOf[p])
    BY <1>1, <1>4, <2>1, <2>4
  <2>6. /\ Recounted(s, t)
        /\ \A c \in Running(s), v \in Team :
               t.bgs[c].invited[v] = IF c = b /\ v = TeamOf[p] THEN Decreased(s.bgs[c].invited[v])
                                                               ELSE s.bgs[c].invited[v]
    BY <1>2, <2>2, <2>5, DecreaseFacts
  <2>7. \A c \in Running(s) : c \in Invites(s, p) <=> c = b
    BY <2>2, <2>3
  <2> QED BY <2>4, <2>6, <2>7
<1> QED BY <1>3, <1>4

\* t is what RemovePlayer leaves of s: p is out of the queue, and if d holds, not counted as invited.
Removed(s, t, p, d) ==
    /\ t \in States /\ QueueInv(t)
    /\ t.free = s.free /\ t.tainted = s.tainted /\ Running(t) = Running(s)
    /\ \A q \in Player \ {p} : t.player[q] = s.player[q] /\ Invites(t, q) = Invites(s, q)
    /\ t.player[p].at = s.player[p].at /\ t.player[p].bg = s.player[p].bg
    /\ t.player[p].slot = s.player[p].slot
    /\ Invites(t, p) = {}
    /\ \A b \in Running(s) : /\ t.bgs[b].members = s.bgs[b].members
                             /\ t.bgs[b].status = s.bgs[b].status
                             /\ t.bgs[b].offline = s.bgs[b].offline
    /\ \A q : MemberOf(t, q) = MemberOf(s, q)
    /\ \A c \in Running(s), v \in Team :
          t.bgs[c].invited[v] = IF d /\ c \in Invites(s, p) /\ v = TeamOf[p]
                                THEN Decreased(s.bgs[c].invited[v])
                                ELSE s.bgs[c].invited[v]

LEMMA RemovePlayerFacts ==
  ASSUME NEW s \in States, QueueInv(s), NEW p \in Player, NEW d \in BOOLEAN
  PROVE  Removed(s, RemovePlayer(s, p, d), p, d)
<1>1. PICK r : r = IF d THEN Uncounted(s, p) ELSE s
  OBVIOUS
<1>2. PICK t : t = Unqueued(r, p)
  OBVIOUS
<1>3. t = RemovePlayer(s, p, d)
  BY <1>1, <1>2 DEF RemovePlayer
<1>4. /\ Recounted(s, r)
      /\ \A c \in Running(s), v \in Team :
               r.bgs[c].invited[v] = IF d /\ c \in Invites(s, p) /\ v = TeamOf[p]
                                     THEN Decreased(s.bgs[c].invited[v])
                                     ELSE s.bgs[c].invited[v]
  <2>1. CASE d
    <3>1. r = Uncounted(s, p)
      BY <1>1, <2>1
    <3> QED BY <2>1, <3>1, UncountedFacts
  <2>2. CASE ~d
    <3>1. r = s
      BY <1>1, <2>2
    <3> QED BY <2>2, <3>1 DEF Recounted
  <2> QED BY <2>1, <2>2
<1>5. r \in States /\ r.player = s.player /\ r.queue = s.queue /\ r.free = s.free
      /\ r.tainted = s.tainted /\ Running(r) = Running(s)
  BY <1>4 DEF Recounted
<1>6. QueueInv(r) /\ \A q : Invites(r, q) = Invites(s, q)
  BY <1>5, SameFacts
<1>7. /\ t \in States /\ QueueInv(t)
      /\ t.bgs = r.bgs /\ t.free = r.free /\ t.tainted = r.tainted
      /\ \A q \in Player \ {p} : t.player[q] = r.player[q] /\ Invites(t, q) = Invites(r, q)
      /\ t.player[p] = [r.player[p] EXCEPT !.events = t.player[p].events]
      /\ Invites(t, p) = {}
  BY <1>2, <1>5, <1>6, UnqueuedFacts
<1>8. Running(t) = Running(s)
  BY <1>5, <1>7 DEF Running
<1>9. \A b \in Running(s) : /\ t.bgs[b].members = s.bgs[b].members
                            /\ t.bgs[b].status = s.bgs[b].status
                            /\ t.bgs[b].offline = s.bgs[b].offline
  BY <1>4, <1>7 DEF Recounted
<1>10. \A q : MemberOf(t, q) = MemberOf(s, q)
  BY <1>8, <1>9, SameFacts
<1>11. t.player[p].at = s.player[p].at /\ t.player[p].bg = s.player[p].bg /\ t.player[p].slot = s.player[p].slot
  <2>1. s.player[p] \in PlayerRecord
    BY DEF States
  <2>2. PICK e : e = t.player[p].events
    OBVIOUS
  <2>3. t.player[p] = [s.player[p] EXCEPT !.events = e]
    BY <1>5, <1>7, <2>2
  <2> QED BY <2>1, <2>3 DEF PlayerRecord
<1> QED BY <1>3, <1>4, <1>5, <1>6, <1>7, <1>8, <1>9, <1>10, <1>11 DEF Removed

-----------------------------------------------------------------------------
(* Steps of one player *)

LEMMA InvTypes ==
  ASSUME NEW n, NEW s, Inv(s, n)
  PROVE  /\ s \in States /\ QueueInv(s) /\ ToSet(s.free) \subseteq Running(s) /\ CountInv(s, n)
         /\ \A p \in Player : /\ s.player[p] \in PlayerRecord /\ PInv(s, p)
                              /\ Invites(s, p) \subseteq BG \cup {None}
                              /\ MemberOf(s, p) \subseteq Running(s)
         /\ Running(s) \subseteq BG
BY GroupsFacts, RunningFacts DEF Inv, States

\* scheduled and late are nobody's business.
LEMMA Quiet ==
  ASSUME NEW n \in Nat, NEW s, Inv(s, n), NEW t \in States,
         t.player = s.player, t.queue = s.queue, t.bgs = s.bgs, t.free = s.free, t.tainted = s.tainted
  PROVE  Inv(t, n)
<1>1. Running(t) = Running(s)
  BY DEF Running
<1>2. QueueInv(t) /\ \A p : Invites(t, p) = Invites(s, p) /\ MemberOf(t, p) = MemberOf(s, p)
  BY <1>1, SameFacts DEF Inv
<1>3. \A p \in Player : PInv(t, p)
  BY <1>1, <1>2 DEF Inv, PInv
<1>4. \A b, u : PlacedOf(t, b, u) = PlacedOf(s, b, u)
  BY <1>2 DEF PlacedOf, Placed
<1>5. CountInv(t, n)
  BY <1>1, <1>4 DEF Inv, CountInv
<1> QED BY <1>1, <1>2, <1>3, <1>5 DEF Inv

LEMMA ScheduleFacts ==
  ASSUME NEW s \in States
  PROVE  LET t == ScheduleQueueUpdate(s) IN
         /\ t \in States /\ t.player = s.player /\ t.queue = s.queue /\ t.bgs = s.bgs
         /\ t.free = s.free /\ t.tainted = s.tainted
BY DEF ScheduleQueueUpdate, States

LEMMA Scheduled ==
  ASSUME NEW n \in Nat, NEW s, Inv(s, n)
  PROVE  Inv(ScheduleQueueUpdate(s), n)
<1>1. PICK t : t = ScheduleQueueUpdate(s)
  OBVIOUS
<1>2. s \in States
  BY DEF Inv
<1> QED BY <1>1, <1>2, ScheduleFacts, Quiet

\* Only the record of p is different in t.
Changed(s, t, p) ==
    /\ t \in States /\ t.queue = s.queue /\ t.bgs = s.bgs /\ t.free = s.free
    /\ t.tainted = s.tainted
    /\ \A q \in Player \ {p} : t.player[q] = s.player[q]

LEMMA ChangedFacts ==
  ASSUME NEW s \in States, NEW p \in Player, NEW t, Changed(s, t, p)
  PROVE  /\ Only(s, t, p) /\ (QueueInv(s) => QueueInv(t))
         /\ Invites(t, p) = Invites(s, p) /\ MemberOf(t, p) = MemberOf(s, p)
<1>1. Running(t) = Running(s)
  BY DEF Changed, Running
<1>2. (QueueInv(s) => QueueInv(t)) /\ \A q : Invites(t, q) = Invites(s, q) /\ MemberOf(t, q) = MemberOf(s, q)
  BY <1>1, SameFacts DEF Changed
<1> QED BY <1>1, <1>2 DEF Only, Changed

\* A record of p that is as good as the old one.
LEMMA ChangedPlayer ==
  ASSUME NEW n \in Nat, NEW s, Inv(s, n), NEW p \in Player, NEW t, Changed(s, t, p),
         PlayerInv(t.player[p], Invites(s, p), MemberOf(s, p), Running(s), s.tainted),
         \A b \in Running(s) \ s.tainted : Placed(t, p, b) <=> Placed(s, p, b)
  PROVE  Inv(t, n)
<1>1. s \in States /\ QueueInv(s) /\ ToSet(s.free) \subseteq Running(s)
  BY DEF Inv
<1>2. /\ Only(s, t, p) /\ QueueInv(t)
      /\ Invites(t, p) = Invites(s, p) /\ MemberOf(t, p) = MemberOf(s, p)
  BY <1>1, ChangedFacts
<1>3. PInv(t, p)
  BY <1>2 DEF PInv, Only
<1>4. t \in States /\ ToSet(t.free) \subseteq Running(t) /\ t.bgs = s.bgs
  BY <1>1, <1>2 DEF Changed, Only
<1> QED BY <1>2, <1>3, <1>4, OnePlayer

LEMMA SetPlayer ==
  ASSUME NEW s \in States, NEW p \in Player, NEW r \in PlayerRecord
  PROVE  LET t == [s EXCEPT !.player = [s.player EXCEPT ![p] = r]] IN Changed(s, t, p) /\ t.player[p] = r
BY DEF Changed, States

LEMMA FreeSlotFacts ==
  ASSUME NEW s \in States, NEW p \in Player
  PROVE  /\ Changed(s, FreeSlot(s, p), p)
         /\ FreeSlot(s, p).player[p].slot = Free
         /\ FreeSlot(s, p).player[p].at = s.player[p].at
         /\ FreeSlot(s, p).player[p].bg = s.player[p].bg
<1>1. s.player[p] \in PlayerRecord /\ s.player \in [Player -> PlayerRecord]
  BY DEF States
<1>2. PICK r : r = [s.player[p] EXCEPT !.slot = Free]
  OBVIOUS
<1>3. r \in PlayerRecord /\ r.slot = Free /\ r.at = s.player[p].at /\ r.bg = s.player[p].bg
  BY <1>1, <1>2 DEF PlayerRecord
<1>4. FreeSlot(s, p) = [s EXCEPT !.player = [s.player EXCEPT ![p] = r]]
  BY <1>1, <1>2 DEF FreeSlot, States
<1>5. Changed(s, FreeSlot(s, p), p) /\ FreeSlot(s, p).player[p] = r
  BY <1>3, <1>4, SetPlayer
<1> QED BY <1>3, <1>5

\* A player who is placed is counted.
LEMMA PlacedCounted ==
  ASSUME NEW n \in Nat, NEW s, Inv(s, n), NEW p \in Player, NEW b \in Running(s) \ s.tainted
  PROVE  /\ s.bgs[b].invited[TeamOf[p]] \in 0 .. Counts - 1
         /\ Placed(s, p, b) => Decreased(s.bgs[b].invited[TeamOf[p]]) = s.bgs[b].invited[TeamOf[p]] - 1
<1>1. TeamOf[p] \in Team /\ s.bgs[b] \in BattleGround
  BY BattleGroundConstants, RunningFacts DEF Inv
<1>2. s.bgs[b].invited[TeamOf[p]] \in 0 .. Counts - 1
  BY <1>1 DEF BattleGround
<1>3. ASSUME Placed(s, p, b) PROVE s.bgs[b].invited[TeamOf[p]] > 0
  <2>1. p \in PlacedOf(s, b, TeamOf[p])
    BY <1>3 DEF PlacedOf
  <2>2. Cardinality(PlacedOf(s, b, TeamOf[p])) # 0
    BY <2>1, PlacedFinite, FS_EmptySet
  <2>3. s.bgs[b].invited[TeamOf[p]] = Cardinality(PlacedOf(s, b, TeamOf[p]))
    BY <1>1 DEF Inv, CountInv
  <2> QED BY <1>2, <2>2, <2>3
<1> QED BY <1>2, <1>3, DecreasedFacts

\* t is s with p out of the queue, his slot free, and his place free if he had one as invited.
LEMMA Dropped ==
  ASSUME NEW n \in Nat, NEW s, Inv(s, n), NEW p \in Player, Invites(s, p) # {},
         NEW e \in Seq(Event), NEW r, r = [s EXCEPT !.player[p].events = e],
         NEW t, t = RemovePlayer(FreeSlot(r, p), p, TRUE)
  PROVE  Inv(t, n)
<1>1. /\ s \in States /\ QueueInv(s) /\ s.player[p] \in PlayerRecord /\ ToSet(s.free) \subseteq Running(s)
      /\ PInv(s, p)
  BY InvTypes
<1>2. PICK x : x = [s.player[p] EXCEPT !.events = e]
  OBVIOUS
<1>3. x \in PlayerRecord /\ x.at = s.player[p].at /\ x.bg = s.player[p].bg
  BY <1>1, <1>2 DEF PlayerRecord
<1>4. Changed(s, r, p) /\ r.player[p] = x
  <2>1. r = [s EXCEPT !.player = [s.player EXCEPT ![p] = x]]
    BY <1>1, <1>2 DEF States
  <2>2. PICK y : y = [s EXCEPT !.player = [s.player EXCEPT ![p] = x]]
    OBVIOUS
  <2>3. Changed(s, y, p) /\ y.player[p] = x
    BY <1>1, <1>3, <2>2, SetPlayer
  <2> QED BY <2>1, <2>2, <2>3
<1>5. PICK f : f = FreeSlot(r, p)
  OBVIOUS
<1>6. Changed(r, f, p) /\ f.player[p].slot = Free /\ f.player[p].at = x.at /\ f.player[p].bg = x.bg
  BY <1>4, <1>5, FreeSlotFacts DEF Changed
<1>7. Changed(s, f, p)
  BY <1>4, <1>6 DEF Changed
<1>8. /\ Only(s, f, p) /\ QueueInv(f)
      /\ Invites(f, p) = Invites(s, p) /\ MemberOf(f, p) = MemberOf(s, p) /\ f \in States /\ f.bgs = s.bgs
      /\ f.free = s.free
  BY <1>1, <1>7, ChangedFacts DEF Changed
<1>9. Removed(f, t, p, TRUE)
  BY <1>5, <1>8, RemovePlayerFacts
<1>10. Only(s, t, p)
  BY <1>8, <1>9 DEF Only, Removed
<1>11. MemberOf(s, p) = {} /\ s.player[p].at \in {"world", "travel"}
  BY <1>1 DEF PInv, PlayerInv
<1>12. t.player[p].slot = Free /\ t.player[p].at = s.player[p].at /\ t.player[p].bg = s.player[p].bg
  BY <1>3, <1>6, <1>9 DEF Removed
<1>13. PInv(t, p)
  BY <1>1, <1>8, <1>9, <1>10, <1>11, <1>12 DEF PInv, PlayerInv, Only, Removed
<1>14. ASSUME NEW b \in Running(s) \ s.tainted
       PROVE  /\ ~Placed(t, p, b)
              /\ Placed(s, p, b) <=> b \in Invites(s, p)
              /\ \A u \in Team : t.bgs[b].invited[u] =
                    IF u = TeamOf[p] /\ Placed(s, p, b) THEN s.bgs[b].invited[u] - 1
                                                        ELSE s.bgs[b].invited[u]
  <2>1. ~Placed(t, p, b)
    BY <1>8, <1>9, <1>11, <1>12 DEF Placed, Removed
  <2>2. Placed(s, p, b) <=> b \in Invites(s, p)
    BY <1>11 DEF Placed
  <2>3. Placed(s, p, b) => Decreased(s.bgs[b].invited[TeamOf[p]]) = s.bgs[b].invited[TeamOf[p]] - 1
    BY PlacedCounted
  <2>4. b \in Running(f) /\ f.bgs = s.bgs /\ Invites(f, p) = Invites(s, p)
    BY <1>8 DEF Only
  <2>5. ASSUME NEW u \in Team
        PROVE  t.bgs[b].invited[u] = IF u = TeamOf[p] /\ Placed(s, p, b) THEN s.bgs[b].invited[u] - 1
                                                                        ELSE s.bgs[b].invited[u]
    <3>1. t.bgs[b].invited[u] = IF b \in Invites(s, p) /\ u = TeamOf[p]
                                THEN Decreased(s.bgs[b].invited[u])
                                ELSE s.bgs[b].invited[u]
      <4>1. t.bgs[b].invited[u] = IF TRUE /\ b \in Invites(f, p) /\ u = TeamOf[p]
                                  THEN Decreased(f.bgs[b].invited[u])
                                  ELSE f.bgs[b].invited[u]
        BY <1>9, <2>4 DEF Removed
      <4> QED BY <2>4, <4>1
    <3> QED BY <2>2, <2>3, <3>1
  <2> QED BY <2>1, <2>2, <2>5
<1>15. ToSet(t.free) \subseteq Running(t) /\ t \in States /\ QueueInv(t)
  BY <1>1, <1>8, <1>9, <1>10 DEF Only, Removed
<1> QED BY <1>10, <1>13, <1>14, <1>15, OnePlayer

LEMMA SamePlaces ==
  ASSUME NEW n \in Nat, NEW s, Inv(s, n), NEW t, Running(t) = Running(s), t.tainted = s.tainted,
         \A b \in Running(s) \ s.tainted : /\ t.bgs[b].invited = s.bgs[b].invited
                                           /\ \A p \in Player : Placed(t, p, b) <=> Placed(s, p, b)
  PROVE  CountInv(t, n)
<1>1. \A b \in Running(s) \ s.tainted : \A u : PlacedOf(t, b, u) = PlacedOf(s, b, u)
  BY DEF PlacedOf
<1> QED BY <1>1 DEF CountInv, Inv

LEMMA OnePlayerStays ==
  ASSUME NEW n \in Nat, NEW s, NEW t, NEW p \in Player, Inv(s, n),
         t \in States, ToSet(t.free) \subseteq Running(t), QueueInv(t), Only(s, t, p), PInv(t, p),
         \A b \in Running(s) \ s.tainted :
            /\ Placed(t, p, b) <=> Placed(s, p, b)
            /\ \A u \in Team : t.bgs[b].invited[u] = s.bgs[b].invited[u]
  PROVE  Inv(t, n)
<1>1. \A b \in Running(s) \ s.tainted :
            /\ Placed(t, p, b) => Placed(s, p, b)
            /\ \A u \in Team : t.bgs[b].invited[u] =
                  IF u = TeamOf[p] /\ Placed(s, p, b) /\ ~Placed(t, p, b)
                  THEN s.bgs[b].invited[u] - 1 ELSE s.bgs[b].invited[u]
  OBVIOUS
<1> QED BY <1>1, OnePlayer

-----------------------------------------------------------------------------
(* Joining the queue *)

\* t is s with a group of the players M of team u more, who have a slot for the queue.
JoinedAs(s, t, M, k, u, g) ==
    /\ t \in States /\ t.bgs = s.bgs /\ t.free = s.free /\ t.tainted = s.tainted
    /\ g \in Group
    /\ \A l \in Kind, v \in Team : \A x :
          x \in ToSet(t.queue[l][v]) <=> x \in ToSet(s.queue[l][v]) \/ (l = k /\ v = u /\ x = g)
    /\ \A p \in Player \ M : t.player[p] = s.player[p]
    /\ \A p \in M : /\ t.player[p].slot = None
                    /\ t.player[p].at = s.player[p].at /\ t.player[p].bg = s.player[p].bg

LEMMA JoinedFacts ==
  ASSUME NEW s \in States, NEW M \in SUBSET Player, M # {}, NEW k \in Kind, NEW u \in Team
  PROVE  JoinedAs(s, AddToSlot(AddGroup(s, M, k, u), M), M, k, u, [players |-> M, invited |-> None])
<1> PICK t : t = AddToSlot(AddGroup(s, M, k, u), M)
  OBVIOUS
<1> PICK g : g = [players |-> M, invited |-> None]
  OBVIOUS
<1>1. g \in Group
  BY DEF Group
<1>2. s.queue \in [Kind -> [Team -> Seq(Group)]] /\ s.player \in [Player -> PlayerRecord]
  BY DEF States
<1>3. PICK q : q = [s.queue EXCEPT ![k][u] = Append(@, g)]
  OBVIOUS
<1>4. PICK f : f = [p \in Player |-> IF p \in M THEN [s.player[p] EXCEPT !.slot = None] ELSE s.player[p]]
  OBVIOUS
<1>5. t = [s EXCEPT !.queue = q, !.player = f]
  BY <1>3, <1>4 DEF AddToSlot, AddGroup, States
<1>6. s.queue[k][u] \in Seq(Group)
  BY <1>2
<1>7. Append(s.queue[k][u], g) \in Seq(Group) /\ ToSet(Append(s.queue[k][u], g)) = ToSet(s.queue[k][u]) \cup {g}
  BY <1>1, <1>6, AppendFacts
<1>8. PICK a : a = Append(s.queue[k][u], g)
  OBVIOUS
<1>9. /\ q \in [Kind -> [Team -> Seq(Group)]]
      /\ \A l \in Kind, v \in Team : q[l][v] = IF l = k /\ v = u THEN a ELSE s.queue[l][v]
  BY <1>2, <1>3, <1>7, <1>8
<1>10. /\ f \in [Player -> PlayerRecord]
       /\ \A p \in Player \ M : f[p] = s.player[p]
       /\ \A p \in M : /\ f[p].slot = None
                       /\ f[p].at = s.player[p].at /\ f[p].bg = s.player[p].bg
  BY <1>2, <1>4 DEF PlayerRecord
<1>11. t.queue = q /\ t.player = f /\ t.bgs = s.bgs /\ t.free = s.free /\ t.tainted = s.tainted /\ t \in States
  BY <1>5, <1>9, <1>10 DEF States
<1>12. ASSUME NEW l \in Kind, NEW v \in Team, NEW x
       PROVE  x \in ToSet(t.queue[l][v]) <=> x \in ToSet(s.queue[l][v]) \/ (l = k /\ v = u /\ x = g)
  <2>1. CASE l = k /\ v = u
    <3>1. t.queue[l][v] = a /\ ToSet(a) = ToSet(s.queue[l][v]) \cup {g}
      BY <1>7, <1>8, <1>9, <1>11, <2>1
    <3> QED BY <2>1, <3>1
  <2>2. CASE ~(l = k /\ v = u)
    <3>1. t.queue[l][v] = s.queue[l][v]
      BY <1>9, <1>11, <2>2
    <3> QED BY <2>2, <3>1
  <2> QED BY <2>1, <2>2
<1> QED BY <1>1, <1>10, <1>11, <1>12 DEF JoinedAs

LEMMA Joined ==
  ASSUME NEW n \in Nat, NEW s, Inv(s, n), NEW M \in SUBSET Player, M # {}, NEW k \in Kind, NEW u \in Team,
         \A p \in M : TeamOf[p] = u /\ s.player[p].slot = Free /\ s.player[p].at # "offline"
  PROVE  Inv(AddToSlot(AddGroup(s, M, k, u), M), n)
<1>1. PICK t : t = AddToSlot(AddGroup(s, M, k, u), M)
  OBVIOUS
<1>2. PICK g : g = [players |-> M, invited |-> None]
  OBVIOUS
<1>3. s \in States /\ QueueInv(s) /\ ToSet(s.free) \subseteq Running(s) /\ Groups(s) \subseteq Group
  BY InvTypes, GroupsFacts
<1>4. /\ t \in States /\ t.bgs = s.bgs /\ t.free = s.free /\ t.tainted = s.tainted
      /\ g \in Group
      /\ \A l \in Kind, v \in Team : \A x :
               x \in ToSet(t.queue[l][v]) <=> x \in ToSet(s.queue[l][v]) \/ (l = k /\ v = u /\ x = g)
      /\ \A p \in Player \ M : t.player[p] = s.player[p]
      /\ \A p \in M : /\ t.player[p].slot = None
                      /\ t.player[p].at = s.player[p].at /\ t.player[p].bg = s.player[p].bg
  <2>1. JoinedAs(s, t, M, k, u, g)
    BY <1>1, <1>2, <1>3, JoinedFacts
  <2> QED BY <2>1 DEF JoinedAs
<1>5. \A p \in M : /\ s.player[p].slot = Free /\ s.player[p] \in PlayerRecord /\ PInv(s, p)
                   /\ Invites(s, p) = {} /\ MemberOf(s, p) = {} /\ s.player[p].at \in {"world", "travel"}
  <2> TAKE p \in M
  <2>1. s.player[p].slot = Free /\ s.player[p] \in PlayerRecord /\ PInv(s, p) /\ s.player[p].at # "offline"
        /\ Invites(s, p) \subseteq BG \cup {None} /\ MemberOf(s, p) \subseteq BG
    BY InvTypes
  <2>2. Free \notin BG \cup {None}
    BY BattleGroundConstants
  <2>3. Invites(s, p) = {}
    BY <2>1, <2>2 DEF PInv, PlayerInv
  <2>4. s.player[p].at # "to_bg"
    BY <2>1, <2>2 DEF PInv, PlayerInv, PlayerRecord
  <2>5. MemberOf(s, p) = {}
    BY <2>1, <2>2 DEF PInv, PlayerInv
  <2> QED BY <2>1, <2>3, <2>4, <2>5 DEF PlayerRecord
<1>6. \A x : x \in Groups(t) <=> x \in Groups(s) \/ x = g
  <2>1. /\ \A x : x \in Groups(t) <=> \E l \in Kind, v \in Team : x \in ToSet(t.queue[l][v])
        /\ \A x : x \in Groups(s) <=> \E l \in Kind, v \in Team : x \in ToSet(s.queue[l][v])
    BY <1>3, <1>4, GroupsFacts
  <2>2. \A l \in Kind, v \in Team : \A x :
               x \in ToSet(t.queue[l][v]) <=> x \in ToSet(s.queue[l][v]) \/ (l = k /\ v = u /\ x = g)
    BY <1>4
  <2>3. ASSUME NEW x, x \in Groups(t) PROVE x \in Groups(s) \/ x = g
    BY <2>1, <2>2, <2>3
  <2>4. ASSUME NEW x, x \in Groups(s) PROVE x \in Groups(t)
    BY <2>1, <2>2, <2>4
  <2>5. g \in Groups(t)
    BY <2>1, <2>2
  <2> QED BY <2>3, <2>4, <2>5
<1>7. g.players = M /\ g.invited = None
  BY <1>2
<1>8. /\ \A p, i : i \in Invites(s, p) <=> \E x \in Groups(s) : p \in x.players /\ x.invited = i
      /\ \A p, i : i \in Invites(t, p) <=> \E x \in Groups(t) : p \in x.players /\ x.invited = i
  BY <1>3, <1>4, GroupsFacts
<1>9. \A p \in Player : Invites(t, p) = IF p \in M THEN {None} ELSE Invites(s, p)
  <2>1. \A p, i : i \in Invites(t, p) <=> i \in Invites(s, p) \/ (p \in M /\ i = None)
    BY <1>6, <1>7, <1>8
  <2> QED BY <1>5, <2>1
<1>10. QueueInv(t)
  <2>1. ASSUME NEW l \in Kind, NEW v \in Team, NEW x \in ToSet(t.queue[l][v]), NEW p \in x.players
        PROVE  TeamOf[p] = v
    BY <1>3, <1>4, <1>7 DEF QueueInv
  <2>2. \A x \in Groups(s) : x.players \cap M = {}
    BY <1>5, <1>8
  <2>3. ASSUME NEW x \in Groups(t), NEW y \in Groups(t), x.players \cap y.players # {} PROVE x = y
    BY <1>3, <1>6, <1>7, <2>2, <2>3 DEF QueueInv
  <2> QED BY <2>1, <2>3 DEF QueueInv
<1>11. Running(t) = Running(s) /\ \A p : MemberOf(t, p) = MemberOf(s, p)
  <2>1. t.bgs = s.bgs
    BY <1>4
  <2>2. Running(t) = Running(s)
    BY <2>1 DEF Running
  <2> QED BY <2>1, <2>2, SameFacts
<1>12. ASSUME NEW p \in Player PROVE PInv(t, p)
  <2>1. CASE p \in M
    <3>1. Invites(t, p) = {None} /\ t.player[p].slot = None /\ MemberOf(t, p) = {} /\ MemberOf(s, p) = {}
          /\ t.player[p].at \in {"world", "travel"}
          /\ t.player[p].at = s.player[p].at /\ t.player[p].bg = s.player[p].bg
      BY <1>4, <1>5, <1>9, <1>11, <2>1
    <3>2. None \notin BG
      BY BattleGroundConstants
    <3> QED BY <1>4, <1>5, <1>11, <2>1, <3>1, <3>2 DEF PInv, PlayerInv
  <2>2. CASE p \notin M
    BY <1>4, <1>9, <1>11, <2>2 DEF PInv, Inv
  <2> QED BY <2>1, <2>2
<1>13. ASSUME NEW b \in Running(s) \ s.tainted, NEW p \in Player
       PROVE  Placed(t, p, b) <=> Placed(s, p, b)
  <2>1. b # None
    BY <1>3, RunningFacts
  <2>2. b \in Invites(t, p) <=> b \in Invites(s, p)
    BY <1>5, <1>9, <2>1
  <2>3. t.player[p].at = s.player[p].at /\ t.player[p].bg = s.player[p].bg
    BY <1>4
  <2> QED BY <1>11, <2>2, <2>3 DEF Placed
<1>14. CountInv(t, n)
  BY <1>4, <1>11, <1>13, SamePlaces
<1>15. ToSet(t.free) \subseteq Running(t)
  BY <1>3, <1>4, <1>11
<1> QED BY <1>1, <1>4, <1>10, <1>12, <1>14, <1>15 DEF Inv

-----------------------------------------------------------------------------
(* Entering a battleground *)

LEMMA Enters ==
  ASSUME NEW n \in Nat, NEW s, Inv(s, n), NEW p \in Player, NEW b \in Running(s) \cap Invites(s, p),
         s.player[p].slot # None, s.player[p].slot # Free
  PROVE  Inv([RemovePlayer(s, p, FALSE) EXCEPT !.player[p].bg = b, !.player[p].at = "to_bg"], n)
<1>0. PICK t : t = [RemovePlayer(s, p, FALSE) EXCEPT !.player[p].bg = b, !.player[p].at = "to_bg"]
  OBVIOUS
<1>1. /\ s \in States /\ QueueInv(s) /\ s.player[p] \in PlayerRecord /\ ToSet(s.free) \subseteq Running(s)
      /\ PInv(s, p) /\ Running(s) \subseteq BG
  BY InvTypes
<1>2. PICK r : r = RemovePlayer(s, p, FALSE)
  OBVIOUS
<1>3. Removed(s, r, p, FALSE)
  BY <1>1, <1>2, RemovePlayerFacts
<1>4. r \in States /\ r.player[p] \in PlayerRecord /\ r.player[p].slot = s.player[p].slot
  BY <1>3 DEF Removed, States
<1>5. PICK x : x = [r.player[p] EXCEPT !.bg = b, !.at = "to_bg"]
  OBVIOUS
<1>6. x \in PlayerRecord /\ x.slot = s.player[p].slot /\ x.bg = b /\ x.at = "to_bg"
  BY <1>1, <1>4, <1>5 DEF PlayerRecord
<1>7. t = [r EXCEPT !.player = [r.player EXCEPT ![p] = x]]
  BY <1>0, <1>2, <1>4, <1>5 DEF States
<1>8. Changed(r, t, p) /\ t.player[p] = x
  <2>1. PICK y : y = [r EXCEPT !.player = [r.player EXCEPT ![p] = x]]
    OBVIOUS
  <2>2. Changed(r, y, p) /\ y.player[p] = x
    BY <1>4, <1>6, <2>1, SetPlayer
  <2> QED BY <1>7, <2>1, <2>2
<1>9. Only(r, t, p) /\ QueueInv(t) /\ Invites(t, p) = {} /\ MemberOf(t, p) = MemberOf(s, p)
  BY <1>3, <1>4, <1>8, ChangedFacts DEF Removed
<1>10. Only(s, t, p) /\ t \in States /\ ToSet(t.free) \subseteq Running(t)
  BY <1>1, <1>3, <1>8, <1>9 DEF Only, Removed, Changed
<1>11. Invites(s, p) = {b}
  <2>1. \A i, j \in Invites(s, p) : i = j
    BY <1>1, GroupsFacts DEF QueueInv
  <2> QED BY <2>1
<1>12. s.player[p].slot = b /\ MemberOf(s, p) = {} /\ s.player[p].at \in {"world", "travel"} /\ b \in BG
  BY <1>1 DEF PInv, PlayerInv
<1>13. b # None
  BY <1>1, RunningFacts
<1>14. PInv(t, p)
  BY <1>6, <1>8, <1>9, <1>10, <1>12, <1>13 DEF PInv, PlayerInv, Only
<1>15. ASSUME NEW c \in Running(s) \ s.tainted
       PROVE  /\ Placed(t, p, c) <=> Placed(s, p, c)
              /\ \A u \in Team : t.bgs[c].invited[u] = s.bgs[c].invited[u]
  <2>1. Placed(t, p, c) <=> c = b
    BY <1>6, <1>8, <1>9, <1>12 DEF Placed
  <2>2. Placed(s, p, c) <=> c = b
    BY <1>11, <1>12 DEF Placed
  <2>3. \A u \in Team : r.bgs[c].invited[u] = s.bgs[c].invited[u]
    BY <1>3 DEF Removed
  <2> QED BY <1>8, <2>1, <2>2, <2>3 DEF Changed
<1>16. Inv(t, n)
  BY <1>9, <1>10, <1>14, <1>15, OnePlayerStays
<1> QED BY <1>0, <1>16

-----------------------------------------------------------------------------
(* Travelling *)

\* A player who is in no running battleground leaves his map.
LEMMA Travels ==
  ASSUME NEW n \in Nat, NEW s, Inv(s, n), NEW p \in Player, s.player[p].at = "world",
         s.player[p].bg \notin Running(s)
  PROVE  Inv([s EXCEPT !.player[p].at = "travel"], n)
<1>1. /\ s \in States /\ s.player[p] \in PlayerRecord /\ PInv(s, p)
  BY InvTypes
<1>2. PICK x : x = [s.player[p] EXCEPT !.at = "travel"]
  OBVIOUS
<1>3. x \in PlayerRecord /\ x.slot = s.player[p].slot /\ x.bg = s.player[p].bg /\ x.at = "travel"
      /\ x.events = s.player[p].events
  BY <1>1, <1>2 DEF PlayerRecord
<1>4. PICK t : t = [s EXCEPT !.player = [s.player EXCEPT ![p] = x]]
  OBVIOUS
<1>5. t = [s EXCEPT !.player[p].at = "travel"]
  BY <1>1, <1>2, <1>4 DEF States
<1>6. Changed(s, t, p) /\ t.player[p] = x
  BY <1>1, <1>3, <1>4, SetPlayer
<1>7. MemberOf(s, p) = {}
  BY <1>1, InvTypes DEF PInv, PlayerInv
<1>8. PlayerInv(t.player[p], Invites(s, p), MemberOf(s, p), Running(s), s.tainted)
  BY <1>1, <1>3, <1>6, <1>7 DEF PInv, PlayerInv
<1>9. \A b : Placed(t, p, b) <=> Placed(s, p, b)
  <2>1. Invites(t, p) = Invites(s, p) /\ MemberOf(t, p) = MemberOf(s, p)
    BY <1>1, <1>6, ChangedFacts
  <2> QED BY <1>3, <1>6, <2>1 DEF Placed
<1> QED BY <1>5, <1>6, <1>8, <1>9, ChangedPlayer

\* Who is at a teleport's end that is not a battleground's is in none.
LEMMA ArrivesElsewhere ==
  ASSUME NEW n \in Nat, NEW s, Inv(s, n), NEW p \in Player,
         s.player[p].at = "travel" \/ (s.player[p].at = "to_bg" /\ s.player[p].bg \notin Running(s)),
         NEW x \in PlayerRecord, x.at = "world", x.slot = s.player[p].slot, x.events = s.player[p].events,
         x.bg = None \/ (x.bg = s.player[p].bg /\ s.player[p].at = "to_bg"),
         NEW t, t = [s EXCEPT !.player = [s.player EXCEPT ![p] = x]]
  PROVE  Inv(t, n)
<1>1. /\ s \in States /\ s.player[p] \in PlayerRecord /\ PInv(s, p)
  BY InvTypes
<1>2. Changed(s, t, p) /\ t.player[p] = x
  <2>1. PICK y : y = [s EXCEPT !.player = [s.player EXCEPT ![p] = x]]
    OBVIOUS
  <2>2. Changed(s, y, p) /\ y.player[p] = x
    BY <1>1, <2>1, SetPlayer
  <2> QED BY <2>1, <2>2
<1>3. MemberOf(s, p) = {}
  BY <1>1 DEF PInv, PlayerInv
<1>4. x.bg \notin Running(s)
  BY <1>1, RunningFacts
<1>5. s.player[p].at = "to_bg" => Invites(s, p) = {}
  BY <1>1 DEF PInv, PlayerInv
<1>6. Invites(s, p) = {} => s.player[p].slot \in s.tainted \cup {Free}
  BY <1>1 DEF PInv, PlayerInv
<1>7. PlayerInv(t.player[p], Invites(s, p), MemberOf(s, p), Running(s), s.tainted)
  BY <1>1, <1>2, <1>3, <1>4, <1>6 DEF PInv, PlayerInv
<1>8. \A b \in Running(s) : Placed(t, p, b) <=> Placed(s, p, b)
  <2>1. Invites(t, p) = Invites(s, p) /\ MemberOf(t, p) = MemberOf(s, p)
    BY <1>1, <1>2, ChangedFacts
  <2> QED BY <1>2, <2>1 DEF Placed
<1> QED BY <1>2, <1>7, <1>8, ChangedPlayer

\* b gets the members M and the list offline, and nothing else changes.
WithMembers(s, b, M, l) ==
    [s EXCEPT !.bgs = [s.bgs EXCEPT ![b] = [s.bgs[b] EXCEPT !.members = M, !.offline = l]]]

MembersSet(s, t, b, M, l) ==
    /\ t \in States /\ t.player = s.player /\ t.queue = s.queue /\ t.free = s.free
    /\ t.tainted = s.tainted /\ Running(t) = Running(s)
    /\ t.bgs[b].members = M /\ t.bgs[b].offline = l /\ t.bgs[b].status = s.bgs[b].status
    /\ t.bgs[b].invited = s.bgs[b].invited
    /\ \A c \in BG \ {b} : t.bgs[c] = s.bgs[c]

LEMMA SetMembers ==
  ASSUME NEW s \in States, NEW b \in Running(s), NEW M \in SUBSET Player, NEW l \in Seq(Player)
  PROVE  MembersSet(s, WithMembers(s, b, M, l), b, M, l)
<1>1. b \in BG /\ s.bgs[b] \in BattleGround /\ s.bgs \in [BG -> BattleGround \cup {None}]
  BY RunningFacts DEF States
<1>2. PICK x : x = [s.bgs[b] EXCEPT !.members = M, !.offline = l]
  OBVIOUS
<1>3. /\ x \in BattleGround /\ x.members = M /\ x.offline = l /\ x.status = s.bgs[b].status
      /\ x.invited = s.bgs[b].invited /\ x # None
  BY <1>1, <1>2, NoneIsNothing DEF BattleGround
<1>4. PICK f : f = [s.bgs EXCEPT ![b] = x]
  OBVIOUS
<1>5. f \in [BG -> BattleGround \cup {None}] /\ f[b] = x /\ \A c \in BG \ {b} : f[c] = s.bgs[c]
  BY <1>1, <1>3, <1>4
<1>6. PICK t : t = [s EXCEPT !.bgs = f]
  OBVIOUS
<1>7. t \in States /\ t.player = s.player /\ t.queue = s.queue /\ t.free = s.free /\ t.tainted = s.tainted
      /\ t.bgs = f
  BY <1>5, <1>6 DEF States
<1>8. Running(t) = Running(s)
  <2>1. \A c \in BG : t.bgs[c] # None <=> s.bgs[c] # None
    BY <1>1, <1>3, <1>5, <1>7 DEF Running
  <2> QED BY <2>1 DEF Running
<1> QED BY <1>2, <1>3, <1>4, <1>5, <1>6, <1>7, <1>8 DEF WithMembers, MembersSet

\* Who arrives in the battleground is a member from now on.
LEMMA ArrivesInside ==
  ASSUME NEW n \in Nat, NEW s, Inv(s, n), NEW p \in Player, s.player[p].at = "to_bg",
         NEW b, b = s.player[p].bg, b \in Running(s),
         NEW x \in PlayerRecord, x.at = "world", x.slot = s.player[p].slot, x.bg = b,
         NEW t, t \in States, t.queue = s.queue, t.free = s.free, t.tainted = s.tainted,
         Running(t) = Running(s), t.player = [s.player EXCEPT ![p] = x],
         t.bgs[b].members = s.bgs[b].members \cup {p}, t.bgs[b].invited = s.bgs[b].invited,
         \A c \in BG \ {b} : t.bgs[c] = s.bgs[c]
  PROVE  Inv(t, n)
<1>1. /\ s \in States /\ s.player[p] \in PlayerRecord /\ PInv(s, p) /\ QueueInv(s) /\ Running(s) \subseteq BG
      /\ ToSet(s.free) \subseteq Running(s) /\ s.player \in [Player -> PlayerRecord]
  BY InvTypes DEF States
<1>2. x.slot = b /\ b \in BG /\ Invites(s, p) = {} /\ MemberOf(s, p) = {} /\ b # None
  BY <1>1, RunningFacts DEF PInv, PlayerInv
<1>3. QueueInv(t) /\ \A q : Invites(t, q) = Invites(s, q)
  BY <1>1, SameFacts
<1>4. MemberOf(t, p) = {b}
  <2>1. \A c \in Running(s) : c # b => t.bgs[c] = s.bgs[c] /\ p \notin s.bgs[c].members
    BY <1>1, <1>2 DEF MemberOf
  <2>2. p \in t.bgs[b].members
    OBVIOUS
  <2> QED BY <2>1, <2>2 DEF MemberOf
<1>5. \A q \in Player \ {p} : MemberOf(t, q) = MemberOf(s, q)
  <2>1. \A q \in Player \ {p}, c \in Running(s) : q \in t.bgs[c].members <=> q \in s.bgs[c].members
    BY <1>1
  <2> QED BY <2>1 DEF MemberOf
<1>6. t.player[p] = x /\ \A q \in Player \ {p} : t.player[q] = s.player[q]
  BY <1>1
<1>7. Only(s, t, p)
  BY <1>3, <1>5, <1>6 DEF Only
<1>8. PInv(t, p)
  BY <1>2, <1>3, <1>4, <1>6 DEF PInv, PlayerInv
<1>9. ASSUME NEW c \in Running(s) \ s.tainted
      PROVE  /\ Placed(t, p, c) <=> Placed(s, p, c)
             /\ \A u \in Team : t.bgs[c].invited[u] = s.bgs[c].invited[u]
  <2>1. Placed(t, p, c) <=> c = b
    BY <1>2, <1>3, <1>4, <1>6 DEF Placed
  <2>2. Placed(s, p, c) <=> c = b
    BY <1>2 DEF Placed
  <2>3. t.bgs[c].invited = s.bgs[c].invited
    BY <1>1
  <2> QED BY <2>1, <2>2, <2>3
<1> QED BY <1>1, <1>3, <1>7, <1>8, <1>9, OnePlayerStays

LEMMA ArrivedInv ==
  ASSUME NEW n \in Nat, NEW s, Inv(s, n), NEW p \in Player, s.player[p].at \in {"to_bg", "travel"}
  PROVE  Inv(Arrived(s, p), n) /\ Arrived(s, p).player[p].at = "world"
         /\ Arrived(s, p).player[p].slot = s.player[p].slot
<1>1. /\ s \in States /\ s.player[p] \in PlayerRecord /\ PInv(s, p) /\ s.player \in [Player -> PlayerRecord]
      /\ Running(s) \subseteq BG
  BY InvTypes DEF States
<1>2. PICK m : m = [s.player[p] EXCEPT !.at = "world", !.deserter = IF @ = "due" THEN "yes" ELSE @]
  OBVIOUS
<1>3. m \in PlayerRecord /\ m.at = "world" /\ m.slot = s.player[p].slot /\ m.bg = s.player[p].bg
      /\ m.events = s.player[p].events
  BY <1>1, <1>2 DEF PlayerRecord
<1>4. PICK t : t = Arrived(s, p)
  OBVIOUS
<1>5. CASE s.player[p].at = "to_bg" /\ s.player[p].bg \notin Running(s)
  <2>1. s.bgs[s.player[p].bg] = None
    BY <1>1, <1>5 DEF Running, PInv, PlayerInv, PlayerRecord
  <2>2. PICK x : x = [s.player[p] EXCEPT !.at = "world"]
    OBVIOUS
  <2>3. x \in PlayerRecord /\ x.at = "world" /\ x.slot = s.player[p].slot /\ x.bg = s.player[p].bg
        /\ x.events = s.player[p].events
    BY <1>1, <2>2 DEF PlayerRecord
  <2>4. t = [s EXCEPT !.player = [s.player EXCEPT ![p] = x]]
    BY <1>1, <1>4, <1>5, <2>1, <2>2 DEF Arrived, States
  <2>5. Inv(t, n)
    BY <1>5, <2>3, <2>4, ArrivesElsewhere
  <2>6. t.player[p] = x
    BY <1>1, <2>4 DEF States
  <2> QED BY <1>4, <2>3, <2>5, <2>6
<1>6. CASE s.player[p].at = "to_bg" /\ s.player[p].bg \in Running(s)
  <2>1. PICK b : b = s.player[p].bg
    OBVIOUS
  <2>2. s.bgs[b] # None /\ s.player[p].slot = b /\ b \in BG /\ s.bgs[b] \in BattleGround
        /\ s.bgs \in [BG -> BattleGround \cup {None}]
    BY <1>1, <1>6, <2>1, RunningFacts DEF Running, PInv, PlayerInv, States
  <2>3. PICK r : r = [s EXCEPT !.player = [s.player EXCEPT ![p] = m]]
    OBVIOUS
  <2>4. Changed(s, r, p) /\ r.player[p] = m /\ r.player = [s.player EXCEPT ![p] = m]
    BY <1>1, <1>3, <2>3, SetPlayer DEF States
  <2>5. r \in States /\ r.bgs = s.bgs /\ r.queue = s.queue /\ r.free = s.free /\ r.tainted = s.tainted
        /\ Running(r) = Running(s)
    BY <2>4 DEF Changed, Running
  <2>6. s.bgs[b].members \cup {p} \in SUBSET Player /\ s.bgs[b].offline \in Seq(Player)
    BY <2>2 DEF BattleGround
  <2>7. PICK y : y = WithMembers(r, b, s.bgs[b].members \cup {p}, s.bgs[b].offline)
    OBVIOUS
  <2>8. /\ y \in States /\ y.player = r.player /\ y.queue = r.queue /\ y.free = r.free
        /\ y.tainted = r.tainted /\ Running(y) = Running(r)
        /\ y.bgs[b].members = s.bgs[b].members \cup {p}
        /\ y.bgs[b].invited = r.bgs[b].invited
        /\ \A c \in BG \ {b} : y.bgs[c] = r.bgs[c]
    <3>1. b \in Running(r)
      BY <1>6, <2>1, <2>5
    <3>2. MembersSet(r, y, b, s.bgs[b].members \cup {p}, s.bgs[b].offline)
      BY <2>5, <2>6, <2>7, <3>1, SetMembers
    <3> QED BY <3>2 DEF MembersSet
  <2>9. t = y
    <3>1. t = [r EXCEPT !.bgs[b].members = @ \cup {p}]
      BY <1>2, <1>4, <1>6, <2>1, <2>2, <2>3 DEF Arrived, States
    <3>2. t = [r EXCEPT !.bgs = [r.bgs EXCEPT ![b] = [r.bgs[b] EXCEPT !.members = s.bgs[b].members \cup {p}]]]
      BY <2>2, <2>5, <3>1 DEF States
    <3>3. [r.bgs[b] EXCEPT !.members = s.bgs[b].members \cup {p}]
            = [r.bgs[b] EXCEPT !.members = s.bgs[b].members \cup {p}, !.offline = s.bgs[b].offline]
      BY <2>2, <2>5 DEF BattleGround
    <3> QED BY <2>7, <3>2, <3>3 DEF WithMembers
  <2>10. Inv(y, n)
    BY <1>3, <1>6, <2>1, <2>4, <2>5, <2>8, ArrivesInside
  <2> QED BY <1>3, <1>4, <2>4, <2>8, <2>9, <2>10
<1>7. CASE s.player[p].at = "travel"
  <2>1. PICK x : x = [m EXCEPT !.bg = None]
    OBVIOUS
  <2>2. x \in PlayerRecord /\ x.at = "world" /\ x.slot = s.player[p].slot /\ x.bg = None
        /\ x.events = s.player[p].events
    BY <1>3, <2>1 DEF PlayerRecord
  <2>3. t = [s EXCEPT !.player = [s.player EXCEPT ![p] = x]]
    BY <1>1, <1>2, <1>4, <1>7, <2>1 DEF Arrived, States
  <2>4. Inv(t, n)
    BY <1>7, <2>2, <2>3, ArrivesElsewhere
  <2>5. t.player[p] = x
    BY <1>1, <2>3 DEF States
  <2> QED BY <1>4, <2>2, <2>4, <2>5
<1> QED BY <1>5, <1>6, <1>7

-----------------------------------------------------------------------------
(* Leaving a battleground *)

LEMMA AddToFreeFacts ==
  ASSUME NEW s \in States, NEW b \in BG
  PROVE  LET t == AddToBGFreeSlotQueue(s, b) IN
         /\ t \in States /\ t.player = s.player /\ t.queue = s.queue /\ t.bgs = s.bgs
         /\ t.tainted = s.tainted /\ ToSet(t.free) = ToSet(s.free) \cup {b}
<1>1. s.free \in Seq(BG)
  BY DEF States
<1>2. CASE b \in ToSet(s.free)
  BY <1>2 DEF AddToBGFreeSlotQueue
<1>3. CASE b \notin ToSet(s.free)
  <2>1. PICK t : t = AddToBGFreeSlotQueue(s, b)
    OBVIOUS
  <2>2. PICK q : q = <<b>> \o s.free
    OBVIOUS
  <2>3. t = [s EXCEPT !.free = q]
    BY <1>3, <2>1, <2>2 DEF AddToBGFreeSlotQueue
  <2>4. q \in Seq(BG)
    BY <1>1, <2>2
  <2>5. t \in States /\ t.player = s.player /\ t.queue = s.queue /\ t.bgs = s.bgs /\ t.tainted = s.tainted
        /\ t.free = q
    BY <2>3, <2>4 DEF States
  <2>6. Len(s.free) \in Nat /\ Len(q) = Len(s.free) + 1 /\ q[1] = b
        /\ \A i \in 1 .. Len(s.free) : q[i + 1] = s.free[i]
    BY <1>1, <2>2
  <2>7. /\ \A x : x \in ToSet(q) <=> \E i \in 1 .. Len(q) : x = q[i]
        /\ \A x : x \in ToSet(s.free) <=> \E i \in 1 .. Len(s.free) : x = s.free[i]
    BY <1>1, <2>4, SeqFacts
  <2>8. ASSUME NEW x, x \in ToSet(q) PROVE x \in ToSet(s.free) \cup {b}
    <3>1. PICK i \in 1 .. Len(s.free) + 1 : x = q[i]
      BY <2>6, <2>7, <2>8
    <3>2. CASE i = 1
      BY <2>6, <3>1, <3>2
    <3>3. CASE i # 1
      <4>1. i - 1 \in 1 .. Len(s.free) /\ (i - 1) + 1 = i
        BY <2>6, <3>1, <3>3
      <4>2. q[i] = s.free[i - 1]
        BY <2>6, <4>1
      <4> QED BY <2>7, <3>1, <4>1, <4>2
    <3> QED BY <3>2, <3>3
  <2>9. ASSUME NEW x, x \in ToSet(s.free) \cup {b} PROVE x \in ToSet(q)
    <3>1. CASE x = b
      <4>1. 1 \in 1 .. Len(q)
        BY <2>6
      <4> QED BY <2>6, <2>7, <3>1, <4>1
    <3>2. CASE x # b
      <4>1. PICK i \in 1 .. Len(s.free) : x = s.free[i]
        BY <2>7, <2>9, <3>2
      <4>2. i + 1 \in 1 .. Len(q)
        BY <2>6, <4>1
      <4> QED BY <2>6, <2>7, <4>1, <4>2
    <3> QED BY <3>1, <3>2
  <2> QED BY <2>1, <2>5, <2>8, <2>9
<1> QED BY <1>2, <1>3

\* t is s without the member p of b, and his place in the counters; he may be gone from the map.
Left(s, t, b, p) ==
    /\ t \in States /\ t.queue = s.queue /\ t.tainted = s.tainted /\ Running(t) = Running(s)
    /\ ToSet(t.free) \subseteq ToSet(s.free) \cup {b}
    /\ \A q \in Player \ {p} : t.player[q] = s.player[q]
    /\ t.bgs[b].members = s.bgs[b].members \ {p}
    /\ \A c \in Running(s) \ {b} : t.bgs[c].members = s.bgs[c].members
    /\ t.bgs[b].status = s.bgs[b].status /\ t.bgs[b].offline = s.bgs[b].offline
    /\ \A c \in Running(s), v \in Team :
          t.bgs[c].invited[v] = IF c = b /\ v = TeamOf[p] THEN Decreased(s.bgs[c].invited[v])
                                                          ELSE s.bgs[c].invited[v]

LEMMA CountedFacts ==
  ASSUME NEW s \in States, NEW b \in Running(s), NEW p \in Player, NEW w \in BOOLEAN
  PROVE  LET r == DecreaseInvitedCount([s EXCEPT !.bgs[b].members = @ \ {p}], b, TeamOf[p])
             t == IF w THEN FreeSlot(r, p) ELSE r
         IN /\ Left(s, t, b, p) /\ t.free = s.free
            /\ t.player[p].at = s.player[p].at /\ t.player[p].bg = s.player[p].bg
            /\ t.player[p].slot = IF w THEN Free ELSE s.player[p].slot
<1>1. /\ b \in BG /\ s.bgs[b] \in BattleGround /\ s.bgs \in [BG -> BattleGround \cup {None}]
      /\ TeamOf[p] \in Team /\ s.player[p] \in PlayerRecord
  BY BattleGroundConstants, RunningFacts DEF States
<1>2. PICK M, l : M = s.bgs[b].members \ {p} /\ l = s.bgs[b].offline
  OBVIOUS
<1>3. M \in SUBSET Player /\ l \in Seq(Player)
  BY <1>1, <1>2 DEF BattleGround
<1>4. PICK y : y = WithMembers(s, b, M, l)
  OBVIOUS
<1>5. MembersSet(s, y, b, M, l)
  BY <1>3, <1>4, SetMembers
<1>6. y = [s EXCEPT !.bgs[b].members = @ \ {p}]
  <2>1. [s.bgs[b] EXCEPT !.members = M] = [s.bgs[b] EXCEPT !.members = M, !.offline = l]
    BY <1>1, <1>2 DEF BattleGround
  <2>2. y = [s EXCEPT !.bgs = [s.bgs EXCEPT ![b] = [s.bgs[b] EXCEPT !.members = M]]]
    BY <1>4, <2>1 DEF WithMembers
  <2> QED BY <1>1, <1>2, <2>2 DEF States
<1>7. y \in States /\ b \in Running(y) /\ Running(y) = Running(s)
  BY <1>5 DEF MembersSet
<1>8. PICK r : r = DecreaseInvitedCount(y, b, TeamOf[p])
  OBVIOUS
<1>9. /\ Recounted(y, r)
      /\ \A c \in Running(y), v \in Team :
            r.bgs[c].invited[v] = IF c = b /\ v = TeamOf[p] THEN Decreased(y.bgs[c].invited[v])
                                                            ELSE y.bgs[c].invited[v]
  BY <1>1, <1>7, <1>8, DecreaseFacts
<1>10. /\ \A c \in Running(s) : y.bgs[c].invited = s.bgs[c].invited
       /\ \A c \in Running(s) \ {b} : y.bgs[c].members = s.bgs[c].members
  BY <1>5, RunningFacts DEF MembersSet
<1>11. Left(s, r, b, p) /\ r.player = s.player /\ r.free = s.free
  <2>1. /\ r \in States /\ r.queue = s.queue /\ r.tainted = s.tainted /\ Running(r) = Running(s)
        /\ r.player = s.player /\ r.free = s.free
        /\ r.bgs[b].members = s.bgs[b].members \ {p}
        /\ r.bgs[b].status = s.bgs[b].status /\ r.bgs[b].offline = s.bgs[b].offline
    BY <1>2, <1>5, <1>7, <1>9 DEF Recounted, MembersSet
  <2>2. \A c \in Running(s) \ {b} : r.bgs[c].members = s.bgs[c].members
    BY <1>7, <1>9, <1>10 DEF Recounted
  <2>3. ASSUME NEW c \in Running(s), NEW v \in Team
        PROVE  r.bgs[c].invited[v] = IF c = b /\ v = TeamOf[p] THEN Decreased(s.bgs[c].invited[v])
                                                               ELSE s.bgs[c].invited[v]
    BY <1>7, <1>9, <1>10
  <2> QED BY <2>1, <2>2, <2>3 DEF Left
<1>12. PICK t : t = IF w THEN FreeSlot(r, p) ELSE r
  OBVIOUS
<1>13. /\ Left(s, t, b, p) /\ t.free = s.free
       /\ t.player[p].at = s.player[p].at /\ t.player[p].bg = s.player[p].bg
       /\ t.player[p].slot = IF w THEN Free ELSE s.player[p].slot
  <2>1. CASE w
    <3>1. t = FreeSlot(r, p) /\ r \in States
      BY <1>11, <1>12, <2>1 DEF Left
    <3>2. Changed(r, t, p) /\ t.player[p].slot = Free /\ t.player[p].at = r.player[p].at
          /\ t.player[p].bg = r.player[p].bg
      BY <3>1, FreeSlotFacts
    <3>3. t \in States /\ t.queue = r.queue /\ t.bgs = r.bgs /\ t.free = r.free /\ t.tainted = r.tainted
          /\ \A q \in Player \ {p} : t.player[q] = r.player[q]
      BY <3>2 DEF Changed
    <3>4. Running(t) = Running(s)
      BY <1>11, <3>3 DEF Running, Left
    <3>5. Left(s, t, b, p)
      BY <1>11, <3>3, <3>4 DEF Left
    <3> QED BY <1>11, <2>1, <3>2, <3>3, <3>5
  <2>2. CASE ~w
    <3>1. t = r
      BY <1>12, <2>2
    <3> QED BY <1>11, <2>2, <3>1
  <2> QED BY <2>1, <2>2
<1> QED BY <1>6, <1>8, <1>12, <1>13

\* A member who has left, and is not on his way.
LEMMA LeftInv ==
  ASSUME NEW n \in Nat, NEW s, Inv(s, n), NEW b \in Running(s), NEW p \in s.bgs[b].members,
         NEW t, Left(s, t, b, p),
         \/ /\ s.player[p].at = "world" /\ t.player[p].at \in {"world", "travel"}
            /\ t.player[p].bg = None /\ t.player[p].slot = Free
         \/ /\ s.player[p].at # "world" /\ t.player[p].at = s.player[p].at
            /\ t.player[p].slot = s.player[p].slot
  PROVE  Inv(t, n)
<1>1. s.bgs[b] \in BattleGround /\ s \in States /\ QueueInv(s) /\ ToSet(s.free) \subseteq Running(s)
      /\ Running(s) \subseteq BG
  BY InvTypes, RunningFacts
<1>2. p \in Player
  BY <1>1 DEF BattleGround
<1>3. PInv(s, p) /\ s.player[p] \in PlayerRecord /\ MemberOf(s, p) \subseteq Running(s)
  BY <1>2, InvTypes
<1>4. b \in MemberOf(s, p)
  BY DEF MemberOf
<1>5. /\ Invites(s, p) = {} /\ MemberOf(s, p) = {b}
      /\ s.player[p].at = "offline" \/ (s.player[p].at = "world" /\ s.player[p].slot = b)
  <2>1. Invites(s, p) = {}
    BY <1>3, <1>4 DEF PInv, PlayerInv
  <2>2. \A c \in MemberOf(s, p) : s.player[p].bg = c
    BY <1>3 DEF PInv, PlayerInv
  <2>3. s.player[p].at = "offline" \/ (s.player[p].at = "world" /\ s.player[p].slot = b)
    BY <1>3, <1>4 DEF PInv, PlayerInv
  <2> QED BY <1>4, <2>1, <2>2, <2>3
<1>6. QueueInv(t) /\ \A q : Invites(t, q) = Invites(s, q)
  BY <1>1, SameFacts DEF Left
<1>7. MemberOf(t, p) = {}
  <2>1. \A c \in Running(s) \ {b} : p \notin s.bgs[c].members
    BY <1>5 DEF MemberOf
  <2> QED BY <2>1 DEF MemberOf, Left
<1>8. \A q \in Player \ {p} : MemberOf(t, q) = MemberOf(s, q)
  <2>1. \A q \in Player \ {p}, c \in Running(s) : q \in t.bgs[c].members <=> q \in s.bgs[c].members
    BY DEF Left
  <2> QED BY <2>1 DEF MemberOf, Left
<1>9. Only(s, t, p)
  BY <1>6, <1>8 DEF Only, Left
<1>10. None \notin Running(s) /\ Free \notin Running(s)
  BY <1>1, RunningFacts
<1>11. PInv(t, p)
  <2>1. CASE s.player[p].at = "world"
    <3>1. t.player[p].at \in {"world", "travel"} /\ t.player[p].bg = None /\ t.player[p].slot = Free
      BY <2>1
    <3> QED BY <1>5, <1>6, <1>7, <1>9, <1>10, <3>1 DEF PInv, PlayerInv, Only
  <2>2. CASE s.player[p].at # "world"
    <3>1. t.player[p].at = "offline" /\ t.player[p].slot = s.player[p].slot /\ s.player[p].at = "offline"
      BY <1>5, <2>2
    <3>2. s.player[p].slot \in s.tainted \cup {Free}
      BY <1>3, <1>5, <3>1 DEF PInv, PlayerInv
    <3> QED BY <1>5, <1>6, <1>7, <1>9, <3>1, <3>2 DEF PInv, PlayerInv, Only
  <2> QED BY <2>1, <2>2
<1>12. t.player[p].at # "to_bg"
  BY <1>5
<1>13. ASSUME NEW c \in Running(s) \ s.tainted
       PROVE  /\ Placed(t, p, c) => Placed(s, p, c)
              /\ \A u \in Team : t.bgs[c].invited[u] =
                    IF u = TeamOf[p] /\ Placed(s, p, c) /\ ~Placed(t, p, c)
                    THEN s.bgs[c].invited[u] - 1 ELSE s.bgs[c].invited[u]
  <2>1. ~Placed(t, p, c)
    BY <1>5, <1>6, <1>7, <1>12 DEF Placed
  <2>2. Placed(s, p, c) <=> c = b
    BY <1>5 DEF Placed
  <2>3. Placed(s, p, c) => Decreased(s.bgs[c].invited[TeamOf[p]]) = s.bgs[c].invited[TeamOf[p]] - 1
    BY <1>2, PlacedCounted
  <2>4. ASSUME NEW u \in Team
        PROVE  t.bgs[c].invited[u] =
                    IF u = TeamOf[p] /\ Placed(s, p, c) /\ ~Placed(t, p, c)
                    THEN s.bgs[c].invited[u] - 1 ELSE s.bgs[c].invited[u]
    <3>1. t.bgs[c].invited[u] = IF c = b /\ u = TeamOf[p] THEN Decreased(s.bgs[c].invited[u])
                                                          ELSE s.bgs[c].invited[u]
      BY DEF Left
    <3> QED BY <2>1, <2>2, <2>3, <3>1
  <2> QED BY <2>1, <2>4
<1>14. t \in States /\ ToSet(t.free) \subseteq Running(t)
  BY <1>1 DEF Left
<1> QED BY <1>2, <1>6, <1>9, <1>11, <1>13, <1>14, OnePlayer

AtLeave(s, t, b, p, away) ==
    /\ Running(t) = Running(s) /\ t.tainted = s.tainted
    /\ \A q \in Player \ {p} : t.player[q] = s.player[q]
    /\ t.bgs[b].members = s.bgs[b].members \ {p} /\ t.bgs[b].status = s.bgs[b].status
    /\ t.bgs[b].offline = s.bgs[b].offline
    /\ s.player[p].at # "world" => /\ t.player[p].at = s.player[p].at /\ t.player[p].slot = s.player[p].slot
                                   /\ t.player[p].bg = s.player[p].bg
    /\ s.player[p].at = "world" => /\ t.player[p].bg = None
                                   /\ t.player[p].at = IF away THEN "travel" ELSE "world"

LEMMA RemovePlayerAtLeaveInv ==
  ASSUME NEW n \in Nat, NEW s, Inv(s, n), NEW b \in Running(s), NEW p \in Player,
         NEW transport \in BOOLEAN, NEW far \in BOOLEAN,
         p \in s.bgs[b].members \/ s.player[p].at # "world" \/ s.player[p].bg \in {b, None}
  PROVE  LET t == RemovePlayerAtLeave(s, b, p, transport, far) IN
         Inv(t, n) /\ AtLeave(s, t, b, p, transport /\ far)
<1>1. /\ s \in States /\ Running(s) \subseteq BG /\ s.player[p] \in PlayerRecord /\ PInv(s, p)
      /\ s.bgs[b] \in BattleGround /\ None \notin Running(s) /\ MemberOf(s, p) \subseteq Running(s)
  BY InvTypes, RunningFacts
<1>2. PICK t : t = RemovePlayerAtLeave(s, b, p, transport, far)
  OBVIOUS
<1>3. CASE p \notin s.bgs[b].members
  <2>1. b \notin MemberOf(s, p)
    BY <1>3 DEF MemberOf
  <2>2. s.bgs[b].members = s.bgs[b].members \ {p}
    BY <1>3
  <2>3. CASE s.player[p].at # "world"
    <3>1. t = s
      BY <1>2, <1>3, <2>3 DEF RemovePlayerAtLeave, InWorld
    <3> QED BY <1>2, <2>2, <2>3, <3>1 DEF AtLeave
  <2>4. CASE s.player[p].at = "world"
    <3>1. s.player[p].bg = None \/ (s.player[p].bg = b /\ b \in s.tainted)
      BY <1>1, <1>3, <2>1, <2>4 DEF PInv, PlayerInv
    <3>2. PICK x : x = [s.player[p] EXCEPT !.bg = None, !.at = IF transport /\ far THEN "travel" ELSE @]
      OBVIOUS
    <3>3. x \in PlayerRecord /\ x.bg = None /\ x.at = (IF transport /\ far THEN "travel" ELSE "world")
          /\ x.slot = s.player[p].slot /\ x.events = s.player[p].events
      BY <1>1, <2>4, <3>2 DEF PlayerRecord
    <3>4. PICK y : y = [s EXCEPT !.player = [s.player EXCEPT ![p] = x]]
      OBVIOUS
    <3>5. t = [s EXCEPT !.player[p].bg = None, !.player[p].at = IF transport /\ far THEN "travel" ELSE @]
      BY <1>2, <1>3, <2>4 DEF RemovePlayerAtLeave, InWorld
    <3>6. t = y
      BY <1>1, <3>2, <3>4, <3>5 DEF States
    <3>7. Changed(s, y, p) /\ y.player[p] = x
      BY <1>1, <3>3, <3>4, SetPlayer
    <3>8. MemberOf(s, p) = {}
      BY <1>1, <2>1, <3>1 DEF PInv, PlayerInv
    <3>9. Invites(s, p) = {} => s.player[p].slot \in s.tainted \cup {Free}
      BY <1>1, <3>1 DEF PInv, PlayerInv
    <3>10. x.at \in {"world", "travel"} /\ s.player[p].at = "world"
      BY <2>4, <3>3
    <3>11. PlayerInv(y.player[p], Invites(s, p), MemberOf(s, p), Running(s), s.tainted)
      BY <1>1, <3>3, <3>7, <3>8, <3>9, <3>10 DEF PInv, PlayerInv
    <3>12. \A c : Placed(y, p, c) <=> Placed(s, p, c)
      <4>1. Invites(y, p) = Invites(s, p) /\ MemberOf(y, p) = MemberOf(s, p)
        BY <1>1, <3>7, ChangedFacts
      <4> QED BY <3>7, <3>10, <4>1 DEF Placed
    <3>13. Inv(y, n)
      BY <3>7, <3>11, <3>12, ChangedPlayer
    <3>14. Running(y) = Running(s)
      BY <3>7 DEF Changed, Running
    <3>15. AtLeave(s, y, b, p, transport /\ far)
      BY <2>2, <2>4, <3>3, <3>7, <3>14 DEF AtLeave, Changed
    <3> QED BY <1>2, <3>6, <3>13, <3>15
  <2> QED BY <2>3, <2>4
<1>4. CASE p \in s.bgs[b].members
  <2>1. PICK w \in BOOLEAN : w = InWorld(s, p)
    BY DEF InWorld
  <2>2. w <=> s.player[p].at = "world"
    BY <2>1 DEF InWorld
  <2>3. PICK r : r = DecreaseInvitedCount([s EXCEPT !.bgs[b].members = @ \ {p}], b, TeamOf[p])
    OBVIOUS
  <2>4. PICK told : told = IF w THEN FreeSlot(r, p) ELSE r
    OBVIOUS
  <2>5. /\ Left(s, told, b, p) /\ told.free = s.free
        /\ told.player[p].at = s.player[p].at /\ told.player[p].bg = s.player[p].bg
        /\ told.player[p].slot = IF w THEN Free ELSE s.player[p].slot
    BY <1>1, <2>3, <2>4, CountedFacts
  <2>6. PICK left : left = IF s.bgs[b].status = "WAIT_LEAVE" THEN told
                           ELSE ScheduleQueueUpdate(AddToBGFreeSlotQueue(told, b))
    OBVIOUS
  <2>7. /\ left \in States /\ left.player = told.player /\ left.queue = told.queue /\ left.bgs = told.bgs
        /\ left.tainted = told.tainted /\ ToSet(left.free) \subseteq ToSet(s.free) \cup {b}
    <3>1. told \in States /\ b \in BG
      BY <1>1, <2>5 DEF Left
    <3>2. CASE s.bgs[b].status = "WAIT_LEAVE"
      <4>1. left = told
        BY <2>6, <3>2
      <4> QED BY <2>5, <3>1, <4>1
    <3>3. CASE s.bgs[b].status # "WAIT_LEAVE"
      <4>1. PICK z : z = AddToBGFreeSlotQueue(told, b)
        OBVIOUS
      <4>2. left = ScheduleQueueUpdate(z)
        BY <2>6, <3>3, <4>1
      <4>3. /\ z \in States /\ z.player = told.player /\ z.queue = told.queue /\ z.bgs = told.bgs
            /\ z.tainted = told.tainted /\ ToSet(z.free) = ToSet(told.free) \cup {b}
        BY <3>1, <4>1, AddToFreeFacts
      <4> QED BY <2>5, <4>2, <4>3, ScheduleFacts
    <3> QED BY <3>2, <3>3
  <2>8. Running(left) = Running(told)
    BY <2>7 DEF Running
  <2>9. Left(s, left, b, p)
    BY <2>5, <2>7, <2>8 DEF Left
  <2>10. t = IF ~w THEN left
             ELSE [left EXCEPT !.player[p].bg = None, !.player[p].at = IF transport /\ far THEN "travel" ELSE @]
    <3> DEFINE c == DecreaseInvitedCount([s EXCEPT !.bgs[b].members = @ \ {p}], b, TeamOf[p])
               o == IF InWorld(s, p) THEN FreeSlot(c, p) ELSE c
               L == IF p \notin s.bgs[b].members THEN s
                    ELSE IF s.bgs[b].status = "WAIT_LEAVE" THEN o
                    ELSE ScheduleQueueUpdate(AddToBGFreeSlotQueue(o, b))
    <3>1. t = IF ~InWorld(s, p) THEN L
              ELSE [L EXCEPT !.player[p].bg = None, !.player[p].at = IF transport /\ far THEN "travel" ELSE @]
      BY <1>2, Zenon DEF RemovePlayerAtLeave
    <3>2. o = told
      BY <2>1, <2>3, <2>4
    <3> HIDE DEF o
    <3>3. L = left
      BY <1>4, <2>6, <3>2
    <3> HIDE DEF L
    <3> QED BY <2>1, <3>1, <3>3
  <2>11. CASE ~w
    <3>1. t = left
      BY <2>10, <2>11
    <3>2. Inv(left, n)
      BY <1>4, <2>2, <2>5, <2>7, <2>9, <2>11, LeftInv
    <3>3. AtLeave(s, left, b, p, transport /\ far)
      BY <2>2, <2>5, <2>7, <2>9, <2>11 DEF AtLeave, Left
    <3> QED BY <1>2, <3>1, <3>2, <3>3
  <2>12. CASE w
    <3>1. left.player[p] \in PlayerRecord /\ left.player[p].at = "world" /\ left.player[p].slot = Free
      BY <2>2, <2>5, <2>7, <2>12 DEF States
    <3>2. PICK x : x = [left.player[p] EXCEPT !.bg = None, !.at = IF transport /\ far THEN "travel" ELSE @]
      OBVIOUS
    <3>3. x \in PlayerRecord /\ x.bg = None /\ x.at = (IF transport /\ far THEN "travel" ELSE "world")
          /\ x.slot = Free
      BY <3>1, <3>2 DEF PlayerRecord
    <3>4. PICK y : y = [left EXCEPT !.player = [left.player EXCEPT ![p] = x]]
      OBVIOUS
    <3>5. t = [left EXCEPT !.player[p].bg = None, !.player[p].at = IF transport /\ far THEN "travel" ELSE @]
      BY <2>10, <2>12
    <3>6. t = y
      BY <2>7, <3>2, <3>4, <3>5 DEF States
    <3>7. Changed(left, y, p) /\ y.player[p] = x
      BY <2>7, <3>3, <3>4, SetPlayer
    <3>8. /\ y \in States /\ y.queue = left.queue /\ y.bgs = left.bgs /\ y.free = left.free
          /\ y.tainted = left.tainted /\ Running(y) = Running(left)
          /\ \A q \in Player \ {p} : y.player[q] = left.player[q]
      BY <3>7 DEF Changed, Running
    <3>9. Left(s, y, b, p)
      BY <2>9, <3>8 DEF Left
    <3>10. y.player[p].at \in {"world", "travel"} /\ y.player[p].bg = None /\ y.player[p].slot = Free
      BY <3>3, <3>7
    <3>11. Inv(y, n)
      BY <1>4, <2>2, <2>12, <3>9, <3>10, LeftInv
    <3>12. AtLeave(s, y, b, p, transport /\ far)
      BY <2>2, <2>12, <3>3, <3>7, <3>9 DEF AtLeave, Left
    <3> QED BY <1>2, <3>6, <3>11, <3>12
  <2> QED BY <2>11, <2>12
<1> QED BY <1>3, <1>4

-----------------------------------------------------------------------------
(* What leaves every place as it is *)

LEMMA SameCounters ==
  ASSUME NEW n \in Nat, NEW s, Inv(s, n), NEW t \in States, t.player = s.player, t.queue = s.queue,
         ToSet(t.free) \subseteq Running(s), t.tainted = s.tainted, Running(t) = Running(s),
         \A c \in Running(s) : t.bgs[c].members = s.bgs[c].members /\ t.bgs[c].invited = s.bgs[c].invited
  PROVE  Inv(t, n)
<1>1. QueueInv(t) /\ \A q : Invites(t, q) = Invites(s, q) /\ MemberOf(t, q) = MemberOf(s, q)
  BY SameFacts DEF Inv
<1>2. \A q \in Player : PInv(t, q)
  BY <1>1 DEF Inv, PInv
<1>3. \A b, q : Placed(t, q, b) <=> Placed(s, q, b)
  BY <1>1 DEF Placed
<1>4. CountInv(t, n)
  BY <1>3, SamePlaces
<1> QED BY <1>1, <1>2, <1>4 DEF Inv

\* b becomes x, which has the same members and counters.
LEMMA SetBG ==
  ASSUME NEW n \in Nat, NEW s, Inv(s, n), NEW b \in Running(s), NEW x \in BattleGround,
         x.members = s.bgs[b].members, x.invited = s.bgs[b].invited,
         NEW t, t = [s EXCEPT !.bgs = [s.bgs EXCEPT ![b] = x]]
  PROVE  /\ Inv(t, n) /\ t.player = s.player /\ t.queue = s.queue /\ t.free = s.free
         /\ t.tainted = s.tainted /\ Running(t) = Running(s) /\ t.bgs[b] = x
<1>1. /\ s \in States /\ s.bgs \in [BG -> BattleGround \cup {None}] /\ b \in BG /\ s.bgs[b] # None
      /\ ToSet(s.free) \subseteq Running(s)
  BY InvTypes DEF States, Running
<1>2. PICK f : f = [s.bgs EXCEPT ![b] = x]
  OBVIOUS
<1>3. f \in [BG -> BattleGround \cup {None}] /\ f[b] = x /\ (\A c \in BG \ {b} : f[c] = s.bgs[c]) /\ x # None
  BY <1>1, <1>2, NoneIsNothing
<1>4. PICK y : y = [s EXCEPT !.bgs = f]
  OBVIOUS
<1>5. /\ y \in States /\ y.player = s.player /\ y.queue = s.queue /\ y.free = s.free
      /\ y.tainted = s.tainted /\ y.bgs = f
  BY <1>1, <1>3, <1>4 DEF States
<1>6. Running(y) = Running(s)
  BY <1>1, <1>3, <1>5 DEF Running
<1>7. \A c \in Running(s) : y.bgs[c].members = s.bgs[c].members /\ y.bgs[c].invited = s.bgs[c].invited
  BY <1>3, <1>5 DEF Running
<1>8. Inv(y, n)
  BY <1>1, <1>5, <1>6, <1>7, SameCounters
<1>9. y = t
  BY <1>2, <1>4
<1> QED BY <1>3, <1>5, <1>6, <1>8, <1>9

LEMMA SetStatus ==
  ASSUME NEW n \in Nat, NEW s, Inv(s, n), NEW b \in Running(s), NEW st \in Status
  PROVE  LET t == [s EXCEPT !.bgs[b].status = st] IN
         Inv(t, n) /\ t.player = s.player /\ Running(t) = Running(s)
<1>1. s \in States /\ s.bgs \in [BG -> BattleGround \cup {None}] /\ b \in BG /\ s.bgs[b] \in BattleGround
  BY InvTypes, RunningFacts DEF States
<1>2. PICK x : x = [s.bgs[b] EXCEPT !.status = st]
  OBVIOUS
<1>3. x \in BattleGround /\ x.members = s.bgs[b].members /\ x.invited = s.bgs[b].invited
  BY <1>1, <1>2 DEF BattleGround
<1>4. PICK t : t = [s EXCEPT !.bgs = [s.bgs EXCEPT ![b] = x]]
  OBVIOUS
<1>5. t = [s EXCEPT !.bgs[b].status = st]
  BY <1>1, <1>2, <1>4 DEF States
<1>6. Inv(t, n) /\ t.player = s.player /\ Running(t) = Running(s)
  BY <1>3, <1>4, SetBG
<1> QED BY <1>5, <1>6

LEMMA SetOffline ==
  ASSUME NEW n \in Nat, NEW s, Inv(s, n), NEW b \in Running(s), NEW l \in Seq(Player)
  PROVE  LET t == [s EXCEPT !.bgs[b].offline = l] IN
         Inv(t, n) /\ t.player = s.player /\ Running(t) = Running(s)
<1>1. s \in States /\ s.bgs \in [BG -> BattleGround \cup {None}] /\ b \in BG /\ s.bgs[b] \in BattleGround
  BY InvTypes, RunningFacts DEF States
<1>2. PICK x : x = [s.bgs[b] EXCEPT !.offline = l]
  OBVIOUS
<1>3. x \in BattleGround /\ x.members = s.bgs[b].members /\ x.invited = s.bgs[b].invited
  BY <1>1, <1>2 DEF BattleGround
<1>4. PICK t : t = [s EXCEPT !.bgs = [s.bgs EXCEPT ![b] = x]]
  OBVIOUS
<1>5. t = [s EXCEPT !.bgs[b].offline = l]
  BY <1>1, <1>2, <1>4 DEF States
<1>6. Inv(t, n) /\ t.player = s.player /\ Running(t) = Running(s)
  BY <1>3, <1>4, SetBG
<1> QED BY <1>5, <1>6

\* p becomes x: another mark, or other events while he is not invited.
LEMMA SetMark ==
  ASSUME NEW n \in Nat, NEW s, Inv(s, n), NEW p \in Player, NEW x \in PlayerRecord,
         x.at = s.player[p].at, x.bg = s.player[p].bg, x.slot = s.player[p].slot,
         x.events = s.player[p].events \/ s.player[p].slot = Free
            \/ \A i \in Invites(s, p) : [bg |-> i, now |-> TRUE] \in ToSet(x.events)
  PROVE  LET t == [s EXCEPT !.player = [s.player EXCEPT ![p] = x]] IN
         Inv(t, n) /\ t.player[p] = x /\ t.bgs = s.bgs
<1>1. /\ s \in States /\ s.player[p] \in PlayerRecord /\ PInv(s, p)
  BY InvTypes
<1>2. PICK y : y = [s EXCEPT !.player = [s.player EXCEPT ![p] = x]]
  OBVIOUS
<1>3. Changed(s, y, p) /\ y.player[p] = x
  BY <1>1, <1>2, SetPlayer
<1>4. Free \notin BG
  BY BattleGroundConstants
<1>5. PlayerInv(y.player[p], Invites(s, p), MemberOf(s, p), Running(s), s.tainted)
  BY <1>1, <1>3, <1>4 DEF PInv, PlayerInv
<1>6. \A b : Placed(y, p, b) <=> Placed(s, p, b)
  <2>1. Invites(y, p) = Invites(s, p) /\ MemberOf(y, p) = MemberOf(s, p)
    BY <1>1, <1>3, ChangedFacts
  <2> QED BY <1>3, <2>1 DEF Placed
<1>7. Inv(y, n)
  BY <1>3, <1>5, <1>6, ChangedPlayer
<1>8. y.bgs = s.bgs
  BY <1>3 DEF Changed
<1> QED BY <1>2, <1>3, <1>7, <1>8

LEMMA SetDeserter ==
  ASSUME NEW n \in Nat, NEW s, Inv(s, n), NEW p \in Player, NEW d \in {"no", "due", "yes"}
  PROVE  LET t == [s EXCEPT !.player[p].deserter = d] IN
         Inv(t, n) /\ t.bgs = s.bgs
         /\ t.player[p].at = s.player[p].at /\ t.player[p].bg = s.player[p].bg
<1>1. s \in States /\ s.player[p] \in PlayerRecord /\ s.player \in [Player -> PlayerRecord]
  BY InvTypes DEF States
<1>2. PICK x : x = [s.player[p] EXCEPT !.deserter = d]
  OBVIOUS
<1>3. x \in PlayerRecord /\ x.at = s.player[p].at /\ x.bg = s.player[p].bg /\ x.slot = s.player[p].slot
      /\ x.events = s.player[p].events
  BY <1>1, <1>2 DEF PlayerRecord
<1>4. PICK t : t = [s EXCEPT !.player = [s.player EXCEPT ![p] = x]]
  OBVIOUS
<1>5. t = [s EXCEPT !.player[p].deserter = d]
  BY <1>1, <1>2, <1>4 DEF States
<1>6. Inv(t, n) /\ t.player[p] = x /\ t.bgs = s.bgs
  BY <1>3, <1>4, SetMark
<1> QED BY <1>3, <1>5, <1>6

-----------------------------------------------------------------------------
(* The handlers of one player *)

LEMMA LeaveBattlegroundInv ==
  ASSUME NEW n \in Nat, NEW s, Inv(s, n), NEW p \in Player, s.player[p].at = "world",
         s.player[p].bg \in Running(s), NEW transport \in BOOLEAN, NEW far \in BOOLEAN
  PROVE  LET t == LeaveBattleground(s, p, transport, far) IN
         /\ Inv(t, n) /\ t.player[p].bg = None
         /\ ~transport => t.player[p].at = "world"
<1>1. PICK b : b = s.player[p].bg
  OBVIOUS
<1>2. PICK left : left = RemovePlayerAtLeave(s, b, p, transport, far)
  OBVIOUS
<1>3. Inv(left, n) /\ AtLeave(s, left, b, p, transport /\ far)
  BY <1>1, <1>2, RemovePlayerAtLeaveInv
<1>4. /\ left.player[p].bg = None /\ (~transport => left.player[p].at = "world")
      /\ b \in Running(left)
  BY <1>1, <1>3 DEF AtLeave
<1>5. PICK runs \in BOOLEAN : runs = (start.castDeserter /\ left.bgs[b].status # "WAIT_LEAVE")
  OBVIOUS
<1>6. PICK marked : marked = IF runs THEN [left EXCEPT !.player[p].deserter = "yes"] ELSE left
  OBVIOUS
<1>7. Inv(marked, n) /\ marked.bgs = left.bgs /\ marked.player[p].bg = None
      /\ (~transport => marked.player[p].at = "world")
  <2>1. CASE runs
    <3>1. marked = [left EXCEPT !.player[p].deserter = "yes"]
      BY <1>6, <2>1
    <3> QED BY <1>3, <1>4, <3>1, SetDeserter
  <2>2. CASE ~runs
    <3>1. marked = left
      BY <1>6, <2>2
    <3> QED BY <1>3, <1>4, <3>1
  <2> QED BY <2>1, <2>2
<1>8. PICK due : due = [left EXCEPT !.player[p].deserter = "due"]
  OBVIOUS
<1>9. Inv(due, n) /\ due.player[p].bg = None /\ (~transport => due.player[p].at = "world")
  BY <1>3, <1>4, <1>8, SetDeserter
<1>10. PICK empty : empty = [marked EXCEPT !.bgs[b].status = "WAIT_LEAVE"]
  OBVIOUS
<1>11. Inv(empty, n) /\ empty.player[p].bg = None /\ (~transport => empty.player[p].at = "world")
  <2>1. b \in Running(marked) /\ "WAIT_LEAVE" \in Status
    BY <1>4, <1>7 DEF Running, Status
  <2>2. Inv(empty, n) /\ empty.player = marked.player
    BY <1>7, <1>10, <2>1, SetStatus
  <2> QED BY <1>7, <2>2
<1>12. LeaveBattleground(s, p, transport, far) \in {due, empty, marked}
  BY <1>1, <1>2, <1>5, <1>6, <1>8, <1>10 DEF LeaveBattleground
<1> QED BY <1>7, <1>9, <1>11, <1>12

LEMMA DeclinesInv ==
  ASSUME NEW n \in Nat, NEW s, Inv(s, n), NEW p \in Player, Invites(s, p) # {}
  PROVE  Inv(ScheduleQueueUpdate(RemovePlayer(FreeSlot(s, p), p, TRUE)), n)
<1>1. s \in States /\ s.player[p] \in PlayerRecord /\ s.player \in [Player -> PlayerRecord]
  BY InvTypes DEF States
<1>2. s.player[p].events \in Seq(Event)
  BY <1>1 DEF PlayerRecord
<1>3. s = [s EXCEPT !.player[p].events = s.player[p].events]
  <2>1. s.player[p] = [s.player[p] EXCEPT !.events = s.player[p].events]
    BY <1>1 DEF PlayerRecord
  <2>2. s.player = [s.player EXCEPT ![p] = s.player[p]]
    BY <1>1
  <2>3. s = [s EXCEPT !.player = s.player]
    BY <1>1 DEF States
  <2> QED BY <2>1, <2>2, <2>3
<1>4. PICK e, t : e = s.player[p].events /\ t = RemovePlayer(FreeSlot(s, p), p, TRUE)
  OBVIOUS
<1>5. Inv(t, n)
  <2>1. e \in Seq(Event) /\ s = [s EXCEPT !.player[p].events = e]
    BY <1>2, <1>3, <1>4
  <2> QED BY <1>4, <2>1, Dropped
<1> QED BY <1>4, <1>5, Scheduled

LEMMA TeleportInv ==
  ASSUME NEW n \in Nat, NEW s, Inv(s, n), NEW p \in Player, s.player[p].at = "world",
         NEW r, r = IF s.player[p].bg \in Running(s) THEN LeaveBattleground(s, p, FALSE, TRUE) ELSE s
  PROVE  Inv([r EXCEPT !.player[p].at = "travel"], n)
<1>1. CASE s.player[p].bg \in Running(s)
  <2>1. Inv(r, n) /\ r.player[p].bg = None /\ r.player[p].at = "world"
    BY <1>1, LeaveBattlegroundInv
  <2>2. None \notin Running(r)
    BY <2>1, InvTypes, RunningFacts
  <2> QED BY <2>1, <2>2, Travels
<1>2. CASE s.player[p].bg \notin Running(s)
  BY <1>2, Travels
<1> QED BY <1>1, <1>2

LEMMA TailFacts ==
  ASSUME NEW S, NEW q \in Seq(S), q # << >>
  PROVE  /\ Tail(q) \in Seq(S) /\ Head(q) \in S
         /\ \A x : x \in ToSet(q) => x = Head(q) \/ x \in ToSet(Tail(q))
<1>1. /\ Len(q) \in Nat /\ Len(q) > 0 /\ Head(q) = q[1] /\ Tail(q) \in Seq(S) /\ Len(Tail(q)) = Len(q) - 1
      /\ \A i \in 1 .. Len(q) - 1 : Tail(q)[i] = q[i + 1]
  BY HeadTailProperties, EmptySeq, LenProperties
<1>2. /\ \A x : x \in ToSet(q) <=> \E i \in 1 .. Len(q) : x = q[i]
      /\ \A x : x \in ToSet(Tail(q)) <=> \E i \in 1 .. Len(Tail(q)) : x = Tail(q)[i]
  BY <1>1, SeqFacts
<1>3. ASSUME NEW x, x \in ToSet(q), x # Head(q) PROVE x \in ToSet(Tail(q))
  <2>1. PICK i \in 1 .. Len(q) : x = q[i]
    BY <1>2, <1>3
  <2>2. i - 1 \in 1 .. Len(q) - 1 /\ (i - 1) + 1 = i
    BY <1>1, <1>3, <2>1
  <2>3. Tail(q)[i - 1] = q[i]
    BY <1>1, <2>2
  <2> QED BY <1>1, <1>2, <2>1, <2>2, <2>3
<1>4. Head(q) \in S
  BY <1>1
<1> QED BY <1>1, <1>3, <1>4

\* The event of an invitation that is not his any more goes.
LEMMA EventGoes ==
  ASSUME NEW n \in Nat, NEW s, Inv(s, n), NEW p \in Player, s.player[p].events # << >>,
         s.player[p].slot = Free \/ ~IsPlayerInvited(s, p, Head(s.player[p].events))
  PROVE  Inv([s EXCEPT !.player[p].events = Tail(@)], n)
<1>1. s \in States /\ s.player[p] \in PlayerRecord /\ s.player \in [Player -> PlayerRecord] /\ PInv(s, p)
  BY InvTypes DEF States
<1>2. PICK q : q = s.player[p].events
  OBVIOUS
<1>3. q \in Seq(Event) /\ q # << >>
  BY <1>1, <1>2 DEF PlayerRecord
<1>4. Tail(q) \in Seq(Event) /\ \A x : x \in ToSet(q) => x = Head(q) \/ x \in ToSet(Tail(q))
  BY <1>3, TailFacts
<1>5. PICK x : x = [s.player[p] EXCEPT !.events = Tail(q)]
  OBVIOUS
<1>6. x \in PlayerRecord /\ x.at = s.player[p].at /\ x.bg = s.player[p].bg /\ x.slot = s.player[p].slot
      /\ x.events = Tail(q)
  BY <1>1, <1>4, <1>5 DEF PlayerRecord
<1>7. PICK t : t = [s EXCEPT !.player = [s.player EXCEPT ![p] = x]]
  OBVIOUS
<1>8. t = [s EXCEPT !.player[p].events = Tail(@)]
  BY <1>1, <1>2, <1>5, <1>7 DEF States
<1>9. CASE s.player[p].slot \notin BG
  <2>1. PlayerInv(x, Invites(s, p), MemberOf(s, p), Running(s), s.tainted)
    BY <1>1, <1>6, <1>9 DEF PInv, PlayerInv
  <2>2. Changed(s, t, p) /\ t.player[p] = x
    <3>1. PICK y : y = [s EXCEPT !.player = [s.player EXCEPT ![p] = x]]
      OBVIOUS
    <3>2. Changed(s, y, p) /\ y.player[p] = x
      BY <1>1, <1>6, <3>1, SetPlayer
    <3> QED BY <1>7, <3>1, <3>2
  <2>3. \A b : Placed(t, p, b) <=> Placed(s, p, b)
    <3>1. Invites(t, p) = Invites(s, p) /\ MemberOf(t, p) = MemberOf(s, p)
      BY <1>1, <2>2, ChangedFacts
    <3> QED BY <1>6, <2>2, <3>1 DEF Placed
  <2>4. Inv(t, n)
    BY <2>1, <2>2, <2>3, ChangedPlayer
  <2> QED BY <1>8, <2>4
<1>10. CASE s.player[p].slot \in BG
  <2>1. ~IsPlayerInvited(s, p, Head(q)) /\ s.player[p].slot # Free
    BY <1>2, <1>10, BattleGroundConstants
  <2>2. ASSUME NEW i \in Invites(s, p) PROVE [bg |-> i, now |-> TRUE] \in ToSet(x.events)
    <3>1. [bg |-> i, now |-> TRUE] \in ToSet(q)
      BY <1>1, <1>2, <1>10 DEF PInv, PlayerInv
    <3>2. \E g \in GroupsOf(s, p) : g.invited = i
      BY DEF Invites
    <3>3. [bg |-> i, now |-> TRUE].bg = i /\ [bg |-> i, now |-> TRUE].now = TRUE
      OBVIOUS
    <3>4. [bg |-> i, now |-> TRUE] # Head(q)
      BY <2>1, <3>2, <3>3 DEF IsPlayerInvited
    <3> QED BY <1>4, <1>6, <3>1, <3>4
  <2>3. Inv(t, n)
    BY <1>6, <1>7, <2>2, SetMark
  <2> QED BY <1>8, <2>3
<1> QED BY <1>9, <1>10

\* The event of his invitation ends it.
LEMMA EventEnds ==
  ASSUME NEW n \in Nat, NEW s, Inv(s, n), NEW p \in Player, s.player[p].events # << >>,
         IsPlayerInvited(s, p, Head(s.player[p].events))
  PROVE  LET r == [s EXCEPT !.player[p].events = Tail(@)] IN
         Inv(RemovePlayer(FreeSlot(r, p), p, TRUE), n)
<1>1. s \in States /\ s.player[p] \in PlayerRecord
  BY InvTypes
<1>2. PICK e : e = Tail(s.player[p].events)
  OBVIOUS
<1>3. e \in Seq(Event)
  <2>1. s.player[p].events \in Seq(Event)
    BY <1>1 DEF PlayerRecord
  <2> QED BY <1>2, <2>1, TailFacts
<1>4. Invites(s, p) # {}
  BY DEF IsPlayerInvited, Invites
<1>5. PICK r : r = [s EXCEPT !.player[p].events = e]
  OBVIOUS
<1>6. PICK t : t = RemovePlayer(FreeSlot(r, p), p, TRUE)
  OBVIOUS
<1>7. Inv(t, n)
  BY <1>3, <1>4, <1>5, <1>6, Dropped
<1> QED BY <1>2, <1>5, <1>6, <1>7

\* Who logs in again is a member still.
LEMMA LoadsInside ==
  ASSUME NEW n \in Nat, NEW s, Inv(s, n), NEW p \in Player, s.player[p].at = "offline",
         NEW b, b = s.player[p].bg, b \in Running(s), p \in s.bgs[b].members, NEW l \in Seq(Player)
  PROVE  Inv([[s EXCEPT !.player[p].at = "world"] EXCEPT !.player[p].slot = b, !.bgs[b].offline = l], n)
<1>1. /\ s \in States /\ s.player[p] \in PlayerRecord /\ s.player \in [Player -> PlayerRecord] /\ PInv(s, p)
      /\ b \in BG /\ b # None
  BY InvTypes, RunningFacts DEF States
<1>2. b \in MemberOf(s, p)
  BY DEF MemberOf
<1>3. Invites(s, p) = {} /\ MemberOf(s, p) = {b}
  BY <1>1, <1>2 DEF PInv, PlayerInv
<1>4. PICK x : x = [s.player[p] EXCEPT !.at = "world", !.slot = b]
  OBVIOUS
<1>5. x \in PlayerRecord /\ x.at = "world" /\ x.slot = b /\ x.bg = b
  BY <1>1, <1>4 DEF PlayerRecord
<1>6. PICK r : r = [s EXCEPT !.player = [s.player EXCEPT ![p] = x]]
  OBVIOUS
<1>7. Changed(s, r, p) /\ r.player[p] = x
  BY <1>1, <1>5, <1>6, SetPlayer
<1>8. PlayerInv(r.player[p], Invites(s, p), MemberOf(s, p), Running(s), s.tainted)
  BY <1>1, <1>3, <1>5, <1>7 DEF PInv, PlayerInv
<1>9. \A c : Placed(r, p, c) <=> Placed(s, p, c)
  <2>1. Invites(r, p) = Invites(s, p) /\ MemberOf(r, p) = MemberOf(s, p)
    BY <1>1, <1>7, ChangedFacts
  <2> QED BY <1>5, <1>7, <2>1 DEF Placed
<1>10. Inv(r, n)
  BY <1>7, <1>8, <1>9, ChangedPlayer
<1>11. b \in Running(r)
  BY <1>7 DEF Changed, Running
<1>12. PICK t : t = [r EXCEPT !.bgs[b].offline = l]
  OBVIOUS
<1>13. Inv(t, n)
  BY <1>10, <1>11, <1>12, SetOffline
<1>14. r = [[s EXCEPT !.player[p].at = "world"] EXCEPT !.player[p].slot = b]
  BY <1>1, <1>4, <1>6 DEF States
<1>15. t = [[s EXCEPT !.player[p].at = "world"] EXCEPT !.player[p].slot = b, !.bgs[b].offline = l]
  <2>1. PICK w : w = [s EXCEPT !.player[p].at = "world"]
    OBVIOUS
  <2>2. r = [w EXCEPT !.player[p].slot = b]
    BY <1>14, <2>1
  <2>3. t = [w EXCEPT !.player[p].slot = b, !.bgs[b].offline = l]
    BY <1>12, <2>2
  <2> QED BY <2>1, <2>3
<1> QED BY <1>13, <1>15

\* Who logs in and is no member of a running battleground is in none.
LEMMA LoadsOutside ==
  ASSUME NEW n \in Nat, NEW s, Inv(s, n), NEW p \in Player, s.player[p].at = "offline",
         MemberOf(s, p) = {}
  PROVE  Inv([s EXCEPT !.player[p].at = "world", !.player[p].bg = None], n)
<1>1. /\ s \in States /\ s.player[p] \in PlayerRecord /\ s.player \in [Player -> PlayerRecord] /\ PInv(s, p)
      /\ None \notin Running(s)
  BY InvTypes, RunningFacts DEF States
<1>2. PICK x : x = [s.player[p] EXCEPT !.at = "world", !.bg = None]
  OBVIOUS
<1>3. x \in PlayerRecord /\ x.at = "world" /\ x.bg = None /\ x.slot = s.player[p].slot
  BY <1>1, <1>2 DEF PlayerRecord
<1>4. PICK t : t = [s EXCEPT !.player = [s.player EXCEPT ![p] = x]]
  OBVIOUS
<1>5. t = [s EXCEPT !.player[p].at = "world", !.player[p].bg = None]
  BY <1>1, <1>2, <1>4 DEF States
<1>6. Changed(s, t, p) /\ t.player[p] = x
  BY <1>1, <1>3, <1>4, SetPlayer
<1>7. Invites(s, p) = {} /\ s.player[p].slot \in s.tainted \cup {Free}
  BY <1>1 DEF PInv, PlayerInv
<1>8. PlayerInv(t.player[p], Invites(s, p), MemberOf(s, p), Running(s), s.tainted)
  BY <1>1, <1>3, <1>6, <1>7 DEF PlayerInv
<1>9. \A c : Placed(t, p, c) <=> Placed(s, p, c)
  <2>1. Invites(t, p) = Invites(s, p) /\ MemberOf(t, p) = MemberOf(s, p)
    BY <1>1, <1>6, ChangedFacts
  <2> QED BY <1>3, <1>6, <2>1 DEF Placed
<1>10. Inv(t, n)
  BY <1>6, <1>8, <1>9, ChangedPlayer
<1> QED BY <1>5, <1>10

\* His place is kept when he logs out; the queue forgets him.
LEMMA Keeps ==
  ASSUME NEW n \in Nat, NEW s, Inv(s, n), NEW p \in Player, NEW b \in Running(s)
  PROVE  LET t == [s EXCEPT !.bgs[b].members = @ \cup {p}, !.bgs[b].offline = Append(@, p)] IN
         \E l \in Seq(Player) : MembersSet(s, t, b, s.bgs[b].members \cup {p}, l)
<1>1. s \in States /\ s.bgs[b] \in BattleGround /\ b \in BG /\ s.bgs \in [BG -> BattleGround \cup {None}]
  BY InvTypes, RunningFacts DEF States
<1>2. PICK M, l : M = s.bgs[b].members \cup {p} /\ l = Append(s.bgs[b].offline, p)
  OBVIOUS
<1>3. M \in SUBSET Player /\ l \in Seq(Player)
  <2>1. s.bgs[b].members \in SUBSET Player /\ s.bgs[b].offline \in Seq(Player)
    BY <1>1 DEF BattleGround
  <2> QED BY <1>2, <2>1, AppendFacts
<1>4. PICK t : t = WithMembers(s, b, M, l)
  OBVIOUS
<1>5. MembersSet(s, t, b, M, l)
  BY <1>1, <1>3, <1>4, SetMembers
<1>6. t = [s EXCEPT !.bgs[b].members = @ \cup {p}, !.bgs[b].offline = Append(@, p)]
  <2>1. PICK w : w = [s EXCEPT !.bgs[b].members = M]
    OBVIOUS
  <2>2. w.bgs[b].offline = s.bgs[b].offline /\ w = [s EXCEPT !.bgs = [s.bgs EXCEPT ![b] = [s.bgs[b] EXCEPT !.members = M]]]
    BY <1>1, <2>1 DEF BattleGround, States
  <2>3. [w EXCEPT !.bgs[b].offline = l] = t
    BY <1>1, <1>4, <2>2 DEF WithMembers, BattleGround, States
  <2> QED BY <1>2, <2>1, <2>2, <2>3
<1> QED BY <1>2, <1>3, <1>5, <1>6

\* o is s with p out of the queue and its counters, and a member of the battleground he was in.
OutOf(s, o, p) ==
    /\ o \in States /\ QueueInv(o) /\ o.free = s.free /\ o.tainted = s.tainted /\ Running(o) = Running(s)
    /\ \A q \in Player \ {p} : /\ o.player[q] = s.player[q] /\ Invites(o, q) = Invites(s, q)
                               /\ MemberOf(o, q) = MemberOf(s, q)
    /\ Invites(o, p) = {} /\ o.player[p].slot = Free /\ o.player[p].bg = s.player[p].bg
    /\ MemberOf(o, p) = {c \in Running(s) : c = s.player[p].bg}
    /\ \A c \in Running(s), v \in Team :
          o.bgs[c].invited[v] = IF c \in Invites(s, p) /\ v = TeamOf[p]
                                THEN Decreased(s.bgs[c].invited[v])
                                ELSE s.bgs[c].invited[v]

LEMMA OutOfQueue ==
  ASSUME NEW n \in Nat, NEW s, Inv(s, n), NEW p \in Player, s.player[p].at = "world",
         NEW k, \/ k = s /\ s.player[p].bg \notin Running(s)
                \/ /\ s.player[p].bg \in Running(s)
                   /\ \E l : MembersSet(s, k, s.player[p].bg, s.bgs[s.player[p].bg].members \cup {p}, l)
  PROVE  OutOf(s, IF s.player[p].slot = Free THEN k ELSE RemovePlayer(FreeSlot(k, p), p, TRUE), p)
<1>0. PICK o : o = IF s.player[p].slot = Free THEN k ELSE RemovePlayer(FreeSlot(k, p), p, TRUE)
  OBVIOUS
<1>1. /\ s \in States /\ s.player[p] \in PlayerRecord /\ PInv(s, p) /\ QueueInv(s)
      /\ ToSet(s.free) \subseteq Running(s) /\ MemberOf(s, p) \subseteq Running(s) /\ Running(s) \subseteq BG
      /\ Invites(s, p) \subseteq BG \cup {None} /\ Free \notin BG /\ Free # None /\ None \notin Running(s)
  BY InvTypes, RunningFacts, BattleGroundConstants
<1>2. /\ k \in States /\ k.player = s.player /\ k.queue = s.queue /\ k.free = s.free
      /\ k.tainted = s.tainted /\ Running(k) = Running(s)
      /\ \A c \in Running(s) : k.bgs[c].invited = s.bgs[c].invited
      /\ \A c \in Running(s) : k.bgs[c].members = IF c = s.player[p].bg THEN s.bgs[c].members \cup {p}
                                                                       ELSE s.bgs[c].members
  <2>1. CASE k = s /\ s.player[p].bg \notin Running(s)
    BY <1>1, <2>1
  <2>2. ASSUME NEW l, MembersSet(s, k, s.player[p].bg, s.bgs[s.player[p].bg].members \cup {p}, l)
        PROVE  <1>2!1 /\ <1>2!2 /\ <1>2!3 /\ <1>2!4
    BY <1>1, <2>2 DEF MembersSet
  <2> QED BY <2>1, <2>2
<1>3. QueueInv(k) /\ \A q : Invites(k, q) = Invites(s, q)
  BY <1>1, <1>2, SameFacts
<1>4. /\ \A q \in Player \ {p} : MemberOf(k, q) = MemberOf(s, q)
      /\ MemberOf(k, p) = {c \in Running(s) : c = s.player[p].bg}
  <2>1. \A q \in Player \ {p}, c \in Running(s) : q \in k.bgs[c].members <=> q \in s.bgs[c].members
    BY <1>2
  <2>2. \A c \in Running(s) : p \in k.bgs[c].members <=> c = s.player[p].bg
    <3>1. \A c \in Running(s) : p \in s.bgs[c].members => c = s.player[p].bg
      BY <1>1 DEF MemberOf, PInv, PlayerInv
    <3> QED BY <1>2, <3>1
  <2>3. \A q \in Player \ {p} : MemberOf(k, q) = MemberOf(s, q)
    BY <1>2, <2>1 DEF MemberOf
  <2>4. MemberOf(k, p) = {c \in Running(s) : c = s.player[p].bg}
    BY <1>2, <2>2 DEF MemberOf
  <2> QED BY <2>3, <2>4
<1>5. /\ o \in States /\ QueueInv(o) /\ o.free = s.free /\ o.tainted = s.tainted /\ Running(o) = Running(s)
      /\ \A q \in Player \ {p} : o.player[q] = s.player[q] /\ Invites(o, q) = Invites(s, q)
      /\ Invites(o, p) = {} /\ o.player[p].slot = Free /\ o.player[p].bg = s.player[p].bg
      /\ \A q : MemberOf(o, q) = MemberOf(k, q)
      /\ \A c \in Running(s), v \in Team :
            o.bgs[c].invited[v] = IF c \in Invites(s, p) /\ v = TeamOf[p]
                                  THEN Decreased(s.bgs[c].invited[v])
                                  ELSE s.bgs[c].invited[v]
  <2>1. CASE s.player[p].slot = Free
    <3>1. o = k
      BY <1>0, <2>1
    <3>2. Invites(s, p) = {}
      BY <1>1, <2>1 DEF PInv, PlayerInv
    <3>3. \A c \in Running(s), v \in Team : k.bgs[c].invited[v] = s.bgs[c].invited[v]
      BY <1>2
    <3> QED BY <1>1, <1>2, <1>3, <2>1, <3>1, <3>2, <3>3
  <2>2. CASE s.player[p].slot # Free
    <3>1. PICK f : f = FreeSlot(k, p)
      OBVIOUS
    <3>2. o = RemovePlayer(f, p, TRUE)
      BY <1>0, <2>2, <3>1
    <3>3. Changed(k, f, p) /\ f.player[p].slot = Free /\ f.player[p].bg = s.player[p].bg
      BY <1>2, <3>1, FreeSlotFacts
    <3>4. /\ Only(k, f, p) /\ QueueInv(f)
          /\ Invites(f, p) = Invites(k, p) /\ MemberOf(f, p) = MemberOf(k, p)
      BY <1>2, <1>3, <3>3, ChangedFacts
    <3>5. f \in States /\ f.bgs = k.bgs /\ f.free = k.free /\ f.tainted = k.tainted /\ f.queue = k.queue
      BY <3>3 DEF Changed
    <3>6. Running(f) = Running(s) /\ \A q : MemberOf(f, q) = MemberOf(k, q)
      <4>1. Running(f) = Running(k)
        BY <3>5 DEF Running
      <4> QED BY <1>2, <3>5, <4>1, SameFacts
    <3>7. Removed(f, o, p, TRUE)
      BY <3>2, <3>4, <3>5, RemovePlayerFacts
    <3>8. /\ o \in States /\ QueueInv(o) /\ o.free = s.free /\ o.tainted = s.tainted /\ Running(o) = Running(s)
          /\ Invites(o, p) = {} /\ o.player[p].slot = Free /\ o.player[p].bg = s.player[p].bg
      BY <1>2, <3>3, <3>5, <3>6, <3>7 DEF Removed
    <3>9. \A q \in Player \ {p} : o.player[q] = s.player[q] /\ Invites(o, q) = Invites(s, q)
      BY <1>2, <1>3, <3>3, <3>4, <3>7 DEF Removed, Only, Changed
    <3>10. \A q : MemberOf(o, q) = MemberOf(k, q)
      BY <3>6, <3>7 DEF Removed
    <3>11. ASSUME NEW c \in Running(s), NEW v \in Team
           PROVE  o.bgs[c].invited[v] = IF c \in Invites(s, p) /\ v = TeamOf[p]
                                        THEN Decreased(s.bgs[c].invited[v])
                                        ELSE s.bgs[c].invited[v]
      <4>1. o.bgs[c].invited[v] = IF TRUE /\ c \in Invites(f, p) /\ v = TeamOf[p]
                                  THEN Decreased(f.bgs[c].invited[v])
                                  ELSE f.bgs[c].invited[v]
        BY <3>6, <3>7 DEF Removed
      <4> QED BY <1>2, <1>3, <3>4, <3>5, <4>1
    <3> QED BY <3>8, <3>9, <3>10, <3>11
  <2> QED BY <2>1, <2>2
<1>6. OutOf(s, o, p)
  BY <1>4, <1>5 DEF OutOf
<1> QED BY <1>0, <1>6

LEMMA LogsOut ==
  ASSUME NEW n \in Nat, NEW s, Inv(s, n), NEW p \in Player, s.player[p].at = "world",
         NEW o, OutOf(s, o, p),
         NEW x \in PlayerRecord, x.at = "offline", x.bg = o.player[p].bg, x.slot = o.player[p].slot,
         NEW y \in BOOLEAN
  PROVE  Inv([o EXCEPT !.player = [o.player EXCEPT ![p] = x], !.late = y], n)
<1>1. /\ s \in States /\ s.player[p] \in PlayerRecord /\ PInv(s, p) /\ ToSet(s.free) \subseteq Running(s)
  BY InvTypes
<1>2. o \in States /\ QueueInv(o)
  BY DEF OutOf
<1>6. PICK z : z = [o EXCEPT !.player = [o.player EXCEPT ![p] = x], !.late = y]
  OBVIOUS
<1>7. /\ z \in States /\ z.queue = o.queue /\ z.bgs = o.bgs /\ z.free = o.free /\ z.tainted = o.tainted
      /\ z.player[p] = x /\ \A q \in Player \ {p} : z.player[q] = o.player[q]
  BY <1>2, <1>6 DEF States
<1>8. Changed(o, z, p)
  BY <1>7 DEF Changed
<1>9. Only(o, z, p) /\ QueueInv(z) /\ Invites(z, p) = Invites(o, p) /\ MemberOf(z, p) = MemberOf(o, p)
  BY <1>2, <1>8, ChangedFacts
<1>10. Only(s, z, p) /\ ToSet(z.free) \subseteq Running(z)
  BY <1>1, <1>7, <1>9 DEF Only, OutOf
<1>11. x.at = "offline" /\ x.slot = Free /\ x.bg = s.player[p].bg
       /\ Invites(z, p) = {} /\ MemberOf(z, p) = {c \in Running(s) : c = s.player[p].bg}
  BY <1>9 DEF OutOf
<1>12. PInv(z, p)
  BY <1>7, <1>10, <1>11 DEF PInv, PlayerInv, Only
<1>13. ASSUME NEW c \in Running(s) \ s.tainted
       PROVE  /\ Placed(z, p, c) => Placed(s, p, c)
              /\ \A u \in Team : z.bgs[c].invited[u] =
                    IF u = TeamOf[p] /\ Placed(s, p, c) /\ ~Placed(z, p, c)
                    THEN s.bgs[c].invited[u] - 1 ELSE s.bgs[c].invited[u]
  <2>1. Placed(z, p, c) <=> c = s.player[p].bg
    BY <1>7, <1>11 DEF Placed
  <2>2. c = s.player[p].bg => c \in MemberOf(s, p) /\ Invites(s, p) = {}
    BY <1>1 DEF PInv, PlayerInv
  <2>3. c \in MemberOf(s, p) => c = s.player[p].bg
    BY <1>1 DEF PInv, PlayerInv
  <2>4. Placed(s, p, c) <=> c \in Invites(s, p) \/ c = s.player[p].bg
    BY <2>2, <2>3 DEF Placed
  <2>5. Placed(s, p, c) => Decreased(s.bgs[c].invited[TeamOf[p]]) = s.bgs[c].invited[TeamOf[p]] - 1
    BY PlacedCounted
  <2>6. ASSUME NEW u \in Team
        PROVE  z.bgs[c].invited[u] =
                    IF u = TeamOf[p] /\ Placed(s, p, c) /\ ~Placed(z, p, c)
                    THEN s.bgs[c].invited[u] - 1 ELSE s.bgs[c].invited[u]
    <3>1. z.bgs[c].invited[u] = IF c \in Invites(s, p) /\ u = TeamOf[p]
                                THEN Decreased(s.bgs[c].invited[u])
                                ELSE s.bgs[c].invited[u]
      BY <1>7 DEF OutOf
    <3> QED BY <2>1, <2>2, <2>4, <2>5, <3>1
  <2> QED BY <2>1, <2>4, <2>6
<1>14. Inv(z, n)
  BY <1>7, <1>9, <1>10, <1>12, <1>13, OnePlayer
<1> QED BY <1>6, <1>14

-----------------------------------------------------------------------------
(* Invitations *)

\* Players of groups that wait in s.
WaitingSets(s) == {g.players : g \in {x \in Groups(s) : x.invited = None}}

InvitedTo(g, selected, b) == IF g.players \in selected THEN [g EXCEPT !.invited = b] ELSE g

InvitedSeq(q, selected, b) == [i \in DOMAIN q |-> InvitedTo(q[i], selected, b)]

LEMMA InvitedQueue ==
  ASSUME NEW q \in Seq(Group), NEW selected, NEW b \in BG
  PROVE  /\ InvitedSeq(q, selected, b) \in Seq(Group)
         /\ \A g : g \in ToSet(InvitedSeq(q, selected, b)) <=> \E h \in ToSet(q) : g = InvitedTo(h, selected, b)
<1> PICK r : r = InvitedSeq(q, selected, b)
  OBVIOUS
<1>1. Len(q) \in Nat /\ DOMAIN q = 1 .. Len(q) /\ \A i \in 1 .. Len(q) : q[i] \in Group
  BY SeqFacts
<1>2. \A g \in Group : InvitedTo(g, selected, b) \in Group
  BY DEF InvitedTo, Group
<1>3. r \in Seq(Group) /\ Len(r) = Len(q) /\ \A i \in 1 .. Len(q) : r[i] = InvitedTo(q[i], selected, b)
  BY <1>1, <1>2 DEF InvitedSeq
<1>4. /\ \A g : g \in ToSet(r) <=> \E i \in 1 .. Len(r) : g = r[i]
      /\ \A g : g \in ToSet(q) <=> \E i \in 1 .. Len(q) : g = q[i]
  BY <1>3, SeqFacts
<1>5. ASSUME NEW g, g \in ToSet(r) PROVE \E h \in ToSet(q) : g = InvitedTo(h, selected, b)
  BY <1>3, <1>4, <1>5
<1>6. ASSUME NEW h \in ToSet(q) PROVE InvitedTo(h, selected, b) \in ToSet(r)
  BY <1>3, <1>4
<1> QED BY <1>3, <1>5, <1>6

\* What InviteGroupsToBG leaves of s: the selected groups are invited to b, and those of
\* their players who are in a map know it and are counted.
InvitedAs(s, t, selected, b, told) ==
    /\ t \in States /\ t.free = s.free
    /\ \A g : g \in Groups(t) <=> \E h \in Groups(s) : g = InvitedTo(h, selected, b)
    /\ \A k \in Kind, u \in Team : \A g :
          g \in ToSet(t.queue[k][u]) => \E h \in ToSet(s.queue[k][u]) : g = InvitedTo(h, selected, b)
    /\ \A c \in BG \ {b} : t.bgs[c] = s.bgs[c]
    /\ t.bgs[b] \in BattleGround /\ t.bgs[b].members = s.bgs[b].members
    /\ t.bgs[b].status = s.bgs[b].status
    /\ \A u \in Team : t.bgs[b].invited[u] =
          (s.bgs[b].invited[u] + Cardinality({p \in told : TeamOf[p] = u})) % Counts
    /\ \A p \in Player \ told : t.player[p] = s.player[p]
    /\ \A p \in told : /\ t.player[p].at = s.player[p].at /\ t.player[p].bg = s.player[p].bg
                       /\ t.player[p].slot = IF s.player[p].slot = Free THEN Free ELSE b
                       /\ [bg |-> b, now |-> TRUE] \in ToSet(t.player[p].events)
    /\ t.tainted = IF told = UNION selected THEN s.tainted ELSE s.tainted \cup {b}

LEMMA CountsFacts == Counts \in Nat /\ Counts > 0 /\ Cardinality(Player) \in Nat /\ Cardinality(Player) < Counts
BY BattleGroundConstants, FS_CardinalityType

LEMMA InviteFacts ==
  ASSUME NEW s \in States, NEW b \in Running(s), NEW selected \in SUBSET (SUBSET Player)
  PROVE  InvitedAs(s, InviteGroupsToBG(s, selected, b), selected, b,
                   {p \in UNION selected : s.player[p].at = "world"})
<1> DEFINE told == {p \in UNION selected : s.player[p].at = "world"}
           e == [bg |-> b, now |-> TRUE]
           Told(me) == [me EXCEPT !.slot = IF @ = Free THEN Free ELSE b, !.events = Append(@, e)]
           Q == [k \in Kind |-> [u \in Team |->
                    [i \in DOMAIN s.queue[k][u] |-> InvitedTo(s.queue[k][u][i], selected, b)]]]
           I == [u \in Team |->
                    (s.bgs[b].invited[u] + Cardinality({p \in told : TeamOf[p] = u})) % Counts]
           P == [p \in Player |-> IF p \in told THEN Told(s.player[p]) ELSE s.player[p]]
           D == IF told = UNION selected THEN s.tainted ELSE s.tainted \cup {b}
<1>1. /\ s.queue \in [Kind -> [Team -> Seq(Group)]] /\ s.player \in [Player -> PlayerRecord]
      /\ s.bgs \in [BG -> BattleGround \cup {None}] /\ b \in BG /\ s.bgs[b] \in BattleGround
      /\ s.tainted \in SUBSET BG
  BY RunningFacts DEF States
<1>2. PICK t : t = InviteGroupsToBG(s, selected, b)
  OBVIOUS
<1>3. t = [s EXCEPT !.queue = Q, !.bgs[b].invited = I, !.player = P, !.tainted = D]
  BY <1>2 DEF InviteGroupsToBG, InvitedTo, InWorld
<1>4. told \in SUBSET Player
  OBVIOUS
<1>5. ASSUME NEW k \in Kind, NEW u \in Team
      PROVE  /\ Q[k][u] \in Seq(Group)
             /\ \A g : g \in ToSet(Q[k][u]) <=> \E h \in ToSet(s.queue[k][u]) : g = InvitedTo(h, selected, b)
  <2>1. PICK q, r : q = s.queue[k][u] /\ r = InvitedSeq(q, selected, b)
    OBVIOUS
  <2>2. q \in Seq(Group)
    BY <1>1, <2>1
  <2>3. Q[k][u] = r
    BY <2>1 DEF InvitedSeq
  <2> HIDE DEF Q
  <2> QED BY <1>1, <2>1, <2>2, <2>3, InvitedQueue
<1>6. Q \in [Kind -> [Team -> Seq(Group)]]
  <2>1. \A k \in Kind, u \in Team : Q[k][u] \in Seq(Group)
    <3> HIDE DEF Q
    <3> QED BY <1>5
  <2> QED BY <2>1
<1>7. I \in [Team -> 0 .. Counts - 1]
  <2>1. ASSUME NEW u \in Team PROVE I[u] \in 0 .. Counts - 1
    <3>1. PICK c : c = Cardinality({p \in told : TeamOf[p] = u})
      OBVIOUS
    <3>2. c \in Nat
      BY <1>4, <3>1, BattleGroundConstants, FS_Subset, FS_CardinalityType
    <3>3. s.bgs[b].invited[u] \in 0 .. Counts - 1
      BY <1>1 DEF BattleGround
    <3>4. I[u] = (s.bgs[b].invited[u] + c) % Counts
      BY <3>1
    <3> HIDE DEF I
    <3> QED BY <3>2, <3>3, <3>4, CountsFacts
  <2> QED BY <2>1
<1>8. /\ P \in [Player -> PlayerRecord]
      /\ \A p \in Player \ told : P[p] = s.player[p]
      /\ \A p \in told : /\ P[p].at = s.player[p].at /\ P[p].bg = s.player[p].bg
                         /\ P[p].slot = IF s.player[p].slot = Free THEN Free ELSE b
                         /\ e \in ToSet(P[p].events)
  <2>1. e \in Event
    BY <1>1 DEF Event
  <2>2. ASSUME NEW p \in told
        PROVE  /\ Told(s.player[p]) \in PlayerRecord
               /\ Told(s.player[p]).at = s.player[p].at /\ Told(s.player[p]).bg = s.player[p].bg
               /\ Told(s.player[p]).slot = IF s.player[p].slot = Free THEN Free ELSE b
               /\ e \in ToSet(Told(s.player[p]).events)
    <3>1. s.player[p] \in PlayerRecord /\ s.player[p].events \in Seq(Event)
      BY <1>1, <1>4 DEF PlayerRecord
    <3>2. PICK a : a = Append(s.player[p].events, e)
      OBVIOUS
    <3>3. a \in Seq(Event) /\ e \in ToSet(a)
      <4> HIDE DEF e
      <4> QED BY <2>1, <3>1, <3>2, AppendFacts
    <3>4. Told(s.player[p]) = [s.player[p] EXCEPT !.slot = IF @ = Free THEN Free ELSE b, !.events = a]
      <4> HIDE DEF e
      <4> QED BY <3>1, <3>2 DEF PlayerRecord
    <3> HIDE DEF e
    <3> QED BY <1>1, <3>1, <3>3, <3>4 DEF PlayerRecord
  <2> HIDE DEF Told, e
  <2> QED BY <1>1, <1>4, <2>2
<1>9. PICK x : x = [s.bgs[b] EXCEPT !.invited = I]
  OBVIOUS
<1>10. x \in BattleGround /\ x.invited = I /\ x.members = s.bgs[b].members /\ x.status = s.bgs[b].status
  <2> HIDE DEF I
  <2> QED BY <1>1, <1>7, <1>9 DEF BattleGround
<1>11. D \in SUBSET BG
  BY <1>1
<1> HIDE DEF Q, I, P, D
<1>12. /\ t \in States /\ t.queue = Q /\ t.player = P /\ t.tainted = D /\ t.free = s.free
       /\ t.bgs = [s.bgs EXCEPT ![b] = x]
  <2>1. t = [s EXCEPT !.queue = Q, !.bgs = [s.bgs EXCEPT ![b] = x], !.player = P, !.tainted = D]
    BY <1>1, <1>3, <1>9 DEF States
  <2>2. [s.bgs EXCEPT ![b] = x] \in [BG -> BattleGround \cup {None}]
    BY <1>1, <1>10
  <2> QED BY <1>6, <1>8, <1>11, <2>1, <2>2 DEF States
<1>13. t.bgs[b] = x /\ \A c \in BG \ {b} : t.bgs[c] = s.bgs[c]
  BY <1>1, <1>12
<1>14. \A g : g \in Groups(t) <=> \E h \in Groups(s) : g = InvitedTo(h, selected, b)
  <2>1. /\ \A g : g \in Groups(t) <=> \E k \in Kind, u \in Team : g \in ToSet(t.queue[k][u])
        /\ \A g : g \in Groups(s) <=> \E k \in Kind, u \in Team : g \in ToSet(s.queue[k][u])
    BY <1>12, GroupsFacts
  <2>2. \A k \in Kind, u \in Team : \A g :
           g \in ToSet(t.queue[k][u]) <=> \E h \in ToSet(s.queue[k][u]) : g = InvitedTo(h, selected, b)
    BY <1>5, <1>12
  <2>3. ASSUME NEW g, g \in Groups(t) PROVE \E h \in Groups(s) : g = InvitedTo(h, selected, b)
    <3>1. PICK k \in Kind, u \in Team : g \in ToSet(t.queue[k][u])
      BY <2>1, <2>3
    <3>2. PICK h \in ToSet(s.queue[k][u]) : g = InvitedTo(h, selected, b)
      BY <2>2, <3>1
    <3> QED BY <2>1, <3>2
  <2>4. ASSUME NEW h \in Groups(s) PROVE InvitedTo(h, selected, b) \in Groups(t)
    <3>1. PICK k \in Kind, u \in Team : h \in ToSet(s.queue[k][u])
      BY <2>1
    <3>2. InvitedTo(h, selected, b) \in ToSet(t.queue[k][u])
      BY <2>2, <3>1
    <3> QED BY <2>1, <3>2
  <2> QED BY <2>3, <2>4
<1>15. \A k \in Kind, u \in Team : \A g :
          g \in ToSet(t.queue[k][u]) => \E h \in ToSet(s.queue[k][u]) : g = InvitedTo(h, selected, b)
  BY <1>5, <1>12
<1>16. \A u \in Team : t.bgs[b].invited[u] =
          (s.bgs[b].invited[u] + Cardinality({p \in told : TeamOf[p] = u})) % Counts
  BY <1>10, <1>13 DEF I
<1>17. InvitedAs(s, t, selected, b, told)
  <2>1. t.tainted = IF told = UNION selected THEN s.tainted ELSE s.tainted \cup {b}
    BY <1>12 DEF D
  <2> HIDE DEF told
  <2> QED BY <1>8, <1>10, <1>12, <1>13, <1>14, <1>15, <1>16, <2>1 DEF InvitedAs
<1> QED BY <1>2, <1>17

\* Groups that wait are invited, to a battleground that has places for their players.
LEMMA InviteInv ==
  ASSUME NEW n \in Nat, NEW s, Inv(s, n), NEW b \in Running(s), NEW selected \in SUBSET WaitingSets(s),
         b \notin s.tainted => \A u \in Team :
            s.bgs[b].invited[u] + Cardinality({p \in UNION selected : TeamOf[p] = u}) <= n
  PROVE  LET t == InviteGroupsToBG(s, selected, b) IN
         /\ Inv(t, n) /\ Running(t) = Running(s)
         /\ t.bgs[b].status = s.bgs[b].status
<1>1. /\ s \in States /\ QueueInv(s) /\ ToSet(s.free) \subseteq Running(s) /\ Running(s) \subseteq BG
      /\ s.bgs[b] \in BattleGround /\ Groups(s) \subseteq Group /\ None \notin Running(s)
  BY InvTypes, RunningFacts, GroupsFacts
<1>2. PICK t : t = InviteGroupsToBG(s, selected, b)
  OBVIOUS
<1>3. PICK U, told : U = UNION selected /\ told = {p \in UNION selected : s.player[p].at = "world"}
  OBVIOUS
<1>4. selected \in SUBSET (SUBSET Player)
  BY <1>1 DEF WaitingSets, Group
<1>5. InvitedAs(s, t, selected, b, told)
  BY <1>1, <1>2, <1>3, <1>4, InviteFacts
<1>6. \A g \in Groups(s) : g.players \in selected => g.invited = None /\ g.players \subseteq U
  <2> TAKE g \in Groups(s)
  <2> HAVE g.players \in selected
  <2>1. PICK h \in Groups(s) : h.invited = None /\ h.players = g.players
    BY DEF WaitingSets
  <2>2. g.players # {}
    BY <1>1 DEF Group
  <2>3. g = h
    BY <1>1, <2>1, <2>2 DEF QueueInv
  <2> QED BY <1>3, <2>1, <2>3
<1>7. \A p \in U : /\ p \in Player /\ \E g \in Groups(s) : p \in g.players /\ g.players \in selected
                   /\ Invites(s, p) = {None}
  <2> TAKE p \in U
  <2>1. PICK z \in selected : p \in z
    BY <1>3
  <2>2. PICK g \in Groups(s) : g.invited = None /\ g.players = z
    BY <2>1 DEF WaitingSets
  <2>3. \A i : i \in Invites(s, p) <=> \E h \in Groups(s) : p \in h.players /\ h.invited = i
    BY <1>1, GroupsFacts
  <2>4. \A h \in Groups(s) : p \in h.players => h = g
    BY <1>1, <2>1, <2>2 DEF QueueInv
  <2>5. \A i : i \in Invites(s, p) <=> i = None
    BY <2>1, <2>2, <2>3, <2>4
  <2>6. Invites(s, p) = {None}
    BY <2>5
  <2> QED BY <1>4, <2>1, <2>2, <2>6
<1>8. \A p \in U : /\ s.player[p].slot = None /\ s.player[p].at \in {"world", "travel"} /\ MemberOf(s, p) = {}
                   /\ PInv(s, p) /\ s.player[p] \in PlayerRecord
  <2> TAKE p \in U
  <2>1. PInv(s, p) /\ Invites(s, p) = {None} /\ s.player[p] \in PlayerRecord
    BY <1>7, InvTypes
  <2> QED BY <2>1 DEF PInv, PlayerInv
<1>9. t \in States /\ t.tainted = (IF told = U THEN s.tainted ELSE s.tainted \cup {b}) /\ told \subseteq U
  BY <1>3, <1>5 DEF InvitedAs
<1>10. /\ \A p, i : i \in Invites(s, p) <=> \E g \in Groups(s) : p \in g.players /\ g.invited = i
       /\ \A p, i : i \in Invites(t, p) <=> \E g \in Groups(t) : p \in g.players /\ g.invited = i
       /\ \A g : g \in Groups(t) <=> \E h \in Groups(s) : g = InvitedTo(h, selected, b)
  BY <1>1, <1>5, <1>9, GroupsFacts DEF InvitedAs
<1>11. \A g \in Groups(s) : /\ InvitedTo(g, selected, b).players = g.players
                            /\ InvitedTo(g, selected, b).invited = IF g.players \in selected THEN b ELSE g.invited
  BY <1>1 DEF InvitedTo, Group
<1>12. ASSUME NEW p \in U PROVE Invites(t, p) = {b}
  <2>1. PICK g \in Groups(s) : p \in g.players /\ g.players \in selected
    BY <1>7
  <2>2. \A h \in Groups(s) : p \in h.players => h = g
    BY <1>1, <2>1 DEF QueueInv
  <2>3. \A i : i \in Invites(t, p) => i = b
    <3> SUFFICES ASSUME NEW i \in Invites(t, p) PROVE i = b
      OBVIOUS
    <3>1. PICK h \in Groups(s) : p \in InvitedTo(h, selected, b).players /\ InvitedTo(h, selected, b).invited = i
      BY <1>10
    <3> QED BY <1>11, <2>1, <2>2, <3>1
  <2>4. b \in Invites(t, p)
    <3>1. InvitedTo(g, selected, b) \in Groups(t)
      BY <1>10
    <3>2. p \in InvitedTo(g, selected, b).players /\ InvitedTo(g, selected, b).invited = b
      BY <1>11, <2>1
    <3> QED BY <1>10, <3>1, <3>2
  <2> QED BY <2>3, <2>4
<1>13. ASSUME NEW p, p \notin U PROVE Invites(t, p) = Invites(s, p)
  <2>1. \A g \in Groups(s) : p \in g.players => InvitedTo(g, selected, b).invited = g.invited
    BY <1>6, <1>11, <1>13
  <2>2. ASSUME NEW i \in Invites(t, p) PROVE i \in Invites(s, p)
    <3>1. PICK h \in Groups(s) : p \in InvitedTo(h, selected, b).players /\ InvitedTo(h, selected, b).invited = i
      BY <1>10
    <3> QED BY <1>10, <1>11, <2>1, <3>1
  <2>3. ASSUME NEW i \in Invites(s, p) PROVE i \in Invites(t, p)
    <3>1. PICK h \in Groups(s) : p \in h.players /\ h.invited = i
      BY <1>10
    <3>2. InvitedTo(h, selected, b) \in Groups(t)
      BY <1>10
    <3> QED BY <1>10, <1>11, <2>1, <3>1, <3>2
  <2> QED BY <2>2, <2>3
<1>14. QueueInv(t)
  <2>1. ASSUME NEW k \in Kind, NEW u \in Team, NEW g \in ToSet(t.queue[k][u]), NEW p \in g.players
        PROVE  TeamOf[p] = u
    <3>1. PICK h \in ToSet(s.queue[k][u]) : g = InvitedTo(h, selected, b)
      BY <1>5 DEF InvitedAs
    <3>2. h \in Groups(s)
      BY <1>1, <3>1, GroupsFacts
    <3>3. p \in h.players
      BY <1>11, <3>1, <3>2
    <3> QED BY <1>1, <3>3 DEF QueueInv
  <2>2. ASSUME NEW g \in Groups(t), NEW h \in Groups(t), g.players \cap h.players # {} PROVE g = h
    <3>1. PICK x \in Groups(s), y \in Groups(s) : g = InvitedTo(x, selected, b) /\ h = InvitedTo(y, selected, b)
      BY <1>10
    <3>2. x.players \cap y.players # {}
      BY <1>11, <2>2, <3>1
    <3> QED BY <1>1, <3>1, <3>2 DEF QueueInv
  <2> QED BY <2>1, <2>2 DEF QueueInv
<1>15. /\ Running(t) = Running(s)
       /\ \A c \in Running(s) : t.bgs[c].members = s.bgs[c].members
  <2>1. s.bgs[b] # None /\ b \in BG /\ t.bgs[b] # None
    BY <1>1, <1>5, NoneIsNothing DEF Running, InvitedAs
  <2>2. Running(t) = Running(s)
    BY <1>5, <2>1 DEF Running, InvitedAs
  <2>3. ASSUME NEW c \in Running(s) PROVE t.bgs[c].members = s.bgs[c].members
    <3>1. c \in BG
      BY <1>1
    <3> QED BY <1>5, <3>1 DEF InvitedAs
  <2> QED BY <2>2, <2>3
<1>16. \A p : MemberOf(t, p) = MemberOf(s, p)
  BY <1>15, SameFacts
<1>17. ASSUME NEW p \in Player
       PROVE  /\ t.player[p].at = s.player[p].at /\ t.player[p].bg = s.player[p].bg
              /\ p \in told => t.player[p].slot = b /\ [bg |-> b, now |-> TRUE] \in ToSet(t.player[p].events)
              /\ p \notin told => t.player[p] = s.player[p]
  <2>1. CASE p \in told
    <3>1. s.player[p].slot = None /\ None # Free
      BY <1>8, <1>9, <2>1, BattleGroundConstants
    <3> QED BY <1>5, <2>1, <3>1 DEF InvitedAs
  <2>2. CASE p \notin told
    BY <1>5, <2>2 DEF InvitedAs
  <2> QED BY <2>1, <2>2
<1>18. ASSUME NEW p \in Player PROVE PInv(t, p)
  <2>1. CASE p \in told
    <3>1. p \in U /\ s.player[p].at = "world"
      BY <1>3, <2>1
    <3>2. /\ Invites(t, p) = {b} /\ MemberOf(t, p) = {} /\ t.player[p].slot = b /\ t.player[p].at = "world"
          /\ [bg |-> b, now |-> TRUE] \in ToSet(t.player[p].events) /\ t.player[p].bg = s.player[p].bg
      BY <1>8, <1>12, <1>16, <1>17, <2>1, <3>1
    <3>3. s.player[p].bg \in Running(s) => s.player[p].bg \in s.tainted
      BY <1>8, <3>1 DEF PInv, PlayerInv
    <3>4. s.tainted \subseteq t.tainted
      BY <1>9
    <3> QED BY <1>15, <3>2, <3>3, <3>4 DEF PInv, PlayerInv
  <2>2. CASE p \in U /\ p \notin told
    <3>1. b \in t.tainted /\ None \notin BG
      BY <1>9, <2>2, BattleGroundConstants
    <3>2. s.player[p].at = "travel" /\ s.player[p].slot = None
      BY <1>3, <1>8, <2>2
    <3>3. Invites(t, p) = {b} /\ MemberOf(t, p) = {} /\ t.player[p] = s.player[p]
      BY <1>8, <1>12, <1>16, <1>17, <2>2
    <3> QED BY <3>1, <3>2, <3>3 DEF PInv, PlayerInv
  <2>3. CASE p \notin U
    <3>1. t.player[p] = s.player[p] /\ Invites(t, p) = Invites(s, p) /\ MemberOf(t, p) = MemberOf(s, p)
      BY <1>9, <1>13, <1>16, <1>17, <2>3
    <3>2. PInv(s, p) /\ s.tainted \subseteq t.tainted
      BY <1>9, InvTypes
    <3> QED BY <1>15, <3>1, <3>2 DEF PInv, PlayerInv
  <2> QED BY <2>1, <2>2, <2>3
<1>19. ASSUME NEW c \in Running(t) \ t.tainted, NEW u \in Team
       PROVE  /\ t.bgs[c].invited[u] = Cardinality(PlacedOf(t, c, u))
              /\ t.bgs[c].invited[u] <= n
  <2>1. /\ c \in Running(s) \ s.tainted /\ s.bgs[c].invited[u] = Cardinality(PlacedOf(s, c, u))
        /\ s.bgs[c].invited[u] <= n
    BY <1>9, <1>15 DEF Inv, CountInv
  <2>2. CASE c # b
    <3>1. \A p \in Player : Placed(t, p, c) <=> Placed(s, p, c)
      <4> TAKE p \in Player
      <4>1. c \in Invites(t, p) <=> c \in Invites(s, p)
        <5>1. CASE p \in U
          <6>1. c # None
            BY <1>1, <2>1
          <6> QED BY <1>7, <1>12, <2>2, <5>1, <6>1
        <5>2. CASE p \notin U
          BY <1>13, <5>2
        <5> QED BY <5>1, <5>2
      <4> QED BY <1>16, <1>17, <4>1 DEF Placed
    <3>2. PlacedOf(t, c, u) = PlacedOf(s, c, u)
      BY <3>1 DEF PlacedOf
    <3>3. t.bgs[c] = s.bgs[c]
      BY <1>1, <1>5, <2>1, <2>2 DEF InvitedAs
    <3> QED BY <2>1, <3>2, <3>3
  <2>3. CASE c = b
    <3>1. told = U /\ b \notin s.tainted
      BY <1>9, <2>1, <2>3
    <3>2. PICK N : N = {p \in U : TeamOf[p] = u}
      OBVIOUS
    <3>3. N \subseteq Player /\ IsFiniteSet(N)
      BY <1>7, <3>2, BattleGroundConstants, FS_Subset
    <3>4. \A p \in U : Placed(t, p, b) /\ ~Placed(s, p, b)
      <4> TAKE p \in U
      <4>1. Placed(t, p, b)
        BY <1>12 DEF Placed
      <4>2. b \notin Invites(s, p) /\ b \notin MemberOf(s, p) /\ s.player[p].at # "to_bg"
        BY <1>1, <1>7, <1>8
      <4> QED BY <4>1, <4>2 DEF Placed
    <3>5. \A p \in Player \ U : Placed(t, p, b) <=> Placed(s, p, b)
      BY <1>13, <1>16, <1>17 DEF Placed
    <3>6. PlacedOf(t, b, u) = PlacedOf(s, b, u) \cup N /\ PlacedOf(s, b, u) \cap N = {}
      BY <1>7, <3>2, <3>4, <3>5 DEF PlacedOf
    <3>7. PICK A, B, C : A = PlacedOf(s, b, u) /\ B = PlacedOf(t, b, u) /\ C = A \cap N
      OBVIOUS
    <3>8. IsFiniteSet(A) /\ IsFiniteSet(B) /\ B \subseteq Player /\ Cardinality(A) \in Nat /\ Cardinality(B) \in Nat
      <4>1. IsFiniteSet(PlacedOf(s, b, u)) /\ Cardinality(PlacedOf(s, b, u)) \in Nat
        BY PlacedFinite
      <4>2. IsFiniteSet(PlacedOf(t, b, u)) /\ Cardinality(PlacedOf(t, b, u)) \in Nat
        BY PlacedFinite
      <4>3. PlacedOf(t, b, u) \subseteq Player
        BY DEF PlacedOf
      <4> QED BY <3>7, <4>1, <4>2, <4>3
    <3>9. Cardinality(B) = Cardinality(A) + Cardinality(N) /\ Cardinality(N) \in Nat
      <4>1. B = A \cup N /\ A \cap N = {}
        BY <3>6, <3>7
      <4>2. Cardinality(A \cup N) = Cardinality(A) + Cardinality(N) - Cardinality(A \cap N)
        BY <3>3, <3>8, FS_Union
      <4>3. Cardinality(A \cap N) = 0
        BY <4>1, FS_EmptySet
      <4>4. Cardinality(N) \in Nat
        BY <3>3, FS_CardinalityType
      <4> QED BY <3>8, <4>1, <4>2, <4>3, <4>4
    <3>10. Cardinality(B) <= Cardinality(Player)
      BY <3>8, BattleGroundConstants, FS_Subset
    <3>11. t.bgs[b].invited[u] = (s.bgs[b].invited[u] + Cardinality(N)) % Counts
      BY <1>5, <3>1, <3>2 DEF InvitedAs
    <3>12. s.bgs[b].invited[u] + Cardinality(N) <= n
      BY <1>3, <3>1, <3>2
    <3>13. t.bgs[b].invited[u] = Cardinality(B)
      <4>1. s.bgs[b].invited[u] = Cardinality(A)
        BY <2>1, <2>3, <3>7
      <4>2. t.bgs[b].invited[u] = Cardinality(B) % Counts
        BY <3>9, <3>11, <4>1
      <4>3. Cardinality(B) \in Nat /\ Cardinality(B) < Counts
        BY <3>8, <3>10, CountsFacts
      <4> QED BY <4>2, <4>3, CountsFacts
    <3>14. Cardinality(B) <= n
      BY <2>1, <2>3, <3>7, <3>9, <3>12
    <3> QED BY <2>3, <3>7, <3>13, <3>14
  <2> QED BY <2>2, <2>3
<1>20. ToSet(t.free) \subseteq Running(t) /\ t.bgs[b].status = s.bgs[b].status
  BY <1>1, <1>5, <1>15 DEF InvitedAs
<1>21. Inv(t, n)
  BY <1>9, <1>14, <1>18, <1>19, <1>20 DEF Inv, CountInv
<1> QED BY <1>2, <1>15, <1>20, <1>21

-----------------------------------------------------------------------------
(* Filling a battleground and creating one *)

\* Players who wait in groups of team u.
TeamWaits(s, u) == Waiters(s.queue["normal"][u]) \cup Waiters(s.queue["premade"][u])

LEMMA TeamWaitsFacts ==
  ASSUME NEW s \in States, QueueInv(s), NEW u \in Team
  PROVE  /\ TeamWaits(s, u) \subseteq WaitingSets(s) /\ TeamWaits(s, u) \subseteq SUBSET Player
         /\ \A z \in TeamWaits(s, u) : \A p \in z : TeamOf[p] = u
<1>1. \A k \in Kind : Waiters(s.queue[k][u]) \subseteq WaitingSets(s)
  <2>1. \A k \in Kind : \A g \in ToSet(s.queue[k][u]) : g \in Groups(s)
    BY GroupsFacts
  <2> QED BY <2>1 DEF Waiters, WaitingSets
<1>2. \A k \in Kind : \A z \in Waiters(s.queue[k][u]) : \A p \in z : TeamOf[p] = u
  BY DEF Waiters, QueueInv
<1>3. "normal" \in Kind /\ "premade" \in Kind
  BY DEF Kind
<1>4. WaitingSets(s) \subseteq SUBSET Player
  BY GroupsFacts DEF WaitingSets, Group
<1> QED BY <1>1, <1>2, <1>3, <1>4 DEF TeamWaits

\* The pools of the two teams, invited together.
PoolsFit(s, b, G, S, n) ==
    /\ \A z : z \in S <=> \E u \in Team : z \in G[u]
    /\ \A u \in Team : G[u] \subseteq TeamWaits(s, u)
    /\ b \notin s.tainted => \A u \in Team : s.bgs[b].invited[u] + Cardinality(UNION G[u]) <= n

LEMMA InvitePools ==
  ASSUME NEW n \in Nat, NEW s, Inv(s, n), NEW b \in Running(s), NEW G, NEW S, PoolsFit(s, b, G, S, n)
  PROVE  LET t == InviteGroupsToBG(s, S, b) IN
         /\ Inv(t, n) /\ Running(t) = Running(s)
         /\ t.bgs[b].status = s.bgs[b].status
<1>1. s \in States /\ QueueInv(s)
  BY InvTypes
<1>3. S \in SUBSET WaitingSets(s)
  BY <1>1, TeamWaitsFacts DEF PoolsFit
<1>4. ASSUME NEW u \in Team PROVE {p \in UNION S : TeamOf[p] = u} = UNION G[u]
  <2>1. \A v \in Team : \A p \in UNION G[v] : TeamOf[p] = v
    BY <1>1, TeamWaitsFacts DEF PoolsFit
  <2>2. \A p : p \in UNION S <=> \E v \in Team : p \in UNION G[v]
    BY DEF PoolsFit
  <2> QED BY <2>1, <2>2
<1>5. b \notin s.tainted => \A u \in Team :
            s.bgs[b].invited[u] + Cardinality({p \in UNION S : TeamOf[p] = u}) <= n
  BY <1>4 DEF PoolsFit
<1> QED BY <1>3, <1>5, InviteInv

LEMMA NoPoolFacts == ASSUME NEW m \in Nat, NEW P PROVE NoPool \in Pool(P, m)
<1>1. Cardinality(UNION {}) = 0
  <2>1. UNION {} = {}
    OBVIOUS
  <2> QED BY <2>1, FS_EmptySet
<1>2. NoPool \in [groups : SUBSET P, count : Nat] /\ NoPool.groups = {} /\ NoPool.count = 0
  BY DEF NoPool
<1>3. 0 <= m
  OBVIOUS
<1>4. Cardinality(UNION NoPool.groups) = 0
  BY <1>1, <1>2
<1>5. PICK r : r = NoPool
  OBVIOUS
<1>6. r \in [groups : SUBSET P, count : Nat] /\ r.count = 0 /\ Cardinality(UNION r.groups) = 0
  BY <1>2, <1>4, <1>5, Zenon
<1>7. Cardinality(UNION r.groups) <= r.count /\ r.count <= m
  BY <1>3, <1>6
<1> QED BY <1>5, <1>6, <1>7 DEF Pool

LEMMA RemoveFreeInv ==
  ASSUME NEW n \in Nat, NEW s, Inv(s, n), NEW b
  PROVE  LET t == RemoveFromBGFreeSlotQueue(s, b) IN
         /\ Inv(t, n) /\ Running(t) = Running(s) /\ b \notin ToSet(t.free)
         /\ t.player = s.player /\ t.queue = s.queue /\ t.bgs = s.bgs /\ t.tainted = s.tainted
<1>1. s \in States /\ ToSet(s.free) \subseteq Running(s)
  BY InvTypes
<1>2. PICK q : q = Without(s.free, b)
  OBVIOUS
<1>3. q \in Seq(BG) /\ ToSet(q) \subseteq ToSet(s.free) \ {b}
  BY <1>1, <1>2, WithoutFacts DEF States
<1>4. PICK t : t = RemoveFromBGFreeSlotQueue(s, b)
  OBVIOUS
<1>5. t = [s EXCEPT !.free = q]
  BY <1>2, <1>4 DEF RemoveFromBGFreeSlotQueue
<1>6. /\ t \in States /\ t.player = s.player /\ t.queue = s.queue /\ t.free = q
      /\ t.tainted = s.tainted /\ t.bgs = s.bgs
  BY <1>1, <1>3, <1>5 DEF States
<1>7. Running(t) = Running(s)
  BY <1>6 DEF Running
<1>8. Inv(t, n)
  BY <1>1, <1>3, <1>6, <1>7, SameCounters
<1> QED BY <1>3, <1>4, <1>6, <1>7, <1>8

LEMMA FillInv ==
  ASSUME NEW s, Inv(s, MaxPlayersPerTeam), MaxPlayersPerTeam \in Nat, NEW b \in Running(s)
  PROVE  LET t == FillPlayersToBG(s, b) IN Inv(t, MaxPlayersPerTeam) /\ Running(t) = Running(s)
<1> PICK n \in Nat : n = MaxPlayersPerTeam
  OBVIOUS
<1>1. s \in States /\ QueueInv(s) /\ s.bgs[b] \in BattleGround
  BY InvTypes, RunningFacts
<1>2. \A u \in Team : s.queue["normal"][u] \in Seq(Group)
  BY <1>1 DEF States, Kind
<1>3. CASE s.bgs[b].status = "WAIT_LEAVE"
  BY <1>3 DEF FillPlayersToBG
<1>4. CASE s.bgs[b].status # "WAIT_LEAVE"
  <2> DEFINE Places(u) == GetFreeSlotsForTeam(s, b, u)
             P(u) == Select(s.queue["normal"][u], NoPool, Places(u), Places(u))
             G == [u \in Team |-> P(u).groups]
  <2>1. ASSUME NEW u \in Team PROVE Places(u) \in Nat /\ (b \notin s.tainted => s.bgs[b].invited[u] + Places(u) <= n)
    <3>1. s.bgs[b].invited[u] \in Nat
      <4>1. s.bgs[b].invited[u] \in 0 .. Counts - 1
        BY <1>1 DEF BattleGround
      <4> QED BY <4>1
    <3>2. b \notin s.tainted => s.bgs[b].invited[u] <= n
      BY DEF Inv, CountInv
    <3> QED BY <3>1, <3>2 DEF GetFreeSlotsForTeam
  <2>2. ASSUME NEW u \in Team
        PROVE  P(u) \in Pool(TeamWaits(s, u), Places(u))
    <3>1. Places(u) \in Nat
      BY <2>1
    <3>2. TeamWaits(s, u) \in SUBSET (SUBSET Player) /\ Waiters(s.queue["normal"][u]) \subseteq TeamWaits(s, u)
      BY <1>1, TeamWaitsFacts DEF TeamWaits
    <3>3. PICK m \in Nat : m = Places(u)
      BY <3>1
    <3>4. PICK q \in Seq(Group) : q = s.queue["normal"][u]
      BY <1>2
    <3>5. NoPool \in Pool(TeamWaits(s, u), m)
      BY NoPoolFacts
    <3>6. Select(q, NoPool, m, m) \in Pool(TeamWaits(s, u), m)
      <4>1. m <= m
        OBVIOUS
      <4> QED BY <3>2, <3>4, <3>5, <4>1, SelectFacts
    <3> HIDE DEF Places
    <3> QED BY <3>3, <3>4, <3>6
  <2>3. ASSUME NEW u \in Team
        PROVE  /\ G[u] \subseteq TeamWaits(s, u)
               /\ b \notin s.tainted => s.bgs[b].invited[u] + Cardinality(UNION G[u]) <= n
    <3>1. PICK r : r = P(u)
      OBVIOUS
    <3>2. r \in Pool(TeamWaits(s, u), Places(u)) /\ G[u] = r.groups
      <4> HIDE DEF P
      <4> QED BY <2>2, <3>1
    <3>3. /\ r.groups \subseteq TeamWaits(s, u) /\ Cardinality(UNION r.groups) <= r.count
          /\ r.count <= Places(u) /\ r.count \in Nat
      <4> HIDE DEF Places
      <4> QED BY <3>2 DEF Pool
    <3>4. Cardinality(UNION r.groups) \in Nat
      <4>1. UNION r.groups \subseteq Player
        BY <1>1, <3>3, TeamWaitsFacts
      <4> QED BY <4>1, BattleGroundConstants, FS_Subset, FS_CardinalityType
    <3>5. s.bgs[b].invited[u] \in Nat
      <4>1. s.bgs[b].invited[u] \in 0 .. Counts - 1
        BY <1>1 DEF BattleGround
      <4> QED BY <4>1
    <3>6. PICK c, a, l, i : c = Cardinality(UNION r.groups) /\ a = r.count /\ l = Places(u) /\ i = s.bgs[b].invited[u]
      OBVIOUS
    <3>7. b \notin s.tainted => i + c <= n
      <4>1. c <= a /\ a <= l /\ a \in Nat /\ c \in Nat /\ i \in Nat /\ l \in Nat
            /\ (b \notin s.tainted => i + l <= n)
        <5> HIDE DEF Places
        <5> QED BY <2>1, <3>3, <3>4, <3>5, <3>6
      <4> QED BY <4>1
    <3> HIDE DEF G, Places
    <3> QED BY <3>2, <3>3, <3>6, <3>7
  <2>4. PICK S : S = UNION {P(u).groups : u \in Team}
    OBVIOUS
  <2>5. PICK filled : filled = InviteGroupsToBG(s, S, b)
    OBVIOUS
  <2>6. Inv(filled, n) /\ Running(filled) = Running(s)
    <3>1. \A z : z \in S <=> \E u \in Team : z \in G[u]
      <4>1. \A u \in Team : G[u] = P(u).groups
        OBVIOUS
      <4> HIDE DEF G, P
      <4> QED BY <2>4, <4>1
    <3>2. Inv(s, n)
      OBVIOUS
    <3>3. PICK g : g = G
      OBVIOUS
    <3>4. PoolsFit(s, b, g, S, n)
      <4> HIDE DEF G
      <4> QED BY <2>3, <3>1, <3>3 DEF PoolsFit
    <3>5. Inv(InviteGroupsToBG(s, S, b), n) /\ Running(InviteGroupsToBG(s, S, b)) = Running(s)
      <4> HIDE DEF G, P, Places
      <4> QED BY <3>2, <3>4, InvitePools
    <3> QED BY <2>5, <3>5, Zenon
  <2>7. FillPlayersToBG(s, b) = IF HasFreeSlots(filled, b) THEN filled
                                ELSE RemoveFromBGFreeSlotQueue(filled, b)
    <3>1. filled = InviteGroupsToBG(s, UNION {P(u).groups : u \in Team}, b)
      BY <2>4, <2>5
    <3> QED BY <1>4, <3>1 DEF FillPlayersToBG
  <2>8. Inv(RemoveFromBGFreeSlotQueue(filled, b), n) /\ Running(RemoveFromBGFreeSlotQueue(filled, b)) = Running(s)
    BY <2>6, RemoveFreeInv
  <2> QED BY <2>6, <2>7, <2>8
<1> QED BY <1>3, <1>4

-----------------------------------------------------------------------------
(* The updates of the queue *)

LEMMA FilledInv ==
  ASSUME NEW s, Inv(s, MaxPlayersPerTeam), MaxPlayersPerTeam \in Nat
  PROVE  Inv(Filled(s), MaxPlayersPerTeam) /\ Running(Filled(s)) = Running(s)
<1>1. s \in States /\ ToSet(s.free) \subseteq Running(s) /\ s.free \in Seq(BG)
  BY InvTypes DEF States
<1>2. PICK a : a = [s EXCEPT !.scheduled = FALSE, !.late = FALSE]
  OBVIOUS
<1>3. /\ a \in States /\ a.player = s.player /\ a.queue = s.queue /\ a.bgs = s.bgs
      /\ a.free = s.free /\ a.tainted = s.tainted
  BY <1>1, <1>2 DEF States
<1>4. Inv(a, MaxPlayersPerTeam) /\ Running(a) = Running(s)
  <2>1. Running(a) = Running(s)
    BY <1>3 DEF Running
  <2> QED BY <1>3, <2>1, Quiet
<1>5. PICK q \in Seq(BG) : q = s.free
  BY <1>1
<1> DEFINE n == Len(q)
           Step(r, b) == FillPlayersToBG(r, b)
           E(f) == f = [S \in SUBSET (1 .. n) |-> IF S = {} THEN a
                                                  ELSE Step(f[S \ {Max(S)}], q[Max(S)])]
           it == CHOOSE f : E(f)
           X == {x \in States : Inv(x, MaxPlayersPerTeam) /\ Running(x) = Running(s)}
           F == [z \in (1 .. n) \X X |-> Step(z[2], q[z[1]])]
           ST == [k \in 0 .. n |-> X]
<1>6. n \in Nat /\ DOMAIN q = 1 .. n /\ \A i \in 1 .. n : q[i] \in Running(s)
  BY <1>1, <1>5, SeqFacts
<1>7. FoldLeft(FillPlayersToBG, a, q) = it[1 .. n]
  BY <1>6 DEF FoldLeft, MapThenFoldSet
<1>8. ASSUME NEW x \in X, NEW b \in Running(s) PROVE Step(x, b) \in X
  <2>1. Inv(x, MaxPlayersPerTeam) /\ b \in Running(x) /\ Running(x) = Running(s)
    OBVIOUS
  <2>2. PICK y : y = FillPlayersToBG(x, b)
    OBVIOUS
  <2>3. Inv(y, MaxPlayersPerTeam) /\ Running(y) = Running(s)
    BY <2>1, <2>2, FillInv
  <2>4. y \in X
    BY <2>3 DEF Inv
  <2> QED BY <2>2, <2>4
<1>9. ASSUME NEW i \in 1 .. n, NEW x \in X PROVE F[<<i, x>>] = Step(x, q[i]) /\ F[<<i, x>>] \in X
  <2>1. F[<<i, x>>] = Step(x, q[i])
    <3> HIDE DEF X, Step
    <3> QED OBVIOUS
  <2>2. Step(x, q[i]) \in X
    <3> HIDE DEF X, Step
    <3> QED BY <1>6, <1>8
  <2> HIDE DEF F, Step, X
  <2> QED BY <2>1, <2>2
<1>10. a \in X
  BY <1>3, <1>4
<1> HIDE DEF X
<1>11. PICK h \in [SUBSET (1 .. n) -> X] : Folds2(h, F, a, n)
  <2> HIDE DEF n, F
  <2> QED BY <1>6, <1>9, <1>10, FoldExists
<1>12. E(h)
  <2> SUFFICES ASSUME NEW S \in SUBSET (1 .. n)
               PROVE  h[S] = IF S = {} THEN a ELSE Step(h[S \ {Max(S)}], q[Max(S)])
    BY <1>11
  <2>1. h[S] = IF S = {} THEN a ELSE F[<<Max(S), h[S \ {Max(S)}]>>]
    BY <1>11 DEF Folds2
  <2>2. S # {} => Max(S) \in 1 .. n /\ h[S \ {Max(S)}] \in X
    <3>1. S # {} => Max(S) \in S /\ S \ {Max(S)} \in SUBSET (1 .. n)
      BY <1>6, MaxOfPart
    <3> QED BY <1>11, <3>1
  <2> HIDE DEF F, Step
  <2> QED BY <1>9, <2>1, <2>2
<1>13. E(it)
  <2> HIDE DEF E
  <2> QED BY <1>12
<1>14. it[{}] \in ST[0]
  <2>1. it[{}] = a
    <3> HIDE DEF it, Step
    <3> QED BY <1>13
  <2> HIDE DEF it
  <2> QED BY <1>6, <1>10, <2>1
<1>15. ASSUME NEW k \in 1 .. n, Max(1 .. k) = k, (1 .. k) \ {k} = 1 .. k - 1, it[1 .. k - 1] \in ST[k - 1]
       PROVE  it[1 .. k] \in ST[k]
  <2>1. 1 .. k \in SUBSET (1 .. n) /\ 1 .. k # {} /\ k - 1 \in 0 .. n /\ k \in 0 .. n
    <3> HIDE DEF n
    <3> QED BY <1>6, PrefixFacts
  <2>2. it[1 .. k] = Step(it[1 .. k - 1], q[k])
    <3> HIDE DEF it, Step
    <3> QED BY <1>13, <1>15, <2>1
  <2>3. it[1 .. k - 1] \in X
    <3> HIDE DEF it
    <3> QED BY <1>15, <2>1
  <2> HIDE DEF it, Step
  <2> QED BY <1>6, <1>8, <2>1, <2>2, <2>3
<1>16. it[1 .. n] \in ST[n]
  <2> HIDE DEF ST, it, n
  <2> QED BY <1>6, <1>14, <1>15, FoldHolds
<1>17. PICK y : y = FoldLeft(FillPlayersToBG, a, q)
  OBVIOUS
<1>18. Inv(y, MaxPlayersPerTeam) /\ Running(y) = Running(s)
  <2>1. y \in X
    <3> HIDE DEF it
    <3> QED BY <1>6, <1>7, <1>16, <1>17
  <2> QED BY <2>1 DEF X
<1>19. Filled(s) = IF Groups(s) = {} THEN a ELSE y
  BY <1>2, <1>5, <1>17 DEF Filled
<1> QED BY <1>4, <1>18, <1>19

LEMMA PoolGrows ==
  ASSUME NEW P, NEW m \in Nat, NEW k \in Nat, m <= k, NEW r \in Pool(P, m)
  PROVE  r \in Pool(P, k)
<1>1. r.count \in Nat /\ r.count <= m
  BY DEF Pool
<1>2. r.count <= k
  BY <1>1
<1> QED BY <1>2 DEF Pool

\* A new battleground, which nothing refers to, with the places of nobody.
Unknown(s, b) ==
    /\ b \in BG /\ s.bgs[b] = None
    /\ \A g \in Groups(s) : g.invited # b
    /\ \A p \in Player : b # s.player[p].bg /\ b # s.player[p].slot
NewBG == [status |-> "WAIT_JOIN", invited |-> [t \in Team |-> 0], members |-> {}, offline |-> <<>>]
Created(s, b) == [s EXCEPT !.bgs = [s.bgs EXCEPT ![b] = NewBG], !.tainted = s.tainted \ {b}, !.late = TRUE]

LEMMA CreatedInv ==
  ASSUME NEW n \in Nat, NEW s, Inv(s, n), NEW b, Unknown(s, b)
  PROVE  LET t == Created(s, b) IN
         /\ Inv(t, n) /\ t.queue = s.queue /\ t.free = s.free /\ t.bgs[b] = NewBG /\ Running(t) = Running(s) \cup {b}
<1> USE DEF Unknown
<1>1. PICK x : x = NewBG
  OBVIOUS
<1>2. x \in BattleGround /\ x.members = {} /\ x.invited = [u \in Team |-> 0]
  <2>1. << >> \in Seq(Player)
    BY EmptyFacts
  <2>2. 0 \in 0 .. Counts - 1
    BY CountsFacts
  <2> QED BY <1>1, <2>1, <2>2 DEF BattleGround, Status, NewBG
<1>3. /\ s \in States /\ s.bgs \in [BG -> BattleGround \cup {None}] /\ s.tainted \subseteq BG
      /\ QueueInv(s) /\ ToSet(s.free) \subseteq Running(s) /\ b \notin Running(s)
  BY InvTypes DEF States, Running
<1>4. PICK f : f = [s.bgs EXCEPT ![b] = x]
  OBVIOUS
<1>5. f \in [BG -> BattleGround \cup {None}] /\ f[b] = x /\ (\A c \in BG \ {b} : f[c] = s.bgs[c]) /\ x # None
  BY <1>2, <1>3, <1>4, NoneIsNothing
<1>6. PICK t : t = [s EXCEPT !.bgs = f, !.tainted = s.tainted \ {b}, !.late = TRUE]
  OBVIOUS
<1>7. /\ t \in States /\ t.player = s.player /\ t.queue = s.queue /\ t.free = s.free
      /\ t.tainted = s.tainted \ {b} /\ t.bgs = f
  BY <1>3, <1>5, <1>6 DEF States
<1>8. Running(t) = Running(s) \cup {b}
  BY <1>3, <1>5, <1>7 DEF Running
<1>9. QueueInv(t) /\ \A p : Invites(t, p) = Invites(s, p) /\ b \notin Invites(s, p)
  <2>1. QueueInv(t) /\ \A p : Invites(t, p) = Invites(s, p)
    BY <1>3, <1>7, SameFacts
  <2>2. \A p, i : i \in Invites(s, p) <=> \E g \in Groups(s) : p \in g.players /\ g.invited = i
    BY <1>3, GroupsFacts
  <2> QED BY <2>1, <2>2
<1>10. \A p : MemberOf(t, p) = MemberOf(s, p)
  <2>1. t.bgs[b].members = {} /\ \A c \in Running(s) : c # b /\ t.bgs[c] = s.bgs[c]
    BY <1>2, <1>3, <1>5, <1>7 DEF Running
  <2> QED BY <1>8, <2>1 DEF MemberOf
<1>11. \A p \in Player : PInv(t, p)
  <2> TAKE p \in Player
  <2>1. PICK me, I, M, R, T : me = s.player[p] /\ I = Invites(s, p) /\ M = MemberOf(s, p) /\ R = Running(s) /\ T = s.tainted
    OBVIOUS
  <2>2. PlayerInv(me, I, M, R, T) /\ me.bg # b /\ me.slot # b /\ b \notin I
    BY <1>9, <2>1, InvTypes DEF PInv
  <2>3. PlayerInv(me, I, M, R \cup {b}, T \ {b})
    BY <2>2 DEF PlayerInv
  <2> QED BY <1>7, <1>8, <1>9, <1>10, <2>1, <2>3 DEF PInv
<1>12. CountInv(t, n)
  <2> SUFFICES ASSUME NEW c \in Running(t) \ t.tainted, NEW u \in Team
               PROVE  t.bgs[c].invited[u] = Cardinality(PlacedOf(t, c, u)) /\ t.bgs[c].invited[u] <= n
    BY DEF CountInv
  <2>1. CASE c = b
    <3>1. \A p \in Player : ~Placed(t, p, b)
      BY <1>3, <1>7, <1>9, <1>10 DEF Placed, MemberOf
    <3>2. PlacedOf(t, b, u) = {}
      BY <3>1 DEF PlacedOf
    <3>3. t.bgs[b].invited[u] = 0 /\ 0 <= n
      BY <1>2, <1>5, <1>7
    <3> QED BY <2>1, <3>2, <3>3, FS_EmptySet
  <2>2. CASE c # b
    <3>1. c \in Running(s) \ s.tainted /\ t.bgs[c] = s.bgs[c]
      BY <1>5, <1>7, <1>8, <2>2 DEF Running
    <3>2. \A p : Placed(t, p, c) <=> Placed(s, p, c)
      BY <1>7, <1>9, <1>10 DEF Placed
    <3>3. PlacedOf(t, c, u) = PlacedOf(s, c, u)
      BY <3>2 DEF PlacedOf
    <3> QED BY <3>1, <3>3 DEF Inv, CountInv
  <2> QED BY <2>1, <2>2
<1>13. Inv(t, n)
  BY <1>3, <1>7, <1>8, <1>9, <1>11, <1>12 DEF Inv
<1>14. t = Created(s, b)
  BY <1>1, <1>4, <1>6 DEF Created
<1> QED BY <1>1, <1>5, <1>7, <1>8, <1>13, <1>14

LEMMA CreateInv ==
  ASSUME NEW n \in Nat, NEW s, Inv(s, n), start \in Start, FreshBG(s) # {},
         NEW pool, \A u \in Team : pool[u] \in Pool(TeamWaits(s, u), n)
  PROVE  Inv(CreateNewBattleGround(s, pool), n)
<1>1. PICK b : b = CHOOSE x \in FreshBG(s) : TRUE
  OBVIOUS
<1>2. Unknown(s, b) /\ b \in BG
  <2>1. b \in FreshBG(s)
    BY <1>1
  <2>2. start.instances \subseteq BG
    BY BattleGroundConstants DEF Situation
  <2> QED BY <2>1, <2>2 DEF FreshBG, Unknown
<1>4. NewBG.invited = [u \in Team |-> 0]
  BY DEF NewBG
<1>5. PICK c : c = Created(s, b)
  OBVIOUS
<1>6. Inv(c, n) /\ c.queue = s.queue /\ c.free = s.free /\ c.bgs[b] = NewBG /\ Running(c) = Running(s) \cup {b}
  BY <1>2, <1>5, CreatedInv
<1>7. PICK S : S = UNION {pool[t].groups : t \in Team}
  OBVIOUS
<1>8. PICK G : G = [t \in Team |-> pool[t].groups]
  OBVIOUS
<1>9. PoolsFit(c, b, G, S, n)
  <2>1. \A z : z \in S <=> \E u \in Team : z \in G[u]
    BY <1>7, <1>8
  <2>2. \A u \in Team : TeamWaits(c, u) = TeamWaits(s, u)
    BY <1>6 DEF TeamWaits
  <2>3. s \in States /\ QueueInv(s)
    BY InvTypes
  <2>4. ASSUME NEW u \in Team
        PROVE  G[u] \subseteq TeamWaits(c, u) /\ c.bgs[b].invited[u] + Cardinality(UNION G[u]) <= n
    <3>1. PICK r : r = pool[u]
      OBVIOUS
    <3>2. r \in Pool(TeamWaits(s, u), n) /\ G[u] = r.groups
      BY <1>8, <3>1
    <3>3. r.groups \subseteq TeamWaits(s, u) /\ Cardinality(UNION r.groups) <= r.count /\ r.count <= n /\ r.count \in Nat
      BY <3>2 DEF Pool
    <3>4. Cardinality(UNION r.groups) \in Nat
      <4>1. UNION r.groups \subseteq Player
        BY <2>3, <3>3, TeamWaitsFacts
      <4> QED BY <4>1, BattleGroundConstants, FS_Subset, FS_CardinalityType
    <3>5. c.bgs[b].invited[u] = 0
      BY <1>4, <1>6
    <3>6. PICK k, m : k = Cardinality(UNION r.groups) /\ m = r.count
      OBVIOUS
    <3>7. 0 + k <= n
      BY <3>3, <3>4, <3>6
    <3> QED BY <2>2, <3>2, <3>3, <3>5, <3>6, <3>7
  <2> QED BY <2>1, <2>4 DEF PoolsFit
<1>10. PICK d : d = InviteGroupsToBG(c, S, b)
  OBVIOUS
<1>11. Inv(d, n) /\ b \in Running(d)
  <2>1. b \in Running(c)
    BY <1>6
  <2> QED BY <1>6, <1>9, <1>10, <2>1, InvitePools
<1>12. PICK e : e = AddToBGFreeSlotQueue(d, b)
  OBVIOUS
<1>13. Inv(e, n)
  <2>1. d \in States /\ ToSet(d.free) \subseteq Running(d)
    BY <1>11, InvTypes
  <2>2. /\ e \in States /\ e.player = d.player /\ e.queue = d.queue /\ e.bgs = d.bgs
        /\ e.tainted = d.tainted /\ ToSet(e.free) = ToSet(d.free) \cup {b}
    BY <1>2, <1>12, <2>1, AddToFreeFacts
  <2>3. Running(e) = Running(d)
    BY <2>2 DEF Running
  <2> QED BY <1>11, <2>1, <2>2, <2>3, SameCounters
<1>14. c = [s EXCEPT !.bgs[b] = NewBG, !.tainted = @ \ {b}, !.late = TRUE]
  <2>1. s \in States
    BY InvTypes
  <2> QED BY <1>5, <2>1 DEF States, Created
<1>15. CreateNewBattleGround(s, pool) = e
  BY <1>1, <1>7, <1>10, <1>12, <1>14, Zenon DEF CreateNewBattleGround, NewBG
<1> QED BY <1>13, <1>15

\* A group that goes from the premade queue to the normal one is still in the queue of its team.
Requeued(s, t) ==
    /\ t \in States /\ t.player = s.player /\ t.bgs = s.bgs /\ t.free = s.free /\ t.tainted = s.tainted
    /\ \A u \in Team : \A g : (\E k \in Kind : g \in ToSet(t.queue[k][u])) <=> (\E k \in Kind : g \in ToSet(s.queue[k][u]))

LEMMA RequeuedInv ==
  ASSUME NEW n \in Nat, NEW s, Inv(s, n), NEW t, Requeued(s, t)
  PROVE  Inv(t, n)
<1>1. s \in States /\ t \in States /\ QueueInv(s) /\ ToSet(s.free) \subseteq Running(s)
  BY InvTypes DEF Requeued
<1>2. Running(t) = Running(s)
  BY DEF Requeued, Running
<1>3. \A g : g \in Groups(t) <=> g \in Groups(s)
  <2>1. \A g : g \in Groups(t) <=> \E u \in Team : \E k \in Kind : g \in ToSet(t.queue[k][u])
    BY <1>1, GroupsFacts
  <2>2. \A g : g \in Groups(s) <=> \E u \in Team : \E k \in Kind : g \in ToSet(s.queue[k][u])
    BY <1>1, GroupsFacts
  <2> QED BY <2>1, <2>2 DEF Requeued
<1>4. Groups(t) = Groups(s)
  BY <1>3
<1>5. \A p : Invites(t, p) = Invites(s, p)
  BY <1>4 DEF Invites, GroupsOf
<1>6. \A p : MemberOf(t, p) = MemberOf(s, p)
  BY <1>2 DEF MemberOf, Requeued
<1>7. QueueInv(t)
  <2>1. \A k \in Kind, u \in Team : \A g \in ToSet(t.queue[k][u]) : \A p \in g.players : TeamOf[p] = u
    <3> TAKE k \in Kind, u \in Team
    <3> TAKE g \in ToSet(t.queue[k][u])
    <3>1. PICK l \in Kind : g \in ToSet(s.queue[l][u])
      BY DEF Requeued
    <3> QED BY <1>1, <3>1 DEF QueueInv
  <2> QED BY <1>1, <1>4, <2>1 DEF QueueInv
<1>8. \A p \in Player : PInv(t, p)
  BY <1>2, <1>5, <1>6 DEF Inv, PInv, Requeued
<1>9. \A b, u : PlacedOf(t, b, u) = PlacedOf(s, b, u)
  BY <1>5, <1>6 DEF PlacedOf, Placed, Requeued
<1>10. CountInv(t, n)
  BY <1>2, <1>9 DEF Inv, CountInv, Requeued
<1> QED BY <1>1, <1>2, <1>7, <1>8, <1>10 DEF Inv, Requeued

LEMMA HeadTail ==
  ASSUME NEW S, NEW q \in Seq(S), q # << >>, NEW r \in Seq(S)
  PROVE  /\ Tail(q) \in Seq(S) /\ Head(q) \in S /\ << Head(q) >> \o r \in Seq(S)
         /\ ToSet(<< Head(q) >> \o r) = {Head(q)} \cup ToSet(r)
         /\ ToSet(q) = {Head(q)} \cup ToSet(Tail(q))
<1>1. Tail(q) \in Seq(S) /\ Head(q) \in S /\ \A x : x \in ToSet(q) => x = Head(q) \/ x \in ToSet(Tail(q))
  BY TailFacts
<1>2. Len(q) \in Nat /\ Len(q) # 0 /\ Head(q) = q[1] /\ Len(Tail(q)) = Len(q) - 1
      /\ \A i \in 1 .. Len(q) - 1 : Tail(q)[i] = q[i + 1]
  BY HeadTailProperties, EmptySeq
<1>3. Head(q) \in ToSet(q)
  BY <1>2, SeqFacts
<1>4. ToSet(Tail(q)) \subseteq ToSet(q)
  <2> SUFFICES ASSUME NEW x \in ToSet(Tail(q)) PROVE x \in ToSet(q)
    OBVIOUS
  <2>1. PICK i \in 1 .. Len(Tail(q)) : x = Tail(q)[i]
    BY <1>1, SeqFacts
  <2>2. i + 1 \in 1 .. Len(q) /\ x = q[i + 1]
    BY <1>2, <2>1
  <2> QED BY <2>2, SeqFacts
<1>5. PICK h \in S : h = Head(q)
  BY <1>1
<1>6. PICK z : z = << h >> \o r
  OBVIOUS
<1>7. << h >> \in Seq(S) /\ Len(<< h >>) = 1 /\ << h >>[1] = h
  OBVIOUS
<1>8. /\ z \in Seq(S) /\ Len(z) = 1 + Len(r)
      /\ \A i \in 1 .. Len(z) : z[i] = IF i <= 1 THEN << h >>[i] ELSE r[i - 1]
  BY <1>6, <1>7, ConcatProperties
<1>9. \A x : x \in ToSet(z) <=> x = h \/ x \in ToSet(r)
  <2>1. Len(r) \in Nat
    BY SeqFacts
  <2>2. ASSUME NEW x \in ToSet(z) PROVE x = h \/ x \in ToSet(r)
    <3>1. PICK i \in 1 .. Len(z) : x = z[i]
      BY <1>8, SeqFacts
    <3>2. i = 1 \/ (i - 1 \in 1 .. Len(r) /\ x = r[i - 1])
      BY <1>8, <2>1, <3>1
    <3>3. i = 1 => x = h
      BY <1>7, <1>8, <3>1
    <3> QED BY <3>2, <3>3, SeqFacts
  <2>3. h \in ToSet(z)
    <3>1. 1 \in 1 .. Len(z) /\ z[1] = h
      BY <1>7, <1>8, <2>1
    <3> QED BY <1>8, <3>1, SeqFacts
  <2>4. ASSUME NEW x \in ToSet(r) PROVE x \in ToSet(z)
    <3>1. PICK i \in 1 .. Len(r) : x = r[i]
      BY SeqFacts
    <3>2. i + 1 \in 1 .. Len(z) /\ z[i + 1] = x
      BY <1>8, <2>1, <3>1
    <3> QED BY <1>8, <3>2, SeqFacts
  <2> QED BY <2>2, <2>3, <2>4
<1>10. ToSet(z) = {h} \cup ToSet(r)
  BY <1>9
<1> QED BY <1>1, <1>3, <1>4, <1>5, <1>6, <1>8, <1>10

LEMMA PremadeToNormalInv ==
  ASSUME NEW n \in Nat, NEW s, Inv(s, n), NEW expired \in SUBSET Team
  PROVE  Inv(PremadeToNormal(s, expired), n)
<1>1. s \in States /\ s.queue \in [Kind -> [Team -> Seq(Group)]] /\ s.late \in BOOLEAN
  BY InvTypes DEF States
<1>2. \A u \in Team : s.queue["premade"][u] \in Seq(Group) /\ s.queue["normal"][u] \in Seq(Group)
  BY <1>1 DEF Kind
<1> DEFINE Moves(u) == /\ s.queue["premade"][u] # <<>> /\ Head(s.queue["premade"][u]).invited = None
                       /\ u \in expired \/ Cardinality(Head(s.queue["premade"][u]).players) < MinPlayersPerTeam
           PM == [u \in Team |-> IF Moves(u) THEN Tail(s.queue["premade"][u]) ELSE s.queue["premade"][u]]
           NM == [u \in Team |-> IF Moves(u) THEN <<Head(s.queue["premade"][u])>> \o s.queue["normal"][u]
                                 ELSE s.queue["normal"][u]]
<1>3. ASSUME NEW u \in Team
      PROVE  /\ PM[u] \in Seq(Group) /\ NM[u] \in Seq(Group)
             /\ \A g : g \in ToSet(PM[u]) \/ g \in ToSet(NM[u])
                          <=> g \in ToSet(s.queue["premade"][u]) \/ g \in ToSet(s.queue["normal"][u])
  <2>1. PICK a \in Seq(Group), b \in Seq(Group) : a = s.queue["premade"][u] /\ b = s.queue["normal"][u]
    BY <1>2
  <2>2. CASE Moves(u)
    <3>1. PM[u] = Tail(a) /\ NM[u] = <<Head(a)>> \o b /\ a # << >>
      BY <2>1, <2>2
    <3>2. /\ Tail(a) \in Seq(Group) /\ << Head(a) >> \o b \in Seq(Group)
          /\ ToSet(<< Head(a) >> \o b) = {Head(a)} \cup ToSet(b)
          /\ ToSet(a) = {Head(a)} \cup ToSet(Tail(a))
      BY <3>1, HeadTail
    <3> HIDE DEF PM, NM
    <3> QED BY <2>1, <3>1, <3>2
  <2>3. CASE ~Moves(u)
    <3>1. PM[u] = a /\ NM[u] = b
      BY <2>1, <2>3
    <3> HIDE DEF PM, NM
    <3> QED BY <2>1, <3>1
  <2> QED BY <2>2, <2>3
<1>4. PICK Q : Q = [premade |-> PM, normal |-> NM]
  OBVIOUS
<1>5. PM \in [Team -> Seq(Group)] /\ NM \in [Team -> Seq(Group)]
  BY <1>3
<1>6. Q \in [Kind -> [Team -> Seq(Group)]] /\ Q["premade"] = PM /\ Q["normal"] = NM
  <2> HIDE DEF PM, NM
  <2> QED BY <1>4, <1>5 DEF Kind
<1>7. PICK l \in BOOLEAN : l = (s.late \/ \E u \in Team : Moves(u))
  BY <1>1
<1>8. PICK t : t = [s EXCEPT !.queue = Q, !.late = l]
  OBVIOUS
<1>9. /\ t \in States /\ t.player = s.player /\ t.bgs = s.bgs /\ t.free = s.free /\ t.tainted = s.tainted
      /\ t.queue = Q
  BY <1>1, <1>6, <1>8 DEF States
<1>10. Requeued(s, t)
  <2>1. ASSUME NEW u \in Team, NEW g
        PROVE  (\E k \in Kind : g \in ToSet(t.queue[k][u])) <=> (\E k \in Kind : g \in ToSet(s.queue[k][u]))
    <3>1. t.queue["premade"][u] = PM[u] /\ t.queue["normal"][u] = NM[u]
      BY <1>6, <1>9
    <3> HIDE DEF PM, NM
    <3> QED BY <1>3, <3>1 DEF Kind
  <2> QED BY <1>9, <2>1 DEF Requeued
<1>11. t = PremadeToNormal(s, expired)
  <2> HIDE DEF Moves
  <2>1. t = [s EXCEPT !.queue = [premade |-> PM, normal |-> NM], !.late = s.late \/ \E u \in Team : Moves(u)]
    BY <1>4, <1>7, <1>8
  <2> QED BY <1>1, <2>1 DEF PremadeToNormal, Moves, States
<1> QED BY <1>10, <1>11, RequeuedInv

LEMMA MinIs ==
  ASSUME NEW S, S \subseteq Nat, S # {}
  PROVE  Min(S) \in S
<1>1. \E x \in S : \A y \in S : x <= y
  BY LeastNatural
<1> QED BY <1>1 DEF Min

LEMMA NormalPoolFacts ==
  ASSUME NEW s \in States, QueueInv(s), MaxPlayersPerTeam \in Nat, NEW u \in Team
  PROVE  NormalPool(s)[u] \in Pool(TeamWaits(s, u), MaxPlayersPerTeam)
<1>1. PICK q \in Seq(Group) : q = s.queue["normal"][u]
  <2>1. s.queue["normal"][u] \in Seq(Group)
    BY DEF States, Kind
  <2> QED BY <2>1
<1>2. TeamWaits(s, u) \in SUBSET (SUBSET Player) /\ Waiters(q) \subseteq TeamWaits(s, u)
  BY <1>1, TeamWaitsFacts DEF TeamWaits
<1>3. NoPool \in Pool(TeamWaits(s, u), MaxPlayersPerTeam)
  BY NoPoolFacts
<1>4. MinPlayersPerTeam \in Nat /\ MaxPlayersPerTeam <= MaxPlayersPerTeam
  BY BattleGroundConstants
<1>5. PICK r : r = Select(q, NoPool, MaxPlayersPerTeam, MinPlayersPerTeam)
  OBVIOUS
<1>6. r \in Pool(TeamWaits(s, u), MaxPlayersPerTeam)
  BY <1>2, <1>3, <1>4, <1>5, SelectFacts
<1> QED BY <1>1, <1>5, <1>6 DEF NormalPool

LEMMA PremadePoolFacts ==
  ASSUME NEW s \in States, QueueInv(s), MaxPlayersPerTeam \in Nat, CanStartPremade(s), NEW u \in Team
  PROVE  PremadePool(s)[u] \in Pool(TeamWaits(s, u), MaxPlayersPerTeam)
<1> DEFINE q(t) == s.queue["premade"][t]
           First(t) == Select(<<q(t)[Min(Waiting(q(t)))]>>, NoPool, MaxPlayersPerTeam, MaxPlayersPerTeam)
<1>1. ASSUME NEW t \in Team PROVE First(t) \in Pool(TeamWaits(s, t), MaxPlayersPerTeam)
  <2>1. PICK a \in Seq(Group) : a = q(t)
    <3>1. q(t) \in Seq(Group)
      BY DEF States, Kind
    <3> QED BY <3>1
  <2>2. Waiting(a) # {} /\ Waiting(a) \subseteq DOMAIN a
    BY <2>1 DEF CanStartPremade, Waiting
  <2>3. PICK i : i = Min(Waiting(a))
    OBVIOUS
  <2>4. i \in 1 .. Len(a) /\ a[i] \in Group /\ a[i] \in ToSet(a)
    <3>1. DOMAIN a = 1 .. Len(a) /\ \A j \in 1 .. Len(a) : a[j] \in Group /\ a[j] \in ToSet(a)
      BY SeqFacts
    <3>2. Waiting(a) \subseteq Nat
      BY <2>2, <3>1
    <3> QED BY <2>2, <2>3, <3>1, <3>2, MinIs
  <2>5. PICK g \in Group : g = a[i]
    BY <2>4
  <2>6. <<g>> \in Seq(Group) /\ ToSet(<<g>>) = {g}
    BY DEF ToSet
  <2>7. TeamWaits(s, t) \in SUBSET (SUBSET Player) /\ Waiters(a) \subseteq TeamWaits(s, t)
    BY <2>1, TeamWaitsFacts DEF TeamWaits
  <2>8. PICK w \in Seq(Group) : w = <<g>>
    BY <2>6
  <2>9. Waiters(w) \subseteq TeamWaits(s, t)
    <3>1. Waiters(w) \subseteq Waiters(a)
      BY <2>4, <2>5, <2>6, <2>8 DEF Waiters
    <3> QED BY <2>7, <3>1
  <2>10. NoPool \in Pool(TeamWaits(s, t), MaxPlayersPerTeam)
    BY NoPoolFacts
  <2>11. MaxPlayersPerTeam <= MaxPlayersPerTeam
    OBVIOUS
  <2>12. PICK r : r = Select(w, NoPool, MaxPlayersPerTeam, MaxPlayersPerTeam)
    OBVIOUS
  <2>13. r \in Pool(TeamWaits(s, t), MaxPlayersPerTeam)
    BY <2>7, <2>9, <2>10, <2>11, <2>12, SelectFacts
  <2>14. First(t) = r
    BY <2>1, <2>3, <2>5, <2>8, <2>12
  <2> HIDE DEF First
  <2> QED BY <2>13, <2>14
<1> DEFINE size == IF First("ALLIANCE").count < First("HORDE").count
                   THEN First("HORDE").count ELSE First("ALLIANCE").count
<1>2. PremadePool(s)[u] = Select(s.queue["normal"][u], First(u), size, size)
  BY DEF PremadePool
<1>3. "ALLIANCE" \in Team /\ "HORDE" \in Team /\ (u = "ALLIANCE" \/ u = "HORDE")
  BY DEF Team
<1> HIDE DEF First
<1>4. \A t \in Team : First(t).count \in Nat /\ First(t).count <= MaxPlayersPerTeam
  BY <1>1 DEF Pool
<1>5. size \in Nat /\ size <= MaxPlayersPerTeam /\ First(u).count <= size
  <2>1. PICK a, h : a = First("ALLIANCE").count /\ h = First("HORDE").count
    OBVIOUS
  <2>2. a \in Nat /\ h \in Nat /\ a <= MaxPlayersPerTeam /\ h <= MaxPlayersPerTeam
    BY <1>3, <1>4, <2>1
  <2>3. size = IF a < h THEN h ELSE a
    BY <2>1
  <2>4. First(u).count = a \/ First(u).count = h
    BY <1>3, <2>1
  <2> HIDE DEF size
  <2> QED BY <2>2, <2>3, <2>4
<1> HIDE DEF size
<1>6. PICK f : f = First(u)
  OBVIOUS
<1>7. f \in Pool(TeamWaits(s, u), size)
  BY <1>1, <1>5, <1>6 DEF Pool
<1>8. PICK a \in Seq(Group) : a = s.queue["normal"][u]
  <2>1. s.queue["normal"][u] \in Seq(Group)
    BY DEF States, Kind
  <2> QED BY <2>1
<1>9. TeamWaits(s, u) \in SUBSET (SUBSET Player) /\ Waiters(a) \subseteq TeamWaits(s, u)
  BY <1>8, TeamWaitsFacts DEF TeamWaits
<1>10. size <= size
  BY <1>5
<1>11. PICK r : r = Select(a, f, size, size)
  OBVIOUS
<1>12. r \in Pool(TeamWaits(s, u), size)
  BY <1>5, <1>7, <1>9, <1>10, <1>11, SelectFacts
<1>13. r \in Pool(TeamWaits(s, u), MaxPlayersPerTeam)
  BY <1>5, <1>12, PoolGrows
<1> QED BY <1>2, <1>6, <1>8, <1>11, <1>13

LEMMA MatchInv ==
  ASSUME NEW s, Inv(s, MaxPlayersPerTeam), MaxPlayersPerTeam \in Nat, start \in Start,
         NEW expired \in SUBSET Team
  PROVE  /\ (CanStartPremade(s) => FreshBG(s) # {}) => Inv(PremadeMatch(s, expired), MaxPlayersPerTeam)
         /\ (CheckNormalMatch(s) => FreshBG(s) # {}) => Inv(NormalMatch(s), MaxPlayersPerTeam)
<1>1. s \in States /\ QueueInv(s)
  BY InvTypes
<1>2. ASSUME CanStartPremade(s), FreshBG(s) # {}
      PROVE  Inv(CreateNewBattleGround(s, PremadePool(s)), MaxPlayersPerTeam)
  <2>1. \A u \in Team : PremadePool(s)[u] \in Pool(TeamWaits(s, u), MaxPlayersPerTeam)
    BY <1>1, <1>2, PremadePoolFacts
  <2> QED BY <1>2, <2>1, CreateInv
<1>3. Inv(PremadeToNormal(s, expired), MaxPlayersPerTeam)
  BY PremadeToNormalInv
<1>4. ASSUME FreshBG(s) # {}
      PROVE  Inv(CreateNewBattleGround(s, NormalPool(s)), MaxPlayersPerTeam)
  <2>1. \A u \in Team : NormalPool(s)[u] \in Pool(TeamWaits(s, u), MaxPlayersPerTeam)
    BY <1>1, NormalPoolFacts
  <2> QED BY <1>4, <2>1, CreateInv
<1> QED BY <1>2, <1>3, <1>4 DEF PremadeMatch, NormalMatch

-----------------------------------------------------------------------------
(* The updates of a battleground *)

LEMMA EndInv ==
  ASSUME NEW n \in Nat, NEW s, Inv(s, n), NEW b \in Running(s)
  PROVE  Inv(EndBattleGround(s, b), n)
<1>1. PICK r : r = RemoveFromBGFreeSlotQueue(s, b)
  OBVIOUS
<1>2. Inv(r, n) /\ b \in Running(r)
  BY <1>1, RemoveFreeInv
<1>3. "WAIT_LEAVE" \in Status
  BY DEF Status
<1>4. Inv([r EXCEPT !.bgs[b].status = "WAIT_LEAVE"], n)
  BY <1>2, <1>3, SetStatus
<1> QED BY <1>1, <1>4 DEF EndBattleGround

\* A battleground that is deleted has no place for anybody any more.
LEMMA DeletedInv ==
  ASSUME NEW n \in Nat, NEW s, Inv(s, n), NEW b \in Running(s), s.bgs[b].members = {},
         \A u \in Team : s.bgs[b].invited[u] = 0
  PROVE  Inv([RemoveFromBGFreeSlotQueue(s, b) EXCEPT !.bgs[b] = None], n)
<1>1. PICK r : r = RemoveFromBGFreeSlotQueue(s, b)
  OBVIOUS
<1>2. /\ Inv(r, n) /\ Running(r) = Running(s) /\ b \notin ToSet(r.free)
      /\ r.player = s.player /\ r.queue = s.queue /\ r.bgs = s.bgs /\ r.tainted = s.tainted
  BY <1>1, RemoveFreeInv
<1>3. r \in States /\ QueueInv(r) /\ ToSet(r.free) \subseteq Running(r) /\ Running(r) \subseteq BG
  BY <1>2, InvTypes
<1>4. PICK t : t = [r EXCEPT !.bgs[b] = None]
  OBVIOUS
<1>5. /\ t \in States /\ t.player = r.player /\ t.queue = r.queue /\ t.free = r.free
      /\ t.tainted = r.tainted /\ t.bgs[b] = None /\ \A c \in BG \ {b} : t.bgs[c] = r.bgs[c]
  BY <1>2, <1>3, <1>4 DEF States
<1>6. Running(t) = Running(r) \ {b}
  BY <1>3, <1>5 DEF Running
<1>7. QueueInv(t) /\ \A p : Invites(t, p) = Invites(r, p)
  BY <1>3, <1>5, SameFacts
<1>8. \A p : MemberOf(t, p) = MemberOf(r, p) /\ b \notin MemberOf(r, p)
  <2>1. \A p : b \notin MemberOf(r, p)
    BY <1>2 DEF MemberOf
  <2>2. \A c \in Running(t) : c \in Running(r) /\ t.bgs[c] = r.bgs[c]
    BY <1>3, <1>5, <1>6
  <2>3. \A p, c : c \in MemberOf(t, p) <=> c \in MemberOf(r, p)
    BY <1>6, <2>1, <2>2 DEF MemberOf
  <2> QED BY <2>1, <2>3
<1>9. ASSUME b \notin r.tainted, NEW p \in Player PROVE ~Placed(r, p, b)
  <2>1. TeamOf[p] \in Team
    BY BattleGroundConstants
  <2>2. Cardinality(PlacedOf(r, b, TeamOf[p])) = 0
    BY <1>2, <1>9, <2>1 DEF Inv, CountInv
  <2>3. PlacedOf(r, b, TeamOf[p]) = {}
    BY <2>2, PlacedFinite, FS_EmptySet
  <2> QED BY <2>3 DEF PlacedOf
<1>10. \A p \in Player : PInv(t, p)
  <2> TAKE p \in Player
  <2>1. PICK me, I, M, R, T : me = r.player[p] /\ I = Invites(r, p) /\ M = MemberOf(r, p) /\ R = Running(r) /\ T = r.tainted
    OBVIOUS
  <2>2. PlayerInv(me, I, M, R, T) /\ b \notin M
    BY <1>2, <1>8, <2>1, InvTypes DEF PInv
  <2>3. b \notin T => ~(me.at = "to_bg" /\ me.bg = b)
    BY <1>9, <2>1 DEF Placed
  <2>4. PlayerInv(me, I, M, R \ {b}, T)
    BY <2>2, <2>3 DEF PlayerInv
  <2> QED BY <1>5, <1>6, <1>7, <1>8, <2>1, <2>4 DEF PInv
<1>11. CountInv(t, n)
  <2> SUFFICES ASSUME NEW c \in Running(t) \ t.tainted, NEW u \in Team
               PROVE  t.bgs[c].invited[u] = Cardinality(PlacedOf(t, c, u)) /\ t.bgs[c].invited[u] <= n
    BY DEF CountInv
  <2>1. c \in Running(r) \ r.tainted /\ t.bgs[c] = r.bgs[c]
    BY <1>3, <1>5, <1>6
  <2>2. \A p : Placed(t, p, c) <=> Placed(r, p, c)
    BY <1>5, <1>7, <1>8 DEF Placed
  <2>3. PlacedOf(t, c, u) = PlacedOf(r, c, u)
    BY <2>2 DEF PlacedOf
  <2> QED BY <1>2, <2>1, <2>3 DEF Inv, CountInv
<1>12. ToSet(t.free) \subseteq Running(t)
  BY <1>2, <1>3, <1>5, <1>6
<1>13. Inv(t, n)
  BY <1>5, <1>7, <1>10, <1>11, <1>12 DEF Inv
<1> QED BY <1>1, <1>4, <1>13

\* Who was offline for too long.
LEMMA OfflineInv ==
  ASSUME NEW n \in Nat, NEW s, Inv(s, n), NEW b \in Running(s), s.bgs[b].offline # << >>,
         Head(s.bgs[b].offline) \in s.bgs[b].members
  PROVE  Inv([RemovePlayerAtLeave(s, b, Head(s.bgs[b].offline), TRUE, TRUE) EXCEPT !.bgs[b].offline = Tail(@)], n)
<1>1. s.bgs[b] \in BattleGround
  BY InvTypes, RunningFacts
<1>2. PICK p \in Player : p = Head(s.bgs[b].offline)
  BY <1>1 DEF BattleGround
<1>3. PICK r : r = RemovePlayerAtLeave(s, b, p, TRUE, TRUE)
  OBVIOUS
<1>4. Inv(r, n) /\ Running(r) = Running(s) /\ r.bgs[b].offline = s.bgs[b].offline
  <2>1. Inv(r, n) /\ AtLeave(s, r, b, p, TRUE /\ TRUE)
    BY <1>2, <1>3, RemovePlayerAtLeaveInv
  <2> QED BY <2>1 DEF AtLeave
<1>5. PICK l \in Seq(Player) : l = Tail(r.bgs[b].offline)
  <2>1. s.bgs[b].offline \in Seq(Player) /\ s.bgs[b].offline # << >>
    BY <1>1 DEF BattleGround
  <2>2. Tail(s.bgs[b].offline) \in Seq(Player)
    BY <2>1, TailFacts
  <2> QED BY <1>4, <2>2
<1>6. b \in Running(r)
  BY <1>4
<1>7. Inv([r EXCEPT !.bgs[b].offline = l], n)
  BY <1>4, <1>5, <1>6, SetOffline
<1>8. [r EXCEPT !.bgs[b].offline = Tail(@)] = [r EXCEPT !.bgs[b].offline = l]
  BY <1>5
<1> QED BY <1>2, <1>3, <1>7, <1>8

LEMMA AllRemovedInv ==
  ASSUME NEW m \in Nat, NEW s, Inv(s, m), NEW b \in Running(s), NEW far \in BOOLEAN
  PROVE  Inv(AllRemoved(s, b, far), m)
<1>1. s \in States /\ s.bgs[b] \in BattleGround
  BY InvTypes, RunningFacts
<1>2. PICK M \in SUBSET Player : M = s.bgs[b].members
  BY <1>1 DEF BattleGround
<1>3. PICK q : q = SetToSeq(M)
  OBVIOUS
<1>4. Cardinality(M) \in Nat /\ q \in [1 .. Cardinality(M) -> M]
  <2>1. IsFiniteSet(M)
    BY BattleGroundConstants, FS_Subset
  <2>2. Cardinality(M) \in Nat /\ ExistsBijection(1 .. Cardinality(M), M)
    BY <2>1, FS_CardinalityType
  <2>3. \E f \in [1 .. Cardinality(M) -> M] : IsInjective(f)
    BY <2>2 DEF ExistsBijection, Bijection, Injection
  <2> QED BY <1>3, <2>2, <2>3 DEF SetToSeq
<1> DEFINE n == Cardinality(M)
           Step(r, p) == RemovePlayerAtLeave(r, b, p, TRUE, far)
           E(f) == f = [S \in SUBSET (1 .. n) |-> IF S = {} THEN s
                                                  ELSE Step(f[S \ {Max(S)}], q[Max(S)])]
           it == CHOOSE f : E(f)
           X == {x \in States : /\ Inv(x, m) /\ Running(x) = Running(s)
                                /\ \A p \in M : \/ p \in x.bgs[b].members \/ x.player[p].at # "world"
                                                \/ x.player[p].bg \in {b, None}}
           F == [z \in (1 .. n) \X X |-> Step(z[2], q[z[1]])]
           ST == [k \in 0 .. n |-> X]
<1>5. n \in Nat /\ DOMAIN q = 1 .. n /\ \A i \in 1 .. n : q[i] \in M
  BY <1>4
<1>6. AllRemoved(s, b, far) = it[1 .. n]
  BY <1>2, <1>3, <1>5 DEF AllRemoved, FoldLeft, MapThenFoldSet
<1>7. ASSUME NEW x \in X, NEW p \in M PROVE Step(x, p) \in X
  <2>1. /\ Inv(x, m) /\ b \in Running(x) /\ Running(x) = Running(s) /\ p \in Player
        /\ p \in x.bgs[b].members \/ x.player[p].at # "world" \/ x.player[p].bg \in {b, None}
    OBVIOUS
  <2>2. PICK y : y = RemovePlayerAtLeave(x, b, p, TRUE, far)
    OBVIOUS
  <2>3. Inv(y, m) /\ AtLeave(x, y, b, p, TRUE /\ far)
    BY <2>1, <2>2, RemovePlayerAtLeaveInv
  <2>4. ASSUME NEW r \in M
        PROVE  r \in y.bgs[b].members \/ y.player[r].at # "world" \/ y.player[r].bg \in {b, None}
    <3>1. CASE r = p
      BY <2>3, <3>1 DEF AtLeave
    <3>2. CASE r # p
      BY <2>3, <3>2 DEF AtLeave
    <3> QED BY <3>1, <3>2
  <2>5. y \in States /\ Running(y) = Running(s)
    BY <2>1, <2>3 DEF Inv, AtLeave
  <2>6. y \in X
    BY <2>3, <2>4, <2>5
  <2> QED BY <2>2, <2>6
<1>8. s \in X
  BY <1>1, <1>2
<1> HIDE DEF X
<1>9. ASSUME NEW i \in 1 .. n, NEW x \in X PROVE F[<<i, x>>] = Step(x, q[i]) /\ F[<<i, x>>] \in X
  <2>1. F[<<i, x>>] = Step(x, q[i])
    <3> HIDE DEF Step
    <3> QED OBVIOUS
  <2>2. Step(x, q[i]) \in X
    <3> HIDE DEF Step
    <3> QED BY <1>5, <1>7
  <2> HIDE DEF F, Step
  <2> QED BY <2>1, <2>2
<1>10. PICK h \in [SUBSET (1 .. n) -> X] : Folds2(h, F, s, n)
  <2> HIDE DEF n, F
  <2> QED BY <1>5, <1>8, <1>9, FoldExists
<1>11. E(h)
  <2> SUFFICES ASSUME NEW S \in SUBSET (1 .. n)
               PROVE  h[S] = IF S = {} THEN s ELSE Step(h[S \ {Max(S)}], q[Max(S)])
    BY <1>10
  <2>1. h[S] = IF S = {} THEN s ELSE F[<<Max(S), h[S \ {Max(S)}]>>]
    BY <1>10 DEF Folds2
  <2>2. S # {} => Max(S) \in 1 .. n /\ h[S \ {Max(S)}] \in X
    <3>1. S # {} => Max(S) \in S /\ S \ {Max(S)} \in SUBSET (1 .. n)
      BY <1>5, MaxOfPart
    <3> QED BY <1>10, <3>1
  <2> HIDE DEF F, Step
  <2> QED BY <1>9, <2>1, <2>2
<1>12. E(it)
  <2> HIDE DEF E
  <2> QED BY <1>11
<1>13. it[{}] \in ST[0]
  <2>1. it[{}] = s
    <3> HIDE DEF it, Step
    <3> QED BY <1>12
  <2> HIDE DEF it
  <2> QED BY <1>5, <1>8, <2>1
<1>14. ASSUME NEW k \in 1 .. n, Max(1 .. k) = k, (1 .. k) \ {k} = 1 .. k - 1, it[1 .. k - 1] \in ST[k - 1]
       PROVE  it[1 .. k] \in ST[k]
  <2>1. 1 .. k \in SUBSET (1 .. n) /\ 1 .. k # {} /\ k - 1 \in 0 .. n /\ k \in 0 .. n
    <3> HIDE DEF n
    <3> QED BY <1>5, PrefixFacts
  <2>2. it[1 .. k] = Step(it[1 .. k - 1], q[k])
    <3> HIDE DEF it, Step
    <3> QED BY <1>12, <1>14, <2>1
  <2>3. it[1 .. k - 1] \in X
    <3> HIDE DEF it
    <3> QED BY <1>14, <2>1
  <2> HIDE DEF it, Step
  <2> QED BY <1>5, <1>7, <2>1, <2>2, <2>3
<1>15. it[1 .. n] \in ST[n]
  <2> HIDE DEF ST, it, n
  <2> QED BY <1>5, <1>13, <1>14, FoldHolds
<1>16. it[1 .. n] \in X
  <2> HIDE DEF it
  <2> QED BY <1>5, <1>15
<1> HIDE DEF it
<1> QED BY <1>6, <1>16 DEF X

\* What LogoutPlayer makes of a player in a map, step by step.
Kept(s, p) == LET b == s.player[p].bg
              IN IF b = None \/ s.bgs[b] = None THEN s
                 ELSE [s EXCEPT !.bgs[b].members = @ \cup {p}, !.bgs[b].offline = Append(@, p)]
Unlisted(s, k, p) == IF s.player[p].slot = Free THEN k ELSE RemovePlayer(FreeSlot(k, p), p, TRUE)
Offline(s, o, p) == [o EXCEPT !.player[p].at = "offline", !.player[p].events = <<>>,
                              !.late = @ \/ GroupsOf(s, p) # {}]

LEMMA LogoutInv ==
  ASSUME NEW n \in Nat, NEW s, Inv(s, n), NEW p \in Player, s.player[p].at = "world"
  PROVE  Inv(Offline(s, Unlisted(s, Kept(s, p), p), p), n)
<1>1. PICK b : b = s.player[p].bg
  OBVIOUS
<1>2. s \in States /\ s.player[p] \in PlayerRecord
  BY InvTypes
<1>3. b \in Running(s) <=> ~(b = None \/ s.bgs[b] = None)
  <2>1. b \in BG \cup {None}
    BY <1>1, <1>2 DEF PlayerRecord
  <2> QED BY <2>1, BattleGroundConstants DEF Running
<1>4. PICK k : k = Kept(s, p)
  OBVIOUS
<1>5. PICK o : o = Unlisted(s, k, p)
  OBVIOUS
<1>6. o = IF s.player[p].slot = Free THEN k ELSE RemovePlayer(FreeSlot(k, p), p, TRUE)
  BY <1>5 DEF Unlisted
<1>7. \/ k = s /\ s.player[p].bg \notin Running(s)
      \/ /\ s.player[p].bg \in Running(s)
         /\ \E l : MembersSet(s, k, s.player[p].bg, s.bgs[s.player[p].bg].members \cup {p}, l)
  <2>1. CASE b \notin Running(s)
    BY <1>1, <1>3, <1>4, <2>1 DEF Kept
  <2>2. CASE b \in Running(s)
    <3>1. k = [s EXCEPT !.bgs[b].members = @ \cup {p}, !.bgs[b].offline = Append(@, p)]
      BY <1>1, <1>3, <1>4, <2>2 DEF Kept
    <3>2. PICK t : t = [s EXCEPT !.bgs[b].members = @ \cup {p}, !.bgs[b].offline = Append(@, p)]
      OBVIOUS
    <3>3. \E l \in Seq(Player) : MembersSet(s, t, b, s.bgs[b].members \cup {p}, l)
      BY <2>2, <3>2, Keeps
    <3>4. PICK l : MembersSet(s, k, b, s.bgs[b].members \cup {p}, l)
      BY <3>1, <3>2, <3>3
    <3> QED BY <1>1, <2>2, <3>4
  <2> QED BY <2>1, <2>2
<1>8. OutOf(s, o, p)
  BY <1>6, <1>7, OutOfQueue
<1>9. o \in States /\ o.player[p] \in PlayerRecord /\ o.late \in BOOLEAN
  BY <1>8 DEF OutOf, States
<1>10. PICK x : x = [o.player[p] EXCEPT !.at = "offline", !.events = <<>>]
  OBVIOUS
<1>11. x \in PlayerRecord /\ x.at = "offline" /\ x.bg = o.player[p].bg /\ x.slot = o.player[p].slot
  <2>1. << >> \in Seq(Event)
    BY EmptyFacts
  <2> QED BY <1>9, <1>10, <2>1 DEF PlayerRecord
<1>12. PICK y \in BOOLEAN : y = (o.late \/ GroupsOf(s, p) # {})
  BY <1>9
<1>13. Inv([o EXCEPT !.player = [o.player EXCEPT ![p] = x], !.late = y], n)
  BY <1>8, <1>11, LogsOut
<1>14. [o EXCEPT !.player = [o.player EXCEPT ![p] = x], !.late = y] = Offline(s, o, p)
  BY <1>9, <1>10, <1>12 DEF States, Offline
<1> QED BY <1>4, <1>5, <1>13, <1>14

-----------------------------------------------------------------------------
(* The steps *)

IInv == start \in Start /\ Inv(State, MaxPlayersPerTeam)

LEMMA StateFacts ==
  ASSUME IInv
  PROVE  /\ State \in States /\ QueueInv(State) /\ MaxPlayersPerTeam \in Nat
         /\ Inv(State, MaxPlayersPerTeam) /\ start \in Start /\ start \in Situation
<1>1. start \in Situation
  BY BattleGroundConstants DEF IInv
<1>2. MaxPlayersPerTeam \in Nat
  BY <1>1 DEF Situation, MaxPlayersPerTeam
<1> QED BY <1>1, <1>2, InvTypes DEF IInv

LEMMA Fields ==
  /\ State.player = player /\ State.queue = queue /\ State.bgs = bgs /\ State.free = free
  /\ State.scheduled = scheduled /\ State.late = late /\ State.tainted = tainted
BY DEF State

LEMMA BecomesInv ==
  ASSUME NEW s, Inv(s, MaxPlayersPerTeam), start \in Start, Becomes(s)
  PROVE  IInv' /\ State' = s
<1>1. s \in States
  BY DEF Inv
<1>2. State' = s
  BY <1>1 DEF Becomes, State, States
<1>3. start' = start /\ MaxPlayersPerTeam' = MaxPlayersPerTeam
  BY DEF Becomes, MaxPlayersPerTeam
<1>4. PICK n : n = MaxPlayersPerTeam
  OBVIOUS
<1>5. Inv(s, n) /\ n = MaxPlayersPerTeam'
  BY <1>3, <1>4
<1>6. Inv(State, MaxPlayersPerTeam)'
  BY <1>2, <1>5
<1> QED BY <1>2, <1>3, <1>6 DEF IInv

LEMMA InitInv == Init => IInv
<1> SUFFICES ASSUME Init PROVE IInv
  OBVIOUS
<1>1. << >> \in Seq(Event) /\ << >> \in Seq(Group) /\ << >> \in Seq(BG) /\ ToSet(<< >>) = {}
  BY EmptyFacts
<1>2. PICK s : s = State
  OBVIOUS
<1>3. /\ s.queue = [k \in Kind |-> [t \in Team |-> <<>>]] /\ s.bgs = [b \in BG |-> None]
      /\ s.free = << >> /\ s.tainted = {} /\ s.scheduled = FALSE /\ s.late = FALSE
      /\ \A p \in Player : /\ s.player[p].bg = None /\ s.player[p].slot = Free
                           /\ s.player[p].at \in {"world", "offline"}
  BY <1>2, Fields DEF Init
<1>4. s \in States
  <2>1. s.player \in [Player -> PlayerRecord]
    BY <1>1, <1>2, Fields DEF Init, PlayerRecord
  <2>2. s.queue \in [Kind -> [Team -> Seq(Group)]] /\ s.bgs \in [BG -> BattleGround \cup {None}]
        /\ s.free \in Seq(BG)
    BY <1>1, <1>3
  <2> QED BY <1>2, <1>3, <2>1, <2>2, Fields DEF States, State
<1>5. Running(s) = {}
  BY <1>3 DEF Running
<1>6. Groups(s) = {}
  <2>1. \A k \in Kind, t \in Team : ToSet(s.queue[k][t]) = {}
    BY <1>1, <1>3
  <2> QED BY <2>1, <1>4, GroupsFacts
<1>7. \A p : Invites(s, p) = {} /\ MemberOf(s, p) = {}
  BY <1>5, <1>6 DEF Invites, GroupsOf, MemberOf
<1>8. QueueInv(s)
  <2>1. \A k \in Kind, t \in Team : ToSet(s.queue[k][t]) = {}
    BY <1>1, <1>3
  <2> QED BY <1>6, <2>1 DEF QueueInv
<1>9. \A p \in Player : PInv(s, p)
  BY <1>3, <1>5, <1>7, BattleGroundConstants DEF PInv, PlayerInv
<1>10. Inv(s, MaxPlayersPerTeam)
  BY <1>1, <1>3, <1>4, <1>5, <1>8, <1>9 DEF Inv, CountInv
<1> QED BY <1>2, <1>10 DEF IInv, Init

LEMMA UpdateStep == ASSUME IInv, Update PROVE IInv'
<1>1. PICK expired \in SUBSET Team :
        LET filled == Filled(State)
            rest == PremadeMatch(filled, expired)
        IN /\ CanStartPremade(filled) => FreshBG(filled) # {}
           /\ CheckNormalMatch(rest) => FreshBG(rest) # {}
           /\ Becomes(NormalMatch(rest))
  BY DEF Update
<1>2. PICK s : s = State
  OBVIOUS
<1>3. PICK a : a = Filled(s)
  OBVIOUS
<1>4. Inv(a, MaxPlayersPerTeam) /\ start \in Start /\ MaxPlayersPerTeam \in Nat
  BY <1>2, <1>3, StateFacts, FilledInv
<1>5. PICK r : r = PremadeMatch(a, expired)
  OBVIOUS
<1>6. /\ CanStartPremade(a) => FreshBG(a) # {}
      /\ CheckNormalMatch(r) => FreshBG(r) # {}
      /\ Becomes(NormalMatch(r))
  BY <1>1, <1>2, <1>3, <1>5
<1>7. Inv(r, MaxPlayersPerTeam)
  BY <1>4, <1>5, <1>6, MatchInv
<1>8. PICK t : t = NormalMatch(r)
  OBVIOUS
<1>9. Inv(t, MaxPlayersPerTeam)
  BY <1>4, <1>6, <1>7, <1>8, MatchInv
<1> QED BY <1>4, <1>6, <1>8, <1>9, BecomesInv

\* A group of players of one team, none of whom has a slot, joins the queue.
LEMMA JoinStep ==
  ASSUME IInv, NEW M \in SUBSET Player, M # {}, NEW k \in Kind, NEW u \in Team,
         \A p \in M : TeamOf[p] = u /\ player[p].slot = Free /\ player[p].at # "offline",
         Becomes(ScheduleQueueUpdate(AddToSlot(AddGroup(State, M, k, u), M)))
  PROVE  IInv'
<1>1. PICK s : s = State
  OBVIOUS
<1>2. \A p \in M : TeamOf[p] = u /\ s.player[p].slot = Free /\ s.player[p].at # "offline"
  BY <1>1, Fields
<1>3. PICK a : a = AddToSlot(AddGroup(s, M, k, u), M)
  OBVIOUS
<1>4. Inv(a, MaxPlayersPerTeam) /\ start \in Start /\ MaxPlayersPerTeam \in Nat
  BY <1>1, <1>2, <1>3, StateFacts, Joined
<1>5. PICK t : t = ScheduleQueueUpdate(a)
  OBVIOUS
<1>6. Inv(t, MaxPlayersPerTeam)
  BY <1>4, <1>5, Scheduled
<1> QED BY <1>1, <1>3, <1>4, <1>5, <1>6, BecomesInv

LEMMA HandleBattlemasterJoinStep ==
  ASSUME IInv, NEW p \in Player, HandleBattlemasterJoin(p)
  PROVE  IInv'
<1>1. /\ player[p].slot = Free /\ player[p].at = "world"
      /\ Becomes(ScheduleQueueUpdate(AddToSlot(AddGroup(State, {p}, "normal", TeamOf[p]), {p})))
  BY Fields DEF HandleBattlemasterJoin, CanJoin, InWorld
<1>2. TeamOf[p] \in Team /\ "normal" \in Kind
  BY BattleGroundConstants DEF Kind
<1>3. PICK M : M = {p}
  OBVIOUS
<1>4. M \in SUBSET Player /\ M # {} /\ \A q \in M : TeamOf[q] = TeamOf[p] /\ player[q].slot = Free /\ player[q].at # "offline"
  BY <1>1, <1>3
<1> QED BY <1>1, <1>2, <1>3, <1>4, JoinStep

LEMMA HandleBattlemasterJoinGroupStep ==
  ASSUME IInv, NEW leader \in Player, NEW party \in Party, HandleBattlemasterJoinGroup(leader, party)
  PROVE  IInv'
<1>1. PICK M : M = {p \in party : player[p].at # "offline"}
  OBVIOUS
<1>2. PICK k \in Kind : k = IF start.premadeWait /\ Cardinality(party) >= MinPlayersPerTeam THEN "premade" ELSE "normal"
  BY DEF Kind
<1>3. /\ leader \in party /\ player[leader].at = "world"
      /\ \A p \in M : player[p].slot = Free
      /\ Becomes(ScheduleQueueUpdate(AddToSlot(AddGroup(State, M, k, TeamOf[leader]), M)))
  BY <1>1, <1>2, Fields DEF HandleBattlemasterJoinGroup, CanJoin, InWorld
<1>4. party \in SUBSET Player /\ \A p, q \in party : TeamOf[p] = TeamOf[q]
  BY BattleGroundConstants
<1>5. TeamOf[leader] \in Team
  BY BattleGroundConstants
<1>6. M \in SUBSET Player /\ leader \in M
  BY <1>1, <1>3, <1>4
<1>7. \A p \in M : TeamOf[p] = TeamOf[leader] /\ player[p].slot = Free /\ player[p].at # "offline"
  BY <1>1, <1>3, <1>4
<1> QED BY <1>3, <1>5, <1>6, <1>7, JoinStep

LEMMA InsideFacts ==
  ASSUME IInv, NEW p \in Player
  PROVE  Inside(p) <=> State.player[p].bg \in Running(State)
<1>1. State.player[p] \in PlayerRecord
  BY StateFacts, InvTypes
<1>2. player[p].bg \in BG \cup {None}
  BY <1>1, Fields DEF PlayerRecord
<1> QED BY <1>2, Fields, BattleGroundConstants DEF Inside, Running

LEMMA DeclinesStep ==
  ASSUME IInv, NEW p \in Player, GroupsOf(State, p) # {}, Declines(p)
  PROVE  IInv'
<1>1. PICK s : s = State
  OBVIOUS
<1>2. Invites(s, p) # {}
  BY <1>1 DEF Invites
<1>3. PICK t : t = ScheduleQueueUpdate(RemovePlayer(FreeSlot(s, p), p, TRUE))
  OBVIOUS
<1>4. Inv(t, MaxPlayersPerTeam) /\ start \in Start
  BY <1>1, <1>2, <1>3, StateFacts, DeclinesInv
<1>5. Becomes(t)
  BY <1>1, <1>3 DEF Declines
<1> QED BY <1>4, <1>5, BecomesInv

LEMMA HandleBattleFieldPortStep ==
  ASSUME IInv, NEW p \in Player, NEW enter \in BOOLEAN, HandleBattleFieldPort(p, enter)
  PROVE  IInv'
<1>1. PICK s : s = State
  OBVIOUS
<1>2. player[p].slot # Free
  BY DEF HandleBattleFieldPort
<1>3. PICK g \in GroupsOf(s, p) :
          IF ~enter THEN Declines(p)
          ELSE /\ g.invited # None /\ bgs[g.invited] # None
               /\ IF player[p].deserter = "yes" THEN Declines(p)
                  ELSE /\ player[p].slot # None
                       /\ Becomes([RemovePlayer(s, p, FALSE) EXCEPT
                                      !.player[p].bg = g.invited, !.player[p].at = "to_bg"])
  BY <1>1 DEF HandleBattleFieldPort
<1>4. CASE Declines(p)
  BY <1>1, <1>3, <1>4, DeclinesStep
<1>5. CASE ~Declines(p)
  <2>1. /\ g.invited # None /\ bgs[g.invited] # None /\ player[p].slot # None
        /\ Becomes([RemovePlayer(s, p, FALSE) EXCEPT !.player[p].bg = g.invited, !.player[p].at = "to_bg"])
    BY <1>3, <1>5
  <2>2. PICK b : b = g.invited
    OBVIOUS
  <2>3. b \in Invites(s, p)
    BY <2>2 DEF Invites
  <2>4. s \in States /\ Inv(s, MaxPlayersPerTeam) /\ start \in Start /\ MaxPlayersPerTeam \in Nat
    BY <1>1, StateFacts
  <2>5. b \in Running(s) \cap Invites(s, p)
    <3>1. b \in BG \cup {None}
      BY <2>3, <2>4, GroupsFacts
    <3> QED BY <1>1, <2>1, <2>2, <2>3, <3>1, Fields DEF Running
  <2>6. s.player[p].slot # None /\ s.player[p].slot # Free
    BY <1>1, <1>2, <2>1, Fields
  <2>7. PICK t : t = [RemovePlayer(s, p, FALSE) EXCEPT !.player[p].bg = b, !.player[p].at = "to_bg"]
    OBVIOUS
  <2>8. Inv(t, MaxPlayersPerTeam)
    BY <2>4, <2>5, <2>6, <2>7, Enters
  <2> QED BY <2>1, <2>2, <2>4, <2>7, <2>8, BecomesInv
<1> QED BY <1>4, <1>5

LEMMA HandleLeaveBattlefieldStep ==
  ASSUME IInv, NEW p \in Player, HandleLeaveBattlefield(p)
  PROVE  IInv'
<1>1. PICK s : s = State
  OBVIOUS
<1>2. PICK far \in BOOLEAN : Becomes(LeaveBattleground(s, p, TRUE, far))
  BY <1>1 DEF HandleLeaveBattlefield
<1>3. s.player[p].at = "world" /\ s.player[p].bg \in Running(s)
  BY <1>1, InsideFacts DEF HandleLeaveBattlefield, InWorld
<1>4. PICK t : t = LeaveBattleground(s, p, TRUE, far)
  OBVIOUS
<1>5. Inv(t, MaxPlayersPerTeam) /\ start \in Start
  BY <1>1, <1>3, <1>4, StateFacts, LeaveBattlegroundInv
<1> QED BY <1>2, <1>4, <1>5, BecomesInv

LEMMA TeleportToStep ==
  ASSUME IInv, NEW p \in Player, TeleportTo(p)
  PROVE  IInv'
<1>1. PICK s : s = State
  OBVIOUS
<1>2. s.player[p].at = "world"
  BY <1>1 DEF TeleportTo, InWorld
<1>3. PICK r : r = IF s.player[p].bg \in Running(s) THEN LeaveBattleground(s, p, FALSE, TRUE) ELSE s
  OBVIOUS
<1>4. PICK t : t = [r EXCEPT !.player[p].at = "travel"]
  OBVIOUS
<1>5. Becomes(t)
  <2>1. Becomes([(IF Inside(p) THEN LeaveBattleground(State, p, FALSE, TRUE) ELSE State) EXCEPT !.player[p].at = "travel"])
    BY DEF TeleportTo
  <2>2. (IF Inside(p) THEN LeaveBattleground(State, p, FALSE, TRUE) ELSE State) = r
    BY <1>1, <1>3, InsideFacts
  <2> QED BY <1>4, <2>1, <2>2
<1>6. Inv(t, MaxPlayersPerTeam) /\ start \in Start
  BY <1>1, <1>2, <1>3, <1>4, StateFacts, TeleportInv
<1> QED BY <1>5, <1>6, BecomesInv

LEMMA HandleMoveWorldportAckStep ==
  ASSUME IInv, NEW p \in Player, HandleMoveWorldportAck(p)
  PROVE  IInv'
<1>1. PICK s : s = State
  OBVIOUS
<1>2. s.player[p].at \in {"to_bg", "travel"}
  BY <1>1, Fields DEF HandleMoveWorldportAck, Moving
<1>3. PICK t : t = Arrived(s, p)
  OBVIOUS
<1>4. Inv(t, MaxPlayersPerTeam) /\ start \in Start
  BY <1>1, <1>2, <1>3, StateFacts, ArrivedInv
<1>5. Becomes(t)
  BY <1>1, <1>3 DEF HandleMoveWorldportAck
<1> QED BY <1>4, <1>5, BecomesInv

LEMMA LogoutPlayerStep ==
  ASSUME IInv, NEW p \in Player, LogoutPlayer(p)
  PROVE  IInv'
<1>1. PICK r : r = State
  OBVIOUS
<1>2. PICK s : s = IF Moving(p) THEN Arrived(r, p) ELSE r
  OBVIOUS
<1>3. PICK t : t = Offline(s, Unlisted(s, Kept(s, p), p), p)
  OBVIOUS
<1>4. r.player[p].at # "offline" /\ Becomes(t)
  <2>1. player[p].at # "offline"
    BY DEF LogoutPlayer
  <2>2. Becomes(t)
    <3> DEFINE S == IF Moving(p) THEN Arrived(State, p) ELSE State
    <3>1. Becomes(Offline(S, Unlisted(S, Kept(S, p), p), p))
      BY Zenon DEF LogoutPlayer, Offline, Unlisted, Kept
    <3>2. S = s
      BY <1>1, <1>2
    <3> HIDE DEF S
    <3> QED BY <1>3, <3>1, <3>2, Zenon
  <2> QED BY <1>1, <2>1, <2>2, Fields
<1>5. Inv(s, MaxPlayersPerTeam) /\ s.player[p].at = "world"
  <2>1. r.player[p] \in PlayerRecord
    BY <1>1, StateFacts, InvTypes
  <2>2. CASE Moving(p)
    <3>1. r.player[p].at \in {"to_bg", "travel"}
      BY <1>1, <2>2, Fields DEF Moving
    <3> QED BY <1>1, <1>2, <2>2, <3>1, StateFacts, ArrivedInv
  <2>3. CASE ~Moving(p)
    <3>1. r.player[p].at = "world"
      BY <1>1, <1>4, <2>1, <2>3, Fields DEF Moving, PlayerRecord
    <3> QED BY <1>1, <1>2, <2>3, <3>1, StateFacts
  <2> QED BY <2>2, <2>3
<1>6. Inv(t, MaxPlayersPerTeam) /\ start \in Start
  BY <1>3, <1>5, StateFacts, LogoutInv
<1> QED BY <1>4, <1>6, BecomesInv

LEMMA DeserterEndsStep ==
  ASSUME IInv, NEW p \in Player, DeserterEnds(p)
  PROVE  IInv'
<1>1. PICK s : s = State
  OBVIOUS
<1>2. PICK t : t = [s EXCEPT !.player[p].deserter = "no"]
  OBVIOUS
<1>3. Inv(t, MaxPlayersPerTeam) /\ start \in Start
  BY <1>1, <1>2, StateFacts, SetDeserter
<1>4. Becomes(t)
  BY <1>1, <1>2 DEF DeserterEnds
<1> QED BY <1>3, <1>4, BecomesInv

LEMMA LoadPlayerStep ==
  ASSUME IInv, NEW p \in Player, LoadPlayer(p)
  PROVE  IInv'
<1>1. PICK s : s = State
  OBVIOUS
<1>2. PICK b : b = player[p].bg
  OBVIOUS
<1>3. PICK removed : removed = IF Inside(p) /\ p \in bgs[b].members
                               THEN RemovePlayerAtLeave(s, b, p, FALSE, FALSE) ELSE s
  OBVIOUS
<1>4. /\ s.player[p].at = "offline"
      /\ Becomes(IF (Inside(p) /\ p \in bgs[b].members) /\ bgs[b].status # "WAIT_LEAVE"
                 THEN [[s EXCEPT !.player[p].at = "world"] EXCEPT
                           !.player[p].slot = b, !.bgs[b].offline = Without(@, p)]
                 ELSE [removed EXCEPT !.player[p].at = "world", !.player[p].bg = None])
  BY <1>1, <1>2, <1>3, Fields DEF LoadPlayer
<1>5. /\ Inv(s, MaxPlayersPerTeam) /\ s \in States /\ start \in Start /\ MaxPlayersPerTeam \in Nat
      /\ b = s.player[p].bg /\ s.bgs = bgs /\ (Inside(p) <=> b \in Running(s)) /\ PInv(s, p)
  BY <1>1, <1>2, StateFacts, Fields, InsideFacts, InvTypes
<1>6. CASE (Inside(p) /\ p \in bgs[b].members) /\ bgs[b].status # "WAIT_LEAVE"
  <2>1. b \in Running(s) /\ p \in s.bgs[b].members /\ s.bgs[b] \in BattleGround
    BY <1>5, <1>6, RunningFacts
  <2>2. PICK l \in Seq(Player) : l = Without(s.bgs[b].offline, p)
    <3>1. s.bgs[b].offline \in Seq(Player)
      BY <2>1 DEF BattleGround
    <3> QED BY <3>1, WithoutFacts
  <2>3. PICK t : t = [[s EXCEPT !.player[p].at = "world"] EXCEPT !.player[p].slot = b, !.bgs[b].offline = l]
    OBVIOUS
  <2>4. Inv(t, MaxPlayersPerTeam)
    BY <1>4, <1>5, <2>1, <2>3, LoadsInside
  <2>5. [[s EXCEPT !.player[p].at = "world"] EXCEPT !.player[p].slot = b, !.bgs[b].offline = Without(@, p)] = t
    BY <1>5, <2>2, <2>3 DEF States
  <2> QED BY <1>4, <1>5, <1>6, <2>4, <2>5, BecomesInv
<1>7. CASE ~((Inside(p) /\ p \in bgs[b].members) /\ bgs[b].status # "WAIT_LEAVE")
  <2>1. Inv(removed, MaxPlayersPerTeam) /\ removed.player[p].at = "offline" /\ MemberOf(removed, p) = {}
    <3>1. CASE Inside(p) /\ p \in bgs[b].members
      <4>1. b \in Running(s) /\ p \in s.bgs[b].members /\ removed = RemovePlayerAtLeave(s, b, p, FALSE, FALSE)
        BY <1>3, <1>5, <3>1
      <4>2. Inv(removed, MaxPlayersPerTeam) /\ AtLeave(s, removed, b, p, FALSE /\ FALSE)
        BY <1>5, <4>1, RemovePlayerAtLeaveInv
      <4>3. removed.player[p].at = "offline" /\ b \notin MemberOf(removed, p)
        BY <1>4, <4>2 DEF AtLeave, MemberOf
      <4>4. removed.player[p].bg = s.player[p].bg /\ PInv(removed, p)
        BY <1>4, <4>2, InvTypes DEF AtLeave
      <4> QED BY <1>5, <4>2, <4>3, <4>4 DEF PInv, PlayerInv
    <3>2. CASE ~(Inside(p) /\ p \in bgs[b].members)
      <4>1. removed = s
        BY <1>3, <3>2
      <4>2. b \notin MemberOf(s, p)
        BY <1>5, <3>2 DEF MemberOf
      <4>3. MemberOf(s, p) = {}
        BY <1>5, <4>2 DEF PInv, PlayerInv
      <4> QED BY <1>4, <1>5, <4>1, <4>3
    <3> QED BY <3>1, <3>2
  <2>2. PICK t : t = [removed EXCEPT !.player[p].at = "world", !.player[p].bg = None]
    OBVIOUS
  <2>3. Inv(t, MaxPlayersPerTeam)
    BY <1>5, <2>1, <2>2, LoadsOutside
  <2> QED BY <1>4, <1>5, <1>7, <2>2, <2>3, BecomesInv
<1> QED BY <1>6, <1>7

LEMMA RemoveEventStep ==
  ASSUME IInv, NEW p \in Player, RemoveEvent(p)
  PROVE  IInv'
<1>1. PICK s : s = State
  OBVIOUS
<1>2. PICK e : e = Head(s.player[p].events)
  OBVIOUS
<1>3. PICK r : r = [s EXCEPT !.player[p].events = Tail(@)]
  OBVIOUS
<1>4. PICK out : out = RemovePlayer(FreeSlot(r, p), p, TRUE)
  OBVIOUS
<1>5. /\ s.player[p].events # << >>
      /\ Becomes(IF s.player[p].slot = Free \/ ~IsPlayerInvited(s, p, e) THEN r
                 ELSE IF bgs[e.bg] = None \/ bgs[e.bg].status = "WAIT_LEAVE" THEN out
                 ELSE ScheduleQueueUpdate(out))
  BY <1>1, <1>2, <1>3, <1>4, Fields DEF RemoveEvent
<1>6. Inv(s, MaxPlayersPerTeam) /\ start \in Start /\ MaxPlayersPerTeam \in Nat
  BY <1>1, StateFacts
<1>7. CASE s.player[p].slot = Free \/ ~IsPlayerInvited(s, p, e)
  <2>1. Inv(r, MaxPlayersPerTeam)
    BY <1>2, <1>3, <1>5, <1>6, <1>7, EventGoes
  <2> QED BY <1>5, <1>6, <1>7, <2>1, BecomesInv
<1>8. CASE ~(s.player[p].slot = Free \/ ~IsPlayerInvited(s, p, e))
  <2>1. Inv(out, MaxPlayersPerTeam)
    BY <1>2, <1>3, <1>4, <1>5, <1>6, <1>8, EventEnds
  <2>2. PICK t : t = ScheduleQueueUpdate(out)
    OBVIOUS
  <2>3. Inv(t, MaxPlayersPerTeam)
    BY <1>6, <2>1, <2>2, Scheduled
  <2>4. Becomes(out) \/ Becomes(t)
    BY <1>5, <1>8, <2>2
  <2> QED BY <1>6, <2>1, <2>3, <2>4, BecomesInv
<1> QED BY <1>7, <1>8

LEMMA WinsStep ==
  ASSUME IInv, NEW b \in BG, Wins(b)
  PROVE  IInv'
<1>1. PICK s : s = State
  OBVIOUS
<1>2. PICK t : t = EndBattleGround(s, b)
  OBVIOUS
<1>3. b \in Running(s) /\ Becomes(t)
  BY <1>1, <1>2, Fields DEF Wins, Running
<1>4. Inv(t, MaxPlayersPerTeam) /\ start \in Start
  BY <1>1, <1>2, <1>3, StateFacts, EndInv
<1> QED BY <1>3, <1>4, BecomesInv

LEMMA UpdateBGStep ==
  ASSUME IInv, NEW b \in BG, UpdateBG(b)
  PROVE  IInv'
<1>1. PICK s : s = State
  OBVIOUS
<1>2. Inv(s, MaxPlayersPerTeam) /\ start \in Start /\ MaxPlayersPerTeam \in Nat /\ s \in States
  BY <1>1, StateFacts
<1>3. PICK bg : bg = s.bgs[b]
  OBVIOUS
<1>4. /\ b \in Running(s)
      /\ \/ /\ bg.members = {} /\ \A t \in Team : bg.invited[t] = 0
            /\ Becomes([RemoveFromBGFreeSlotQueue(s, b) EXCEPT !.bgs[b] = None])
         \/ /\ bg.offline # <<>> /\ Head(bg.offline) \in bg.members
            /\ Becomes([RemovePlayerAtLeave(s, b, Head(bg.offline), TRUE, TRUE)
                            EXCEPT !.bgs[b].offline = Tail(@)])
         \/ Becomes(EndBattleGround(s, b))
         \/ Becomes([s EXCEPT !.bgs[b].status = "IN_PROGRESS"])
         \/ \E far \in BOOLEAN : Becomes(AllRemoved(s, b, far))
  BY <1>1, <1>3, Fields DEF UpdateBG, Running
<1>5. CASE /\ bg.members = {} /\ \A t \in Team : bg.invited[t] = 0
           /\ Becomes([RemoveFromBGFreeSlotQueue(s, b) EXCEPT !.bgs[b] = None])
  <2>1. PICK t : t = [RemoveFromBGFreeSlotQueue(s, b) EXCEPT !.bgs[b] = None]
    OBVIOUS
  <2>2. Inv(t, MaxPlayersPerTeam)
    BY <1>2, <1>3, <1>4, <1>5, <2>1, DeletedInv
  <2> QED BY <1>2, <1>5, <2>1, <2>2, BecomesInv
<1>6. CASE /\ bg.offline # <<>> /\ Head(bg.offline) \in bg.members
           /\ Becomes([RemovePlayerAtLeave(s, b, Head(bg.offline), TRUE, TRUE)
                           EXCEPT !.bgs[b].offline = Tail(@)])
  <2>1. PICK t : t = [RemovePlayerAtLeave(s, b, Head(s.bgs[b].offline), TRUE, TRUE) EXCEPT !.bgs[b].offline = Tail(@)]
    OBVIOUS
  <2>2. Inv(t, MaxPlayersPerTeam)
    BY <1>2, <1>3, <1>4, <1>6, <2>1, OfflineInv
  <2>3. Becomes(t)
    BY <1>3, <1>6, <2>1
  <2> QED BY <1>2, <2>2, <2>3, BecomesInv
<1>7. CASE Becomes(EndBattleGround(s, b))
  <2>1. PICK t : t = EndBattleGround(s, b)
    OBVIOUS
  <2> QED BY <1>2, <1>4, <1>7, <2>1, EndInv, BecomesInv
<1>8. CASE Becomes([s EXCEPT !.bgs[b].status = "IN_PROGRESS"])
  <2>1. PICK t : t = [s EXCEPT !.bgs[b].status = "IN_PROGRESS"]
    OBVIOUS
  <2>2. "IN_PROGRESS" \in Status
    BY DEF Status
  <2>3. Inv(t, MaxPlayersPerTeam)
    BY <1>2, <1>4, <2>1, <2>2, SetStatus
  <2> QED BY <1>2, <1>8, <2>1, <2>3, BecomesInv
<1>9. ASSUME NEW far \in BOOLEAN, Becomes(AllRemoved(s, b, far)) PROVE IInv'
  <2>1. PICK t : t = AllRemoved(s, b, far)
    OBVIOUS
  <2>2. Inv(t, MaxPlayersPerTeam)
    BY <1>2, <1>4, <2>1, AllRemovedInv
  <2> QED BY <1>2, <1>9, <2>1, <2>2, BecomesInv
<1> QED BY <1>4, <1>5, <1>6, <1>7, <1>8, <1>9

LEMMA PlayerActsStep ==
  ASSUME IInv, NEW p \in Player, PlayerActs(p)
  PROVE  IInv'
BY HandleBattlemasterJoinStep, HandleBattlemasterJoinGroupStep, HandleBattleFieldPortStep,
   HandleLeaveBattlefieldStep, TeleportToStep, HandleMoveWorldportAckStep, LogoutPlayerStep,
   LoadPlayerStep, DeserterEndsStep, RemoveEventStep DEF PlayerActs

LEMMA NextInv == ASSUME IInv, [Next]_vars PROVE IInv'
<1>1. CASE Next
  <2>1. CASE Update
    BY <2>1, UpdateStep
  <2>2. ASSUME NEW p \in start.client, PlayerActs(p) PROVE IInv'
    <3>1. p \in Player
      BY StateFacts DEF Situation
    <3> QED BY <2>2, <3>1, PlayerActsStep
  <2>3. ASSUME NEW b \in BG, Wins(b) PROVE IInv'
    BY <2>3, WinsStep
  <2>4. ASSUME NEW b \in BG, UpdateBG(b) PROVE IInv'
    BY <2>4, UpdateBGStep
  <2> QED BY <1>1, <2>1, <2>2, <2>3, <2>4 DEF Next
<1>2. CASE UNCHANGED vars
  <2>1. State' = State /\ start' = start /\ MaxPlayersPerTeam' = MaxPlayersPerTeam
    BY <1>2 DEF vars, State, MaxPlayersPerTeam
  <2>2. Inv(State, MaxPlayersPerTeam)'
    BY <2>1 DEF IInv
  <2> QED BY <2>1, <2>2 DEF IInv
<1> QED BY <1>1, <1>2

LEMMA PlaceFacts ==
  ASSUME IInv, NEW p \in Player, NEW b \in Running(State)
  PROVE  HasPlace(p, b) <=> Placed(State, p, b)
<1>1. (\E g \in GroupsOf(State, p) : g.invited = b) <=> b \in Invites(State, p)
  BY DEF Invites
<1>2. (bgs[b] # None /\ p \in bgs[b].members) <=> b \in MemberOf(State, p)
  BY Fields DEF MemberOf, Running
<1> QED BY <1>1, <1>2, Fields DEF HasPlace, Placed

LEMMA IInvCountsExact == ASSUME IInv PROVE CountsExact
<1>1. State \in States /\ Inv(State, MaxPlayersPerTeam)
  BY StateFacts
<1>2. TypeOK
  BY <1>1, Fields DEF TypeOK, States, PlayerRecord
<1>3. ASSUME NEW b \in BG \ tainted, bgs[b] # None, NEW t \in Team
      PROVE  /\ bgs[b].invited[t] = Cardinality({p \in Player : TeamOf[p] = t /\ HasPlace(p, b)})
             /\ bgs[b].invited[t] <= MaxPlayersPerTeam
  <2>1. b \in Running(State) \ State.tainted
    BY <1>3, Fields DEF Running
  <2>2. \A p \in Player : HasPlace(p, b) <=> Placed(State, p, b)
    BY <2>1, PlaceFacts
  <2>3. {p \in Player : TeamOf[p] = t /\ HasPlace(p, b)} = PlacedOf(State, b, t)
    BY <2>2 DEF PlacedOf
  <2> QED BY <1>1, <2>1, <2>3, Fields DEF Inv, CountInv
<1> QED BY <1>2, <1>3 DEF CountsExact

LEMMA IInvInvitationHolds == ASSUME IInv PROVE InvitationHolds
<1>1. State \in States /\ QueueInv(State) /\ \A p \in Player : PInv(State, p)
  BY StateFacts, InvTypes
<1>2. ASSUME NEW p \in Player
      PROVE  /\ Cardinality(GroupsOf(State, p)) <= 1
             /\ \A g \in GroupsOf(State, p) :
                   /\ player[p].slot = g.invited \/ (player[p].slot = None /\ g.invited \in tainted)
                   /\ player[p].slot \in BG => [bg |-> g.invited, now |-> TRUE] \in ToSet(player[p].events)
             /\ GroupsOf(State, p) = {} /\ player[p].slot \notin tainted \cup {Free} =>
                   player[p].slot = player[p].bg /\ player[p].slot # None /\ player[p].at \in {"world", "to_bg"}
  <2>1. Cardinality(GroupsOf(State, p)) <= 1
    <3>1. \A g, h \in GroupsOf(State, p) : g = h
      BY <1>1 DEF GroupsOf, QueueInv
    <3>2. CASE GroupsOf(State, p) = {}
      BY <3>2, FS_EmptySet
    <3>3. CASE GroupsOf(State, p) # {}
      <4>1. PICK g : GroupsOf(State, p) = {g}
        BY <3>1, <3>3
      <4> QED BY <4>1, FS_Singleton
    <3> QED BY <3>2, <3>3
  <2>2. \A g \in GroupsOf(State, p) : g.invited \in Invites(State, p)
    BY DEF Invites
  <2>3. GroupsOf(State, p) = {} => Invites(State, p) = {}
    BY DEF Invites
  <2>4. None \notin Running(State)
    BY <1>1, RunningFacts
  <2>5. PlayerInv(player[p], Invites(State, p), MemberOf(State, p), Running(State), tainted)
    BY <1>1, Fields DEF PInv
  <2>6. \A g \in GroupsOf(State, p) :
           /\ player[p].slot = g.invited \/ (player[p].slot = None /\ g.invited \in tainted)
           /\ player[p].slot \in BG => [bg |-> g.invited, now |-> TRUE] \in ToSet(player[p].events)
    BY <2>2, <2>5 DEF PlayerInv
  <2>7. GroupsOf(State, p) = {} /\ player[p].slot \notin tainted \cup {Free} =>
           player[p].slot = player[p].bg /\ player[p].slot # None /\ player[p].at \in {"world", "to_bg"}
    BY <2>3, <2>4, <2>5 DEF PlayerInv
  <2> QED BY <2>1, <2>6, <2>7
<1>3. ASSUME NEW b \in BG, bgs[b] # None, NEW p \in bgs[b].members
      PROVE  player[p].bg = b /\ (player[p].at = "world" => player[p].slot = b)
  <2>1. b \in Running(State) /\ State.bgs[b] \in BattleGround
    BY <1>1, <1>3, Fields, RunningFacts DEF Running
  <2>2. p \in Player /\ b \in MemberOf(State, p)
    BY <1>3, <2>1, Fields DEF MemberOf, BattleGround
  <2>3. PInv(State, p)
    BY <1>1, <2>2
  <2> QED BY <2>2, <2>3, Fields DEF PInv, PlayerInv
<1> QED BY <1>2, <1>3 DEF InvitationHolds

\* The counters of every battleground that no invitation passed anybody over for are the
\* numbers of its players, and never more than its places.
THEOREM CountsAreExact == Spec => []CountsExact
<1>1. IInv /\ [Next]_vars => IInv'
  BY NextInv
<1>2. IInv => CountsExact
  BY IInvCountsExact
<1> QED BY InitInv, <1>1, <1>2, PTL DEF Spec

\* The queue, the slots and events of a player and the members of the battlegrounds agree.
THEOREM InvitationsHold == Spec => []InvitationHolds
<1>1. IInv /\ [Next]_vars => IInv'
  BY NextInv
<1>2. IInv => InvitationHolds
  BY IInvInvitationHolds
<1> QED BY InitInv, <1>1, <1>2, PTL DEF Spec

=============================================================================
