----------------------------- MODULE LedgerProofs -----------------------------
(***************************************************************************)
(* The ledger of auctions, mails and trades: what TradesProofs rests on.   *)
(*                                                                         *)
(* Sums first: SumOver adds up a function over a finite set, whatever the  *)
(* order, and changes by what one of its values changes by.                *)
(*                                                                         *)
(* Then the inductive invariant IInv.  What it says holds between two      *)
(* handlers, and no handler keeps it step by step: a purse is charged      *)
(* before its mail exists, a row is written before the item leaves the     *)
(* bag.  So it is made of parts that hold in the middle of a handler, with *)
(* what the handler has in its hands as parameters:                        *)
(*   - Ledger: outside the items H and the money D in its hands, what      *)
(*     exists is in one place, and the money adds up; so it does in every  *)
(*     transaction that waits for the database, but for what the           *)
(*     transaction stores by half (its open things);                       *)
(*   - Memory: outside the players G and the mails M he works on, what is  *)
(*     in memory is what is stored;                                        *)
(*   - Enough: the auctions find numbers for the mails they owe.           *)
(* A crash keeps a prefix of the transactions; what one of them had open   *)
(* is cut, and nothing is claimed of it any more.                          *)
(* Where an item was taken through another mail nothing is claimed at all. *)
(*                                                                         *)
(* For each operation on the tables follows what it does, and what it does *)
(* to the ledger; then the handlers that only deal with characters: login, *)
(* trade windows, saving, logging out, and what a client asks of a mailbox. *)
(***************************************************************************)
EXTENDS Trades, FiniteSetTheorems, SequenceTheorems, WellFoundedInduction, TLAPS

-----------------------------------------------------------------------------
(* Sums *)

LEMMA LeastNatural ==
  ASSUME NEW T, T \subseteq Nat, T # {}
  PROVE  \E x \in T : \A y \in T : x <= y
<1> DEFINE R == OpToRel(<, Nat)
<1>1. IsWellFoundedOn(R, Nat)
  BY NatLessThanWellFounded, Zenon
<1>2. \A x, y \in Nat : y < x => <<y, x>> \in R
  BY DEF OpToRel
<1> HIDE DEF R
<1>3. PICK x \in T : \A y \in T : <<y, x>> \notin R
  BY <1>1, WFMin
<1>4. ASSUME NEW y \in T PROVE x <= y
  <2>1. x \in Nat /\ y \in Nat
    OBVIOUS
  <2>2. ~(y < x)
    BY <1>2, <1>3, <2>1
  <2> QED BY <2>1, <2>2
<1> QED BY <1>4

\* The element a sum adds first.
Chosen(S) == CHOOSE x \in S : TRUE

\* h has the sums of f over the sets of C.
Sums(h, f, C) == \A S \in C : h[S] = IF S = {} THEN 0 ELSE f[Chosen(S)] + h[S \ {Chosen(S)}]

LEMMA AnyIn == ASSUME NEW S, S # {} PROVE Chosen(S) \in S
BY DEF Chosen

\* The subsets of S with at most n elements.
Smaller(S, n) == {s \in SUBSET S : Cardinality(s) <= n}

LEMMA PartOf ==
  ASSUME NEW S, IsFiniteSet(S), NEW s \in SUBSET S
  PROVE  /\ IsFiniteSet(s) /\ Cardinality(s) \in Nat /\ Cardinality(s) <= Cardinality(S)
         /\ Cardinality(s) = 0 <=> s = {}
         /\ \A x \in s : /\ s \ {x} \in SUBSET S /\ Cardinality(s \ {x}) = Cardinality(s) - 1
                         /\ Cardinality(s) - 1 \in Nat
<1>1. IsFiniteSet(s) /\ Cardinality(s) \in Nat /\ Cardinality(s) <= Cardinality(S)
  BY FS_Subset, FS_CardinalityType
<1>2. Cardinality(s) = 0 <=> s = {}
  BY <1>1, FS_EmptySet
<1>3. ASSUME NEW x \in s
      PROVE  /\ s \ {x} \in SUBSET S /\ Cardinality(s \ {x}) = Cardinality(s) - 1
             /\ Cardinality(s) - 1 \in Nat
  <2>1. Cardinality(s \ {x}) = Cardinality(s) - 1
    BY <1>1, FS_RemoveElement
  <2>2. Cardinality(s \ {x}) \in Nat
    <3>1. IsFiniteSet(s \ {x})
      BY <1>1, FS_Subset
    <3> QED BY <3>1, FS_CardinalityType
  <2> QED BY <2>1, <2>2
<1> QED BY <1>1, <1>2, <1>3

LEMMA SumsExist ==
  ASSUME NEW S, IsFiniteSet(S), NEW f, \A x \in S : f[x] \in Nat
  PROVE  \E h \in [SUBSET S -> Nat] : Sums(h, f, SUBSET S)
<1> DEFINE P(n) == \E h \in [Smaller(S, n) -> Nat] : Sums(h, f, Smaller(S, n))
           T == {n \in Nat : ~P(n)}
<1>1. T = {}
  <2> SUFFICES ASSUME T # {} PROVE FALSE
    OBVIOUS
  <2>1. PICK n \in T : \A y \in T : n <= y
    BY LeastNatural
  <2>2. n \in Nat /\ ~P(n)
    OBVIOUS
  <2>3. CASE n = 0
    <3> DEFINE h == [s \in Smaller(S, n) |-> 0]
    <3>1. \A s \in Smaller(S, n) : s = {}
      BY <2>3, PartOf DEF Smaller
    <3>2. h \in [Smaller(S, n) -> Nat] /\ Sums(h, f, Smaller(S, n))
      BY <3>1 DEF Sums
    <3> QED BY <2>2, <3>2
  <2>4. CASE n # 0
    <3>1. n - 1 \in Nat /\ ~(n <= n - 1)
      BY <2>2, <2>4
    <3>2. P(n - 1)
      <4> HIDE DEF P
      <4> QED BY <2>1, <3>1
    <3>3. PICK h \in [Smaller(S, n - 1) -> Nat] : Sums(h, f, Smaller(S, n - 1))
      BY <3>2
    <3> DEFINE g == [s \in Smaller(S, n) |-> IF Cardinality(s) <= n - 1 THEN h[s]
                                              ELSE f[Chosen(s)] + h[s \ {Chosen(s)}]]
    <3>4. ASSUME NEW s \in Smaller(S, n)
          PROVE  /\ g[s] \in Nat
                 /\ g[s] = IF s = {} THEN 0 ELSE f[Chosen(s)] + g[s \ {Chosen(s)}]
      <4>1. s \in SUBSET S /\ Cardinality(s) \in Nat /\ Cardinality(s) <= n
        BY PartOf DEF Smaller
      <4>2. s # {} => /\ Chosen(s) \in s /\ f[Chosen(s)] \in Nat
                      /\ s \ {Chosen(s)} \in Smaller(S, n - 1) /\ s \ {Chosen(s)} \in Smaller(S, n)
                      /\ Cardinality(s \ {Chosen(s)}) <= n - 1
        <5> SUFFICES ASSUME s # {}
                     PROVE  /\ Chosen(s) \in s /\ f[Chosen(s)] \in Nat
                            /\ s \ {Chosen(s)} \in Smaller(S, n - 1) /\ s \ {Chosen(s)} \in Smaller(S, n)
                            /\ Cardinality(s \ {Chosen(s)}) <= n - 1
          OBVIOUS
        <5>1. Chosen(s) \in s
          BY AnyIn
        <5>2. /\ s \ {Chosen(s)} \in SUBSET S /\ Cardinality(s \ {Chosen(s)}) = Cardinality(s) - 1
              /\ Cardinality(s) - 1 \in Nat
          BY <4>1, <5>1, PartOf
        <5> QED BY <2>2, <4>1, <5>1, <5>2 DEF Smaller
      <4>3. s # {} => g[s \ {Chosen(s)}] = h[s \ {Chosen(s)}] /\ h[s \ {Chosen(s)}] \in Nat
        BY <4>2
      <4>4. CASE Cardinality(s) <= n - 1
        <5>1. s \in Smaller(S, n - 1)
          BY <4>1, <4>4 DEF Smaller
        <5>2. g[s] = h[s] /\ h[s] \in Nat
          BY <4>4, <5>1
        <5>3. h[s] = IF s = {} THEN 0 ELSE f[Chosen(s)] + h[s \ {Chosen(s)}]
          BY <3>3, <5>1 DEF Sums
        <5> HIDE DEF g
        <5> QED BY <4>3, <5>2, <5>3
      <4>5. CASE ~(Cardinality(s) <= n - 1)
        <5>1. s # {}
          BY <3>1, <4>5, <4>1, PartOf
        <5>2. g[s] = f[Chosen(s)] + h[s \ {Chosen(s)}]
          BY <4>5
        <5> HIDE DEF g
        <5> QED BY <4>2, <4>3, <5>1, <5>2
      <4> QED BY <4>4, <4>5
    <3>5. g \in [Smaller(S, n) -> Nat] /\ Sums(g, f, Smaller(S, n))
      BY <3>4 DEF Sums
    <3> QED BY <2>2, <3>5
  <2> QED BY <2>3, <2>4
<1>2. P(Cardinality(S))
  <2>1. Cardinality(S) \in Nat
    BY FS_CardinalityType
  <2> HIDE DEF P
  <2> QED BY <1>1, <2>1
<1>3. Smaller(S, Cardinality(S)) = SUBSET S
  BY PartOf DEF Smaller
<1> QED BY <1>2, <1>3

\* A part of S that has no smaller one in T.
LEMMA SmallestSet ==
  ASSUME NEW S, IsFiniteSet(S), NEW T \in SUBSET SUBSET S, T # {}
  PROVE  \E s \in T : \A x \in s : s \ {x} \notin T
<1> DEFINE C == {Cardinality(s) : s \in T}
<1>1. C \subseteq Nat /\ C # {}
  BY PartOf
<1>2. PICK c \in C : \A y \in C : c <= y
  BY <1>1, LeastNatural
<1>3. PICK s \in T : c = Cardinality(s)
  OBVIOUS
<1>4. ASSUME NEW x \in s, s \ {x} \in T PROVE FALSE
  <2>1. Cardinality(s \ {x}) = Cardinality(s) - 1 /\ Cardinality(s) \in Nat
    BY PartOf
  <2>2. Cardinality(s \ {x}) \in C
    BY <1>4
  <2>3. Cardinality(s) <= Cardinality(s \ {x})
    BY <1>2, <1>3, <2>2
  <2> QED BY <2>1, <2>3
<1> QED BY <1>4

LEMMA SumsAgree ==
  ASSUME NEW S, IsFiniteSet(S), NEW f, NEW g, NEW h,
         Sums(g, f, SUBSET S), Sums(h, f, SUBSET S)
  PROVE  \A s \in SUBSET S : g[s] = h[s]
<1> DEFINE T == {s \in SUBSET S : g[s] # h[s]}
<1> SUFFICES ASSUME T # {} PROVE FALSE
  OBVIOUS
<1>1. PICK s \in T : \A x \in s : s \ {x} \notin T
  BY SmallestSet
<1>2. s \in SUBSET S /\ g[s] # h[s]
  OBVIOUS
<1>3. s # {}
  BY <1>2 DEF Sums
<1>4. Chosen(s) \in s /\ s \ {Chosen(s)} \in SUBSET S
  BY <1>2, <1>3, AnyIn
<1>5. g[s \ {Chosen(s)}] = h[s \ {Chosen(s)}]
  BY <1>1, <1>4
<1> QED BY <1>2, <1>3, <1>5 DEF Sums

LEMMA SumsAny ==
  ASSUME NEW S, IsFiniteSet(S), NEW f, \A x \in S : f[x] \in Nat,
         NEW h \in [SUBSET S -> Nat], Sums(h, f, SUBSET S)
  PROVE  \A s \in SUBSET S, x \in S : x \in s => h[s] = f[x] + h[s \ {x}]
<1> DEFINE T == {s \in SUBSET S : \E x \in s : h[s] # f[x] + h[s \ {x}]}
<1> SUFFICES ASSUME T # {} PROVE FALSE
  OBVIOUS
<1>1. PICK s \in T : \A x \in s : s \ {x} \notin T
  BY SmallestSet
<1>2. PICK x \in s : h[s] # f[x] + h[s \ {x}]
  OBVIOUS
<1>3. PICK y : y = Chosen(s)
  OBVIOUS
<1>4. y \in s /\ h[s] = f[y] + h[s \ {y}] /\ s \in SUBSET S
  BY <1>2, <1>3, AnyIn DEF Sums
<1>5. x # y
  BY <1>2, <1>4
<1>6. PICK w : w = (s \ {y}) \ {x}
  OBVIOUS
<1>7. w = (s \ {x}) \ {y} /\ w \in SUBSET S
  BY <1>4, <1>6
<1>8. h[s \ {y}] = f[x] + h[w]
  BY <1>1, <1>4, <1>5, <1>6
<1>9. h[s \ {x}] = f[y] + h[w]
  BY <1>1, <1>4, <1>5, <1>7
<1>10. f[x] \in Nat /\ f[y] \in Nat /\ h[w] \in Nat
  BY <1>4, <1>7
<1> QED BY <1>2, <1>4, <1>8, <1>9, <1>10

LEMMA SumIs ==
  ASSUME NEW S, IsFiniteSet(S), NEW f, \A x \in S : f[x] \in Nat
  PROVE  \E h \in [SUBSET S -> Nat] :
            Sums(h, f, SUBSET S) /\ SumOver(f, S) = h[S]
<1> DEFINE E(g) == g = [s \in SUBSET S |-> IF s = {} THEN 0 ELSE f[Chosen(s)] + g[s \ {Chosen(s)}]]
           it == CHOOSE g : E(g)
<1>1. SumOver(f, S) = it[S]
  BY DEF SumOver, MapThenSumSet, MapThenFoldSet, Chosen
<1>2. PICK h \in [SUBSET S -> Nat] : Sums(h, f, SUBSET S)
  BY SumsExist
<1>3. E(h)
  BY <1>2 DEF Sums
<1>4. E(it)
  <2> HIDE DEF E
  <2> QED BY <1>3
<1>5. Sums(it, f, SUBSET S)
  <2> HIDE DEF it
  <2> QED BY <1>4 DEF Sums
<1>6. it \in [SUBSET S -> Nat]
  <2> HIDE DEF it
  <2>1. DOMAIN it = SUBSET S /\ it = [s \in SUBSET S |-> it[s]]
    BY <1>4
  <2>2. \A s \in SUBSET S : it[s] = h[s]
    BY <1>2, <1>5, SumsAgree
  <2> QED BY <1>2, <2>1, <2>2
<1> HIDE DEF it
<1> QED BY <1>1, <1>5, <1>6

LEMMA SumOfNone == ASSUME NEW f PROVE SumOver(f, {}) = 0
<1>1. IsFiniteSet({}) /\ \A x \in {} : f[x] \in Nat
  BY FS_EmptySet
<1>2. PICK h \in [SUBSET {} -> Nat] : Sums(h, f, SUBSET {}) /\ SumOver(f, {}) = h[{}]
  BY <1>1, SumIs
<1> QED BY <1>2 DEF Sums

LEMMA SumNat ==
  ASSUME NEW S, IsFiniteSet(S), NEW f, \A x \in S : f[x] \in Nat
  PROVE  SumOver(f, S) \in Nat
<1>1. PICK h \in [SUBSET S -> Nat] : Sums(h, f, SUBSET S) /\ SumOver(f, S) = h[S]
  BY SumIs
<1> QED BY <1>1

LEMMA SumTake ==
  ASSUME NEW S, IsFiniteSet(S), NEW f, \A x \in S : f[x] \in Nat, NEW x \in S
  PROVE  SumOver(f, S) = f[x] + SumOver(f, S \ {x})
<1>1. PICK h \in [SUBSET S -> Nat] : Sums(h, f, SUBSET S) /\ SumOver(f, S) = h[S]
  BY SumIs
<1>2. IsFiniteSet(S \ {x})
  BY FS_Subset
<1>3. PICK g \in [SUBSET (S \ {x}) -> Nat] :
         Sums(g, f, SUBSET (S \ {x})) /\ SumOver(f, S \ {x}) = g[S \ {x}]
  BY <1>2, SumIs
<1>4. Sums(h, f, SUBSET (S \ {x}))
  BY <1>1 DEF Sums
<1>5. h[S \ {x}] = g[S \ {x}]
  BY <1>2, <1>3, <1>4, SumsAgree
<1>6. h[S] = f[x] + h[S \ {x}]
  BY <1>1, SumsAny
<1> QED BY <1>1, <1>3, <1>5, <1>6

LEMMA SumEqual ==
  ASSUME NEW S, IsFiniteSet(S), NEW f, NEW g,
         \A x \in S : f[x] \in Nat /\ g[x] = f[x]
  PROVE  SumOver(g, S) = SumOver(f, S)
<1>1. PICK h \in [SUBSET S -> Nat] : Sums(h, f, SUBSET S) /\ SumOver(f, S) = h[S]
  BY SumIs
<1>2. PICK k \in [SUBSET S -> Nat] : Sums(k, g, SUBSET S) /\ SumOver(g, S) = k[S]
  BY SumIs
<1>3. ASSUME NEW s \in SUBSET S PROVE k[s] = IF s = {} THEN 0 ELSE f[Chosen(s)] + k[s \ {Chosen(s)}]
  <2>1. s # {} => Chosen(s) \in S
    BY AnyIn
  <2> QED BY <1>2, <2>1 DEF Sums
<1>4. Sums(k, f, SUBSET S)
  BY <1>3 DEF Sums
<1>5. k[S] = h[S]
  BY <1>1, <1>4, SumsAgree
<1> QED BY <1>1, <1>2, <1>5

\* One value is another.
LEMMA SumChanged ==
  ASSUME NEW S, IsFiniteSet(S), NEW f, NEW g, NEW x \in S,
         \A y \in S : f[y] \in Nat /\ g[y] \in Nat /\ (y # x => g[y] = f[y])
  PROVE  /\ SumOver(f, S) \in Nat /\ SumOver(g, S) \in Nat
         /\ SumOver(g, S) = SumOver(f, S) - f[x] + g[x]
<1>1. IsFiniteSet(S \ {x})
  BY FS_Subset
<1>2. SumOver(g, S \ {x}) = SumOver(f, S \ {x})
  BY <1>1, SumEqual
<1>3. SumOver(f, S) = f[x] + SumOver(f, S \ {x})
  BY SumTake
<1>4. SumOver(g, S) = g[x] + SumOver(g, S \ {x})
  BY SumTake
<1>5. SumOver(f, S \ {x}) \in Nat /\ f[x] \in Nat /\ g[x] \in Nat
  BY <1>1, SumNat
<1> QED BY <1>2, <1>3, <1>4, <1>5

\* The values on D are taken away.
LEMMA SumSplit ==
  ASSUME NEW S, IsFiniteSet(S), NEW f, \A x \in S : f[x] \in Nat, NEW D \in SUBSET S,
         NEW g, \A x \in S : g[x] = IF x \in D THEN 0 ELSE f[x]
  PROVE  SumOver(f, S) = SumOver(g, S) + SumOver(f, D)
<1> DEFINE Z(A) == [x \in S |-> IF x \in A THEN 0 ELSE f[x]]
           T == {A \in SUBSET S : SumOver(f, S) # SumOver(Z(A), S) + SumOver(f, A)}
<1>1. \A A \in SUBSET S, x \in S : Z(A)[x] \in Nat
  OBVIOUS
<1>2. SumOver(g, S) = SumOver(Z(D), S)
  BY <1>1, SumEqual
<1>3. T = {}
  <2> SUFFICES ASSUME T # {} PROVE FALSE
    OBVIOUS
  <2>1. PICK A \in T : \A x \in A : A \ {x} \notin T
    BY SmallestSet
  <2>2. A \in SUBSET S /\ SumOver(f, S) # SumOver(Z(A), S) + SumOver(f, A)
    OBVIOUS
  <2>3. CASE A = {}
    <3>1. SumOver(Z(A), S) = SumOver(f, S)
      BY <2>3, SumEqual
    <3>2. SumOver(f, A) = 0 /\ SumOver(f, S) \in Nat
      BY <2>3, SumOfNone, SumNat
    <3> HIDE DEF Z
    <3> QED BY <2>2, <3>1, <3>2
  <2>4. CASE A # {}
    <3>1. PICK x \in A : TRUE
      BY <2>4
    <3> DEFINE B == A \ {x}
    <3>2. B \in SUBSET S /\ x \in S
      BY <2>2
    <3>3. SumOver(f, S) = SumOver(Z(B), S) + SumOver(f, B)
      BY <2>1, <3>2
    <3>4. SumOver(f, A) = f[x] + SumOver(f, B)
      <4>1. IsFiniteSet(A) /\ \A y \in A : f[y] \in Nat
        BY <2>2, FS_Subset
      <4> QED BY <4>1, SumTake
    <3>5. SumOver(Z(B), S) \in Nat /\ SumOver(Z(A), S) = SumOver(Z(B), S) - Z(B)[x] + Z(A)[x]
      <4>1. \A y \in S : Z(B)[y] \in Nat /\ Z(A)[y] \in Nat /\ (y # x => Z(A)[y] = Z(B)[y])
        OBVIOUS
      <4>2. PICK zb, za : zb = Z(B) /\ za = Z(A)
        OBVIOUS
      <4>3. \A y \in S : zb[y] \in Nat /\ za[y] \in Nat /\ (y # x => za[y] = zb[y])
        <5> HIDE DEF Z
        <5> QED BY <4>1, <4>2
      <4>4. SumOver(zb, S) \in Nat /\ SumOver(za, S) = SumOver(zb, S) - zb[x] + za[x]
        <5> HIDE DEF Z, B
        <5> QED BY <3>2, <4>3, SumChanged
      <4> HIDE DEF Z, B
      <4> QED BY <4>2, <4>4
    <3>6. Z(B)[x] = f[x] /\ Z(A)[x] = 0 /\ f[x] \in Nat
      BY <3>2
    <3>7. SumOver(f, B) \in Nat
      <4>1. IsFiniteSet(B) /\ \A y \in B : f[y] \in Nat
        BY <2>2, FS_Subset
      <4> QED BY <4>1, SumNat
    <3> HIDE DEF Z, B
    <3> QED BY <2>2, <3>3, <3>4, <3>5, <3>6, <3>7
  <2> QED BY <2>3, <2>4
<1>4. D \notin T
  BY <1>3
<1> HIDE DEF Z
<1> QED BY <1>2, <1>4

LEMMA MaxIs ==
  ASSUME NEW S, S \subseteq Int, NEW m \in S, \A y \in S : y <= m
  PROVE  Max(S) = m
<1>1. \A y \in S : m >= y
  OBVIOUS
<1>2. Max(S) \in S /\ \A y \in S : Max(S) >= y
  BY <1>1 DEF Max
<1>3. Max(S) <= m /\ Max(S) >= m /\ m \in Int /\ Max(S) \in Int
  BY <1>2
<1> QED BY <1>3

LEMMA MaxOfPart ==
  ASSUME NEW n \in Nat, NEW S \in SUBSET (1 .. n), S # {}
  PROVE  Max(S) \in S
<1> DEFINE T == {i \in Nat : n - i \in S}
<1>1. PICK y \in S : TRUE
  OBVIOUS
<1>2. n - y \in Nat /\ n - (n - y) = y
  OBVIOUS
<1>3. n - y \in T
  BY <1>1, <1>2
<1>4. PICK x \in T : \A z \in T : x <= z
  BY <1>3, LeastNatural
<1>5. n - x \in S /\ x \in Nat
  OBVIOUS
<1>6. ASSUME NEW z \in S PROVE z <= n - x
  <2>1. n - z \in T
    OBVIOUS
  <2>2. x <= n - z
    BY <1>4, <2>1
  <2> QED BY <1>5, <2>2
<1>7. Max(S) = n - x
  <2>1. S \subseteq Int
    OBVIOUS
  <2> HIDE DEF T
  <2> QED BY <1>5, <1>6, <2>1, MaxIs
<1> QED BY <1>5, <1>7

\* h folds F over 1 .. n, from b.
Folds2(h, F, b, n) ==
    \A S \in SUBSET (1 .. n) : h[S] = IF S = {} THEN b ELSE F[<<Max(S), h[S \ {Max(S)}]>>]

\* What is true at the start and stays true with every step is true at the end.
LEMMA FoldHolds ==
  ASSUME NEW n \in Nat, NEW h, NEW ST, h[{}] \in ST[0],
         \A k \in 1 .. n : Max(1 .. k) = k /\ (1 .. k) \ {k} = 1 .. k - 1 =>
             (h[1 .. k - 1] \in ST[k - 1] => h[1 .. k] \in ST[k])
  PROVE  h[1 .. n] \in ST[n]
<1> DEFINE T == {m \in Nat : m <= n /\ h[1 .. m] \notin ST[m]}
<1> SUFFICES ASSUME T # {} PROVE FALSE
  OBVIOUS
<1>1. PICK m \in T : \A y \in T : m <= y
  BY LeastNatural
<1>2. m \in Nat /\ m <= n /\ h[1 .. m] \notin ST[m]
  OBVIOUS
<1>3. 1 .. 0 = {}
  OBVIOUS
<1>4. m # 0
  BY <1>2, <1>3
<1>5. m - 1 \in Nat /\ m - 1 <= n /\ ~(m <= m - 1) /\ m \in 1 .. n
  BY <1>2, <1>4
<1>6. h[1 .. m - 1] \in ST[m - 1]
  BY <1>1, <1>5
<1>7. Max(1 .. m) = m
  <2>1. 1 .. m \subseteq Int /\ m \in 1 .. m /\ \A y \in 1 .. m : y <= m
    BY <1>5
  <2> QED BY <2>1, MaxIs
<1>8. (1 .. m) \ {m} = 1 .. m - 1
  BY <1>5
<1> QED BY <1>2, <1>5, <1>6, <1>7, <1>8

-----------------------------------------------------------------------------
(* The invariant *)

Database == [gold : [Player -> 0 .. MaxGold], inventory : [Item -> Player \cup {None}],
             instance : SUBSET Item, attached : SUBSET (Mail \X Item \X Player),
             auction : [Auction -> AuctionRow \cup {None}], mail : [Mail -> MailRow \cup {None}]]
Past == [money : Nat, won : [Auction -> Player \cup {None}], late : SUBSET Auction]
Thing == Item \cup {"money"}
Transaction == [db : Database, past : Past, open : SUBSET Thing]
States == [db : Database, txs : Seq(Transaction), pl : [Player -> PlayerRecord \cup {None}],
           house : [Auction -> AuctionRow \cup {None}], aitems : SUBSET Item, past : Past,
           cut : SUBSET Thing]

\* A bid has a bidder, and an auction that is sold has a bid and no item any more.
RowInv(e) == (e.bid = 0 <=> e.bidder = None) /\ (e.sold <=> e.item = None) /\ (e.sold => e.bid # 0)

Sells(d, a, i) == d.auction[a] # None /\ d.auction[a].item = i

MailRowInv(r) == r.cod # 0 \/ r.kind = "normal" => r.sender # None

DbInv(d) ==
    /\ \A a \in Auction : d.auction[a] # None => RowInv(d.auction[a])
    /\ \A a, b \in Auction, i \in Item : Sells(d, a, i) /\ Sells(d, b, i) => a = b
    /\ \A m \in Mail : d.mail[m] # None => MailRowInv(d.mail[m])

\* Who won an auction is the bidder of its row.
WonInv(d, h) ==
    \A a \in Auction : h.won[a] # None =>
        /\ d.auction[a] # None /\ d.auction[a].sold
        /\ h.won[a] = d.auction[a].bidder \/ a \in h.late

Posted(d, m, i, r) == <<m, i, r>> \in d.attached

\* What names the item i is one thing at most, and i exists.
Clean(d, i) ==
    /\ d.inventory[i] # None =>
          /\ i \in d.instance
          /\ \A a \in Auction : ~Sells(d, a, i)
          /\ \A m \in Mail, r \in Player : ~Posted(d, m, i, r)
    /\ \A a \in Auction : Sells(d, a, i) =>
          /\ i \in d.instance
          /\ \A m \in Mail, r \in Player : ~Posted(d, m, i, r)
    /\ \A m \in Mail, r \in Player : Posted(d, m, i, r) =>
          /\ i \in d.instance /\ d.mail[m] # None /\ d.mail[m].receiver = r
          /\ \A n \in Mail, q \in Player : Posted(d, n, i, q) => n = m

Somewhere(d, i) ==
    \/ d.inventory[i] # None
    \/ \E a \in Auction : Sells(d, a, i)
    \/ \E m \in Mail, r \in Player : Posted(d, m, i, r)

Exact(d, i) == Clean(d, i) /\ (i \in d.instance => Somewhere(d, i))

MoneyIn(d, h) == h.money + SumOver(d.gold, Player) + SumOver(Deposits(d.auction), Auction)
                         + SumOver(Letters(d.mail), Mail)

\* What a transaction stores, but for what it stores by half.
TxInv(x, c, total) ==
    /\ DbInv(x.db) /\ WonInv(x.db, x.past)
    /\ \A i \in Item \ (c \cup x.open) : Exact(x.db, i)
    /\ "money" \notin c \cup x.open => MoneyIn(x.db, x.past) = total

Logged(s, total) == \A k \in 1 .. Len(s.txs) : TxInv(s.txs[k], s.cut, total)

\* The ledger, while the items H and the money D are in the hands of a handler.
Ledger(s, H, D, total) ==
    /\ s \in States /\ total \in Int /\ D \in Int
    /\ DbInv(s.db) /\ WonInv(s.db, s.past)
    /\ \A i \in Item \ (s.cut \cup H) : Exact(s.db, i)
    /\ "money" \notin s.cut => MoneyIn(s.db, s.past) + D = total
    /\ Logged(s, total)

InMemory(s) == {p \in Player : s.pl[p] # None}

\* The mail m in memory, as its row.
Fresh(d, e, m, p) ==
    /\ d.mail[m] # None /\ d.mail[m].receiver = p
    /\ e.sender = d.mail[m].sender /\ e.kind = d.mail[m].kind
    /\ e.money = d.mail[m].money /\ e.cod = d.mail[m].cod
    /\ e.items = Attached(d, m, p)

\* The mail m in memory has lost its row.
Stale(d, e, m, c) ==
    \/ Held(e) = {} /\ d.mail[m] = None
    \/ Held(e) \subseteq c /\ c # {}

MailInv(d, c, e, m, p) ==
    /\ e.removed = {} /\ e.state # "changed"
    /\ e.state = "deleted" => e.cod = 0
    /\ Fresh(d, e, m, p) \/ Stale(d, e, m, c)

PurseInv(d, r, p) == r.gold = d.gold[p]
BagInv(d, r, p) == r.bag = {i \in d.instance : d.inventory[i] = p}
BoxInv(d, c, r, p) == \A m \in DOMAIN r.mails : MailInv(d, c, r.mails[m], m, p)

PlayerInv(d, c, r, p) == PurseInv(d, r, p) /\ BagInv(d, r, p) /\ BoxInv(d, c, r, p)

\* Who trades does it with a player in the world who trades with him.
Paired(players) ==
    \A p \in Player : players[p] # None /\ players[p].trade # None =>
        LET q == players[p].trade.with IN
        /\ players[p].inWorld /\ q # p
        /\ players[q] # None /\ players[q].inWorld
        /\ players[q].trade # None /\ players[q].trade.with = p

Goods(d) == {i \in Item : \E a \in Auction : Sells(d, a, i)}
AllClean(d) == \A i \in Item : Clean(d, i)

\* Between two handlers.
Kept(s, total) ==
    /\ Ledger(s, {}, 0, total)
    /\ s.house = s.db.auction /\ s.aitems = Goods(s.db)
    /\ InMemory(s) # {} => AllClean(s.db)
    /\ \A p \in InMemory(s) : PlayerInv(s.db, s.cut, s.pl[p], p)
    /\ Paired(s.pl)

\* The auctions find numbers for their mails.
Enough(s) == Cardinality(FreeMails(s)) >= Owed(s.house)

\* Nothing is claimed of a behaviour in which an item was taken through another mail.
IInv ==
    /\ start \in Start
    /\ strayed = {} => Kept(World, SumOver(start.gold, Player)) /\ Enough(World)

-----------------------------------------------------------------------------
(* What the operations do *)

LEMMA StateFields ==
  ASSUME NEW s \in States
  PROVE  /\ s.db \in Database /\ s.txs \in Seq(Transaction)
         /\ s.pl \in [Player -> PlayerRecord \cup {None}]
         /\ s.house \in [Auction -> AuctionRow \cup {None}]
         /\ s.aitems \in SUBSET Item /\ s.past \in Past /\ s.cut \in SUBSET Thing
BY DEF States

LEMMA DatabaseFields ==
  ASSUME NEW d \in Database
  PROVE  /\ d.gold \in [Player -> 0 .. MaxGold] /\ d.inventory \in [Item -> Player \cup {None}]
         /\ d.instance \in SUBSET Item /\ d.attached \in SUBSET (Mail \X Item \X Player)
         /\ d.auction \in [Auction -> AuctionRow \cup {None}]
         /\ d.mail \in [Mail -> MailRow \cup {None}]
BY DEF Database

LEMMA PlayerFields ==
  ASSUME NEW r \in PlayerRecord
  PROVE  /\ r.inWorld \in BOOLEAN /\ r.trade \in TradeData \cup {None} /\ r.gold \in 0 .. MaxGold
         /\ r.bag \in SUBSET Item /\ r.mails \in PlayerMails
         /\ r # None
BY NoneIsNothing DEF PlayerRecord

LEMMA PlayerMailsIs ==
  ASSUME NEW b
  PROVE  b \in PlayerMails <=> DOMAIN b \in SUBSET Mail /\ b \in [DOMAIN b -> Letter]
BY DEF PlayerMails

\* t is s but for the database.
DbStep(s, t) ==
    /\ t \in States
    /\ t.txs = s.txs /\ t.pl = s.pl /\ t.house = s.house /\ t.aitems = s.aitems
    /\ t.past = s.past /\ t.cut = s.cut

LEMMA CommitIs ==
  ASSUME NEW s \in States, NEW open \in SUBSET Thing
  PROVE  /\ Commit(s, open) \in States
         /\ Commit(s, open).db = s.db /\ Commit(s, open).pl = s.pl
         /\ Commit(s, open).house = s.house /\ Commit(s, open).aitems = s.aitems
         /\ Commit(s, open).past = s.past /\ Commit(s, open).cut = s.cut
         /\ Commit(s, open).txs = Append(s.txs, [db |-> s.db, past |-> s.past, open |-> open])
<1>1. PICK x : x = [db |-> s.db, past |-> s.past, open |-> open]
  OBVIOUS
<1>2. x \in Transaction
  BY <1>1 DEF States, Transaction
<1>3. PICK txs : txs = Append(s.txs, x)
  OBVIOUS
<1>4. txs \in Seq(Transaction)
  BY <1>2, <1>3, StateFields, AppendProperties
<1>5. Commit(s, open) = [s EXCEPT !.txs = txs]
  BY <1>1, <1>3 DEF Commit, States
<1> QED BY <1>1, <1>3, <1>4, <1>5 DEF States

LEMMA SpentIs ==
  ASSUME NEW s \in States, NEW x \in Nat
  PROVE  /\ Spent(s, x) \in States
         /\ Spent(s, x).db = s.db /\ Spent(s, x).txs = s.txs /\ Spent(s, x).pl = s.pl
         /\ Spent(s, x).house = s.house /\ Spent(s, x).aitems = s.aitems
         /\ Spent(s, x).cut = s.cut
         /\ Spent(s, x).past = [s.past EXCEPT !.money = @ + x]
<1>1. PICK h : h = [s.past EXCEPT !.money = @ + x]
  OBVIOUS
<1>2. h \in Past
  BY <1>1 DEF States, Past
<1>3. Spent(s, x) = [s EXCEPT !.past = h]
  BY <1>1 DEF Spent, States
<1> QED BY <1>1, <1>2, <1>3 DEF States

\* The player record of p is r.
LEMMA RecordIs ==
  ASSUME NEW s \in States, NEW p \in Player, NEW r \in PlayerRecord \cup {None}
  PROVE  LET t == [s EXCEPT !.pl = [@ EXCEPT ![p] = r]] IN
         /\ t \in States
         /\ t.db = s.db /\ t.txs = s.txs /\ t.house = s.house /\ t.aitems = s.aitems
         /\ t.cut = s.cut /\ t.past = s.past
         /\ t.pl = [s.pl EXCEPT ![p] = r]
<1>1. PICK players : players = [s.pl EXCEPT ![p] = r]
  OBVIOUS
<1>2. players \in [Player -> PlayerRecord \cup {None}]
  BY <1>1 DEF States
<1> QED BY <1>1, <1>2 DEF States

\* t is s after p got d, if he is not to pay more than he has: his purse has g, and over
\* is what it does not hold.
Paid(s, t, p, d, g, over) ==
    /\ t \in States
    /\ t.db = s.db /\ t.txs = s.txs /\ t.house = s.house /\ t.aitems = s.aitems
    /\ t.cut = s.cut
    /\ t.past = [s.past EXCEPT !.money = @ + over]
    /\ t.pl = [s.pl EXCEPT ![p] = [s.pl[p] EXCEPT !.gold = g]]
    /\ [s.pl[p] EXCEPT !.gold = g] \in PlayerRecord
    /\ s.pl[p].gold + d >= 0 => g + over = s.pl[p].gold + d
    /\ s.pl[p].gold + d <= MaxGold => over = 0

LEMMA ModifyMoneyIs ==
  ASSUME NEW s \in States, NEW p \in Player, s.pl[p] # None, NEW d \in Int
  PROVE  \E g \in 0 .. MaxGold, over \in Nat : Paid(s, ModifyMoney(s, p, d), p, d, g, over)
<1>1. PICK r : r = s.pl[p]
  OBVIOUS
<1>2. r \in PlayerRecord /\ r.gold \in 0 .. MaxGold /\ MaxGold \in Nat
  BY <1>1, StateFields, PlayerFields, MailConstants
<1>3. PICK gold : gold = r.gold + d
  OBVIOUS
<1>4. gold \in Int
  BY <1>2, <1>3
<1>5. PICK g : g = IF gold > MaxGold THEN MaxGold ELSE IF gold < 0 THEN 0 ELSE gold
  OBVIOUS
<1>6. PICK over : over = IF gold > MaxGold THEN gold - MaxGold ELSE 0
  OBVIOUS
<1>7. g \in 0 .. MaxGold /\ over \in Nat
  BY <1>2, <1>4, <1>5, <1>6
<1>8. [r EXCEPT !.gold = g] \in PlayerRecord
  BY <1>2, <1>7 DEF PlayerRecord
<1>9. PICK t : t = [s EXCEPT !.pl = [@ EXCEPT ![p] = [r EXCEPT !.gold = g]]]
  OBVIOUS
<1>10. /\ t \in States
       /\ t.db = s.db /\ t.txs = s.txs /\ t.house = s.house /\ t.aitems = s.aitems
       /\ t.cut = s.cut /\ t.past = s.past
       /\ t.pl = [s.pl EXCEPT ![p] = [r EXCEPT !.gold = g]]
  BY <1>8, <1>9, RecordIs
<1>11. t = [s EXCEPT !.pl[p].gold = g]
  BY <1>1, <1>9 DEF States
<1>12. CASE gold > MaxGold
  <2>1. ModifyMoney(s, p, d) = Spent(t, over)
    BY <1>1, <1>3, <1>5, <1>6, <1>11, <1>12 DEF ModifyMoney
  <2>2. /\ Spent(t, over) \in States
        /\ Spent(t, over).db = t.db /\ Spent(t, over).txs = t.txs /\ Spent(t, over).pl = t.pl
        /\ Spent(t, over).house = t.house /\ Spent(t, over).aitems = t.aitems
        /\ Spent(t, over).cut = t.cut
        /\ Spent(t, over).past = [t.past EXCEPT !.money = @ + over]
    BY <1>7, <1>10, SpentIs
  <2>3. /\ s.pl[p].gold + d >= 0 => g + over = s.pl[p].gold + d
        /\ s.pl[p].gold + d <= MaxGold => over = 0
    BY <1>1, <1>2, <1>3, <1>4, <1>5, <1>6, <1>12
  <2>4. Paid(s, Spent(t, over), p, d, g, over)
    BY <1>1, <1>8, <1>10, <2>2, <2>3 DEF Paid
  <2> QED BY <1>7, <2>1, <2>4
<1>13. CASE ~(gold > MaxGold)
  <2>1. ModifyMoney(s, p, d) = t /\ over = 0
    BY <1>1, <1>3, <1>5, <1>6, <1>11, <1>13 DEF ModifyMoney
  <2>2. [s.past EXCEPT !.money = @ + over] = s.past
    BY <2>1 DEF States, Past
  <2>3. /\ s.pl[p].gold + d >= 0 => g + over = s.pl[p].gold + d
        /\ s.pl[p].gold + d <= MaxGold => over = 0
    BY <1>1, <1>2, <1>3, <1>4, <1>5, <1>6, <1>13
  <2>4. Paid(s, t, p, d, g, over)
    BY <1>1, <1>8, <1>10, <2>2, <2>3 DEF Paid
  <2> QED BY <1>7, <2>1, <2>4
<1> QED BY <1>12, <1>13

\* The row of p, and the place of every item, as his record r has them.
Stored(d, p, r) ==
    [d EXCEPT !.gold = [@ EXCEPT ![p] = r.gold], !.instance = @ \cup r.bag,
              !.inventory = [i \in Item |-> IF i \in r.bag THEN p
                                            ELSE IF @[i] = p THEN None ELSE @[i]]]

StoredAs(d, e, p, r) ==
    /\ e \in Database
    /\ e.attached = d.attached /\ e.auction = d.auction /\ e.mail = d.mail
    /\ e.gold = [d.gold EXCEPT ![p] = r.gold]
    /\ e.instance = d.instance \cup r.bag
    /\ \A i \in Item : e.inventory[i] = IF i \in r.bag THEN p
                                        ELSE IF d.inventory[i] = p THEN None
                                        ELSE d.inventory[i]

LEMMA StoredIs ==
  ASSUME NEW d \in Database, NEW p \in Player, NEW r \in PlayerRecord
  PROVE  StoredAs(d, Stored(d, p, r), p, r)
<1>1. PICK inventory : inventory = [i \in Item |-> IF i \in r.bag THEN p
                                         ELSE IF d.inventory[i] = p THEN None ELSE d.inventory[i]]
  OBVIOUS
<1>2. inventory \in [Item -> Player \cup {None}]
  BY <1>1, DatabaseFields
<1>3. PICK gold : gold = [d.gold EXCEPT ![p] = r.gold]
  OBVIOUS
<1>4. gold \in [Player -> 0 .. MaxGold]
  BY <1>3, PlayerFields, DatabaseFields
<1>5. PICK instance : instance = d.instance \cup r.bag
  OBVIOUS
<1>6. instance \in SUBSET Item
  BY <1>5, PlayerFields, DatabaseFields
<1>7. Stored(d, p, r) = [d EXCEPT !.gold = gold, !.instance = instance, !.inventory = inventory]
  BY <1>1, <1>3, <1>5 DEF Stored, Database
<1>8. LET e == Stored(d, p, r) IN
      /\ e \in Database
      /\ e.attached = d.attached /\ e.auction = d.auction /\ e.mail = d.mail
      /\ e.gold = gold /\ e.instance = instance /\ e.inventory = inventory
  BY <1>2, <1>4, <1>6, <1>7 DEF Database
<1> QED BY <1>1, <1>3, <1>5, <1>8 DEF StoredAs

LEMMA SaveIs ==
  ASSUME NEW s \in States, NEW p \in Player, s.pl[p] # None
  PROVE  /\ s.pl[p] \in PlayerRecord
         /\ DbStep(s, SaveInventoryAndGoldToDB(s, p))
         /\ SaveInventoryAndGoldToDB(s, p).db = Stored(s.db, p, s.pl[p])
<1>1. s.pl[p] \in PlayerRecord
  BY StateFields
<1>2. PICK d : d = Stored(s.db, p, s.pl[p])
  OBVIOUS
<1>3. d \in Database
  BY <1>1, <1>2, StoredIs, StateFields DEF StoredAs
<1>4. SaveInventoryAndGoldToDB(s, p) = [s EXCEPT !.db = d]
  BY <1>2, Zenon DEF SaveInventoryAndGoldToDB, Stored, States, Database
<1>5. DbStep(s, [s EXCEPT !.db = d]) /\ [s EXCEPT !.db = d].db = d
  BY <1>3 DEF States, DbStep
<1> QED BY <1>1, <1>2, <1>4, <1>5

LEMMA DeleteFromDBIs ==
  ASSUME NEW s \in States, NEW a \in Auction
  PROVE  LET t == DeleteFromDB(s, a)
             d == [s.db EXCEPT !.auction = [@ EXCEPT ![a] = None]]
             h == [s.past EXCEPT !.won = [@ EXCEPT ![a] = None], !.late = @ \ {a}]
         IN /\ t \in States /\ d \in Database /\ h \in Past
            /\ t.db = d /\ t.past = h /\ t.txs = Append(s.txs, [db |-> d, past |-> h, open |-> {}])
            /\ t.pl = s.pl /\ t.house = s.house /\ t.aitems = s.aitems /\ t.cut = s.cut
<1>1. PICK d : d = [s.db EXCEPT !.auction = [@ EXCEPT ![a] = None]]
  OBVIOUS
<1>2. PICK h : h = [s.past EXCEPT !.won = [@ EXCEPT ![a] = None], !.late = @ \ {a}]
  OBVIOUS
<1>3. d \in Database /\ h \in Past
  BY <1>1, <1>2, StateFields DEF Database, Past
<1>4. PICK u : u = [s EXCEPT !.db = d, !.past = h]
  OBVIOUS
<1>5. DeleteFromDB(s, a) = Commit(u, {})
  BY <1>1, <1>2, <1>4 DEF DeleteFromDB, States, Database, Past
<1>6. /\ u \in States /\ u.db = d /\ u.past = h /\ u.txs = s.txs /\ u.pl = s.pl
      /\ u.house = s.house /\ u.aitems = s.aitems /\ u.cut = s.cut
  BY <1>3, <1>4 DEF States
<1>7. PICK t : t = Commit(u, {})
  OBVIOUS
<1>8. /\ t \in States /\ t.db = d /\ t.past = h /\ t.pl = u.pl
      /\ t.house = u.house /\ t.aitems = u.aitems /\ t.cut = u.cut
      /\ t.txs = Append(u.txs, [db |-> d, past |-> h, open |-> {}])
  BY <1>6, <1>7, CommitIs
<1> QED BY <1>1, <1>2, <1>3, <1>5, <1>6, <1>7, <1>8, Zenon

LEMMA FreeMailIs ==
  ASSUME NEW s, FreeMails(s) # {}
  PROVE  Min(FreeMails(s)) \in FreeMails(s)
<1>1. FreeMails(s) \subseteq Nat
  BY MailConstants, FS_CardinalityType DEF FreeMails
<1>2. PICK m \in FreeMails(s) : \A n \in FreeMails(s) : m <= n
  BY <1>1, LeastNatural
<1> QED BY <1>2 DEF Min

\* The row of a mail, and what posting it does to the database and to its receiver.
Row(receiver, sender, kind, money, cod) ==
    [receiver |-> receiver, sender |-> sender, kind |-> kind, money |-> money, cod |-> cod]

PostedDb(d, m, row, items) ==
    [d EXCEPT !.mail = [@ EXCEPT ![m] = row],
              !.attached = @ \cup {<<m, i, row.receiver>> : i \in items}]

NewLetter(row, items) ==
    [sender |-> row.sender, kind |-> row.kind, money |-> row.money, cod |-> row.cod,
     items |-> items, removed |-> {}, state |-> "unchanged"]

LEMMA PostedDbIs ==
  ASSUME NEW d \in Database, NEW m \in Mail, NEW row \in MailRow, NEW items \in SUBSET Item
  PROVE  LET e == PostedDb(d, m, row, items) IN
         /\ e \in Database
         /\ e.gold = d.gold /\ e.inventory = d.inventory /\ e.instance = d.instance
         /\ e.auction = d.auction
         /\ e.mail = [d.mail EXCEPT ![m] = row]
         /\ e.attached = d.attached \cup {<<m, i, row.receiver>> : i \in items}
<1>1. PICK mail : mail = [d.mail EXCEPT ![m] = row]
  OBVIOUS
<1>2. PICK attached : attached = d.attached \cup {<<m, i, row.receiver>> : i \in items}
  OBVIOUS
<1>3. mail \in [Mail -> MailRow \cup {None}] /\ attached \in SUBSET (Mail \X Item \X Player)
  BY <1>1, <1>2, DatabaseFields DEF MailRow
<1>4. PostedDb(d, m, row, items) = [d EXCEPT !.mail = mail, !.attached = attached]
  BY <1>1, <1>2 DEF PostedDb, Database
<1> QED BY <1>1, <1>2, <1>3, <1>4, Zenon DEF Database

Added(b, m, e) == [x \in DOMAIN b \cup {m} |-> IF x = m THEN e ELSE b[x]]

\* t is s after the mail row with the items is posted as m.
Sent(s, t, m, row, items, open) ==
    /\ t \in States
    /\ t.db = PostedDb(s.db, m, row, items)
    /\ t.txs = Append(s.txs, [db |-> t.db, past |-> s.past, open |-> open])
    /\ t.house = s.house /\ t.aitems = s.aitems /\ t.past = s.past /\ t.cut = s.cut
    /\ InWorld(s, row.receiver) =>
          LET r == [s.pl[row.receiver] EXCEPT !.mails = Added(@, m, NewLetter(row, items))] IN
          r \in PlayerRecord /\ t.pl = [s.pl EXCEPT ![row.receiver] = r]
    /\ ~InWorld(s, row.receiver) => t.pl = s.pl

LEMMA SendMailIs ==
  ASSUME NEW s \in States, FreeMails(s) # {}, NEW receiver \in Player,
         NEW sender \in Player \cup {None}, NEW kind \in {"auction", "normal", "payment", "returned"},
         NEW money \in Nat, NEW cod \in Nat, NEW items \in SUBSET Item, NEW open \in SUBSET Thing
  PROVE  /\ Row(receiver, sender, kind, money, cod) \in MailRow
         /\ \E m \in FreeMails(s) :
              Sent(s, SendMailTo(s, receiver, sender, kind, money, cod, items, open),
                   m, Row(receiver, sender, kind, money, cod), items, open)
<1>1. PICK m \in FreeMails(s) : m = Min(FreeMails(s))
  BY FreeMailIs
<1>2. PICK row : row = Row(receiver, sender, kind, money, cod)
  OBVIOUS
<1>3. row \in MailRow /\ row.receiver = receiver /\ row.sender = sender /\ row.kind = kind
      /\ row.money = money /\ row.cod = cod
  BY <1>2 DEF MailRow, Row
<1>4. m \in Mail
  BY DEF FreeMails
<1>5. PICK d : d = PostedDb(s.db, m, row, items)
  OBVIOUS
<1>6. d \in Database
  BY <1>3, <1>4, <1>5, PostedDbIs, StateFields
<1>7. PICK u : u = [s EXCEPT !.db = d]
  OBVIOUS
<1>8. /\ u \in States /\ u.db = d /\ u.txs = s.txs /\ u.pl = s.pl /\ u.house = s.house
      /\ u.aitems = s.aitems /\ u.past = s.past /\ u.cut = s.cut
  BY <1>6, <1>7 DEF States
<1>9. PICK v : v = Commit(u, open)
  OBVIOUS
<1>10. /\ v \in States /\ v.db = d /\ v.pl = s.pl /\ v.house = s.house
       /\ v.aitems = s.aitems /\ v.past = s.past /\ v.cut = s.cut
       /\ v.txs = Append(s.txs, [db |-> d, past |-> s.past, open |-> open])
  <2>1. /\ v \in States /\ v.db = u.db /\ v.pl = u.pl /\ v.house = u.house
        /\ v.aitems = u.aitems /\ v.past = u.past /\ v.cut = u.cut
        /\ v.txs = Append(u.txs, [db |-> u.db, past |-> u.past, open |-> open])
    BY <1>8, <1>9, CommitIs
  <2> QED BY <1>8, <2>1
<1>11. PICK new : new = NewLetter(row, items)
  OBVIOUS
<1>12. new \in Letter
  BY <1>3, <1>11 DEF NewLetter, Letter, MailState
<1>13. PICK r : r = [s.pl[receiver] EXCEPT !.mails = Added(@, m, new)]
  OBVIOUS
<1>14. u = [s EXCEPT !.db.mail[m] = [receiver |-> receiver, sender |-> sender, kind |-> kind,
                                     money |-> money, cod |-> cod],
                     !.db.attached = @ \cup {<<m, i, receiver>> : i \in items}]
  <2>1. PICK att : att = s.db.attached \cup {<<m, i, receiver>> : i \in items}
    OBVIOUS
  <2>2. d = [s.db EXCEPT !.mail = [@ EXCEPT ![m] = row], !.attached = att]
    BY <1>3, <1>5, <2>1, Zenon DEF PostedDb
  <2>3. u = [s EXCEPT !.db.mail[m] = row, !.db.attached = att]
    BY <1>7, <2>2 DEF States, Database
  <2> QED BY <1>2, <2>1, <2>3, Zenon DEF Row
<1>15. new = [sender |-> sender, kind |-> kind, money |-> money, cod |-> cod,
              items |-> items, removed |-> {}, state |-> "unchanged"]
  BY <1>3, <1>11 DEF NewLetter
<1>16. PICK t : t = IF InWorld(s, receiver)
                    THEN AddMail(v, receiver, m, new)
                    ELSE v
  OBVIOUS
<1>17. SendMailTo(s, receiver, sender, kind, money, cod, items, open) = t
  <2> DEFINE Raw == [receiver |-> receiver, sender |-> sender, kind |-> kind,
                     money |-> money, cod |-> cod]
             New == [sender |-> sender, kind |-> kind, money |-> money, cod |-> cod,
                     items |-> items, removed |-> {}, state |-> "unchanged"]
             Store(x) == Commit([s EXCEPT !.db.mail[x] = Raw,
                                          !.db.attached = @ \cup {<<x, i, receiver>> : i \in items}],
                                open)
             Full(x) == IF InWorld(s, receiver) THEN AddMail(Store(x), receiver, x, New)
                        ELSE Store(x)
  <2>1. SendMailTo(s, receiver, sender, kind, money, cod, items, open) = Full(Min(FreeMails(s)))
    BY Zenon DEF SendMailTo
  <2>2. Full(Min(FreeMails(s))) = Full(m)
    <3> HIDE DEF Full
    <3> QED BY <1>1
  <2>3. Store(m) = v
    BY <1>9, <1>14, Zenon
  <2>4. New = new
    BY <1>15, Zenon
  <2>5. Full(m) = t
    <3> HIDE DEF Store, New
    <3> QED BY <1>16, <2>3, <2>4, Zenon
  <2> HIDE DEF Full
  <2> QED BY <2>1, <2>2, <2>5, Zenon
<1>18. CASE InWorld(s, receiver)
  <2>1. s.pl[receiver] \in PlayerRecord
    BY <1>18, StateFields DEF InWorld
  <2>2. PICK mails : mails = Added(s.pl[receiver].mails, m, new)
    OBVIOUS
  <2>3. mails \in PlayerMails
    <3>1. s.pl[receiver].mails \in PlayerMails
      BY <2>1, PlayerFields
    <3>2. DOMAIN mails = {m} \cup DOMAIN s.pl[receiver].mails
      BY <2>2 DEF Added
    <3>3. \A x \in DOMAIN mails : mails[x] \in Letter
      BY <1>12, <2>2, <3>1, PlayerMailsIs DEF Added
    <3>4. mails = [x \in DOMAIN mails |-> mails[x]]
      BY <2>2 DEF Added
    <3> QED BY <1>4, <3>1, <3>2, <3>3, <3>4, PlayerMailsIs
  <2>4. r = [s.pl[receiver] EXCEPT !.mails = mails] /\ r \in PlayerRecord
    BY <1>13, <2>1, <2>2, <2>3 DEF PlayerRecord
  <2>5. t = [v EXCEPT !.pl = [@ EXCEPT ![receiver] = r]]
    <3>1. v.pl[receiver] = s.pl[receiver]
      BY <1>10
    <3>2. mails = [x \in DOMAIN v.pl[receiver].mails \cup {m} |->
                     IF x = m THEN new ELSE v.pl[receiver].mails[x]]
      BY <2>2, <3>1, Zenon DEF Added
    <3>3. t = [v EXCEPT !.pl[receiver].mails = mails]
      BY <1>16, <1>18, <3>2, Zenon DEF AddMail
    <3> QED BY <1>10, <2>1, <2>4, <3>1, <3>3 DEF States
  <2>6. /\ t \in States
        /\ t.db = v.db /\ t.txs = v.txs /\ t.house = v.house /\ t.aitems = v.aitems
        /\ t.cut = v.cut /\ t.past = v.past
        /\ t.pl = [v.pl EXCEPT ![receiver] = r]
    BY <1>10, <2>4, <2>5, RecordIs
  <2>7. Sent(s, t, m, row, items, open)
    BY <1>3, <1>5, <1>10, <1>11, <1>13, <1>18, <2>4, <2>6 DEF Sent
  <2> QED BY <1>1, <1>2, <1>3, <1>17, <2>7
<1>19. CASE ~InWorld(s, receiver)
  <2>1. t = v
    BY <1>16, <1>19
  <2>2. Sent(s, t, m, row, items, open)
    BY <1>3, <1>5, <1>10, <1>19, <2>1 DEF Sent
  <2> QED BY <1>1, <1>2, <1>3, <1>17, <2>2
<1> QED BY <1>18, <1>19

\* The mails of b that are deleted, and those that are changed.
Gone(b) == {m \in DOMAIN b : b[m].state = "deleted"}
Mended(b) == {m \in DOMAIN b : b[m].state = "changed"}

\* What _SaveMail makes of the database, of the mails b in memory and of their money.
Swept(d, b) ==
    [d EXCEPT !.instance = @ \ UNION {b[m].items : m \in Gone(b)},
              !.mail = [m \in Mail |->
                  IF m \in Gone(b) THEN None
                  ELSE IF m \in Mended(b) /\ @[m] # None
                       THEN [@[m] EXCEPT !.money = b[m].money, !.cod = b[m].cod]
                       ELSE @[m]],
              !.attached = {x \in @ : /\ x[1] \notin Gone(b)
                                      /\ x[2] \notin UNION {b[m].removed : m \in Mended(b)}}]
Sweep(b) == [m \in DOMAIN b \ Gone(b) |-> [b[m] EXCEPT !.state = "unchanged", !.removed = {}]]
Discarded(b) == SumOver([m \in Gone(b) |-> b[m].money], Gone(b))

LEMMA SweepIs ==
  ASSUME NEW b \in PlayerMails
  PROVE  /\ Sweep(b) \in PlayerMails /\ Discarded(b) \in Nat /\ IsFiniteSet(Gone(b))
         /\ DOMAIN Sweep(b) = DOMAIN b \ Gone(b)
         /\ \A m \in DOMAIN b \ Gone(b) :
               Sweep(b)[m] = [b[m] EXCEPT !.state = "unchanged", !.removed = {}]
<1>1. DOMAIN b \in SUBSET Mail /\ b \in [DOMAIN b -> Letter]
  BY PlayerMailsIs
<1>2. \A m \in DOMAIN b : [b[m] EXCEPT !.state = "unchanged", !.removed = {}] \in Letter
  BY <1>1 DEF Letter, MailState
<1>3. DOMAIN Sweep(b) = DOMAIN b \ Gone(b)
      /\ \A m \in DOMAIN b \ Gone(b) :
               Sweep(b)[m] = [b[m] EXCEPT !.state = "unchanged", !.removed = {}]
  BY DEF Sweep
<1>4. Sweep(b) \in [DOMAIN b \ Gone(b) -> Letter]
  BY <1>2, Zenon DEF Sweep
<1>5. Sweep(b) \in PlayerMails
  BY <1>1, <1>3, <1>4, PlayerMailsIs, Zenon
<1>6. IsFiniteSet(Gone(b))
  BY <1>1, FS_Subset, MailConstants DEF Gone
<1>7. \A m \in Gone(b) : [x \in Gone(b) |-> b[x].money][m] \in Nat
  BY <1>1 DEF Gone, Letter
<1>8. Discarded(b) \in Nat
  BY <1>6, <1>7, SumNat DEF Discarded
<1> QED BY <1>3, <1>5, <1>6, <1>8, Zenon

SweptAs(d, e, b) ==
    /\ e \in Database
    /\ e.gold = d.gold /\ e.inventory = d.inventory /\ e.auction = d.auction
    /\ e.instance = d.instance \ UNION {b[m].items : m \in Gone(b)}
    /\ e.attached = {x \in d.attached : /\ x[1] \notin Gone(b)
                                        /\ x[2] \notin UNION {b[m].removed : m \in Mended(b)}}
    /\ \A m \in Mail :
          e.mail[m] = IF m \in Gone(b) THEN None
                      ELSE IF m \in Mended(b) /\ d.mail[m] # None
                      THEN [d.mail[m] EXCEPT !.money = b[m].money, !.cod = b[m].cod]
                      ELSE d.mail[m]

LEMMA SweptIs ==
  ASSUME NEW d \in Database, NEW b \in PlayerMails
  PROVE  SweptAs(d, Swept(d, b), b)
<1>1. PICK mail : mail = [m \in Mail |->
                              IF m \in Gone(b) THEN None
                              ELSE IF m \in Mended(b) /\ d.mail[m] # None
                              THEN [d.mail[m] EXCEPT !.money = b[m].money, !.cod = b[m].cod]
                              ELSE d.mail[m]]
  BY Zenon
<1>2. mail \in [Mail -> MailRow \cup {None}]
  <2> SUFFICES ASSUME NEW m \in Mail
               PROVE  (IF m \in Gone(b) THEN None
                       ELSE IF m \in Mended(b) /\ d.mail[m] # None
                       THEN [d.mail[m] EXCEPT !.money = b[m].money, !.cod = b[m].cod]
                       ELSE d.mail[m]) \in MailRow \cup {None}
    BY <1>1, Zenon
  <2>1. d.mail[m] \in MailRow \cup {None}
    BY DatabaseFields
  <2>2. m \in Mended(b) => b[m].money \in Nat /\ b[m].cod \in Nat
    BY PlayerMailsIs DEF Mended, Letter
  <2> QED BY <2>1, <2>2 DEF MailRow
<1>3. PICK instance : instance = d.instance \ UNION {b[m].items : m \in Gone(b)}
  OBVIOUS
<1>4. PICK attached : attached = {x \in d.attached :
                                    /\ x[1] \notin Gone(b)
                                    /\ x[2] \notin UNION {b[m].removed : m \in Mended(b)}}
  OBVIOUS
<1>5. instance \in SUBSET Item /\ attached \in SUBSET (Mail \X Item \X Player)
  BY <1>3, <1>4, DatabaseFields
<1>6. Swept(d, b) = [d EXCEPT !.instance = instance, !.mail = mail, !.attached = attached]
  BY <1>1, <1>3, <1>4, Zenon DEF Swept
<1>7. LET e == Swept(d, b) IN
      /\ e \in Database
      /\ e.gold = d.gold /\ e.inventory = d.inventory /\ e.auction = d.auction
      /\ e.instance = instance /\ e.attached = attached /\ e.mail = mail
  BY <1>2, <1>5, <1>6 DEF Database
<1> QED BY <1>1, <1>3, <1>4, <1>7, Zenon DEF SweptAs

\* t is s after _SaveMail(s, p).
Saved2(s, t, p) ==
    LET b == s.pl[p].mails
        r == [s.pl[p] EXCEPT !.mails = Sweep(b)]
    IN /\ t \in States /\ r \in PlayerRecord
       /\ t.db = Swept(s.db, b)
       /\ t.pl = [s.pl EXCEPT ![p] = r]
       /\ t.past = [s.past EXCEPT !.money = @ + Discarded(b)]
       /\ t.txs = s.txs /\ t.house = s.house /\ t.aitems = s.aitems /\ t.cut = s.cut

LEMMA SaveMailIs ==
  ASSUME NEW s \in States, NEW p \in Player, s.pl[p] # None
  PROVE  Saved2(s, _SaveMail(s, p), p)
<1>1. PICK b : b = s.pl[p].mails
  OBVIOUS
<1>2. s.pl[p] \in PlayerRecord /\ b \in PlayerMails
  BY <1>1, StateFields, PlayerFields
<1>3. PICK r : r = [s.pl[p] EXCEPT !.mails = Sweep(b)]
  OBVIOUS
<1>4. r \in PlayerRecord
  BY <1>2, <1>3, SweepIs, Zenon DEF PlayerRecord
<1>5. PICK d : d = Swept(s.db, b)
  OBVIOUS
<1>6. d \in Database
  <2>1. s.db \in Database
    BY StateFields
  <2>2. SweptAs(s.db, d, b)
    BY <1>2, <1>5, <2>1, SweptIs
  <2> QED BY <2>2, Zenon DEF SweptAs
<1>7. PICK u : u = [s EXCEPT !.db = d, !.pl = [@ EXCEPT ![p] = r]]
  OBVIOUS
<1>8. /\ u \in States /\ u.db = d /\ u.pl = [s.pl EXCEPT ![p] = r]
      /\ u.txs = s.txs /\ u.house = s.house /\ u.aitems = s.aitems
      /\ u.past = s.past /\ u.cut = s.cut
  <2>1. PICK players : players = [s.pl EXCEPT ![p] = r]
    OBVIOUS
  <2>2. players \in [Player -> PlayerRecord \cup {None}]
    BY <1>4, <2>1, StateFields
  <2>3. u = [s EXCEPT !.db = d, !.pl = players]
    BY <1>7, <2>1
  <2> QED BY <1>6, <2>1, <2>2, <2>3 DEF States
<1>9. _SaveMail(s, p) = Spent(u, Discarded(b))
  <2>1. PICK instance : instance = s.db.instance \ UNION {b[m].items : m \in Gone(b)}
    OBVIOUS
  <2>2. PICK mail : mail = [m \in Mail |->
                              IF m \in Gone(b) THEN None
                              ELSE IF m \in Mended(b) /\ s.db.mail[m] # None
                              THEN [s.db.mail[m] EXCEPT !.money = b[m].money, !.cod = b[m].cod]
                              ELSE s.db.mail[m]]
    BY Zenon
  <2>3. PICK attached : attached = {x \in s.db.attached :
                                    /\ x[1] \notin Gone(b)
                                    /\ x[2] \notin UNION {b[m].removed : m \in Mended(b)}}
    OBVIOUS
  <2>4. PICK mails : mails = [m \in DOMAIN b \ Gone(b) |->
                                [b[m] EXCEPT !.state = "unchanged", !.removed = {}]]
    BY Zenon
  <2>5. [s EXCEPT !.db.instance = instance, !.db.mail = mail, !.db.attached = attached,
                  !.pl[p].mails = mails] = u
    <3>1. d = [s.db EXCEPT !.instance = instance, !.mail = mail, !.attached = attached]
      BY <1>5, <2>1, <2>2, <2>3, Zenon DEF Swept
    <3>2. r = [s.pl[p] EXCEPT !.mails = mails]
      BY <1>3, <2>4, Zenon DEF Sweep
    <3> QED BY <1>2, <1>7, <3>1, <3>2 DEF States, Database
  <2>6. _SaveMail(s, p)
        = Spent([s EXCEPT !.db.instance = instance, !.db.mail = mail, !.db.attached = attached,
                          !.pl[p].mails = mails], Discarded(b))
    <3> DEFINE X(c) == s.db.instance \ UNION {c[m].items : m \in Gone(c)}
               Y(c) == [m \in Mail |->
                              IF m \in Gone(c) THEN None
                              ELSE IF m \in Mended(c) /\ s.db.mail[m] # None
                              THEN [s.db.mail[m] EXCEPT !.money = c[m].money, !.cod = c[m].cod]
                              ELSE s.db.mail[m]]
               Z(c) == {x \in s.db.attached :
                                    /\ x[1] \notin Gone(c)
                                    /\ x[2] \notin UNION {c[m].removed : m \in Mended(c)}}
               V(c) == [m \in DOMAIN c \ Gone(c) |->
                                [c[m] EXCEPT !.state = "unchanged", !.removed = {}]]
               Whole(c) == Spent([s EXCEPT !.db.instance = X(c), !.db.mail = Y(c),
                                           !.db.attached = Z(c), !.pl[p].mails = V(c)],
                                 Discarded(c))
    <3>1. _SaveMail(s, p) = Whole(s.pl[p].mails)
      BY Zenon DEF _SaveMail, Gone, Mended, Discarded
    <3>2. Whole(s.pl[p].mails) = Whole(b)
      <4> HIDE DEF Whole
      <4> QED BY <1>1
    <3>3. X(b) = instance /\ Y(b) = mail /\ Z(b) = attached /\ V(b) = mails
      BY <2>1, <2>2, <2>3, <2>4, Zenon
    <3>4. Whole(b) = Spent([s EXCEPT !.db.instance = instance, !.db.mail = mail,
                                     !.db.attached = attached, !.pl[p].mails = mails],
                           Discarded(b))
      <4> HIDE DEF X, Y, Z, V
      <4> QED BY <3>3, Zenon
    <3> HIDE DEF Whole
    <3> QED BY <3>1, <3>2, <3>4, Zenon
  <2> QED BY <2>5, <2>6
<1>10. PICK x : x = Discarded(b)
  OBVIOUS
<1>11. x \in Nat
  BY <1>2, <1>10, SweepIs, Zenon
<1>12. PICK t : t = Spent(u, x)
  OBVIOUS
<1>13. /\ t \in States
       /\ t.db = u.db /\ t.txs = u.txs /\ t.pl = u.pl /\ t.house = u.house /\ t.aitems = u.aitems
       /\ t.cut = u.cut /\ t.past = [u.past EXCEPT !.money = @ + x]
  BY <1>8, <1>11, <1>12, SpentIs
<1>14. Saved2(s, t, p)
  BY <1>1, <1>3, <1>4, <1>5, <1>8, <1>10, <1>13, Zenon DEF Saved2
<1> QED BY <1>9, <1>10, <1>12, <1>14

\* Neither of the two trades any more.
Untraded(players, p, q) ==
    [[players EXCEPT ![p] = [players[p] EXCEPT !.trade = None]]
         EXCEPT ![q] = [players[q] EXCEPT !.trade = None]]

LEMMA TradeCancelIs ==
  ASSUME NEW s \in States, NEW p \in Player, s.pl[p] # None, Paired(s.pl)
  PROVE  LET t == TradeCancel(s, p) IN
         /\ t \in States
         /\ t.db = s.db /\ t.txs = s.txs /\ t.house = s.house /\ t.aitems = s.aitems
         /\ t.past = s.past /\ t.cut = s.cut
         /\ s.pl[p].trade = None => t.pl = s.pl
         /\ s.pl[p].trade # None => t.pl = Untraded(s.pl, p, s.pl[p].trade.with)
<1>1. CASE s.pl[p].trade = None
  BY <1>1 DEF TradeCancel
<1>2. CASE s.pl[p].trade # None
  <2>1. PICK q : q = s.pl[p].trade.with
    OBVIOUS
  <2>2. q \in Player /\ s.pl[q] # None /\ q # p
    <3>1. s.pl[p].trade \in TradeData
      BY <1>2, StateFields, PlayerFields
    <3> QED BY <1>2, <2>1, <3>1 DEF Paired, TradeData
  <2>3. s.pl[p] \in PlayerRecord /\ s.pl[q] \in PlayerRecord
    BY <2>2, StateFields
  <2>4. PICK rp, rq : rp = [s.pl[p] EXCEPT !.trade = None] /\ rq = [s.pl[q] EXCEPT !.trade = None]
    OBVIOUS
  <2>5. rp \in PlayerRecord /\ rq \in PlayerRecord
    BY <2>3, <2>4 DEF PlayerRecord
  <2>6. PICK players : players = [s.pl EXCEPT ![p] = rp, ![q] = rq]
    OBVIOUS
  <2>7. players \in [Player -> PlayerRecord \cup {None}] /\ players = Untraded(s.pl, p, q)
    BY <2>2, <2>4, <2>5, <2>6, StateFields DEF Untraded
  <2>8. TradeCancel(s, p) = [s EXCEPT !.pl = players]
    <3>1. TradeCancel(s, p) = [s EXCEPT !.pl[p].trade = None, !.pl[q].trade = None]
      BY <1>2, <2>1 DEF TradeCancel
    <3> QED BY <2>2, <2>3, <2>4, <2>6, <3>1 DEF States
  <2> QED BY <1>2, <2>1, <2>7, <2>8 DEF States
<1> QED BY <1>1, <1>2

-----------------------------------------------------------------------------
(* The ledger: items *)

\* What names the item i, and whether it exists, is the same in d and e.
SameItem(d, e, i) ==
    /\ e.inventory[i] = d.inventory[i] /\ (i \in e.instance <=> i \in d.instance)
    /\ \A a \in Auction : Sells(e, a, i) <=> Sells(d, a, i)
    /\ \A m \in Mail, r \in Player : Posted(e, m, i, r) <=> Posted(d, m, i, r)
    /\ \A m \in Mail, r \in Player : Posted(d, m, i, r) /\ d.mail[m] # None =>
          e.mail[m] # None /\ e.mail[m].receiver = d.mail[m].receiver

LEMMA SameItemKept ==
  ASSUME NEW d, NEW e, NEW i, SameItem(d, e, i)
  PROVE  /\ Clean(d, i) => Clean(e, i)
         /\ Exact(d, i) => Exact(e, i)
<1>1. Clean(d, i) => Clean(e, i)
  BY DEF SameItem, Clean
<1>2. Somewhere(d, i) => Somewhere(e, i)
  BY DEF SameItem, Somewhere
<1> QED BY <1>1, <1>2 DEF SameItem, Exact

\* Nothing names the item i.
Nowhere(d, i) ==
    /\ d.inventory[i] = None
    /\ \A a \in Auction : ~Sells(d, a, i)
    /\ \A m \in Mail, r \in Player : ~Posted(d, m, i, r)

LEMMA PostedItems ==
  ASSUME NEW d \in Database, NEW m \in Mail, d.mail[m] = None, NEW row \in MailRow,
         NEW items \in SUBSET Item
  PROVE  LET e == PostedDb(d, m, row, items) IN
         /\ \A i \in Item \ items : SameItem(d, e, i)
         /\ \A i \in items : Nowhere(d, i) /\ i \in d.instance => Exact(e, i)
<1>1. PICK e : e = PostedDb(d, m, row, items)
  OBVIOUS
<1>2. /\ e \in Database
      /\ e.gold = d.gold /\ e.inventory = d.inventory /\ e.instance = d.instance
      /\ e.auction = d.auction
      /\ e.mail = [d.mail EXCEPT ![m] = row]
      /\ e.attached = d.attached \cup {<<m, i, row.receiver>> : i \in items}
  BY <1>1, PostedDbIs
<1>3. row # None /\ row.receiver \in Player
  BY NoneIsNothing DEF MailRow
<1>4. e.mail[m] = row /\ \A n \in Mail : n # m => e.mail[n] = d.mail[n]
  BY <1>2, DatabaseFields
<1>5. \A n \in Mail, i \in Item, r \in Player :
         Posted(e, n, i, r) <=> Posted(d, n, i, r) \/ (n = m /\ i \in items /\ r = row.receiver)
  BY <1>2 DEF Posted
<1>6. \A a \in Auction, i \in Item : Sells(e, a, i) <=> Sells(d, a, i)
  BY <1>2 DEF Sells
<1>7. ASSUME NEW i \in Item \ items PROVE SameItem(d, e, i)
  BY <1>2, <1>4, <1>5, <1>6 DEF SameItem
<1>8. ASSUME NEW i \in items, Nowhere(d, i), i \in d.instance PROVE Exact(e, i)
  <2>1. \A n \in Mail, r \in Player : Posted(e, n, i, r) <=> n = m /\ r = row.receiver
    BY <1>5, <1>8 DEF Nowhere
  <2>2. e.inventory[i] = None /\ i \in e.instance /\ \A a \in Auction : ~Sells(e, a, i)
    BY <1>2, <1>6, <1>8 DEF Nowhere
  <2>3. Clean(e, i)
    BY <1>3, <1>4, <2>1, <2>2 DEF Clean
  <2>4. Somewhere(e, i)
    BY <1>3, <2>1 DEF Somewhere
  <2> QED BY <2>3, <2>4 DEF Exact
<1> QED BY <1>1, <1>7, <1>8, Zenon

\* The bag of p is what the database says of i.
BagHas(d, p, r, i) == i \in r.bag <=> d.inventory[i] = p

LEMMA StoredItems ==
  ASSUME NEW d \in Database, NEW p \in Player, NEW r \in PlayerRecord, NEW i \in Item,
         BagHas(d, p, r, i), Clean(d, i)
  PROVE  SameItem(d, Stored(d, p, r), i)
<1>1. PICK e : e = Stored(d, p, r)
  OBVIOUS
<1>2. /\ e.attached = d.attached /\ e.auction = d.auction /\ e.mail = d.mail
      /\ e.instance = d.instance \cup r.bag
      /\ e.inventory[i] = IF i \in r.bag THEN p ELSE IF d.inventory[i] = p THEN None
                                                    ELSE d.inventory[i]
  <2>1. StoredAs(d, e, p, r)
    BY <1>1, StoredIs
  <2> QED BY <2>1 DEF StoredAs
<1>3. p # None
  BY MailConstants
<1>4. e.inventory[i] = d.inventory[i] /\ (i \in e.instance <=> i \in d.instance)
  BY <1>2, <1>3 DEF BagHas, Clean
<1>5. SameItem(d, e, i)
  BY <1>2, <1>4 DEF SameItem, Sells, Posted
<1> QED BY <1>1, <1>5

PutDb(d, a, row) == [d EXCEPT !.auction = [@ EXCEPT ![a] = row]]

LEMMA PutDbIs ==
  ASSUME NEW d \in Database, NEW a \in Auction, NEW row \in AuctionRow \cup {None}
  PROVE  LET e == PutDb(d, a, row) IN
         /\ e \in Database
         /\ e.gold = d.gold /\ e.inventory = d.inventory /\ e.instance = d.instance
         /\ e.attached = d.attached /\ e.mail = d.mail
         /\ e.auction = [d.auction EXCEPT ![a] = row]
         /\ \A i \in Item : (Sells(d, a, i) <=> (row # None /\ row.item = i)) => SameItem(d, e, i)
<1>1. PICK e : e = PutDb(d, a, row)
  OBVIOUS
<1>2. PICK auction : auction = [d.auction EXCEPT ![a] = row]
  OBVIOUS
<1>3. auction \in [Auction -> AuctionRow \cup {None}]
        /\ auction[a] = row /\ \A b \in Auction : b # a => auction[b] = d.auction[b]
  BY <1>2, DatabaseFields
<1>4. e = [d EXCEPT !.auction = auction]
  BY <1>1, <1>2 DEF PutDb
<1>5. /\ e \in Database
      /\ e.gold = d.gold /\ e.inventory = d.inventory /\ e.instance = d.instance
      /\ e.attached = d.attached /\ e.mail = d.mail /\ e.auction = auction
  BY <1>3, <1>4 DEF Database
<1>6. ASSUME NEW i \in Item, Sells(d, a, i) <=> (row # None /\ row.item = i)
      PROVE  SameItem(d, e, i)
  <2>1. \A b \in Auction : Sells(e, b, i) <=> Sells(d, b, i)
    BY <1>3, <1>5, <1>6 DEF Sells
  <2> QED BY <1>5, <2>1 DEF SameItem, Posted
<1> QED BY <1>1, <1>2, <1>5, <1>6

-----------------------------------------------------------------------------
(* The ledger: money *)

AuctionWorth(row) == IF row = None THEN 0 ELSE Deposit + row.bid
LetterWorth(row) == IF row = None THEN 0 ELSE row.money

LEMMA WorthIs ==
  ASSUME NEW d \in Database
  PROVE  /\ \A p \in Player : d.gold[p] \in Nat
         /\ \A a \in Auction : Deposits(d.auction)[a] = AuctionWorth(d.auction[a])
                               /\ AuctionWorth(d.auction[a]) \in Nat
         /\ \A m \in Mail : Letters(d.mail)[m] = LetterWorth(d.mail[m])
                            /\ LetterWorth(d.mail[m]) \in Nat
<1>1. \A p \in Player : d.gold[p] \in Nat
  BY DatabaseFields, MailConstants
<1>2. ASSUME NEW a \in Auction
      PROVE  Deposits(d.auction)[a] = AuctionWorth(d.auction[a])
             /\ AuctionWorth(d.auction[a]) \in Nat
  <2>1. d.auction[a] \in AuctionRow \cup {None}
    BY DatabaseFields
  <2>2. d.auction[a] # None => d.auction[a].bid \in Nat
    BY <2>1 DEF AuctionRow
  <2> QED BY <2>2, AuctionConstants DEF Deposits, AuctionWorth
<1>3. ASSUME NEW m \in Mail
      PROVE  Letters(d.mail)[m] = LetterWorth(d.mail[m]) /\ LetterWorth(d.mail[m]) \in Nat
  <2>1. d.mail[m] \in MailRow \cup {None}
    BY DatabaseFields
  <2>2. d.mail[m] # None => d.mail[m].money \in Nat
    BY <2>1 DEF MailRow
  <2> QED BY <2>2 DEF Letters, LetterWorth
<1> QED BY <1>1, <1>2, <1>3

GoldOf(d) == SumOver(d.gold, Player)
DepositOf(d) == SumOver(Deposits(d.auction), Auction)
LetterOf(d) == SumOver(Letters(d.mail), Mail)

LEMMA MoneyIs ==
  ASSUME NEW d \in Database, NEW h \in Past
  PROVE  /\ GoldOf(d) \in Nat /\ DepositOf(d) \in Nat /\ LetterOf(d) \in Nat /\ h.money \in Nat
         /\ MoneyIn(d, h) = h.money + GoldOf(d) + DepositOf(d) + LetterOf(d)
<1>1. GoldOf(d) \in Nat
  BY WorthIs, SumNat, MailConstants DEF GoldOf
<1>2. DepositOf(d) \in Nat
  <2>1. \A a \in Auction : Deposits(d.auction)[a] \in Nat
    BY WorthIs
  <2> QED BY <2>1, SumNat, AuctionConstants DEF DepositOf
<1>3. LetterOf(d) \in Nat
  <2>1. \A m \in Mail : Letters(d.mail)[m] \in Nat
    BY WorthIs
  <2> QED BY <2>1, SumNat, MailConstants DEF LetterOf
<1> QED BY <1>1, <1>2, <1>3 DEF MoneyIn, GoldOf, DepositOf, LetterOf, Past

LEMMA GoldChanged ==
  ASSUME NEW d \in Database, NEW e \in Database, NEW p \in Player,
         \A q \in Player : q # p => e.gold[q] = d.gold[q]
  PROVE  GoldOf(e) = GoldOf(d) - d.gold[p] + e.gold[p]
<1>1. PICK f, g : f = d.gold /\ g = e.gold
  OBVIOUS
<1>2. \A q \in Player : f[q] \in Nat /\ g[q] \in Nat /\ (q # p => g[q] = f[q])
  BY <1>1, WorthIs
<1>3. IsFiniteSet(Player)
  BY MailConstants
<1>4. /\ SumOver(f, Player) \in Nat /\ SumOver(g, Player) \in Nat
      /\ SumOver(g, Player) = SumOver(f, Player) - f[p] + g[p]
  BY <1>2, <1>3, SumChanged
<1> QED BY <1>1, <1>4 DEF GoldOf

LEMMA DepositChanged ==
  ASSUME NEW d \in Database, NEW e \in Database, NEW a \in Auction,
         \A b \in Auction : b # a => e.auction[b] = d.auction[b]
  PROVE  DepositOf(e) = DepositOf(d) - AuctionWorth(d.auction[a]) + AuctionWorth(e.auction[a])
<1>1. PICK f, g : f = Deposits(d.auction) /\ g = Deposits(e.auction)
  OBVIOUS
<1>2. \A b \in Auction : f[b] = AuctionWorth(d.auction[b]) /\ g[b] = AuctionWorth(e.auction[b])
                         /\ f[b] \in Nat /\ g[b] \in Nat
  BY <1>1, WorthIs
<1>3. \A b \in Auction : f[b] \in Nat /\ g[b] \in Nat /\ (b # a => g[b] = f[b])
  BY <1>2
<1>4. IsFiniteSet(Auction)
  BY AuctionConstants
<1>5. /\ SumOver(f, Auction) \in Nat /\ SumOver(g, Auction) \in Nat
      /\ SumOver(g, Auction) = SumOver(f, Auction) - f[a] + g[a]
  BY <1>3, <1>4, SumChanged
<1> QED BY <1>1, <1>2, <1>5 DEF DepositOf

LEMMA LetterChanged ==
  ASSUME NEW d \in Database, NEW e \in Database, NEW m \in Mail,
         \A n \in Mail : n # m => e.mail[n] = d.mail[n]
  PROVE  LetterOf(e) = LetterOf(d) - LetterWorth(d.mail[m]) + LetterWorth(e.mail[m])
<1>1. PICK f, g : f = Letters(d.mail) /\ g = Letters(e.mail)
  OBVIOUS
<1>2. \A n \in Mail : f[n] = LetterWorth(d.mail[n]) /\ g[n] = LetterWorth(e.mail[n])
                         /\ f[n] \in Nat /\ g[n] \in Nat
  BY <1>1, WorthIs
<1>3. \A n \in Mail : f[n] \in Nat /\ g[n] \in Nat /\ (n # m => g[n] = f[n])
  BY <1>2
<1>4. IsFiniteSet(Mail)
  BY MailConstants
<1>5. /\ SumOver(f, Mail) \in Nat /\ SumOver(g, Mail) \in Nat
      /\ SumOver(g, Mail) = SumOver(f, Mail) - f[m] + g[m]
  BY <1>3, <1>4, SumChanged
<1> QED BY <1>1, <1>2, <1>5 DEF LetterOf

\* The mails of D are gone.
LEMMA LettersGone ==
  ASSUME NEW d \in Database, NEW e \in Database, NEW D \in SUBSET Mail,
         \A m \in Mail : LetterWorth(e.mail[m]) = IF m \in D THEN 0 ELSE LetterWorth(d.mail[m])
  PROVE  LetterOf(d) = LetterOf(e) + SumOver(Letters(d.mail), D)
<1>1. PICK f, g : f = Letters(d.mail) /\ g = Letters(e.mail)
  OBVIOUS
<1>2. \A m \in Mail : f[m] \in Nat /\ g[m] = IF m \in D THEN 0 ELSE f[m]
  BY <1>1, WorthIs
<1>3. SumOver(f, Mail) = SumOver(g, Mail) + SumOver(f, D)
  BY <1>2, SumSplit, MailConstants
<1> QED BY <1>1, <1>3 DEF LetterOf

\* The auctions of D are gone.
LEMMA DepositsGone ==
  ASSUME NEW d \in Database, NEW e \in Database, NEW D \in SUBSET Auction,
         \A a \in Auction : e.auction[a] = IF a \in D THEN None ELSE d.auction[a]
  PROVE  DepositOf(d) = DepositOf(e) + SumOver(Deposits(d.auction), D)
<1>1. PICK f, g : f = Deposits(d.auction) /\ g = Deposits(e.auction)
  OBVIOUS
<1>2. \A a \in Auction : f[a] \in Nat /\ g[a] = IF a \in D THEN 0 ELSE f[a]
  BY <1>1, WorthIs DEF AuctionWorth
<1>3. SumOver(f, Auction) = SumOver(g, Auction) + SumOver(f, D)
  BY <1>2, SumSplit, AuctionConstants
<1> QED BY <1>1, <1>3 DEF DepositOf

LEMMA SameMoney ==
  ASSUME NEW d, NEW e
  PROVE  /\ e.gold = d.gold => GoldOf(e) = GoldOf(d)
         /\ e.auction = d.auction => DepositOf(e) = DepositOf(d)
         /\ e.mail = d.mail => LetterOf(e) = LetterOf(d)
BY DEF GoldOf, DepositOf, LetterOf

-----------------------------------------------------------------------------
(* The ledger: the operations *)

LEMMA LoggedSame ==
  ASSUME NEW s, NEW t, NEW total, Logged(s, total), t.txs = s.txs, t.cut = s.cut
  PROVE  Logged(t, total)
BY DEF Logged

LEMMA LoggedMore ==
  ASSUME NEW s \in States, NEW t, NEW total, Logged(s, total), NEW x \in Transaction,
         t.txs = Append(s.txs, x), t.cut = s.cut, TxInv(x, s.cut, total)
  PROVE  Logged(t, total)
<1>1. PICK q : q = s.txs
  OBVIOUS
<1>2. q \in Seq(Transaction) /\ t.txs = Append(q, x)
  BY <1>1, StateFields
<1>3. Len(q) \in Nat /\ Len(Append(q, x)) = Len(q) + 1
      /\ \A k \in 1 .. Len(q) + 1 : Append(q, x)[k] = IF k = Len(q) + 1 THEN x ELSE q[k]
  BY <1>2, AppendProperties, LenProperties
<1>4. ASSUME NEW k \in 1 .. Len(q) + 1 PROVE TxInv(Append(q, x)[k], s.cut, total)
  <2>1. CASE k = Len(q) + 1
    BY <1>3, <2>1
  <2>2. CASE k # Len(q) + 1
    <3>1. k \in 1 .. Len(q)
      BY <1>3, <2>2
    <3>2. TxInv(q[k], s.cut, total)
      BY <1>1, <3>1 DEF Logged
    <3> QED BY <1>3, <2>2, <3>2
  <2> QED BY <2>1, <2>2
<1> QED BY <1>2, <1>3, <1>4 DEF Logged

LEMMA LedgerLess ==
  ASSUME NEW s, NEW H, NEW K, NEW D, NEW total, Ledger(s, H, D, total),
         \A i \in (Item \cap H) \ K : Exact(s.db, i)
  PROVE  Ledger(s, K, D, total)
BY DEF Ledger

\* What is not in the database does not matter.
LEMMA LedgerSame ==
  ASSUME NEW s, NEW H, NEW D, NEW total, Ledger(s, H, D, total),
         NEW t \in States, t.db = s.db, t.txs = s.txs, t.cut = s.cut,
         t.past.money = s.past.money, WonInv(t.db, t.past)
  PROVE  Ledger(t, H, D, total)
<1>1. MoneyIn(t.db, t.past) = MoneyIn(s.db, s.past)
  BY DEF MoneyIn
<1>2. Logged(t, total)
  BY LoggedSame DEF Ledger
<1> QED BY <1>1, <1>2 DEF Ledger

LEMMA WonSame ==
  ASSUME NEW d, NEW h, WonInv(d, h), NEW e, NEW k,
         \A a \in Auction : k.won[a] # None => /\ h.won[a] = k.won[a]
                                               /\ a \in h.late => a \in k.late
                                               /\ e.auction[a] = d.auction[a]
  PROVE  WonInv(e, k)
BY DEF WonInv

LEMMA LedgerCommit ==
  ASSUME NEW s, NEW H, NEW D, NEW total, Ledger(s, H, D, total), NEW open \in SUBSET Thing,
         H \subseteq open \cup s.cut, D = 0 \/ "money" \in open \cup s.cut
  PROVE  Ledger(Commit(s, open), H, D, total)
<1>1. s \in States
  BY DEF Ledger
<1>2. PICK t : t = Commit(s, open)
  OBVIOUS
<1>3. PICK x : x = [db |-> s.db, past |-> s.past, open |-> open]
  OBVIOUS
<1>4. /\ t \in States /\ t.db = s.db /\ t.past = s.past /\ t.cut = s.cut
      /\ t.txs = Append(s.txs, x)
  BY <1>1, <1>2, <1>3, CommitIs
<1>5. x \in Transaction /\ x.db = s.db /\ x.past = s.past /\ x.open = open
  BY <1>1, <1>3, StateFields DEF Transaction
<1>6. TxInv(x, s.cut, total)
  <2>1. "money" \notin s.cut \cup open => MoneyIn(s.db, s.past) = total
    <3>1. MoneyIn(s.db, s.past) \in Nat
      BY <1>1, MoneyIs, StateFields
    <3> QED BY <3>1 DEF Ledger
  <2>2. \A i \in Item \ (s.cut \cup open) : Exact(s.db, i)
    BY DEF Ledger
  <2> QED BY <1>5, <2>1, <2>2 DEF TxInv, Ledger
<1>7. Logged(t, total)
  BY <1>1, <1>4, <1>5, <1>6, LoggedMore DEF Ledger
<1> QED BY <1>2, <1>4, <1>7 DEF Ledger

LEMMA PastMoney ==
  ASSUME NEW h \in Past, NEW x \in Nat
  PROVE  LET k == [h EXCEPT !.money = @ + x] IN
         k \in Past /\ k.money = h.money + x /\ k.won = h.won /\ k.late = h.late
BY DEF Past

\* Money goes to the house, or is deleted.
LEMMA LedgerLoss ==
  ASSUME NEW s, NEW H, NEW D, NEW total, Ledger(s, H, D, total), NEW x \in Nat,
         NEW t \in States, t.db = s.db, t.txs = s.txs, t.cut = s.cut,
         t.past = [s.past EXCEPT !.money = @ + x]
  PROVE  Ledger(t, H, D - x, total)
<1>1. s \in States /\ s.db \in Database /\ s.past \in Past
  BY StateFields DEF Ledger
<1>2. t.past \in Past /\ t.past.money = s.past.money + x /\ t.past.won = s.past.won
      /\ t.past.late = s.past.late
  BY <1>1, PastMoney
<1>3. MoneyIn(t.db, t.past) = MoneyIn(s.db, s.past) + x /\ MoneyIn(s.db, s.past) \in Nat
  <2>1. /\ GoldOf(s.db) \in Nat /\ DepositOf(s.db) \in Nat /\ LetterOf(s.db) \in Nat
        /\ s.past.money \in Nat
        /\ MoneyIn(s.db, s.past) = s.past.money + GoldOf(s.db) + DepositOf(s.db) + LetterOf(s.db)
    BY <1>1, MoneyIs
  <2>2. MoneyIn(s.db, t.past) = t.past.money + GoldOf(s.db) + DepositOf(s.db) + LetterOf(s.db)
    BY <1>1, <1>2, MoneyIs
  <2> QED BY <1>2, <2>1, <2>2
<1>4. WonInv(t.db, t.past)
  BY <1>2 DEF Ledger, WonInv
<1>5. Logged(t, total)
  BY LoggedSame DEF Ledger
<1>6. D - x \in Int /\ ("money" \notin t.cut => MoneyIn(t.db, t.past) + (D - x) = total)
  BY <1>3 DEF Ledger
<1> QED BY <1>4, <1>5, <1>6 DEF Ledger

LEMMA LedgerSpent ==
  ASSUME NEW s, NEW H, NEW D, NEW total, Ledger(s, H, D, total), NEW x \in Nat
  PROVE  Ledger(Spent(s, x), H, D - x, total)
<1>1. s \in States
  BY DEF Ledger
<1>2. PICK t : t = Spent(s, x)
  OBVIOUS
<1>3. /\ t \in States /\ t.db = s.db /\ t.txs = s.txs /\ t.cut = s.cut
      /\ t.past = [s.past EXCEPT !.money = @ + x]
  BY <1>1, <1>2, SpentIs
<1> QED BY <1>2, <1>3, LedgerLoss

LEMMA LedgerPaid ==
  ASSUME NEW s, NEW H, NEW D, NEW total, Ledger(s, H, D, total), NEW p, NEW d,
         NEW g, NEW over \in Nat, NEW t, Paid(s, t, p, d, g, over)
  PROVE  Ledger(t, H, D - over, total)
BY LedgerLoss DEF Paid

\* The tables change, and what is in them less the money x.
LEMMA LedgerTables ==
  ASSUME NEW s, NEW H, NEW D, NEW total, Ledger(s, H, D, total), NEW K, NEW x \in Int,
         NEW t \in States, t.past = s.past, t.txs = s.txs, t.cut = s.cut,
         DbInv(t.db), WonInv(t.db, t.past),
         \A i \in Item \ (s.cut \cup K) : Exact(t.db, i),
         GoldOf(t.db) + DepositOf(t.db) + LetterOf(t.db)
           = GoldOf(s.db) + DepositOf(s.db) + LetterOf(s.db) - x
  PROVE  Ledger(t, K, D + x, total)
<1>1. s.db \in Database /\ t.db \in Database /\ s.past \in Past
  BY StateFields DEF Ledger
<1>2. /\ GoldOf(s.db) \in Nat /\ DepositOf(s.db) \in Nat /\ LetterOf(s.db) \in Nat
      /\ s.past.money \in Nat
      /\ MoneyIn(s.db, s.past) = s.past.money + GoldOf(s.db) + DepositOf(s.db) + LetterOf(s.db)
  BY <1>1, MoneyIs
<1>3. /\ GoldOf(t.db) \in Nat /\ DepositOf(t.db) \in Nat /\ LetterOf(t.db) \in Nat
      /\ MoneyIn(t.db, s.past) = s.past.money + GoldOf(t.db) + DepositOf(t.db) + LetterOf(t.db)
  BY <1>1, MoneyIs
<1>4. MoneyIn(t.db, t.past) + (D + x) = MoneyIn(s.db, s.past) + D /\ D + x \in Int
  BY <1>2, <1>3 DEF Ledger
<1>5. Logged(t, total)
  BY LoggedSame DEF Ledger
<1> QED BY <1>4, <1>5 DEF Ledger

\* The items G of the bag of p are not where the database has them.
LEMMA LedgerSave ==
  ASSUME NEW s, NEW H, NEW D, NEW total, Ledger(s, H, D, total),
         NEW p \in Player, s.pl[p] # None, NEW G,
         \A i \in Item \ (G \cup s.cut) : BagHas(s.db, p, s.pl[p], i)
  PROVE  Ledger(SaveInventoryAndGoldToDB(s, p), H \cup G,
                D + (s.db.gold[p] - s.pl[p].gold), total)
<1>1. s \in States
  BY DEF Ledger
<1>2. PICK t : t = SaveInventoryAndGoldToDB(s, p)
  OBVIOUS
<1>3. PICK r, d, e : r = s.pl[p] /\ d = s.db /\ e = t.db
  OBVIOUS
<1>4. r \in PlayerRecord /\ DbStep(s, t) /\ e = Stored(d, p, r)
  BY <1>1, <1>2, <1>3, SaveIs
<1>5. d \in Database
  BY <1>1, <1>3, StateFields
<1>6. StoredAs(d, e, p, r)
  BY <1>4, <1>5, StoredIs
<1>7. r.gold \in Nat /\ d.gold[p] \in Nat
  <2>1. r.gold \in 0 .. MaxGold /\ MaxGold \in Nat
    BY <1>4, PlayerFields, MailConstants
  <2> QED BY <1>5, <2>1, WorthIs
<1>8. GoldOf(e) = GoldOf(d) - d.gold[p] + r.gold
  <2>1. e.gold[p] = r.gold /\ \A q \in Player : q # p => e.gold[q] = d.gold[q]
    BY <1>5, <1>6, DatabaseFields DEF StoredAs
  <2>2. e \in Database
    BY <1>6 DEF StoredAs
  <2>3. GoldOf(e) = GoldOf(d) - d.gold[p] + e.gold[p]
    BY <1>5, <2>1, <2>2, GoldChanged
  <2> QED BY <2>1, <2>3
<1>9. DepositOf(e) = DepositOf(d) /\ LetterOf(e) = LetterOf(d)
  BY <1>6, SameMoney DEF StoredAs
<1>10. GoldOf(d) \in Nat /\ DepositOf(d) \in Nat /\ LetterOf(d) \in Nat
  BY <1>1, <1>3, StateFields, MoneyIs
<1>11. ASSUME NEW i \in Item \ (s.cut \cup (H \cup G)) PROVE Exact(e, i)
  <2>1. Exact(d, i) /\ BagHas(d, p, r, i)
    BY <1>3 DEF Ledger
  <2>2. SameItem(d, e, i)
    BY <1>4, <1>5, <2>1, StoredItems DEF Exact
  <2> QED BY <2>1, <2>2, SameItemKept
<1>12. DbInv(e) /\ WonInv(e, t.past)
  BY <1>3, <1>4, <1>6 DEF StoredAs, Ledger, DbStep, DbInv, WonInv, Sells
<1>13. PICK x : x = d.gold[p] - r.gold
  OBVIOUS
<1>14. Ledger(t, H \cup G, D + x, total)
  <2>1. x \in Int /\ GoldOf(e) + DepositOf(e) + LetterOf(e)
                       = GoldOf(d) + DepositOf(d) + LetterOf(d) - x
    BY <1>7, <1>8, <1>9, <1>10, <1>13
  <2>2. t \in States /\ t.past = s.past /\ t.txs = s.txs /\ t.cut = s.cut
    BY <1>4 DEF DbStep
  <2> QED BY <1>3, <1>11, <1>12, <2>1, <2>2, LedgerTables
<1> QED BY <1>2, <1>3, <1>13, <1>14

\* The row of the auction a changes.
LEMMA LedgerPut ==
  ASSUME NEW s, NEW H, NEW D, NEW total, Ledger(s, H, D, total),
         NEW a \in Auction, NEW row \in AuctionRow \cup {None}, row # None => RowInv(row),
         NEW K, \A i \in Item \ K : i \notin H /\ (Sells(s.db, a, i) <=> row # None /\ row.item = i),
         \A b \in Auction, i \in Item : b # a /\ Sells(s.db, b, i) => ~(row # None /\ row.item = i),
         NEW t \in States, t.db = PutDb(s.db, a, row),
         t.past = s.past, t.txs = s.txs, t.cut = s.cut, WonInv(t.db, t.past)
  PROVE  Ledger(t, K, D + (AuctionWorth(s.db.auction[a]) - AuctionWorth(row)), total)
<1>1. PICK d, e : d = s.db /\ e = t.db
  OBVIOUS
<1>2. d \in Database /\ DbInv(d)
  BY <1>1, StateFields DEF Ledger
<1>3. /\ e \in Database
      /\ e.gold = d.gold /\ e.inventory = d.inventory /\ e.instance = d.instance
      /\ e.attached = d.attached /\ e.mail = d.mail
      /\ e.auction = [d.auction EXCEPT ![a] = row]
      /\ \A i \in Item : (Sells(d, a, i) <=> (row # None /\ row.item = i)) => SameItem(d, e, i)
  <2>1. e = PutDb(d, a, row)
    BY <1>1
  <2> QED BY <1>2, <2>1, PutDbIs
<1>4. e.auction[a] = row /\ \A b \in Auction : b # a => e.auction[b] = d.auction[b]
  BY <1>2, <1>3, DatabaseFields
<1>5. DbInv(e)
  <2>1. \A b \in Auction : e.auction[b] # None => RowInv(e.auction[b])
    BY <1>2, <1>4 DEF DbInv
  <2>2. ASSUME NEW b \in Auction, NEW c \in Auction, NEW i \in Item, Sells(e, b, i), Sells(e, c, i)
        PROVE  b = c
    <3>1. \A x \in Auction : x # a => (Sells(e, x, i) <=> Sells(d, x, i))
      BY <1>4 DEF Sells
    <3>2. Sells(e, a, i) <=> row # None /\ row.item = i
      BY <1>4 DEF Sells
    <3> QED BY <1>1, <1>2, <2>2, <3>1, <3>2 DEF DbInv
  <2>3. \A m \in Mail : e.mail[m] # None => MailRowInv(e.mail[m])
    BY <1>2, <1>3 DEF DbInv
  <2> QED BY <2>1, <2>2, <2>3 DEF DbInv
<1>6. ASSUME NEW i \in Item \ (s.cut \cup K) PROVE Exact(e, i)
  <2>1. Exact(d, i) /\ (Sells(d, a, i) <=> (row # None /\ row.item = i))
    BY <1>1 DEF Ledger
  <2> QED BY <1>3, <2>1, SameItemKept
<1>7. PICK x : x = AuctionWorth(d.auction[a]) - AuctionWorth(row)
  OBVIOUS
<1>8. AuctionWorth(d.auction[a]) \in Nat /\ AuctionWorth(row) \in Nat
  BY <1>2, <1>3, <1>4, WorthIs
<1>9. DepositOf(e) = DepositOf(d) - AuctionWorth(d.auction[a]) + AuctionWorth(row)
  <2>1. DepositOf(e) = DepositOf(d) - AuctionWorth(d.auction[a]) + AuctionWorth(e.auction[a])
    BY <1>2, <1>3, <1>4, DepositChanged
  <2> QED BY <1>4, <2>1
<1>10. GoldOf(e) = GoldOf(d) /\ LetterOf(e) = LetterOf(d)
  BY <1>3, SameMoney
<1>11. GoldOf(d) \in Nat /\ DepositOf(d) \in Nat /\ LetterOf(d) \in Nat
  BY <1>1, StateFields, MoneyIs DEF Ledger
<1>12. x \in Int /\ GoldOf(e) + DepositOf(e) + LetterOf(e)
                      = GoldOf(d) + DepositOf(d) + LetterOf(d) - x
  BY <1>7, <1>8, <1>9, <1>10, <1>11
<1>13. Ledger(t, K, D + x, total)
  BY <1>1, <1>5, <1>6, <1>12, LedgerTables
<1> QED BY <1>1, <1>7, <1>13

\* The row of the auction a is deleted, and that is stored.
LEMMA LedgerDelete ==
  ASSUME NEW s, NEW H, NEW D, NEW total, Ledger(s, H, D, total), NEW a \in Auction,
         \A i \in Item \ s.cut : Exact(PutDb(s.db, a, None), i),
         "money" \in s.cut \/ D + AuctionWorth(s.db.auction[a]) = 0
  PROVE  Ledger(DeleteFromDB(s, a), {}, 0, total)
<1>1. s \in States /\ s.db \in Database /\ s.past \in Past
  BY StateFields DEF Ledger
<1>2. PICK d, h : d = PutDb(s.db, a, None)
                  /\ h = [s.past EXCEPT !.won = [@ EXCEPT ![a] = None], !.late = @ \ {a}]
  OBVIOUS
<1>3. PICK t : t = DeleteFromDB(s, a)
  OBVIOUS
<1>4. /\ t \in States /\ d \in Database /\ h \in Past /\ t.db = d /\ t.past = h
      /\ t.txs = Append(s.txs, [db |-> d, past |-> h, open |-> {}]) /\ t.cut = s.cut
  BY <1>1, <1>2, <1>3, DeleteFromDBIs, Zenon DEF PutDb
<1>5. PICK u : u = [s EXCEPT !.db = d]
  OBVIOUS
<1>6. u \in States /\ u.db = d /\ u.past = s.past /\ u.txs = s.txs /\ u.cut = s.cut
  BY <1>1, <1>4, <1>5 DEF States
<1>7. h.money = s.past.money /\ h.won = [s.past.won EXCEPT ![a] = None] /\ h.late = s.past.late \ {a}
  BY <1>1, <1>2 DEF Past
<1>8. /\ d.auction[a] = None /\ d.mail = s.db.mail /\ d.gold = s.db.gold
      /\ d.auction = [s.db.auction EXCEPT ![a] = None]
      /\ \A b \in Auction : b # a => d.auction[b] = s.db.auction[b]
  <2>1. d.auction = [s.db.auction EXCEPT ![a] = None] /\ d.mail = s.db.mail /\ d.gold = s.db.gold
    BY <1>1, <1>2, PutDbIs
  <2> QED BY <1>1, <2>1, DatabaseFields
<1>9. WonInv(d, h)
  <2>1. WonInv(s.db, s.past)
    BY DEF Ledger
  <2>2. ASSUME NEW b \in Auction, h.won[b] # None
        PROVE  /\ s.past.won[b] = h.won[b] /\ b \in s.past.late => b \in h.late
               /\ d.auction[b] = s.db.auction[b]
    <3>1. s.past.won \in [Auction -> Player \cup {None}]
      BY <1>1 DEF Past
    <3>2. b # a
      BY <1>7, <2>2, <3>1
    <3> QED BY <1>7, <1>8, <3>1, <3>2
  <2>3. \A b \in Auction : h.won[b] # None => /\ s.past.won[b] = h.won[b]
                                              /\ b \in s.past.late => b \in h.late
                                              /\ d.auction[b] = s.db.auction[b]
    BY <1>7, <2>2
  <2> QED BY <2>1, <2>3, WonSame
<1>10. DbInv(d)
  <2>1. DbInv(s.db)
    BY DEF Ledger
  <2>2. \A b \in Auction, i \in Item : Sells(d, b, i) => Sells(s.db, b, i)
    BY <1>8 DEF Sells
  <2>3. \A b \in Auction : d.auction[b] # None => RowInv(d.auction[b])
    BY <1>8, <2>1 DEF DbInv
  <2> QED BY <1>8, <2>1, <2>2, <2>3 DEF DbInv
<1>11. "money" \notin s.cut => MoneyIn(d, h) = total
  <2>1. /\ GoldOf(s.db) \in Nat /\ DepositOf(s.db) \in Nat /\ LetterOf(s.db) \in Nat
        /\ s.past.money \in Nat
        /\ MoneyIn(s.db, s.past) = s.past.money + GoldOf(s.db) + DepositOf(s.db) + LetterOf(s.db)
    BY <1>1, MoneyIs
  <2>2. MoneyIn(d, h) = h.money + GoldOf(d) + DepositOf(d) + LetterOf(d)
    BY <1>4, MoneyIs
  <2>3. d.gold = s.db.gold /\ d.mail = s.db.mail
    BY <1>8
  <2>4. GoldOf(d) = GoldOf(s.db) /\ LetterOf(d) = LetterOf(s.db)
    BY <2>3, SameMoney, Zenon
  <2>5. DepositOf(d) = DepositOf(s.db) - AuctionWorth(s.db.auction[a]) + AuctionWorth(d.auction[a])
    <3>1. PICK b : b = s.db
      OBVIOUS
    <3>2. /\ b \in Database /\ d \in Database /\ a \in Auction
          /\ \A c \in Auction : c # a => d.auction[c] = b.auction[c]
      BY <1>1, <1>4, <1>8, <3>1, Zenon
    <3>3. DepositOf(d) = DepositOf(b) - AuctionWorth(b.auction[a]) + AuctionWorth(d.auction[a])
      BY ONLY <3>2, DepositChanged
    <3> QED BY <3>1, <3>3, Zenon
  <2>6. AuctionWorth(d.auction[a]) = 0
    BY <1>8 DEF AuctionWorth
  <2>7. AuctionWorth(s.db.auction[a]) \in Nat
    BY <1>1, WorthIs
  <2>8. "money" \notin s.cut => MoneyIn(s.db, s.past) + D = total
    BY DEF Ledger
  <2>9. D \in Int
    BY DEF Ledger
  <2> QED BY <1>7, <2>1, <2>2, <2>4, <2>5, <2>6, <2>7, <2>8, <2>9
<1>12. PICK x : x = [db |-> d, past |-> h, open |-> {}]
  OBVIOUS
<1>13. x \in Transaction /\ x.db = d /\ x.past = h /\ x.open = {}
  BY <1>4, <1>12 DEF Transaction
<1>14. TxInv(x, s.cut, total)
  BY <1>2, <1>9, <1>10, <1>11, <1>13 DEF TxInv
<1>15. Logged(t, total)
  BY <1>1, <1>4, <1>12, <1>13, <1>14, LoggedMore DEF Ledger
<1>16. MoneyIn(d, h) \in Nat /\ 0 \in Int
  BY <1>4, MoneyIs
<1>17. \A i \in Item \ s.cut : Exact(d, i)
  BY <1>2
<1> QED BY <1>3, <1>4, <1>9, <1>10, <1>11, <1>15, <1>16, <1>17 DEF Ledger

\* The mail m is posted, and that is stored; the items K are still in hand.
LEMMA LedgerSent ==
  ASSUME NEW s, NEW H, NEW D, NEW total, Ledger(s, H, D, total),
         NEW m \in FreeMails(s), NEW row \in MailRow, MailRowInv(row),
         NEW items \in SUBSET Item, NEW open \in SUBSET Thing,
         NEW t, Sent(s, t, m, row, items, open), NEW K, items \subseteq H,
         \A i \in (Item \cap H) \ (K \cup s.cut) : Exact(t.db, i),
         K \subseteq open \cup s.cut,
         D = row.money \/ "money" \in open \cup s.cut
  PROVE  Ledger(t, K, D - row.money, total)
<1>1. PICK d, e : d = s.db /\ e = t.db
  OBVIOUS
<1>2. d \in Database /\ s.past \in Past /\ DbInv(d) /\ WonInv(d, s.past) /\ s \in States
  BY <1>1, StateFields DEF Ledger
<1>3. m \in Mail /\ d.mail[m] = None
  BY <1>1 DEF FreeMails
<1>4. /\ e = PostedDb(d, m, row, items) /\ t \in States
      /\ t.txs = Append(s.txs, [db |-> e, past |-> s.past, open |-> open])
      /\ t.past = s.past /\ t.cut = s.cut
  BY <1>1 DEF Sent
<1>5. /\ e \in Database
      /\ e.gold = d.gold /\ e.inventory = d.inventory /\ e.instance = d.instance
      /\ e.auction = d.auction
      /\ e.mail = [d.mail EXCEPT ![m] = row]
  BY <1>2, <1>3, <1>4, PostedDbIs
<1>6. e.mail[m] = row /\ \A n \in Mail : n # m => e.mail[n] = d.mail[n]
  BY <1>2, <1>3, <1>5, DatabaseFields
<1>7. \A i \in Item \ items : SameItem(d, e, i)
  BY <1>2, <1>3, <1>4, PostedItems
<1>8. ASSUME NEW i \in Item \ (s.cut \cup K) PROVE Exact(e, i)
  <2>1. CASE i \in H
    BY <1>1, <2>1
  <2>2. CASE i \notin H
    <3>1. Exact(d, i) /\ SameItem(d, e, i)
      BY <1>1, <1>7, <2>2 DEF Ledger
    <3> QED BY <3>1, SameItemKept
  <2> QED BY <2>1, <2>2
<1>9. DbInv(e)
  <2>1. \A n \in Mail : e.mail[n] # None => MailRowInv(e.mail[n])
    BY <1>2, <1>6 DEF DbInv
  <2> QED BY <1>2, <1>5, <2>1 DEF DbInv, Sells
<1>10. WonInv(e, s.past)
  BY <1>2, <1>5 DEF WonInv
<1>11. MoneyIn(e, s.past) = MoneyIn(d, s.past) + row.money /\ MoneyIn(d, s.past) \in Nat
       /\ row.money \in Nat
  <2>1. /\ GoldOf(d) \in Nat /\ DepositOf(d) \in Nat /\ LetterOf(d) \in Nat
        /\ s.past.money \in Nat
        /\ MoneyIn(d, s.past) = s.past.money + GoldOf(d) + DepositOf(d) + LetterOf(d)
    BY <1>2, MoneyIs
  <2>2. MoneyIn(e, s.past) = s.past.money + GoldOf(e) + DepositOf(e) + LetterOf(e)
    BY <1>2, <1>5, MoneyIs
  <2>3. GoldOf(e) = GoldOf(d) /\ DepositOf(e) = DepositOf(d)
    BY <1>5, SameMoney
  <2>4. LetterOf(e) = LetterOf(d) - LetterWorth(d.mail[m]) + LetterWorth(e.mail[m])
    BY <1>2, <1>3, <1>5, <1>6, LetterChanged, Zenon
  <2>5. LetterWorth(d.mail[m]) = 0 /\ LetterWorth(e.mail[m]) = row.money /\ row.money \in Nat
    BY <1>3, <1>6, NoneIsNothing DEF LetterWorth, MailRow
  <2> QED BY <2>1, <2>2, <2>3, <2>4, <2>5
<1>12. PICK x : x = [db |-> e, past |-> s.past, open |-> open]
  OBVIOUS
<1>13. x \in Transaction /\ x.db = e /\ x.past = s.past /\ x.open = open
  BY <1>2, <1>5, <1>12 DEF Transaction
<1>14. TxInv(x, s.cut, total)
  <2>1. "money" \notin s.cut \cup open => MoneyIn(e, s.past) = total
    BY <1>1, <1>11 DEF Ledger
  <2>2. \A i \in Item \ (s.cut \cup open) : Exact(e, i)
    BY <1>8
  <2> QED BY <1>9, <1>10, <1>13, <2>1, <2>2 DEF TxInv
<1>15. Logged(t, total)
  BY <1>2, <1>4, <1>12, <1>13, <1>14, LoggedMore DEF Ledger
<1>16. D - row.money \in Int
       /\ ("money" \notin t.cut => MoneyIn(e, t.past) + (D - row.money) = total)
  BY <1>1, <1>4, <1>11 DEF Ledger
<1> QED BY <1>1, <1>4, <1>8, <1>9, <1>10, <1>15, <1>16 DEF Ledger

\* The mails of b that are deleted are as their rows, or have lost them and are empty.
Sweepable(d, b, p) ==
    \A m \in Gone(b) :
        \/ /\ d.mail[m] # None /\ d.mail[m].receiver = p
           /\ b[m].money = d.mail[m].money /\ b[m].items = Attached(d, m, p)
        \/ d.mail[m] = None /\ b[m].money = 0 /\ b[m].items = {}

Removed(b) == UNION {b[m].removed : m \in Mended(b)}

LEMMA SweptItems ==
  ASSUME NEW d \in Database, NEW b \in PlayerMails, NEW p \in Player, Sweepable(d, b, p),
         NEW i \in Item, Clean(d, i), i \notin Removed(b)
  PROVE  /\ Clean(Swept(d, b), i)
         /\ Exact(d, i) => Exact(Swept(d, b), i)
<1>1. PICK e : e = Swept(d, b)
  OBVIOUS
<1>2. /\ e.inventory = d.inventory /\ e.auction = d.auction
      /\ e.instance = d.instance \ UNION {b[m].items : m \in Gone(b)}
      /\ e.attached = {x \in d.attached : x[1] \notin Gone(b) /\ x[2] \notin Removed(b)}
      /\ \A m \in Mail :
            e.mail[m] = IF m \in Gone(b) THEN None
                        ELSE IF m \in Mended(b) /\ d.mail[m] # None
                        THEN [d.mail[m] EXCEPT !.money = b[m].money, !.cod = b[m].cod]
                        ELSE d.mail[m]
  <2>1. SweptAs(d, e, b)
    BY <1>1, SweptIs
  <2> QED BY <2>1, Zenon DEF Removed, SweptAs
<1>3. \A m \in Mail, r \in Player : Posted(e, m, i, r) <=> Posted(d, m, i, r) /\ m \notin Gone(b)
  BY <1>2, Zenon DEF Posted
<1>4. \A a \in Auction : Sells(e, a, i) <=> Sells(d, a, i)
  BY <1>2, Zenon DEF Sells
<1>5. Gone(b) \subseteq Mail
  BY PlayerMailsIs DEF Gone
<1>6. CASE \E m \in Gone(b) : i \in b[m].items
  <2>1. PICK m \in Gone(b) : i \in b[m].items
    BY <1>6
  <2>2. i \in Attached(d, m, p)
    BY <2>1 DEF Sweepable
  <2>3. Posted(d, m, i, p) /\ m \in Mail
    BY <1>5, <2>2 DEF Attached, Posted
  <2>4. \A n \in Mail, r \in Player : Posted(d, n, i, r) => n = m
    BY <2>3 DEF Clean
  <2>5. \A n \in Mail, r \in Player : ~Posted(e, n, i, r)
    BY <1>3, <2>1, <2>4
  <2>6. i \notin e.instance
    BY <1>2, <2>1, Zenon
  <2>7. e.inventory[i] = None /\ \A a \in Auction : ~Sells(e, a, i)
    BY <1>2, <1>4, <2>3, Zenon DEF Clean
  <2> QED BY <1>1, <2>5, <2>6, <2>7 DEF Exact, Clean
<1>7. CASE ~\E m \in Gone(b) : i \in b[m].items
  <2>1. i \in e.instance <=> i \in d.instance
    <3>1. i \in UNION {b[m].items : m \in Gone(b)} <=> \E m \in Gone(b) : i \in b[m].items
      BY Zenon
    <3> QED BY <1>2, <1>7, <3>1, Zenon
  <2>2. ASSUME NEW m \in Mail, NEW r \in Player, Posted(d, m, i, r) PROVE m \notin Gone(b)
    <3> SUFFICES ASSUME m \in Gone(b) PROVE FALSE
      OBVIOUS
    <3>1. i \in d.instance /\ d.mail[m] # None /\ d.mail[m].receiver = r
      BY <2>2 DEF Clean
    <3>2. r = p /\ b[m].items = Attached(d, m, p)
      BY <3>1 DEF Sweepable
    <3>3. i \in b[m].items
      BY <2>2, <3>1, <3>2 DEF Attached, Posted
    <3> QED BY <1>7, <3>3
  <2>3. \A m \in Mail, r \in Player : Posted(e, m, i, r) <=> Posted(d, m, i, r)
    BY <1>3, <2>2
  <2>4. ASSUME NEW m \in Mail, NEW r \in Player, Posted(d, m, i, r), d.mail[m] # None
        PROVE  e.mail[m] # None /\ e.mail[m].receiver = d.mail[m].receiver
    <3>1. m \notin Gone(b)
      BY <2>2, <2>4
    <3>2. e.mail[m] = d.mail[m]
          \/ e.mail[m] = [d.mail[m] EXCEPT !.money = b[m].money, !.cod = b[m].cod]
      BY <1>2, <3>1, Zenon
    <3>3. d.mail[m] \in MailRow
      BY <2>4, DatabaseFields
    <3>4. CASE e.mail[m] = d.mail[m]
      BY <2>4, <3>4
    <3>5. CASE m \in Mended(b)
               /\ e.mail[m] = [d.mail[m] EXCEPT !.money = b[m].money, !.cod = b[m].cod]
      <4>1. b[m].money \in Nat /\ b[m].cod \in Nat
        BY <3>5, PlayerMailsIs DEF Mended, Letter
      <4>2. e.mail[m] \in MailRow /\ e.mail[m].receiver = d.mail[m].receiver
        BY <3>3, <3>5, <4>1 DEF MailRow
      <4> QED BY <4>2, NoneIsNothing
    <3> QED BY <1>2, <3>1, <3>4, <3>5, Zenon
  <2>5. SameItem(d, e, i)
    BY <1>2, <1>4, <2>1, <2>3, <2>4, Zenon DEF SameItem
  <2> QED BY <1>1, <2>5, SameItemKept
<1> QED BY <1>6, <1>7

\* The money in the mails after the sweep: M is the mail that was changed, if there is one.
LEMMA SweptMoney ==
  ASSUME NEW d \in Database, NEW b \in PlayerMails, NEW p \in Player, Sweepable(d, b, p),
         NEW x \in Int,
         (Mended(b) = {} /\ x = 0)
         \/ \E m \in Mail : /\ Mended(b) = {m}
                            /\ x = LetterWorth(d.mail[m]) - LetterWorth(Swept(d, b).mail[m])
  PROVE  LetterOf(Swept(d, b)) = LetterOf(d) - Discarded(b) - x
<1>1. PICK e : e = Swept(d, b)
  OBVIOUS
<1>2. e \in Database /\ \A m \in Mail :
            e.mail[m] = IF m \in Gone(b) THEN None
                        ELSE IF m \in Mended(b) /\ d.mail[m] # None
                        THEN [d.mail[m] EXCEPT !.money = b[m].money, !.cod = b[m].cod]
                        ELSE d.mail[m]
  <2>1. SweptAs(d, e, b)
    BY <1>1, SweptIs
  <2> QED BY <2>1, Zenon DEF SweptAs
<1>3. Gone(b) \in SUBSET Mail /\ IsFiniteSet(Gone(b))
  BY PlayerMailsIs, SweepIs, Zenon DEF Gone
<1>4. PICK c : c = [d EXCEPT !.mail = [m \in Mail |-> IF m \in Gone(b) THEN None ELSE d.mail[m]]]
  OBVIOUS
<1>5. c \in Database /\ \A m \in Mail : c.mail[m] = IF m \in Gone(b) THEN None ELSE d.mail[m]
  <2>1. PICK mail : mail = [m \in Mail |-> IF m \in Gone(b) THEN None ELSE d.mail[m]]
    OBVIOUS
  <2>2. mail \in [Mail -> MailRow \cup {None}]
    BY <2>1, DatabaseFields
  <2>3. c \in Database /\ c.mail = mail
    BY <1>4, <2>1, <2>2 DEF Database
  <2> QED BY <2>1, <2>3
<1>6. LetterOf(d) = LetterOf(c) + SumOver(Letters(d.mail), Gone(b))
  <2>1. \A m \in Mail : LetterWorth(c.mail[m]) = IF m \in Gone(b) THEN 0 ELSE LetterWorth(d.mail[m])
    BY <1>5 DEF LetterWorth
  <2> QED BY <1>3, <1>5, <2>1, LettersGone
<1>7. SumOver(Letters(d.mail), Gone(b)) = Discarded(b)
  <2>1. PICK f, g : f = Letters(d.mail) /\ g = [m \in Gone(b) |-> b[m].money]
    OBVIOUS
  <2>2. ASSUME NEW m \in Gone(b) PROVE f[m] \in Nat /\ g[m] = f[m]
    <3>1. f[m] = LetterWorth(d.mail[m]) /\ f[m] \in Nat
      BY <1>3, <2>1, WorthIs
    <3>2. g[m] = b[m].money
      BY <2>1
    <3>3. b[m].money = LetterWorth(d.mail[m])
      BY DEF Sweepable, LetterWorth
    <3> QED BY <3>1, <3>2, <3>3
  <2>3. SumOver(g, Gone(b)) = SumOver(f, Gone(b))
    BY <1>3, <2>2, SumEqual
  <2> QED BY <2>1, <2>3 DEF Discarded
<1>8. LetterOf(c) \in Nat /\ LetterOf(d) \in Nat /\ LetterOf(e) \in Nat /\ Discarded(b) \in Nat
  <2>1. \A y \in Database : LetterOf(y) \in Nat
    <3> SUFFICES ASSUME NEW y \in Database PROVE LetterOf(y) \in Nat
      OBVIOUS
    <3>1. \A m \in Mail : Letters(y.mail)[m] \in Nat
      BY WorthIs
    <3> QED BY <3>1, SumNat, MailConstants DEF LetterOf
  <2> QED BY <1>2, <1>5, <2>1, SweepIs, Zenon
<1>9. CASE Mended(b) = {} /\ x = 0
  <2>1. \A m \in Mail : e.mail[m] = c.mail[m]
    BY <1>2, <1>5, <1>9
  <2>2. e.mail = c.mail
    <3>1. e.mail \in [Mail -> MailRow \cup {None}] /\ c.mail \in [Mail -> MailRow \cup {None}]
      BY <1>2, <1>5, DatabaseFields, Zenon
    <3> QED BY <2>1, <3>1
  <2>3. LetterOf(e) = LetterOf(c)
    BY <2>2, SameMoney
  <2> QED BY <1>1, <1>6, <1>7, <1>8, <1>9, <2>3
<1>10. CASE \E m \in Mail : /\ Mended(b) = {m}
                            /\ x = LetterWorth(d.mail[m]) - LetterWorth(Swept(d, b).mail[m])
  <2>1. PICK m \in Mail : Mended(b) = {m} /\ x = LetterWorth(d.mail[m]) - LetterWorth(e.mail[m])
    BY <1>1, <1>10
  <2>2. \A n \in Mail : n # m => e.mail[n] = c.mail[n]
    BY <1>2, <1>5, <2>1, Zenon
  <2>3. m \notin Gone(b)
    <3>1. m \in Mended(b)
      BY <2>1
    <3> QED BY <3>1 DEF Mended, Gone
  <2>4. c.mail[m] = d.mail[m]
    BY <1>5, <2>3
  <2>5. LetterOf(e) = LetterOf(c) - LetterWorth(c.mail[m]) + LetterWorth(e.mail[m])
    BY <1>2, <1>5, <2>2, LetterChanged, Zenon
  <2>6. LetterWorth(d.mail[m]) \in Nat /\ LetterWorth(e.mail[m]) \in Nat
    BY <1>2, WorthIs, Zenon
  <2> QED BY <1>1, <1>6, <1>7, <1>8, <2>1, <2>4, <2>5, <2>6
<1> QED BY <1>9, <1>10

LEMMA LedgerSwept ==
  ASSUME NEW s, NEW H, NEW D, NEW total, Ledger(s, H, D, total), NEW p \in Player,
         s.pl[p] # None, NEW b, b = s.pl[p].mails, Sweepable(s.db, b, p), s.cut = {},
         NEW t, Saved2(s, t, p), NEW x \in Int,
         (Mended(b) = {} /\ x = 0)
         \/ \E m \in Mail : /\ Mended(b) = {m}
                            /\ x = LetterWorth(s.db.mail[m]) - LetterWorth(t.db.mail[m]),
         Removed(b) \subseteq H, \A i \in Item \cap H : Exact(t.db, i),
         \A m \in Mended(b) : b[m].cod = 0 \/ b[m].cod = s.db.mail[m].cod
  PROVE  Ledger(t, {}, D + x, total)
<1>1. PICK d, e : d = s.db /\ e = t.db
  OBVIOUS
<1>2. d \in Database /\ s.past \in Past /\ s \in States /\ DbInv(d) /\ WonInv(d, s.past)
  BY <1>1, StateFields DEF Ledger
<1>3. b \in PlayerMails
  BY <1>2, StateFields, PlayerFields
<1>4. /\ t \in States /\ e = Swept(d, b)
      /\ t.past = [s.past EXCEPT !.money = @ + Discarded(b)]
      /\ t.txs = s.txs /\ t.cut = s.cut
  BY <1>1 DEF Saved2
<1>5. LetterOf(e) = LetterOf(d) - Discarded(b) - x
  BY <1>1, <1>2, <1>3, <1>4, SweptMoney
<1>6. /\ e \in Database
      /\ e.gold = d.gold /\ e.inventory = d.inventory /\ e.auction = d.auction
      /\ \A m \in Mail :
           e.mail[m] = IF m \in Gone(b) THEN None
                       ELSE IF m \in Mended(b) /\ d.mail[m] # None
                       THEN [d.mail[m] EXCEPT !.money = b[m].money, !.cod = b[m].cod]
                       ELSE d.mail[m]
  <2>1. SweptAs(d, e, b)
    BY <1>2, <1>3, <1>4, SweptIs
  <2> QED BY <2>1, Zenon DEF SweptAs
<1>7. PICK y : y = Discarded(b)
  OBVIOUS
<1>8. y \in Nat
  BY <1>3, <1>7, SweepIs, Zenon
<1>9. t.past \in Past /\ t.past.money = s.past.money + y /\ t.past.won = s.past.won
      /\ t.past.late = s.past.late
  BY <1>2, <1>4, <1>7, <1>8, PastMoney
<1>10. MoneyIn(e, t.past) = MoneyIn(d, s.past) - x /\ MoneyIn(d, s.past) \in Nat
  <2>1. /\ GoldOf(d) \in Nat /\ DepositOf(d) \in Nat /\ LetterOf(d) \in Nat
        /\ s.past.money \in Nat
        /\ MoneyIn(d, s.past) = s.past.money + GoldOf(d) + DepositOf(d) + LetterOf(d)
    BY <1>2, MoneyIs
  <2>2. MoneyIn(e, t.past) = t.past.money + GoldOf(e) + DepositOf(e) + LetterOf(e)
    BY <1>6, <1>9, MoneyIs, Zenon
  <2>3. GoldOf(e) = GoldOf(d) /\ DepositOf(e) = DepositOf(d)
    BY <1>6, SameMoney, Zenon
  <2> QED BY <1>5, <1>7, <1>8, <1>9, <2>1, <2>2, <2>3
<1>11. ASSUME NEW i \in Item PROVE Exact(e, i)
  <2>1. CASE i \in H
    BY <1>1, <2>1
  <2>2. CASE i \notin H
    <3>1. Exact(d, i) /\ i \notin Removed(b)
      BY <1>1, <2>2 DEF Ledger
    <3>2. Clean(d, i)
      BY <3>1 DEF Exact
    <3> QED BY <1>1, <1>2, <1>3, <1>4, <3>1, <3>2, SweptItems
  <2> QED BY <2>1, <2>2
<1>12. DbInv(e)
  <2>1. ASSUME NEW m \in Mail, e.mail[m] # None PROVE MailRowInv(e.mail[m])
    <3>1. m \notin Gone(b)
      BY <1>6, <2>1, Zenon
    <3>2. CASE e.mail[m] = d.mail[m]
      BY <1>2, <2>1, <3>2 DEF DbInv
    <3>3. CASE m \in Mended(b) /\ d.mail[m] # None
               /\ e.mail[m] = [d.mail[m] EXCEPT !.money = b[m].money, !.cod = b[m].cod]
      <4>1. d.mail[m] \in MailRow /\ MailRowInv(d.mail[m])
        BY <1>2, <3>3, DatabaseFields DEF DbInv
      <4>2. /\ e.mail[m].cod = 0 \/ e.mail[m].cod = d.mail[m].cod
            /\ e.mail[m].kind = d.mail[m].kind
            /\ e.mail[m].sender = d.mail[m].sender
        BY <1>1, <3>3, <4>1 DEF MailRow
      <4> QED BY <4>1, <4>2 DEF MailRowInv
    <3> QED BY <1>6, <3>1, <3>2, <3>3, Zenon
  <2>2. \A a \in Auction, i \in Item : Sells(e, a, i) <=> Sells(d, a, i)
    BY <1>6, Zenon DEF Sells
  <2> QED BY <1>2, <1>6, <2>1, <2>2, Zenon DEF DbInv
<1>13. WonInv(e, t.past)
  BY <1>2, <1>6, <1>9, Zenon DEF WonInv
<1>14. Logged(t, total)
  BY <1>4, LoggedSame DEF Ledger
<1>15. D + x \in Int /\ ("money" \notin t.cut => MoneyIn(e, t.past) + (D + x) = total)
  BY <1>1, <1>4, <1>10 DEF Ledger
<1> QED BY <1>1, <1>4, <1>11, <1>12, <1>13, <1>14, <1>15 DEF Ledger

-----------------------------------------------------------------------------
(* The end of a handler *)

Existing(h) == {a \in Auction : h[a] # None}
Unsold(h) == {a \in Auction : h[a] # None /\ ~h[a].sold}

LEMMA OwedIs ==
  ASSUME NEW h
  PROVE  /\ IsFiniteSet(Existing(h)) /\ IsFiniteSet(Unsold(h))
         /\ Cardinality(Existing(h)) \in Nat /\ Cardinality(Unsold(h)) \in Nat
         /\ Owed(h) = Cardinality(Existing(h)) + Cardinality(Unsold(h)) /\ Owed(h) \in Nat
<1>1. IsFiniteSet(Existing(h)) /\ IsFiniteSet(Unsold(h))
  BY AuctionConstants, FS_Subset DEF Existing, Unsold
<1>2. Cardinality(Existing(h)) \in Nat /\ Cardinality(Unsold(h)) \in Nat
  BY <1>1, FS_CardinalityType
<1>3. Owed(h) = Cardinality(Existing(h)) + Cardinality(Unsold(h))
  BY DEF Owed, Existing, Unsold
<1> QED BY <1>1, <1>2, <1>3

LEMMA OwedLess ==
  ASSUME NEW h, NEW k, \A a \in Auction : k[a] # None => h[a] # None /\ (h[a].sold => k[a].sold)
  PROVE  Owed(k) <= Owed(h)
<1>1. Existing(k) \subseteq Existing(h) /\ Unsold(k) \subseteq Unsold(h)
  BY DEF Existing, Unsold
<1>2. Cardinality(Existing(k)) <= Cardinality(Existing(h))
  BY <1>1, OwedIs, FS_Subset
<1>3. Cardinality(Unsold(k)) <= Cardinality(Unsold(h))
  BY <1>1, OwedIs, FS_Subset
<1>4. /\ Cardinality(Existing(h)) \in Nat /\ Cardinality(Unsold(h)) \in Nat
      /\ Owed(h) = Cardinality(Existing(h)) + Cardinality(Unsold(h))
  BY OwedIs
<1>5. /\ Cardinality(Existing(k)) \in Nat /\ Cardinality(Unsold(k)) \in Nat
      /\ Owed(k) = Cardinality(Existing(k)) + Cardinality(Unsold(k))
  BY OwedIs
<1> QED BY <1>2, <1>3, <1>4, <1>5

LEMMA FreeMailsIs ==
  ASSUME NEW s
  PROVE  IsFiniteSet(FreeMails(s)) /\ Cardinality(FreeMails(s)) \in Nat
<1>1. IsFiniteSet(FreeMails(s))
  BY MailConstants, FS_Subset DEF FreeMails
<1> QED BY <1>1, FS_CardinalityType

\* What the process finds that is started on the database d.
LEMMA Restart ==
  ASSUME NEW d \in Database, NEW h \in Past, NEW c \in SUBSET Thing, NEW total \in Int,
         DbInv(d), WonInv(d, h), \A i \in Item \ c : Exact(d, i),
         "money" \notin c => MoneyIn(d, h) = total,
         Cardinality({m \in Mail : d.mail[m] = None}) >= Owed(d.auction),
         Restarted(d, h), cut' = c
  PROVE  Kept(World, total)' /\ Enough(World)'
<1> DEFINE Empty == {a \in Auction : /\ d.auction[a] # None /\ ~d.auction[a].sold
                                     /\ d.auction[a].item \notin d.instance}
<1>1. PICK rows : rows = [a \in Auction |-> IF a \in Empty THEN None ELSE d.auction[a]]
  OBVIOUS
<1>2. PICK e : e = [d EXCEPT !.auction = rows]
  OBVIOUS
<1>3. PICK x : x = SumOver(Deposits(d.auction), Empty)
  OBVIOUS
<1>4. PICK k : k = [h EXCEPT !.money = @ + x]
  OBVIOUS
<1>5. rows \in [Auction -> AuctionRow \cup {None}]
  BY <1>1, DatabaseFields
<1>6. /\ e \in Database /\ e.gold = d.gold /\ e.inventory = d.inventory
      /\ e.instance = d.instance /\ e.attached = d.attached /\ e.mail = d.mail
      /\ e.auction = rows
  BY <1>2, <1>5 DEF Database
<1>7. x \in Nat
  <2>1. IsFiniteSet(Empty)
    BY AuctionConstants, FS_Subset
  <2>2. \A a \in Empty : Deposits(d.auction)[a] \in Nat
    BY WorthIs
  <2> HIDE DEF Empty
  <2> QED BY <1>3, <2>1, <2>2, SumNat
<1>8. k \in Past /\ k.money = h.money + x /\ k.won = h.won /\ k.late = h.late
  BY <1>4, <1>7, PastMoney
<1>9. PICK none : none = [p \in Player |-> None]
  OBVIOUS
<1>10. PICK goods : goods = {i \in Item : \E a \in Auction : rows[a] # None /\ rows[a].item = i}
  OBVIOUS
<1>11. db' = e /\ house' = rows /\ aitems' = goods /\ pl' = none /\ past' = k
  BY <1>1, <1>2, <1>3, <1>4, <1>9, <1>10, Zenon DEF Restarted
<1>12. PICK s : s = [db |-> e, txs |-> <<>>, pl |-> none, house |-> rows, aitems |-> goods,
                     past |-> k, cut |-> c]
  OBVIOUS
<1>13. World' = s
  BY <1>11, <1>12 DEF World
<1>14. /\ s.db = e /\ s.txs = <<>> /\ s.pl = none /\ s.house = rows /\ s.aitems = goods
       /\ s.past = k /\ s.cut = c
  BY <1>12
<1>15. s \in States
  <2>1. <<>> \in Seq(Transaction) /\ goods \in SUBSET Item
        /\ none \in [Player -> PlayerRecord \cup {None}]
    BY <1>9, <1>10, EmptySeq
  <2> QED BY <1>5, <1>6, <1>8, <1>12, <2>1 DEF States
<1>16. \A a \in Auction : rows[a] # None => rows[a] = d.auction[a]
  BY <1>1
<1>17. DbInv(e)
  <2>1. \A a \in Auction, i \in Item : Sells(e, a, i) => Sells(d, a, i)
    BY <1>6, <1>16 DEF Sells
  <2> QED BY <1>6, <1>16, <2>1 DEF DbInv
<1>18. WonInv(e, k)
  <2>1. \A a \in Auction : h.won[a] # None => rows[a] = d.auction[a]
    BY <1>1 DEF WonInv
  <2> QED BY <1>6, <1>8, <2>1 DEF WonInv
<1>19. ASSUME NEW i \in Item \ c PROVE Exact(e, i)
  <2>1. Exact(d, i) /\ Clean(d, i)
    BY DEF Exact
  <2>2. ASSUME NEW a \in Auction PROVE Sells(e, a, i) <=> Sells(d, a, i)
    <3>1. Sells(d, a, i) => rows[a] = d.auction[a]
      BY <1>1, <2>1 DEF Sells, Clean
    <3> QED BY <1>6, <1>16, <3>1 DEF Sells
  <2>3. SameItem(d, e, i)
    BY <1>6, <2>2 DEF SameItem, Posted
  <2> QED BY <2>1, <2>3, SameItemKept
<1>20. MoneyIn(e, k) = MoneyIn(d, h)
  <2>1. /\ GoldOf(d) \in Nat /\ DepositOf(d) \in Nat /\ LetterOf(d) \in Nat /\ h.money \in Nat
        /\ MoneyIn(d, h) = h.money + GoldOf(d) + DepositOf(d) + LetterOf(d)
    BY MoneyIs
  <2>2. /\ DepositOf(e) \in Nat
        /\ MoneyIn(e, k) = k.money + GoldOf(e) + DepositOf(e) + LetterOf(e)
    BY <1>6, <1>8, MoneyIs
  <2>3. GoldOf(e) = GoldOf(d) /\ LetterOf(e) = LetterOf(d)
    BY <1>6, SameMoney
  <2>4. DepositOf(d) = DepositOf(e) + x
    <3>1. \A a \in Auction : e.auction[a] = IF a \in Empty THEN None ELSE d.auction[a]
      BY <1>1, <1>6
    <3>2. Empty \in SUBSET Auction
      OBVIOUS
    <3> HIDE DEF Empty
    <3> QED BY <1>3, <1>6, <3>1, <3>2, DepositsGone
  <2> QED BY <1>7, <1>8, <2>1, <2>2, <2>3, <2>4
<1>21. Ledger(s, {}, 0, total)
  <2>1. Logged(s, total)
    <3>1. Len(s.txs) = 0
      BY <1>14
    <3> QED BY <3>1 DEF Logged
  <2>2. MoneyIn(e, k) \in Nat
    BY <1>6, <1>8, MoneyIs
  <2> QED BY <1>14, <1>15, <1>17, <1>18, <1>19, <1>20, <2>1, <2>2 DEF Ledger
<1>22. goods = Goods(e)
  BY <1>6, <1>10 DEF Goods, Sells
<1>23. InMemory(s) = {} /\ Paired(s.pl)
  BY <1>9, <1>14 DEF InMemory, Paired
<1>24. Kept(s, total)
  BY <1>6, <1>14, <1>21, <1>22, <1>23 DEF Kept
<1>25. Enough(s)
  <2>1. FreeMails(s) = {m \in Mail : d.mail[m] = None}
    BY <1>6, <1>9, <1>14 DEF FreeMails
  <2>2. Owed(rows) <= Owed(d.auction)
    BY <1>16, OwedLess
  <2>3. Owed(rows) \in Nat /\ Owed(d.auction) \in Nat /\ Cardinality(FreeMails(s)) \in Nat
    BY OwedIs, FreeMailsIs
  <2> QED BY <1>14, <2>1, <2>2, <2>3 DEF Enough
<1>26. Kept(World, total)'
  BY <1>13, <1>24
<1>27. Enough(World)'
  BY <1>13, <1>25
<1> QED BY <1>26, <1>27

\* Either end of a handler keeps the invariant.
LEMMA OutcomeKeeps ==
  ASSUME NEW s, NEW total, Kept(s, total), Enough(s), Outcome(s)
  PROVE  Kept(World, total)' /\ Enough(World)'
<1>1. s \in States /\ total \in Int
  BY DEF Kept, Ledger
<1>2. CASE /\ db' = s.db /\ pl' = s.pl /\ house' = s.house /\ aitems' = s.aitems /\ past' = s.past
           /\ cut' = s.cut
  <2>1. PICK t : t = [db |-> s.db, txs |-> <<>>, pl |-> s.pl, house |-> s.house,
                      aitems |-> s.aitems, past |-> s.past, cut |-> s.cut]
    OBVIOUS
  <2>2. World' = t
    BY <1>2, <2>1 DEF World
  <2>3. /\ t.db = s.db /\ t.txs = <<>> /\ t.pl = s.pl /\ t.house = s.house
        /\ t.aitems = s.aitems /\ t.past = s.past /\ t.cut = s.cut
    BY <2>1
  <2>4. t \in States
    <3>1. <<>> \in Seq(Transaction)
      BY EmptySeq
    <3> QED BY <1>1, <2>1, <3>1, StateFields DEF States
  <2>5. Ledger(t, {}, 0, total)
    <3>1. Logged(t, total)
      <4>1. Len(t.txs) = 0
        BY <2>3
      <4> QED BY <4>1 DEF Logged
    <3> QED BY <2>3, <2>4, <3>1 DEF Ledger, Kept
  <2>6. Kept(t, total)
    <3>1. InMemory(t) = InMemory(s)
      BY <2>3 DEF InMemory
    <3> QED BY <2>3, <2>5, <3>1 DEF Kept
  <2>7. Enough(t)
    <3>1. FreeMails(t) = FreeMails(s)
      BY <2>3 DEF FreeMails
    <3> QED BY <2>3, <3>1 DEF Enough
  <2>8. Kept(World, total)'
    BY <2>2, <2>6
  <2>9. Enough(World)'
    BY <2>2, <2>7
  <2> QED BY <2>8, <2>9
<1>3. CASE \E k \in 1 .. Len(s.txs) - 1 :
              /\ Cardinality({m \in Mail : s.txs[k].db.mail[m] = None}) >= Owed(s.txs[k].db.auction)
              /\ Restarted(s.txs[k].db, s.txs[k].past)
              /\ cut' = s.cut \cup s.txs[k].open
  <2>1. PICK k \in 1 .. Len(s.txs) - 1 :
              /\ Cardinality({m \in Mail : s.txs[k].db.mail[m] = None}) >= Owed(s.txs[k].db.auction)
              /\ Restarted(s.txs[k].db, s.txs[k].past)
              /\ cut' = s.cut \cup s.txs[k].open
    BY <1>3
  <2>2. PICK q, x : q = s.txs /\ x = q[k]
    OBVIOUS
  <2>3. q \in Seq(Transaction)
    BY <1>1, <2>2, StateFields
  <2>4. k \in 1 .. Len(q)
    BY <2>2, <2>3, LenProperties
  <2>5. x \in Transaction
    BY <2>2, <2>3, <2>4
  <2>6. TxInv(x, s.cut, total)
    BY <2>2, <2>4 DEF Kept, Ledger, Logged
  <2>7. PICK d, h, c : d = x.db /\ h = x.past /\ c = s.cut \cup x.open
    OBVIOUS
  <2>8. d \in Database /\ h \in Past /\ c \in SUBSET Thing
    <3>1. x.db \in Database /\ x.past \in Past /\ x.open \in SUBSET Thing
      BY <2>5 DEF Transaction
    <3>2. s.cut \in SUBSET Thing
      BY <1>1, StateFields
    <3> QED BY <2>7, <3>1, <3>2
  <2>9. /\ DbInv(d) /\ WonInv(d, h) /\ \A i \in Item \ c : Exact(d, i)
        /\ "money" \notin c => MoneyIn(d, h) = total
    BY <2>6, <2>7 DEF TxInv
  <2>10. /\ Cardinality({m \in Mail : d.mail[m] = None}) >= Owed(d.auction)
         /\ Restarted(d, h) /\ cut' = c
    BY <2>1, <2>2, <2>7
  <2> QED BY <1>1, <2>8, <2>9, <2>10, Restart
<1> QED BY <1>2, <1>3 DEF Outcome

LEMMA InvInit ==
  ASSUME Init
  PROVE  IInv
<1>1. start \in Start /\ start \in Situation
  BY AuctionConstants DEF Init
<1>2. PICK d : d = db
  OBVIOUS
<1>3. /\ d.gold = start.gold /\ d.inventory = start.inventory
      /\ d.instance = {i \in Item : start.inventory[i] # None} /\ d.attached = {}
      /\ d.auction = [a \in Auction |-> None] /\ d.mail = [m \in Mail |-> None]
  BY <1>2 DEF Init
<1>4. start.gold \in [Player -> 0 .. MaxGold] /\ start.inventory \in [Item -> Player \cup {None}]
  BY <1>1 DEF Situation
<1>5. d \in Database
  BY <1>2, <1>4 DEF Init, Database
<1>6. PICK h : h = past
  OBVIOUS
<1>7. h \in Past /\ h.money = 0 /\ \A a \in Auction : h.won[a] = None
  BY <1>6 DEF Init, Past
<1>8. World.db = d /\ World.past = h /\ World.txs = <<>> /\ World.pl = pl
      /\ World.house = house /\ World.aitems = aitems /\ World.cut = {}
  BY <1>2, <1>6 DEF World, Init
<1>9. pl = [p \in Player |-> None] /\ house = [a \in Auction |-> None] /\ aitems = {} /\ cut = {}
  BY DEF Init
<1>10. World \in States
  <2>1. <<>> \in Seq(Transaction)
    BY EmptySeq
  <2> QED BY <1>2, <1>5, <1>6, <1>7, <1>9, <2>1 DEF States, World
<1>11. DbInv(d) /\ WonInv(d, h)
  BY <1>3, <1>7 DEF DbInv, WonInv, Sells
<1>12. ASSUME NEW i \in Item PROVE Exact(d, i)
  <2>1. \A a \in Auction : ~Sells(d, a, i)
    BY <1>3 DEF Sells
  <2>2. \A m \in Mail, r \in Player : ~Posted(d, m, i, r)
    BY <1>3 DEF Posted
  <2>3. d.inventory[i] # None <=> i \in d.instance
    BY <1>3
  <2> QED BY <2>1, <2>2, <2>3 DEF Exact, Clean, Somewhere
<1>13. MoneyIn(d, h) = SumOver(start.gold, Player) /\ SumOver(start.gold, Player) \in Nat
  <2>1. /\ GoldOf(d) \in Nat /\ DepositOf(d) \in Nat /\ LetterOf(d) \in Nat
        /\ MoneyIn(d, h) = h.money + GoldOf(d) + DepositOf(d) + LetterOf(d)
    BY <1>5, <1>7, MoneyIs
  <2>2. GoldOf(d) = SumOver(start.gold, Player)
    BY <1>3 DEF GoldOf
  <2>3. DepositOf(d) = 0
    <3> DEFINE e == [d EXCEPT !.auction = d.auction]
    <3>1. \A a \in Auction : d.auction[a] = None
      BY <1>3
    <3>2. \A a \in Auction : d.auction[a] = IF a \in {} THEN None ELSE d.auction[a]
      OBVIOUS
    <3>3. \A a \in Auction : d.auction[a] = IF a \in Auction THEN None ELSE d.auction[a]
      BY <3>1
    <3>4. DepositOf(d) = DepositOf(d) + SumOver(Deposits(d.auction), Auction)
      BY <1>5, <3>3, DepositsGone
    <3> QED BY <2>1, <3>4 DEF DepositOf
  <2>4. LetterOf(d) = 0
    <3>1. \A m \in Mail : LetterWorth(d.mail[m]) = 0
      BY <1>3 DEF LetterWorth
    <3>2. \A m \in Mail : LetterWorth(d.mail[m]) = IF m \in Mail THEN 0 ELSE LetterWorth(d.mail[m])
      BY <3>1
    <3>3. LetterOf(d) = LetterOf(d) + SumOver(Letters(d.mail), Mail)
      BY <1>5, <3>2, LettersGone
    <3> QED BY <2>1, <3>3 DEF LetterOf
  <2> QED BY <1>7, <2>1, <2>2, <2>3, <2>4
<1>14. PICK s : s = World
  OBVIOUS
<1>15. Ledger(s, {}, 0, SumOver(start.gold, Player))
  <2>1. Logged(s, SumOver(start.gold, Player))
    <3>1. Len(s.txs) = 0
      BY <1>8, <1>14
    <3> QED BY <3>1 DEF Logged
  <2> QED BY <1>8, <1>10, <1>11, <1>12, <1>13, <1>14, <2>1 DEF Ledger
<1>16. InMemory(s) = {} /\ Paired(s.pl)
  BY <1>8, <1>9, <1>14 DEF InMemory, Paired
<1>17. s.house = s.db.auction /\ s.aitems = Goods(s.db)
  <2>1. Goods(d) = {}
    BY <1>3 DEF Goods, Sells
  <2> QED BY <1>3, <1>8, <1>9, <1>14, <2>1
<1>18. Kept(s, SumOver(start.gold, Player))
  BY <1>15, <1>16, <1>17 DEF Kept
<1>19. Enough(s)
  <2>1. Existing(s.house) = {} /\ Unsold(s.house) = {}
    BY <1>8, <1>9, <1>14 DEF Existing, Unsold
  <2>2. Owed(s.house) = 0
    BY <2>1, OwedIs, FS_EmptySet
  <2> QED BY <2>2, FreeMailsIs DEF Enough
<1> QED BY <1>1, <1>14, <1>18, <1>19 DEF IInv

LEMMA CrashKeeps ==
  ASSUME NEW total, Kept(World, total), Enough(World), Crash
  PROVE  Kept(World, total)' /\ Enough(World)'
<1>1. PICK s : s = World
  OBVIOUS
<1>2. /\ s.db = db /\ s.past = past /\ s.cut = cut /\ s.house = house
  BY <1>1 DEF World
<1>3. s \in States /\ total \in Int /\ Ledger(s, {}, 0, total) /\ s.house = s.db.auction
  BY <1>1 DEF Kept, Ledger
<1>4. PICK d, h, c : d = db /\ h = past /\ c = cut
  OBVIOUS
<1>5. d \in Database /\ h \in Past /\ c \in SUBSET Thing
  BY <1>2, <1>3, <1>4, StateFields
<1>6. /\ DbInv(d) /\ WonInv(d, h) /\ \A i \in Item \ c : Exact(d, i)
      /\ "money" \notin c => MoneyIn(d, h) = total
  <2>1. MoneyIn(d, h) \in Nat
    BY <1>5, MoneyIs
  <2> QED BY <1>2, <1>3, <1>4, <2>1 DEF Ledger
<1>7. Cardinality({m \in Mail : d.mail[m] = None}) >= Owed(d.auction)
  <2>1. FreeMails(s) \subseteq {m \in Mail : d.mail[m] = None}
    BY <1>2, <1>4 DEF FreeMails
  <2>2. IsFiniteSet({m \in Mail : d.mail[m] = None})
    BY MailConstants, FS_Subset
  <2>3. Cardinality(FreeMails(s)) <= Cardinality({m \in Mail : d.mail[m] = None})
        /\ Cardinality({m \in Mail : d.mail[m] = None}) \in Nat
    BY <2>1, <2>2, FS_Subset, FS_CardinalityType
  <2>4. Cardinality(FreeMails(s)) \in Nat /\ Owed(d.auction) \in Nat
    BY FreeMailsIs, OwedIs
  <2>5. Cardinality(FreeMails(s)) >= Owed(d.auction)
    BY <1>1, <1>2, <1>3, <1>4 DEF Enough
  <2> QED BY <2>3, <2>4, <2>5
<1>8. Restarted(d, h) /\ cut' = c
  BY <1>4 DEF Crash
<1> QED BY <1>3, <1>5, <1>6, <1>7, <1>8, Restart

-----------------------------------------------------------------------------
(* What is in memory *)

LEMMA MailInvSame ==
  ASSUME NEW d, NEW c, NEW e, NEW m, NEW p, MailInv(d, c, e, m, p), NEW f, NEW k,
         f.mail[m] = d.mail[m], Attached(f, m, p) = Attached(d, m, p), c \subseteq k
  PROVE  MailInv(f, k, e, m, p)
<1>1. Fresh(d, e, m, p) => Fresh(f, e, m, p)
  BY DEF Fresh
<1>2. Stale(d, e, m, c) => Stale(f, e, m, k)
  BY DEF Stale
<1> QED BY <1>1, <1>2 DEF MailInv

\* The same players are in the world, and they trade with each other.
Sides(a, b) ==
    \A q \in Player : /\ a[q] = None <=> b[q] = None
                      /\ a[q] # None => /\ b[q].inWorld = a[q].inWorld
                                        /\ a[q].trade = None <=> b[q].trade = None
                                        /\ a[q].trade # None => b[q].trade.with = a[q].trade.with

LEMMA PairedSame ==
  ASSUME NEW a \in [Player -> PlayerRecord \cup {None}], NEW b, Sides(a, b), Paired(a)
  PROVE  Paired(b)
<1> SUFFICES ASSUME NEW p \in Player, b[p] # None, b[p].trade # None
             PROVE  LET q == b[p].trade.with IN
                    /\ b[p].inWorld /\ q # p /\ b[q] # None /\ b[q].inWorld
                    /\ b[q].trade # None /\ b[q].trade.with = p
  BY DEF Paired
<1>1. a[p] # None /\ a[p].trade # None /\ a[p].inWorld = b[p].inWorld
      /\ b[p].trade.with = a[p].trade.with
  BY DEF Sides
<1>2. PICK q : q = a[p].trade.with
  OBVIOUS
<1>3. q \in Player
  <2>1. a[p].trade \in TradeData
    BY <1>1, PlayerFields
  <2> QED BY <1>2, <2>1 DEF TradeData
<1>4. a[p].inWorld /\ q # p /\ a[q] # None /\ a[q].inWorld
      /\ a[q].trade # None /\ a[q].trade.with = p
  BY <1>1, <1>2 DEF Paired
<1> QED BY <1>1, <1>2, <1>3, <1>4 DEF Sides

LEMMA EnoughSame ==
  ASSUME NEW s, NEW t, Enough(s), FreeMails(s) \subseteq FreeMails(t),
         Owed(t.house) <= Owed(s.house)
  PROVE  Enough(t)
<1>1. Cardinality(FreeMails(s)) <= Cardinality(FreeMails(t))
  BY FreeMailsIs, FS_Subset
<1>2. Cardinality(FreeMails(s)) \in Nat /\ Cardinality(FreeMails(t)) \in Nat
  BY FreeMailsIs
<1>3. Owed(t.house) \in Nat /\ Owed(s.house) \in Nat
  BY OwedIs
<1> QED BY <1>1, <1>2, <1>3 DEF Enough

\* t is s but for the players.
PlayersStep(s, t) ==
    /\ t \in States
    /\ t.db = s.db /\ t.txs = s.txs /\ t.house = s.house /\ t.aitems = s.aitems
    /\ t.past = s.past /\ t.cut = s.cut

LEMMA KeptPlayers ==
  ASSUME NEW s, NEW total, Kept(s, total), NEW t, PlayersStep(s, t),
         InMemory(t) # {} => AllClean(s.db),
         \A p \in InMemory(t) : PlayerInv(t.db, t.cut, t.pl[p], p),
         Paired(t.pl)
  PROVE  Kept(t, total)
<1>1. Ledger(t, {}, 0, total)
  <2>1. Logged(t, total)
    BY LoggedSame DEF PlayersStep, Kept, Ledger
  <2> QED BY <2>1 DEF PlayersStep, Kept, Ledger
<1> QED BY <1>1 DEF PlayersStep, Kept

\* t is s but for who is in the world and what the players offer and accept.
TradeStep(s, t) ==
    /\ PlayersStep(s, t)
    /\ \A q \in Player :
          /\ s.pl[q] = None => t.pl[q] = None
          /\ s.pl[q] # None => /\ t.pl[q] # None
                               /\ t.pl[q].gold = s.pl[q].gold /\ t.pl[q].bag = s.pl[q].bag
                               /\ t.pl[q].mails = s.pl[q].mails

LEMMA KeptTrades ==
  ASSUME NEW s, NEW total, Kept(s, total), Enough(s), NEW t, TradeStep(s, t), Paired(t.pl)
  PROVE  Kept(t, total) /\ Enough(t)
<1>1. InMemory(t) = InMemory(s)
  BY DEF InMemory, TradeStep
<1>2. FreeMails(t) = FreeMails(s)
  BY DEF FreeMails, TradeStep, PlayersStep
<1>3. t.house = s.house /\ Owed(t.house) <= Owed(s.house)
  BY OwedIs DEF TradeStep, PlayersStep
<1>4. Enough(t)
  BY <1>2, <1>3, EnoughSame
<1>5. ASSUME NEW p \in InMemory(t) PROVE PlayerInv(t.db, t.cut, t.pl[p], p)
  <2>1. p \in Player /\ s.pl[p] # None /\ PlayerInv(s.db, s.cut, s.pl[p], p)
    BY <1>1 DEF Kept, InMemory
  <2>2. /\ t.db = s.db /\ t.cut = s.cut
        /\ t.pl[p].gold = s.pl[p].gold /\ t.pl[p].bag = s.pl[p].bag
        /\ t.pl[p].mails = s.pl[p].mails
    BY <2>1 DEF TradeStep, PlayersStep
  <2> QED BY <2>1, <2>2 DEF PlayerInv, PurseInv, BagInv, BoxInv
<1>6. Kept(t, total)
  <2>1. InMemory(t) # {} => AllClean(s.db)
    BY <1>1 DEF Kept
  <2> QED BY <1>5, <2>1, KeptPlayers DEF TradeStep
<1> QED BY <1>4, <1>6

\* The offer of p changes, not his partner.
LEMMA OfferIs ==
  ASSUME NEW s \in States, NEW p \in Player, s.pl[p] # None, s.pl[p].trade # None,
         NEW r \in PlayerRecord, r.trade # None, r.trade.with = s.pl[p].trade.with,
         r.gold = s.pl[p].gold, r.bag = s.pl[p].bag, r.mails = s.pl[p].mails,
         r.inWorld = s.pl[p].inWorld,
         NEW t, PlayersStep(s, t), t.pl[p] = r, \A q \in Player : q # p => t.pl[q] = s.pl[q]
  PROVE  TradeStep(s, t) /\ Sides(s.pl, t.pl)
<1>1. r # None
  BY PlayerFields
<1> QED BY <1>1 DEF TradeStep, Sides

LEMMA TradeStepTwice ==
  ASSUME NEW s, NEW t, NEW u, TradeStep(s, t), TradeStep(t, u), Sides(s.pl, t.pl), Sides(t.pl, u.pl)
  PROVE  TradeStep(s, u) /\ Sides(s.pl, u.pl)
<1>1. PlayersStep(s, u)
  BY DEF TradeStep, PlayersStep
<1>2. TradeStep(s, u)
  BY <1>1 DEF TradeStep
<1>3. Sides(s.pl, u.pl)
  BY DEF Sides
<1> QED BY <1>2, <1>3

\* The purses and the bags of all but G, and the mails of all but M of G, are as stored.
Memory(s, G, M) ==
    /\ \A q \in InMemory(s) \ G : PurseInv(s.db, s.pl[q], q) /\ BagInv(s.db, s.pl[q], q)
    /\ \A q \in InMemory(s), m \in Mail :
          m \in DOMAIN s.pl[q].mails /\ ~(q \in G /\ m \in M) =>
              MailInv(s.db, s.cut, s.pl[q].mails[m], m, q)
    /\ Paired(s.pl)

LEMMA RecordOf ==
  ASSUME NEW s \in States, NEW q \in InMemory(s)
  PROVE  /\ q \in Player /\ s.pl[q] # None /\ s.pl[q] \in PlayerRecord
         /\ DOMAIN s.pl[q].mails \subseteq Mail /\ s.pl[q].bag \subseteq Item
         /\ s.pl[q].gold \in 0 .. MaxGold
         /\ \A m \in DOMAIN s.pl[q].mails : s.pl[q].mails[m] \in Letter
<1>1. q \in Player /\ s.pl[q] # None /\ s.pl[q] \in PlayerRecord
  BY StateFields DEF InMemory
<1>2. s.pl[q].mails \in PlayerMails /\ s.pl[q].bag \in SUBSET Item /\ s.pl[q].gold \in 0 .. MaxGold
  BY <1>1, PlayerFields
<1>3. DOMAIN s.pl[q].mails \in SUBSET Mail /\ s.pl[q].mails \in [DOMAIN s.pl[q].mails -> Letter]
  BY <1>2, PlayerMailsIs
<1> QED BY <1>1, <1>2, <1>3

LEMMA MemoryOf ==
  ASSUME NEW s, NEW total, Kept(s, total), NEW G, NEW M
  PROVE  Memory(s, G, M)
BY DEF Kept, Memory, PlayerInv, BoxInv

LEMMA KeptFrom ==
  ASSUME NEW s, NEW total, Ledger(s, {}, 0, total), NEW M, Memory(s, {}, M),
         s.house = s.db.auction, s.aitems = Goods(s.db), InMemory(s) # {} => AllClean(s.db)
  PROVE  Kept(s, total)
<1>1. ASSUME NEW q \in InMemory(s) PROVE PlayerInv(s.db, s.cut, s.pl[q], q)
  <2>1. s \in States
    BY DEF Ledger
  <2>2. DOMAIN s.pl[q].mails \subseteq Mail
    BY <2>1, RecordOf
  <2> QED BY <2>2 DEF Memory, PlayerInv, BoxInv
<1> QED BY <1>1 DEF Kept, Memory

\* More is in hand.
\* The tables that a player has in memory are the same, but for the gold of G.
SameTables(d, e, G) ==
    /\ \A q \in Player \ G : e.gold[q] = d.gold[q]
    /\ e.inventory = d.inventory /\ e.instance = d.instance
    /\ e.mail = d.mail /\ e.attached = d.attached

LEMMA MemorySame ==
  ASSUME NEW s, NEW G, NEW M, Memory(s, G, M), NEW t, t.pl = s.pl, s.cut \subseteq t.cut,
         SameTables(s.db, t.db, G)
  PROVE  Memory(t, G, M) /\ FreeMails(t) = FreeMails(s) /\ InMemory(t) = InMemory(s)
<1>1. InMemory(t) = InMemory(s)
  BY DEF InMemory
<1>2. FreeMails(t) = FreeMails(s)
  BY DEF FreeMails, SameTables
<1>3. ASSUME NEW m, NEW q PROVE Attached(t.db, m, q) = Attached(s.db, m, q)
  BY DEF Attached, SameTables
<1>4. ASSUME NEW q \in InMemory(t), NEW m \in Mail, m \in DOMAIN t.pl[q].mails,
             ~(q \in G /\ m \in M)
      PROVE  MailInv(t.db, t.cut, t.pl[q].mails[m], m, q)
  <2>1. MailInv(s.db, s.cut, t.pl[q].mails[m], m, q)
    BY <1>1, <1>4 DEF Memory
  <2>2. t.db.mail[m] = s.db.mail[m]
    BY DEF SameTables
  <2> QED BY <1>3, <2>1, <2>2, MailInvSame
<1>5. ASSUME NEW q \in InMemory(t) \ G
      PROVE  PurseInv(t.db, t.pl[q], q) /\ BagInv(t.db, t.pl[q], q)
  <2>1. PurseInv(s.db, s.pl[q], q) /\ BagInv(s.db, s.pl[q], q)
    BY <1>1 DEF Memory
  <2>2. q \in Player \ G
    BY DEF InMemory
  <2> QED BY <2>1, <2>2 DEF PurseInv, BagInv, SameTables
<1> QED BY <1>1, <1>2, <1>4, <1>5 DEF Memory

\* The record of p, who is in hand, is r, with the same mails but for M.
LEMMA MemoryRecord ==
  ASSUME NEW s \in States, NEW G, NEW M, Memory(s, G, M), NEW p \in G, p \in InMemory(s),
         NEW r \in PlayerRecord, r.inWorld = s.pl[p].inWorld, r.trade = s.pl[p].trade,
         DOMAIN r.mails = DOMAIN s.pl[p].mails,
         \A m \in DOMAIN r.mails \ M : r.mails[m] = s.pl[p].mails[m],
         NEW t, t.pl = [s.pl EXCEPT ![p] = r], t.db = s.db, t.cut = s.cut
  PROVE  Memory(t, G, M) /\ FreeMails(t) = FreeMails(s) /\ InMemory(t) = InMemory(s)
<1>1. p \in Player /\ s.pl[p] # None /\ r # None
  BY PlayerFields DEF InMemory
<1>2. t.pl[p] = r /\ \A q \in Player : q # p => t.pl[q] = s.pl[q]
  BY <1>1, StateFields
<1>3. InMemory(t) = InMemory(s)
  BY <1>1, <1>2 DEF InMemory
<1>4. FreeMails(t) = FreeMails(s)
  BY <1>1, <1>2 DEF FreeMails
<1>5. Paired(t.pl)
  <2>1. Sides(s.pl, t.pl)
    BY <1>1, <1>2 DEF Sides
  <2> QED BY <2>1, PairedSame, StateFields DEF Memory
<1>6. ASSUME NEW q \in InMemory(t) \ G
      PROVE  PurseInv(t.db, t.pl[q], q) /\ BagInv(t.db, t.pl[q], q)
  <2>1. q \in Player /\ q # p
    BY DEF InMemory
  <2> QED BY <1>2, <1>3, <2>1 DEF Memory
<1>7. ASSUME NEW q \in InMemory(t), NEW m \in Mail, m \in DOMAIN t.pl[q].mails,
             ~(q \in G /\ m \in M)
      PROVE  MailInv(t.db, t.cut, t.pl[q].mails[m], m, q)
  <2>1. m \in DOMAIN s.pl[q].mails /\ t.pl[q].mails[m] = s.pl[q].mails[m]
    BY <1>2, <1>7 DEF InMemory
  <2> QED BY <1>3, <1>7, <2>1 DEF Memory
<1> QED BY <1>3, <1>4, <1>5, <1>6, <1>7 DEF Memory

\* What is left of a player's record when the mail m comes.
Grown(a, b, m) ==
    /\ a = None <=> b = None
    /\ a # None =>
          /\ b.inWorld = a.inWorld /\ b.trade = a.trade /\ b.gold = a.gold /\ b.bag = a.bag
          /\ DOMAIN b.mails \subseteq DOMAIN a.mails \cup {m}
          /\ \A n \in DOMAIN a.mails : n # m /\ n \in DOMAIN b.mails /\ b.mails[n] = a.mails[n]
          /\ m \in DOMAIN b.mails => b.mails[m].state = "unchanged" /\ b.mails[m].removed = {}

LEMMA SentRecords ==
  ASSUME NEW s \in States, NEW m \in FreeMails(s), NEW row \in MailRow, NEW items, NEW open,
         NEW t, Sent(s, t, m, row, items, open)
  PROVE  /\ \A q \in Player : Grown(s.pl[q], t.pl[q], m)
         /\ \A q \in Player : s.pl[q] # None /\ m \in DOMAIN t.pl[q].mails =>
               q = row.receiver /\ t.pl[q].mails[m] = NewLetter(row, items)
<1>1. m \in Mail /\ \A q \in Player : s.pl[q] # None => m \notin DOMAIN s.pl[q].mails
  BY DEF FreeMails
<1>2. CASE InWorld(s, row.receiver)
  <2>1. PICK p : p = row.receiver
    OBVIOUS
  <2>2. p \in Player /\ s.pl[p] # None /\ s.pl[p] \in PlayerRecord
    BY <1>2, <2>1, StateFields DEF MailRow, InWorld
  <2>3. PICK mails : mails = Added(s.pl[p].mails, m, NewLetter(row, items))
    OBVIOUS
  <2>4. PICK r : r = [s.pl[p] EXCEPT !.mails = mails]
    OBVIOUS
  <2>5. r \in PlayerRecord /\ t.pl = [s.pl EXCEPT ![p] = r]
    BY <1>2, <2>1, <2>3, <2>4, Zenon DEF Sent
  <2>6. r # None
    BY <2>5, PlayerFields
  <2>7. r.mails = mails /\ r.inWorld = s.pl[p].inWorld /\ r.trade = s.pl[p].trade
        /\ r.gold = s.pl[p].gold /\ r.bag = s.pl[p].bag
    BY <2>2, <2>4 DEF PlayerRecord
  <2>8. /\ DOMAIN mails = DOMAIN s.pl[p].mails \cup {m}
        /\ mails[m] = NewLetter(row, items)
        /\ \A n \in DOMAIN s.pl[p].mails : n # m /\ mails[n] = s.pl[p].mails[n]
    BY <1>1, <2>2, <2>3 DEF Added
  <2>9. t.pl[p] = r /\ \A q \in Player : q # p => t.pl[q] = s.pl[q]
    BY <2>2, <2>5, StateFields
  <2>10. NewLetter(row, items).state = "unchanged" /\ NewLetter(row, items).removed = {}
    BY DEF NewLetter
  <2>11. Grown(s.pl[p], t.pl[p], m)
    BY <2>2, <2>6, <2>7, <2>8, <2>9, <2>10 DEF Grown
  <2>12. ASSUME NEW q \in Player, q # p PROVE Grown(s.pl[q], t.pl[q], m)
    BY <1>1, <2>9, <2>12 DEF Grown
  <2>13. ASSUME NEW q \in Player, s.pl[q] # None, m \in DOMAIN t.pl[q].mails
         PROVE  q = row.receiver /\ t.pl[q].mails[m] = NewLetter(row, items)
    BY <1>1, <2>1, <2>7, <2>8, <2>9, <2>13
  <2> QED BY <2>11, <2>12, <2>13
<1>3. CASE ~InWorld(s, row.receiver)
  <2>1. t.pl = s.pl
    BY <1>3 DEF Sent
  <2> QED BY <1>1, <2>1 DEF Grown
<1> QED BY <1>2, <1>3

LEMMA SentMemory ==
  ASSUME NEW s \in States, NEW G, NEW M, Memory(s, G, M),
         NEW m \in FreeMails(s), NEW row \in MailRow, NEW items \in SUBSET s.db.instance, NEW open,
         NEW t, Sent(s, t, m, row, items, open),
         InMemory(s) # {} => \A i \in Item \ items : Clean(s.db, i)
  PROVE  /\ Memory(t, G, M) /\ FreeMails(t) = FreeMails(s) \ {m} /\ InMemory(t) = InMemory(s)
         /\ t.db.gold = s.db.gold /\ t.db.inventory = s.db.inventory
         /\ t.db.instance = s.db.instance /\ t.db.auction = s.db.auction
<1>1. m \in Mail /\ s.db.mail[m] = None /\ s.db \in Database /\ row # None
      /\ \A q \in Player : s.pl[q] # None => m \notin DOMAIN s.pl[q].mails
  BY StateFields, NoneIsNothing DEF FreeMails
<1>2. PICK d, e : d = s.db /\ e = t.db
  OBVIOUS
<1>3. /\ e.gold = d.gold /\ e.inventory = d.inventory /\ e.instance = d.instance
      /\ e.auction = d.auction
      /\ e.mail = [d.mail EXCEPT ![m] = row]
      /\ e.attached = d.attached \cup {<<m, i, row.receiver>> : i \in items}
  <2>1. items \in SUBSET Item
    BY <1>1, DatabaseFields
  <2>2. e = PostedDb(d, m, row, items)
    BY <1>2 DEF Sent
  <2> QED BY <1>1, <1>2, <2>1, <2>2, PostedDbIs
<1>4. \A q \in Player : Grown(s.pl[q], t.pl[q], m)
  BY SentRecords
<1>5. \A q \in Player : s.pl[q] # None /\ m \in DOMAIN t.pl[q].mails =>
               q = row.receiver /\ t.pl[q].mails[m] = NewLetter(row, items)
  BY SentRecords
<1>6. InMemory(t) = InMemory(s)
  BY <1>4 DEF InMemory, Grown
<1>7. Paired(t.pl)
  <2>1. Sides(s.pl, t.pl)
    BY <1>4 DEF Sides, Grown
  <2> QED BY <2>1, PairedSame, StateFields DEF Memory
<1>8. e.mail[m] = row /\ \A n \in Mail : n # m => e.mail[n] = d.mail[n]
  BY <1>1, <1>2, <1>3, DatabaseFields
<1>9. FreeMails(t) = FreeMails(s) \ {m}
  <2>1. ASSUME NEW n \in Mail, n # m, NEW q \in Player
        PROVE  /\ s.pl[q] = None <=> t.pl[q] = None
               /\ s.pl[q] # None => (n \in DOMAIN s.pl[q].mails <=> n \in DOMAIN t.pl[q].mails)
    BY <1>4, <2>1 DEF Grown
  <2>2. ASSUME NEW n \in Mail, n # m PROVE n \in FreeMails(t) <=> n \in FreeMails(s)
    BY <1>2, <1>8, <2>1, <2>2 DEF FreeMails
  <2>3. m \notin FreeMails(t)
    BY <1>1, <1>2, <1>8 DEF FreeMails
  <2>4. FreeMails(t) \subseteq Mail /\ FreeMails(s) \subseteq Mail
    BY DEF FreeMails
  <2> QED BY <2>2, <2>3, <2>4
<1>10. ASSUME NEW q \in InMemory(t) \ G
       PROVE  PurseInv(t.db, t.pl[q], q) /\ BagInv(t.db, t.pl[q], q)
  <2>1. PurseInv(d, s.pl[q], q) /\ BagInv(d, s.pl[q], q)
    BY <1>2, <1>6 DEF Memory
  <2>2. t.pl[q].gold = s.pl[q].gold /\ t.pl[q].bag = s.pl[q].bag
    BY <1>4, <1>6 DEF InMemory, Grown
  <2> QED BY <1>2, <1>3, <2>1, <2>2 DEF PurseInv, BagInv
<1>11. ASSUME NEW q \in InMemory(t), NEW n \in Mail, n \in DOMAIN t.pl[q].mails,
              ~(q \in G /\ n \in M)
       PROVE  MailInv(t.db, t.cut, t.pl[q].mails[n], n, q)
  <2>1. q \in Player /\ s.pl[q] # None /\ Grown(s.pl[q], t.pl[q], m) /\ t.cut = s.cut
    BY <1>4, <1>6 DEF InMemory, Sent
  <2>2. CASE n = m
    <3>1. q = row.receiver /\ t.pl[q].mails[m] = NewLetter(row, items)
      BY <1>5, <1>11, <2>1, <2>2
    <3>2. PICK f : f = NewLetter(row, items)
      OBVIOUS
    <3>3. /\ f.removed = {} /\ f.state = "unchanged" /\ f.items = items /\ f.sender = row.sender
          /\ f.kind = row.kind /\ f.money = row.money /\ f.cod = row.cod
      BY <3>2 DEF NewLetter
    <3>4. Attached(e, m, q) = items
      <4>1. ASSUME NEW i \in e.instance, <<m, i, q>> \in e.attached PROVE i \in items
        <5>1. i \in Item
          BY <1>1, <1>2, <1>3, DatabaseFields
        <5>2. CASE <<m, i, q>> \in d.attached
          <6>1. i \notin items => Clean(d, i)
            BY <1>2, <1>6, <5>1
          <6>2. Posted(d, m, i, q) /\ d.mail[m] = None
            BY <1>1, <1>2, <5>2 DEF Posted
          <6> QED BY <1>1, <2>1, <6>1, <6>2 DEF Clean
        <5> QED BY <1>3, <4>1, <5>2
      <4>2. ASSUME NEW i \in items PROVE i \in e.instance /\ <<m, i, q>> \in e.attached
        BY <1>2, <1>3, <3>1
      <4> QED BY <4>1, <4>2 DEF Attached
    <3>5. Fresh(e, f, m, q)
      BY <1>1, <1>8, <3>1, <3>3, <3>4 DEF Fresh
    <3> QED BY <1>2, <2>2, <3>1, <3>2, <3>3, <3>5 DEF MailInv
  <2>3. CASE n # m
    <3>1. n \in DOMAIN s.pl[q].mails /\ t.pl[q].mails[n] = s.pl[q].mails[n]
      BY <1>11, <2>1, <2>3 DEF Grown
    <3>2. MailInv(s.db, s.cut, s.pl[q].mails[n], n, q)
      BY <1>6, <1>11, <3>1 DEF Memory
    <3>3. Attached(t.db, n, q) = Attached(s.db, n, q)
      BY <1>2, <1>3, <2>3 DEF Attached
    <3> QED BY <1>2, <1>8, <2>1, <2>3, <3>1, <3>2, <3>3, MailInvSame
  <2> QED BY <2>2, <2>3
<1> QED BY <1>2, <1>3, <1>6, <1>7, <1>9, <1>10, <1>11 DEF Memory

\* The purse and the bag of p are stored.
LEMMA SaveMemory ==
  ASSUME NEW s \in States, NEW G, NEW M, Memory(s, G, M), NEW p \in InMemory(s),
         s.pl[p].bag \subseteq s.db.instance,
         \A q \in InMemory(s) \ G : q # p => s.pl[q].bag \cap s.pl[p].bag = {},
         NEW t, t = SaveInventoryAndGoldToDB(s, p)
  PROVE  /\ Memory(t, G, M) /\ FreeMails(t) = FreeMails(s) /\ InMemory(t) = InMemory(s)
         /\ PurseInv(t.db, t.pl[p], p) /\ BagInv(t.db, t.pl[p], p)
         /\ t.pl = s.pl /\ t.db.instance = s.db.instance /\ t.db.mail = s.db.mail
         /\ t.db.attached = s.db.attached /\ t.db.auction = s.db.auction
         /\ \A i \in Item : t.db.inventory[i] = IF i \in s.pl[p].bag THEN p
                                                ELSE IF s.db.inventory[i] = p THEN None
                                                ELSE s.db.inventory[i]
<1>1. p \in Player /\ s.pl[p] # None /\ s.pl[p] \in PlayerRecord /\ s.pl[p].bag \subseteq Item
      /\ s.db \in Database /\ p # None
  BY RecordOf, StateFields, MailConstants
<1>2. PICK d, e, r : d = s.db /\ e = t.db /\ r = s.pl[p]
  OBVIOUS
<1>3. /\ t \in States /\ t.txs = s.txs /\ t.pl = s.pl /\ t.house = s.house /\ t.aitems = s.aitems
      /\ t.past = s.past /\ t.cut = s.cut /\ e = Stored(d, p, r)
  BY <1>1, <1>2, SaveIs DEF DbStep
<1>4. /\ e \in Database
      /\ e.attached = d.attached /\ e.auction = d.auction /\ e.mail = d.mail
      /\ e.gold = [d.gold EXCEPT ![p] = r.gold]
      /\ e.instance = d.instance \cup r.bag
      /\ \A i \in Item : e.inventory[i] = IF i \in r.bag THEN p
                                          ELSE IF d.inventory[i] = p THEN None
                                          ELSE d.inventory[i]
  BY <1>1, <1>2, <1>3, StoredIs DEF StoredAs
<1>5. e.instance = d.instance
  BY <1>2, <1>4
<1>6. d.instance \subseteq Item
  BY <1>1, <1>2, DatabaseFields
<1>7. InMemory(t) = InMemory(s) /\ FreeMails(t) = FreeMails(s)
  BY <1>2, <1>3, <1>4 DEF InMemory, FreeMails
<1>8. e.gold[p] = r.gold /\ \A q \in Player : q # p => e.gold[q] = d.gold[q]
  BY <1>1, <1>2, <1>4, DatabaseFields
<1>9. PurseInv(e, r, p) /\ BagInv(e, r, p)
  <2>1. \A i \in Item : e.inventory[i] = p <=> i \in r.bag
    BY <1>1, <1>4
  <2>2. r.bag \subseteq e.instance
    BY <1>4
  <2>3. r.bag = {i \in e.instance : e.inventory[i] = p}
    BY <1>5, <1>6, <2>1, <2>2
  <2> QED BY <1>8, <2>3 DEF PurseInv, BagInv
<1>10. ASSUME NEW q \in InMemory(t) \ G
       PROVE  PurseInv(t.db, t.pl[q], q) /\ BagInv(t.db, t.pl[q], q)
  <2>1. CASE q = p
    BY <1>2, <1>3, <1>9, <2>1
  <2>2. CASE q # p
    <3>1. q \in Player /\ q # None /\ PurseInv(d, s.pl[q], q) /\ BagInv(d, s.pl[q], q)
          /\ s.pl[q].bag \cap r.bag = {}
      BY <1>2, <1>7, <2>2, MailConstants DEF Memory, InMemory
    <3>2. PurseInv(e, s.pl[q], q)
      BY <1>8, <2>2, <3>1 DEF PurseInv
    <3>3. \A i \in d.instance : i \in r.bag => d.inventory[i] # q
      BY <3>1 DEF BagInv
    <3>4. \A i \in d.instance : e.inventory[i] = q <=> d.inventory[i] = q
      BY <1>4, <1>6, <2>2, <3>1, <3>3
    <3>5. BagInv(e, s.pl[q], q)
      BY <1>5, <3>1, <3>4 DEF BagInv
    <3> QED BY <1>2, <1>3, <3>2, <3>5
  <2> QED BY <2>1, <2>2
<1>11. ASSUME NEW q \in InMemory(t), NEW m \in Mail, m \in DOMAIN t.pl[q].mails,
              ~(q \in G /\ m \in M)
       PROVE  MailInv(t.db, t.cut, t.pl[q].mails[m], m, q)
  <2>1. MailInv(s.db, s.cut, t.pl[q].mails[m], m, q)
    BY <1>3, <1>7, <1>11 DEF Memory
  <2>2. Attached(t.db, m, q) = Attached(s.db, m, q)
    BY <1>2, <1>4, <1>5 DEF Attached
  <2> QED BY <1>2, <1>3, <1>4, <2>1, <2>2, MailInvSame
<1>12. Memory(t, G, M)
  BY <1>3, <1>10, <1>11 DEF Memory
<1>13. \A i \in Item : t.db.inventory[i] = IF i \in s.pl[p].bag THEN p
                                                ELSE IF s.db.inventory[i] = p THEN None
                                                ELSE s.db.inventory[i]
  BY <1>2, <1>4
<1> QED BY <1>2, <1>3, <1>4, <1>5, <1>7, <1>9, <1>12, <1>13

\* What a player did to a mail that is not stored yet.
Opened(d, e, m, p) ==
    \/ Held(e) = {} /\ e.removed = {} /\ d.mail[m] = None
    \/ /\ d.mail[m] # None /\ d.mail[m].receiver = p
       /\ e.sender = d.mail[m].sender /\ e.kind = d.mail[m].kind
       /\ e.removed \subseteq Item /\ e.items = Attached(d, m, p) \ e.removed

LEMMA SweepableIs ==
  ASSUME NEW s \in States, NEW G, NEW M, Memory(s, G, M), s.cut = {}, NEW p \in InMemory(s),
         \A m \in M : m \in DOMAIN s.pl[p].mails => s.pl[p].mails[m].state # "deleted"
  PROVE  /\ Sweepable(s.db, s.pl[p].mails, p)
         /\ Mended(s.pl[p].mails) \subseteq M
<1>1. PICK b : b = s.pl[p].mails
  OBVIOUS
<1>2. DOMAIN b \subseteq Mail /\ \A m \in DOMAIN b : b[m] \in Letter
  BY <1>1, RecordOf
<1>3. ASSUME NEW m \in DOMAIN b, m \notin M PROVE MailInv(s.db, {}, b[m], m, p)
  BY <1>1, <1>2, <1>3 DEF Memory
<1>4. Mended(b) \subseteq M
  BY <1>3 DEF Mended, MailInv
<1>5. ASSUME NEW m \in Gone(b)
      PROVE  \/ /\ s.db.mail[m] # None /\ s.db.mail[m].receiver = p
                /\ b[m].money = s.db.mail[m].money /\ b[m].items = Attached(s.db, m, p)
             \/ s.db.mail[m] = None /\ b[m].money = 0 /\ b[m].items = {}
  <2>1. m \in DOMAIN b /\ MailInv(s.db, {}, b[m], m, p) /\ b[m] \in Letter
    BY <1>1, <1>2, <1>3 DEF Gone
  <2>2. CASE Fresh(s.db, b[m], m, p)
    BY <2>2 DEF Fresh
  <2>3. CASE Stale(s.db, b[m], m, {})
    <3>1. Held(b[m]) = {} /\ s.db.mail[m] = None
      BY <2>3 DEF Stale
    <3>2. b[m].money \in Nat /\ b[m].cod \in Nat
      BY <2>1 DEF Letter
    <3>3. b[m].items = {} /\ b[m].money + b[m].cod = 0
      BY <3>1 DEF Held
    <3> QED BY <3>1, <3>2, <3>3
  <2> QED BY <2>1, <2>2, <2>3 DEF MailInv
<1> QED BY <1>1, <1>4, <1>5 DEF Sweepable

\* The mails of p are stored.
LEMMA SweepMemory ==
  ASSUME NEW s \in States, NEW G, NEW M, Memory(s, G, M), s.cut = {}, NEW p \in InMemory(s),
         NEW b, b = s.pl[p].mails, p \in G,
         \A m \in M \cap DOMAIN b : b[m].state = "changed" /\ Opened(s.db, b[m], m, p),
         \A m \in M, q \in InMemory(s) : q \in G /\ q # p => m \notin DOMAIN s.pl[q].mails,
         \A i \in Item \ Removed(b) : Clean(s.db, i),
         \A i \in Removed(b), n \in Mail, q \in Player :
             Posted(s.db, n, i, q) => n \in Mended(b) /\ i \in b[n].removed,
         NEW t, Saved2(s, t, p)
  PROVE  /\ Memory(t, G, {}) /\ FreeMails(s) \subseteq FreeMails(t) /\ InMemory(t) = InMemory(s)
         /\ \A q \in Player \ {p} : t.pl[q] = s.pl[q]
         /\ t.pl[p] = [s.pl[p] EXCEPT !.mails = Sweep(b)]
         /\ PurseInv(s.db, s.pl[p], p) => PurseInv(t.db, t.pl[p], p)
         /\ BagInv(s.db, s.pl[p], p) => BagInv(t.db, t.pl[p], p)
<1>1. p \in Player /\ s.pl[p] \in PlayerRecord /\ s.pl[p] # None /\ b \in PlayerMails
      /\ s.db \in Database /\ DOMAIN b \subseteq Mail /\ \A m \in DOMAIN b : b[m] \in Letter
  BY RecordOf, StateFields, PlayerFields
<1>2. PICK d, e, r : d = s.db /\ e = t.db /\ r = [s.pl[p] EXCEPT !.mails = Sweep(b)]
  OBVIOUS
<1>3. /\ r \in PlayerRecord /\ r # None /\ e = Swept(d, b) /\ t.pl = [s.pl EXCEPT ![p] = r]
      /\ t.cut = {} /\ t \in States
  <2>1. r \in PlayerRecord /\ t.db = Swept(s.db, b) /\ t.pl = [s.pl EXCEPT ![p] = r]
        /\ t.cut = s.cut /\ t \in States
    BY <1>2, Zenon DEF Saved2
  <2> QED BY <1>2, <2>1, PlayerFields
<1>4. /\ r.mails = Sweep(b) /\ r.inWorld = s.pl[p].inWorld /\ r.trade = s.pl[p].trade
      /\ r.gold = s.pl[p].gold /\ r.bag = s.pl[p].bag
  BY <1>1, <1>2 DEF PlayerRecord
<1>5. t.pl[p] = r /\ \A q \in Player : q # p => t.pl[q] = s.pl[q]
  BY <1>1, <1>3, StateFields
<1>6. InMemory(t) = InMemory(s)
  BY <1>1, <1>3, <1>5 DEF InMemory
<1>7. /\ DOMAIN Sweep(b) = DOMAIN b \ Gone(b)
      /\ \A m \in DOMAIN b \ Gone(b) :
            Sweep(b)[m] = [b[m] EXCEPT !.state = "unchanged", !.removed = {}]
  BY <1>1, SweepIs, Zenon
<1>8. /\ e \in Database
      /\ e.gold = d.gold /\ e.inventory = d.inventory /\ e.auction = d.auction
      /\ e.instance = d.instance \ UNION {b[m].items : m \in Gone(b)}
      /\ e.attached = {x \in d.attached : /\ x[1] \notin Gone(b)
                                          /\ x[2] \notin UNION {b[m].removed : m \in Mended(b)}}
      /\ \A m \in Mail :
            e.mail[m] = IF m \in Gone(b) THEN None
                        ELSE IF m \in Mended(b) /\ d.mail[m] # None
                        THEN [d.mail[m] EXCEPT !.money = b[m].money, !.cod = b[m].cod]
                        ELSE d.mail[m]
  <2>1. SweptAs(d, e, b)
    BY <1>1, <1>2, <1>3, SweptIs
  <2> QED BY <2>1, Zenon DEF SweptAs
<1>19. \A i : i \in e.instance <=> i \in d.instance /\ \A m \in Gone(b) : i \notin b[m].items
  <2>1. \A i : i \in UNION {b[m].items : m \in Gone(b)} <=> \E m \in Gone(b) : i \in b[m].items
    BY Zenon
  <2> QED BY <1>8, <2>1, Zenon
<1>20. \A i : i \in Removed(b) <=> \E m \in Mended(b) : i \in b[m].removed
  BY Zenon DEF Removed
<1>21. \A n, i, q : <<n, i, q>> \in e.attached
                    <=> <<n, i, q>> \in d.attached /\ n \notin Gone(b) /\ i \notin Removed(b)
  <2>1. e.attached = {x \in d.attached : x[1] \notin Gone(b) /\ x[2] \notin Removed(b)}
    BY <1>8, Zenon DEF Removed
  <2> HIDE DEF Removed
  <2> QED BY <2>1
<1>9. Sweepable(d, b, p) /\ Mended(b) \subseteq M
  <2>1. \A m \in M : m \in DOMAIN s.pl[p].mails => s.pl[p].mails[m].state # "deleted"
    OBVIOUS
  <2> QED BY <1>2, <2>1, SweepableIs
<1>10. Paired(t.pl)
  <2>1. Sides(s.pl, t.pl)
    BY <1>1, <1>3, <1>4, <1>5 DEF Sides
  <2> QED BY <2>1, PairedSame, StateFields DEF Memory
<1>11. FreeMails(s) \subseteq FreeMails(t)
  <2> SUFFICES ASSUME NEW m \in FreeMails(s) PROVE m \in FreeMails(t)
    OBVIOUS
  <2>1. m \in Mail /\ d.mail[m] = None /\ \A q \in Player : s.pl[q] # None => m \notin DOMAIN s.pl[q].mails
    BY <1>2 DEF FreeMails
  <2>2. m \notin DOMAIN b
    BY <1>1, <2>1
  <2>3. e.mail[m] = None
    BY <1>8, <2>1, Zenon
  <2>4. \A q \in Player : t.pl[q] # None => m \notin DOMAIN t.pl[q].mails
    BY <1>4, <1>5, <1>7, <2>1, <2>2, Zenon
  <2> QED BY <1>2, <2>1, <2>3, <2>4 DEF FreeMails
<1>12. ASSUME NEW q \in InMemory(s), BagInv(d, s.pl[q], q) PROVE BagInv(e, s.pl[q], q)
  <2>1. q \in Player /\ q # None
    BY MailConstants DEF InMemory
  <2>2. ASSUME NEW i \in d.instance, d.inventory[i] = q,
               NEW m \in Gone(b), i \in b[m].items
        PROVE  FALSE
    <3>1. i \in Item /\ m \in Mail
      BY <1>1, <1>2, DatabaseFields DEF Gone
    <3>2. Posted(d, m, i, p)
      BY <1>9, <2>2 DEF Sweepable, Attached, Posted
    <3>3. m \notin Mended(b)
      BY <2>2 DEF Gone, Mended
    <3>4. i \notin Removed(b)
      BY <1>1, <1>2, <3>1, <3>2, <3>3
    <3>5. Clean(d, i)
      BY <1>2, <3>1, <3>4
    <3> QED BY <1>1, <2>1, <2>2, <3>1, <3>2, <3>5 DEF Clean
  <2>3. \A i \in d.instance : d.inventory[i] = q => i \in e.instance
    BY <1>19, <2>2
  <2> QED BY <1>8, <1>12, <1>19, <2>3, Zenon DEF BagInv
<1>13. ASSUME NEW q \in InMemory(t) \ G
       PROVE  PurseInv(t.db, t.pl[q], q) /\ BagInv(t.db, t.pl[q], q)
  <2>1. q \in Player /\ q # p /\ PurseInv(d, s.pl[q], q) /\ BagInv(d, s.pl[q], q)
    BY <1>2, <1>6 DEF Memory, InMemory
  <2> QED BY <1>2, <1>5, <1>6, <1>8, <1>12, <2>1, Zenon DEF PurseInv
<1>14. ASSUME NEW m \in Mail, m \notin Gone(b), m \notin Mended(b), NEW q \in Player,
              d.mail[m] # None
       PROVE  e.mail[m] = d.mail[m] /\ Attached(e, m, q) = Attached(d, m, q)
  <2>1. e.mail[m] = d.mail[m]
    BY <1>8, <1>14, Zenon
  <2>2. ASSUME NEW i \in d.instance, <<m, i, q>> \in d.attached
        PROVE  i \in e.instance /\ <<m, i, q>> \in e.attached
    <3>1. i \in Item /\ Posted(d, m, i, q)
      BY <1>1, <1>2, <2>2, DatabaseFields DEF Posted
    <3>2. i \notin Removed(b)
      BY <1>2, <1>14, <3>1
    <3>3. Clean(d, i)
      BY <1>2, <3>1, <3>2
    <3>4. ASSUME NEW n \in Gone(b), i \in b[n].items PROVE FALSE
      <4>1. n \in Mail /\ Posted(d, n, i, p)
        BY <1>1, <1>9, <3>4 DEF Sweepable, Attached, Posted, Gone
      <4>2. n = m
        BY <1>1, <3>1, <3>3, <4>1 DEF Clean
      <4> QED BY <1>14, <4>2
    <3> QED BY <1>14, <1>19, <1>21, <2>2, <3>2, <3>4
  <2>3. \A i : i \in Attached(e, m, q) <=> i \in Attached(d, m, q)
    BY <1>19, <1>21, <2>2 DEF Attached
  <2> QED BY <2>1, <2>3 DEF Attached
<1>15. ASSUME NEW q \in InMemory(t), NEW m \in Mail, m \in DOMAIN t.pl[q].mails
       PROVE  MailInv(t.db, t.cut, t.pl[q].mails[m], m, q)
  <2>1. q \in Player
    BY DEF InMemory
  <2>2. CASE q # p
    <3>1. t.pl[q] = s.pl[q] /\ ~(q \in G /\ m \in M)
      BY <1>5, <1>6, <1>15, <2>1, <2>2
    <3>2. PICK f : f = s.pl[q].mails[m]
      OBVIOUS
    <3>3. MailInv(d, {}, f, m, q)
      BY <1>2, <1>6, <1>15, <3>1, <3>2 DEF Memory
    <3>4. CASE Fresh(d, f, m, q)
      <4>1. d.mail[m] # None /\ d.mail[m].receiver = q
        BY <3>4 DEF Fresh
      <4>2. m \notin Gone(b)
        BY <1>9, <2>2, <4>1 DEF Sweepable
      <4>3. m \notin Mended(b)
        <5>1. ASSUME m \in Mended(b) PROVE FALSE
          <6>1. m \in M \cap DOMAIN b
            BY <1>9, <5>1 DEF Mended
          <6>2. Opened(d, b[m], m, p)
            BY <1>2, <6>1
          <6> QED BY <2>2, <4>1, <6>2 DEF Opened
        <5> QED BY <5>1
      <4>4. e.mail[m] = d.mail[m] /\ Attached(e, m, q) = Attached(d, m, q)
        BY <1>14, <2>1, <4>1, <4>2, <4>3
      <4>5. MailInv(e, {}, f, m, q)
        <5>1. {} \subseteq {}
          OBVIOUS
        <5> QED BY <3>3, <4>4, <5>1, MailInvSame, Zenon
      <4> QED BY <1>2, <1>3, <3>1, <3>2, <4>5, Zenon
    <3>5. CASE Stale(d, f, m, {})
      <4>1. Held(f) = {} /\ d.mail[m] = None
        BY <3>5 DEF Stale
      <4>2. e.mail[m] = None
        BY <1>8, <4>1, Zenon
      <4>3. Stale(e, f, m, {})
        BY <4>1, <4>2 DEF Stale
      <4> QED BY <1>2, <1>3, <3>1, <3>2, <3>3, <4>3 DEF MailInv
    <3> QED BY <3>3, <3>4, <3>5 DEF MailInv
  <2>3. CASE q = p
    <3>1. m \in DOMAIN b \ Gone(b)
          /\ t.pl[q].mails[m] = [b[m] EXCEPT !.state = "unchanged", !.removed = {}]
      BY <1>4, <1>5, <1>7, <1>15, <2>3, Zenon
    <3>2. PICK f : f = [b[m] EXCEPT !.state = "unchanged", !.removed = {}]
      OBVIOUS
    <3>3. /\ f.state = "unchanged" /\ f.removed = {} /\ f.sender = b[m].sender
          /\ f.kind = b[m].kind /\ f.money = b[m].money /\ f.cod = b[m].cod
          /\ f.items = b[m].items
      BY <1>1, <3>1, <3>2 DEF Letter
    <3>4. Held(f) = Held(b[m])
      BY <3>3 DEF Held
    <3>5. CASE m \notin M
      <4>1. MailInv(d, {}, b[m], m, p)
        BY <1>1, <1>2, <3>1, <3>5 DEF Memory
      <4>2. m \notin Gone(b) /\ m \notin Mended(b)
        BY <1>9, <3>1, <3>5
      <4>3. CASE Fresh(d, b[m], m, p)
        <5>1. e.mail[m] = d.mail[m] /\ Attached(e, m, p) = Attached(d, m, p)
          BY <1>1, <1>14, <4>2, <4>3 DEF Fresh
        <5>2. Fresh(e, f, m, p)
          BY <3>3, <4>3, <5>1 DEF Fresh
        <5> QED BY <1>2, <2>3, <3>1, <3>2, <3>3, <5>2 DEF MailInv
      <4>4. CASE Stale(d, b[m], m, {})
        <5>1. Held(b[m]) = {} /\ d.mail[m] = None
          BY <4>4 DEF Stale
        <5>2. e.mail[m] = None
          BY <1>8, <5>1, Zenon
        <5>3. Stale(e, f, m, t.cut)
          BY <3>4, <5>1, <5>2 DEF Stale
        <5> QED BY <1>2, <2>3, <3>1, <3>2, <3>3, <5>3 DEF MailInv
      <4> QED BY <4>1, <4>3, <4>4 DEF MailInv
    <3>6. CASE m \in M
      <4>1. b[m].state = "changed" /\ Opened(d, b[m], m, p) /\ m \in Mended(b)
        BY <1>2, <3>1, <3>6 DEF Mended
      <4>2. CASE Held(b[m]) = {} /\ b[m].removed = {} /\ d.mail[m] = None
        <5>1. e.mail[m] = None
          BY <1>8, <4>2, Zenon
        <5>2. Stale(e, f, m, t.cut)
          BY <3>4, <4>2, <5>1 DEF Stale
        <5> QED BY <1>2, <2>3, <3>1, <3>2, <3>3, <5>2 DEF MailInv
      <4>3. CASE /\ d.mail[m] # None /\ d.mail[m].receiver = p
                 /\ b[m].sender = d.mail[m].sender /\ b[m].kind = d.mail[m].kind
                 /\ b[m].removed \subseteq Item
                 /\ b[m].items = Attached(d, m, p) \ b[m].removed
        <5>1. e.mail[m] = [d.mail[m] EXCEPT !.money = b[m].money, !.cod = b[m].cod]
              /\ m \notin Gone(b) /\ d.mail[m] \in MailRow
          <6>1. m \notin Gone(b) /\ m \in Mail /\ d.mail[m] \in MailRow
            BY <1>1, <1>2, <3>1, <4>3, DatabaseFields
          <6>2. e.mail[m] = IF m \in Gone(b) THEN None
                        ELSE IF m \in Mended(b) /\ d.mail[m] # None
                        THEN [d.mail[m] EXCEPT !.money = b[m].money, !.cod = b[m].cod]
                        ELSE d.mail[m]
            BY <1>8, <6>1, Zenon
          <6> QED BY <4>1, <4>3, <6>1, <6>2, Zenon
        <5>2. /\ e.mail[m].money = f.money /\ e.mail[m].cod = f.cod
              /\ e.mail[m].receiver = p /\ e.mail[m].sender = f.sender /\ e.mail[m].kind = f.kind
          BY <3>3, <4>3, <5>1 DEF MailRow
        <5>3. e.mail[m] # None
          <6>1. e.mail[m] \in MailRow
            BY <1>1, <3>1, <5>1 DEF MailRow, Letter
          <6> QED BY <6>1, NoneIsNothing
        <5>4. ASSUME NEW i \in d.instance, <<m, i, p>> \in d.attached, i \notin b[m].removed
              PROVE  i \in e.instance /\ <<m, i, p>> \in e.attached
          <6>1. i \in Item /\ Posted(d, m, i, p)
            BY <1>1, <1>2, <5>4, DatabaseFields DEF Posted
          <6>2. i \notin Removed(b)
            BY <1>1, <1>2, <3>1, <5>4, <6>1
          <6>3. Clean(d, i)
            BY <1>2, <6>1, <6>2
          <6>4. ASSUME NEW n \in Gone(b), i \in b[n].items PROVE FALSE
            <7>1. n \in Mail /\ Posted(d, n, i, p)
              BY <1>1, <1>9, <6>4 DEF Sweepable, Attached, Posted, Gone
            <7>2. n = m
              BY <1>1, <3>1, <6>1, <6>3, <7>1 DEF Clean
            <7> QED BY <5>1, <7>2
          <6> QED BY <1>19, <1>21, <5>1, <5>4, <6>2, <6>4
        <5>5. ASSUME NEW i \in e.instance, <<m, i, p>> \in e.attached
              PROVE  i \in d.instance /\ <<m, i, p>> \in d.attached /\ i \notin b[m].removed
          BY <1>19, <1>20, <1>21, <4>1, <5>5
        <5>6. Attached(e, m, p) = f.items
          BY <3>3, <4>3, <5>4, <5>5, Zenon DEF Attached
        <5>7. Fresh(e, f, m, p)
          BY <5>2, <5>3, <5>6 DEF Fresh
        <5> QED BY <1>2, <2>3, <3>1, <3>2, <3>3, <5>7 DEF MailInv
      <4> QED BY <4>1, <4>2, <4>3, Zenon DEF Opened
    <3> QED BY <3>5, <3>6
  <2> QED BY <2>2, <2>3
<1>16. Memory(t, G, {})
  BY <1>10, <1>13, <1>15 DEF Memory
<1>17. PurseInv(s.db, s.pl[p], p) => PurseInv(t.db, t.pl[p], p)
  BY <1>2, <1>4, <1>5, <1>8, Zenon DEF PurseInv
<1>18. BagInv(s.db, s.pl[p], p) => BagInv(t.db, t.pl[p], p)
  BY <1>2, <1>4, <1>5, <1>12 DEF BagInv
<1> QED BY <1>2, <1>5, <1>6, <1>11, <1>16, <1>17, <1>18

-----------------------------------------------------------------------------
(* A character enters the world *)

LEMMA WorldIs ==
  /\ World.db = db /\ World.txs = <<>> /\ World.pl = pl /\ World.house = house
  /\ World.aitems = aitems /\ World.past = past /\ World.cut = cut
BY DEF World

LEMMA KeptStates ==
  ASSUME NEW s, NEW total, Kept(s, total)
  PROVE  s \in States /\ s.db \in Database
BY StateFields DEF Kept, Ledger

\* As long as no crash left anything stored by half.
LEMMA KeptClean ==
  ASSUME NEW s, NEW total, Kept(s, total), s.cut = {}
  PROVE  (\A i \in Item : Exact(s.db, i)) /\ AllClean(s.db)
BY DEF Kept, Ledger, Exact, AllClean

LEMMA LoadedIs ==
  ASSUME NEW d \in Database, NEW p \in Player
  PROVE  /\ Loaded(d, p) \in PlayerRecord
         /\ Loaded(d, p).trade = None /\ Loaded(d, p).inWorld = FALSE
         /\ \A m \in DOMAIN Loaded(d, p).mails : d.mail[m] # None
         /\ \A c : PlayerInv(d, c, Loaded(d, p), p)
<1>1. PICK bag : bag = {i \in d.instance : d.inventory[i] = p}
  OBVIOUS
<1>2. PICK mine : mine = {m \in Mail : d.mail[m] # None /\ d.mail[m].receiver = p}
  OBVIOUS
<1>3. PICK mails : mails = [m \in mine |->
                              [sender |-> d.mail[m].sender, kind |-> d.mail[m].kind,
                               money |-> d.mail[m].money, cod |-> d.mail[m].cod,
                               items |-> Attached(d, m, p), removed |-> {},
                               state |-> "unchanged"]]
  OBVIOUS
<1>4. PICK r : r = Loaded(d, p)
  OBVIOUS
<1>5. r = [inWorld |-> FALSE, trade |-> None, gold |-> d.gold[p], bag |-> bag, mails |-> mails]
  BY <1>1, <1>2, <1>3, <1>4, Zenon DEF Loaded
<1>6. ASSUME NEW m \in mine
      PROVE  /\ mails[m] \in Letter /\ m \in Mail /\ d.mail[m] # None /\ d.mail[m].receiver = p
             /\ mails[m].removed = {} /\ mails[m].state = "unchanged"
             /\ Fresh(d, mails[m], m, p)
  <2>1. PICK f : f = mails[m]
    OBVIOUS
  <2>2. f = [sender |-> d.mail[m].sender, kind |-> d.mail[m].kind,
             money |-> d.mail[m].money, cod |-> d.mail[m].cod,
             items |-> Attached(d, m, p), removed |-> {}, state |-> "unchanged"]
    BY <1>3, <2>1
  <2>3. m \in Mail /\ d.mail[m] # None /\ d.mail[m].receiver = p
    BY <1>2
  <2>4. d.mail[m] \in MailRow
    BY <2>3, DatabaseFields
  <2>5. Attached(d, m, p) \subseteq Item
    BY DatabaseFields DEF Attached
  <2>6. f \in Letter
    BY <2>2, <2>4, <2>5 DEF MailRow, Letter, MailState
  <2>7. Fresh(d, f, m, p)
    BY <2>2, <2>3 DEF Fresh
  <2> QED BY <2>1, <2>2, <2>3, <2>6, <2>7
<1>7. mails \in PlayerMails
  <2>1. DOMAIN mails = mine /\ mails = [m \in DOMAIN mails |-> mails[m]]
    BY <1>3
  <2>2. mine \in SUBSET Mail
    BY <1>2
  <2> QED BY <1>6, <2>1, <2>2, PlayerMailsIs
<1>8. r \in PlayerRecord
  <2>1. d.gold[p] \in 0 .. MaxGold /\ bag \in SUBSET Item
    BY <1>1, DatabaseFields
  <2> QED BY <1>5, <1>7, <2>1 DEF PlayerRecord
<1>9. r.gold = d.gold[p] /\ r.bag = bag /\ r.mails = mails /\ DOMAIN mails = mine
  BY <1>3, <1>5
<1>10. ASSUME NEW c PROVE PlayerInv(d, c, r, p)
  <2>1. BoxInv(d, c, r, p)
    BY <1>6, <1>9 DEF BoxInv, MailInv
  <2> QED BY <1>1, <1>9, <2>1 DEF PlayerInv, PurseInv, BagInv
<1>11. \A c : PlayerInv(d, c, r, p)
  BY <1>10
<1>12. r.trade = None /\ r.inWorld = FALSE
  BY <1>5
<1>13. \A m \in DOMAIN r.mails : d.mail[m] # None
  BY <1>6, <1>9
<1> QED BY <1>4, <1>8, <1>11, <1>12, <1>13, Zenon

LEMMA LoginKeeps ==
  ASSUME NEW total, Kept(World, total), Enough(World), cut = {}, NEW p \in Player, LoginQueries(p)
  PROVE  Kept(World, total)' /\ Enough(World)'
<1>1. PICK s : s = World
  OBVIOUS
<1>2. s.db = db /\ s.pl = pl /\ s.cut = {} /\ s \in States /\ db \in Database
  BY <1>1, WorldIs, KeptStates
<1>3. PICK r : r = Loaded(db, p)
  OBVIOUS
<1>4. /\ r \in PlayerRecord /\ r.trade = None /\ r # None
      /\ \A m \in DOMAIN r.mails : db.mail[m] # None
      /\ PlayerInv(db, {}, r, p)
  BY <1>2, <1>3, LoadedIs, PlayerFields
<1>5. PICK players : players = [pl EXCEPT ![p] = r]
  OBVIOUS
<1>6. players \in [Player -> PlayerRecord \cup {None}]
  BY <1>2, <1>4, <1>5, StateFields
<1>7. PICK t : t = [s EXCEPT !.pl = players]
  OBVIOUS
<1>8. [World EXCEPT !.pl[p] = Loaded(db, p)] = t
  BY <1>1, <1>2, <1>3, <1>5, <1>7 DEF States
<1>9. PlayersStep(s, t) /\ t.pl = players
  BY <1>2, <1>6, <1>7 DEF States, PlayersStep
<1>10. pl[p] = None /\ Outcome(t)
  BY <1>8 DEF LoginQueries
<1>11. players[p] = r /\ \A q \in Player : q # p => players[q] = pl[q]
  BY <1>2, <1>5, StateFields
<1>12. Paired(players)
  <2> SUFFICES ASSUME NEW q \in Player, players[q] # None, players[q].trade # None
               PROVE  LET x == players[q].trade.with IN
                      /\ players[q].inWorld /\ x # q /\ players[x] # None /\ players[x].inWorld
                      /\ players[x].trade # None /\ players[x].trade.with = q
    BY DEF Paired
  <2>1. q # p /\ players[q] = pl[q]
    BY <1>4, <1>11
  <2>2. PICK x : x = pl[q].trade.with
    OBVIOUS
  <2>3. x \in Player
    <3>1. pl[q] \in PlayerRecord
      BY <1>2, <2>1, StateFields
    <3>2. pl[q].trade \in TradeData
      BY <2>1, <3>1, PlayerFields
    <3> QED BY <2>2, <3>2 DEF TradeData
  <2>4. /\ pl[q].inWorld /\ x # q /\ pl[x] # None /\ pl[x].inWorld
        /\ pl[x].trade # None /\ pl[x].trade.with = q
    BY <1>1, <1>2, <2>1, <2>2 DEF Kept, Paired
  <2>5. players[x] = pl[x]
    BY <1>10, <1>11, <2>3, <2>4
  <2> QED BY <2>1, <2>2, <2>4, <2>5
<1>13. Kept(t, total)
  <2>1. AllClean(s.db)
    BY <1>1, <1>2, KeptClean
  <2>2. ASSUME NEW q \in InMemory(t) PROVE PlayerInv(t.db, t.cut, t.pl[q], q)
    <3>1. t.db = db /\ t.cut = {}
      BY <1>2, <1>9 DEF PlayersStep
    <3>2. CASE q = p
      BY <1>4, <1>9, <1>11, <3>1, <3>2
    <3>3. CASE q # p
      <4>1. q \in InMemory(s) /\ t.pl[q] = s.pl[q]
        BY <1>2, <1>9, <1>11, <3>3 DEF InMemory
      <4>2. PlayerInv(s.db, s.cut, s.pl[q], q)
        BY <1>1, <4>1 DEF Kept
      <4> QED BY <1>2, <3>1, <4>1, <4>2
    <3> QED BY <3>2, <3>3
  <2> QED BY <1>1, <1>9, <1>12, <2>1, <2>2, KeptPlayers
<1>14. Enough(t)
  <2>1. t.db = db /\ t.house = s.house
    BY <1>2, <1>9 DEF PlayersStep
  <2>2. FreeMails(s) \subseteq FreeMails(t)
    BY <1>2, <1>4, <1>9, <1>10, <1>11, <2>1 DEF FreeMails
  <2>3. Owed(t.house) <= Owed(s.house)
    BY <2>1, OwedIs
  <2> QED BY <1>1, <2>2, <2>3, EnoughSame
<1> QED BY <1>10, <1>13, <1>14, OutcomeKeeps

LEMMA PlayerLoginKeeps ==
  ASSUME NEW total, Kept(World, total), Enough(World), NEW p \in Player, HandlePlayerLogin(p)
  PROVE  Kept(World, total)' /\ Enough(World)'
<1>1. PICK s : s = World
  OBVIOUS
<1>2. s.pl = pl /\ s \in States
  BY <1>1, WorldIs, KeptStates
<1>3. pl[p] # None /\ ~pl[p].inWorld
  BY DEF HandlePlayerLogin
<1>4. PICK r : r = [pl[p] EXCEPT !.inWorld = TRUE]
  OBVIOUS
<1>5. pl[p] \in PlayerRecord
  BY <1>2, <1>3, StateFields
<1>6. /\ r \in PlayerRecord /\ r # None /\ r.inWorld /\ r.trade = pl[p].trade
      /\ r.gold = pl[p].gold /\ r.bag = pl[p].bag /\ r.mails = pl[p].mails
  <2>1. /\ r \in PlayerRecord /\ r.inWorld /\ r.trade = pl[p].trade
        /\ r.gold = pl[p].gold /\ r.bag = pl[p].bag /\ r.mails = pl[p].mails
    BY <1>4, <1>5 DEF PlayerRecord
  <2> QED BY <2>1, PlayerFields
<1>7. PICK players : players = [pl EXCEPT ![p] = r]
  OBVIOUS
<1>8. players \in [Player -> PlayerRecord \cup {None}]
  BY <1>2, <1>6, <1>7, StateFields
<1>9. PICK t : t = [s EXCEPT !.pl = players]
  OBVIOUS
<1>10. [World EXCEPT !.pl[p].inWorld = TRUE] = t
  BY <1>1, <1>2, <1>4, <1>5, <1>7, <1>9 DEF States
<1>11. PlayersStep(s, t) /\ t.pl = players
  BY <1>2, <1>8, <1>9 DEF States, PlayersStep
<1>12. players[p] = r /\ \A q \in Player : q # p => players[q] = pl[q]
  BY <1>2, <1>7, StateFields
<1>13. TradeStep(s, t)
  BY <1>2, <1>3, <1>6, <1>11, <1>12 DEF TradeStep
<1>14. Paired(pl)
  BY <1>1, <1>2 DEF Kept
<1>15. pl[p].trade = None
  BY <1>3, <1>14 DEF Paired
<1>16. Paired(players)
  <2> SUFFICES ASSUME NEW q \in Player, players[q] # None, players[q].trade # None
               PROVE  LET x == players[q].trade.with IN
                      /\ players[q].inWorld /\ x # q /\ players[x] # None /\ players[x].inWorld
                      /\ players[x].trade # None /\ players[x].trade.with = q
    BY DEF Paired
  <2>1. q # p /\ players[q] = pl[q]
    BY <1>6, <1>12, <1>15
  <2>2. PICK x : x = pl[q].trade.with
    OBVIOUS
  <2>3. x \in Player
    <3>1. pl[q] \in PlayerRecord
      BY <1>2, <2>1, StateFields
    <3>2. pl[q].trade \in TradeData
      BY <2>1, <3>1, PlayerFields
    <3> QED BY <2>2, <3>2 DEF TradeData
  <2>4. /\ pl[q].inWorld /\ x # q /\ pl[x] # None /\ pl[x].inWorld
        /\ pl[x].trade # None /\ pl[x].trade.with = q
    BY <1>14, <2>1, <2>2 DEF Paired
  <2>5. players[x] = pl[x]
    BY <1>3, <1>12, <2>3, <2>4
  <2> QED BY <2>1, <2>2, <2>4, <2>5
<1>17. Kept(t, total) /\ Enough(t)
  BY <1>1, <1>11, <1>13, <1>16, KeptTrades
<1>18. Outcome(t)
  BY <1>10 DEF HandlePlayerLogin
<1> QED BY <1>17, <1>18, OutcomeKeeps

-----------------------------------------------------------------------------
(* Trades *)

LEMMA SetAcceptedIs ==
  ASSUME NEW s \in States, NEW p \in Player, s.pl[p] # None, s.pl[p].trade # None,
         NEW seen \in [item : Item \cup {None}, money : Nat] \cup {None},
         NEW t, t = SetAccepted(s, p, seen)
  PROVE  TradeStep(s, t) /\ Sides(s.pl, t.pl)
<1>1. PICK r, o : r = s.pl[p] /\ o = [s.pl[p].trade EXCEPT !.seen = seen]
  OBVIOUS
<1>2. r \in PlayerRecord /\ r.trade \in TradeData
  BY <1>1, StateFields, PlayerFields
<1>3. o \in TradeData /\ o.with = s.pl[p].trade.with
  BY <1>1, <1>2 DEF TradeData
<1>4. PICK u : u = [r EXCEPT !.trade = o]
  OBVIOUS
<1>5. /\ u \in PlayerRecord /\ u.trade = o /\ u.gold = r.gold /\ u.bag = r.bag
      /\ u.mails = r.mails /\ u.inWorld = r.inWorld
  BY <1>2, <1>3, <1>4 DEF PlayerRecord
<1>6. PICK players : players = [s.pl EXCEPT ![p] = u]
  OBVIOUS
<1>7. players \in [Player -> PlayerRecord \cup {None}]
  BY <1>5, <1>6, StateFields
<1>8. t = [s EXCEPT !.pl = players]
  BY <1>1, <1>2, <1>4, <1>6 DEF SetAccepted, States, PlayerRecord
<1>9. PlayersStep(s, t) /\ t.pl = players
  BY <1>7, <1>8 DEF States, PlayersStep
<1>10. players[p] = u /\ \A q \in Player : q # p => players[q] = s.pl[q]
  BY <1>6, StateFields
<1>11. o # None
  BY <1>3, NoneIsNothing
<1> QED BY <1>1, <1>3, <1>5, <1>9, <1>10, <1>11, OfferIs

LEMMA TradeStepPlayers ==
  ASSUME NEW s, NEW t, Sides(s.pl, t.pl), NEW p \in Player, s.pl[p] # None, s.pl[p].trade # None
  PROVE  t.pl[p] # None /\ t.pl[p].trade # None /\ t.pl[p].trade.with = s.pl[p].trade.with
BY DEF Sides

LEMMA BothUnacceptedIs ==
  ASSUME NEW s \in States, NEW p \in Player, s.pl[p] # None, s.pl[p].trade # None, Paired(s.pl),
         NEW t, t = BothUnaccepted(s, p)
  PROVE  TradeStep(s, t) /\ Sides(s.pl, t.pl)
<1>1. PICK q : q = s.pl[p].trade.with
  OBVIOUS
<1>2. q \in Player /\ s.pl[q] # None /\ s.pl[q].trade # None
  <2>1. s.pl[p].trade \in TradeData
    BY StateFields, PlayerFields
  <2> QED BY <1>1, <2>1 DEF Paired, TradeData
<1>3. PICK u : u = SetAccepted(s, p, None)
  OBVIOUS
<1>4. TradeStep(s, u) /\ Sides(s.pl, u.pl)
  BY <1>3, SetAcceptedIs
<1>5. u \in States /\ u.pl[q] # None /\ u.pl[q].trade # None
  BY <1>2, <1>4, TradeStepPlayers DEF TradeStep, PlayersStep
<1>6. t = SetAccepted(u, q, None)
  BY <1>1, <1>3 DEF BothUnaccepted, Unaccepted
<1>7. TradeStep(u, t) /\ Sides(u.pl, t.pl)
  BY <1>2, <1>5, <1>6, SetAcceptedIs
<1> QED BY <1>4, <1>7, TradeStepTwice

LEMMA SidesKept ==
  ASSUME NEW s, NEW total, Kept(s, total), Enough(s), NEW t, TradeStep(s, t), Sides(s.pl, t.pl)
  PROVE  Kept(t, total) /\ Enough(t)
<1>1. Paired(s.pl) /\ s.pl \in [Player -> PlayerRecord \cup {None}]
  BY KeptStates, StateFields DEF Kept
<1>2. Paired(t.pl)
  BY <1>1, PairedSame
<1> QED BY <1>2, KeptTrades

LEMMA UntradedIs ==
  ASSUME NEW players \in [Player -> PlayerRecord \cup {None}], Paired(players),
         NEW p \in Player, players[p] # None, players[p].trade # None,
         NEW q, q = players[p].trade.with,
         NEW u, u = Untraded(players, p, q)
  PROVE  /\ q \in Player /\ q # p /\ players[q] # None
         /\ u[p].trade = None /\ u[q].trade = None
         /\ \A x \in Player \ {p, q} : u[x] = players[x]
         /\ \A x \in Player :
               /\ players[x] = None => u[x] = None
               /\ players[x] # None => /\ u[x] # None
                                       /\ u[x].gold = players[x].gold /\ u[x].bag = players[x].bag
                                       /\ u[x].mails = players[x].mails
                                       /\ u[x].inWorld = players[x].inWorld
         /\ Paired(u)
<1>1. q \in Player /\ q # p /\ players[q] # None /\ players[q].trade # None
      /\ players[q].trade.with = p
  <2>1. players[p].trade \in TradeData
    BY PlayerFields
  <2> QED BY <2>1 DEF TradeData, Paired
<1>2. PICK rp, rq : rp = [players[p] EXCEPT !.trade = None] /\ rq = [players[q] EXCEPT !.trade = None]
  OBVIOUS
<1>3. players[p] \in PlayerRecord /\ players[q] \in PlayerRecord
  BY <1>1
<1>4. /\ rp \in PlayerRecord /\ rp.trade = None /\ rp.gold = players[p].gold
      /\ rp.bag = players[p].bag /\ rp.mails = players[p].mails /\ rp.inWorld = players[p].inWorld
  BY <1>2, <1>3 DEF PlayerRecord
<1>5. /\ rq \in PlayerRecord /\ rq.trade = None /\ rq.gold = players[q].gold
      /\ rq.bag = players[q].bag /\ rq.mails = players[q].mails /\ rq.inWorld = players[q].inWorld
  BY <1>2, <1>3 DEF PlayerRecord
<1>6. rp # None /\ rq # None
  BY <1>4, <1>5, PlayerFields
<1>7. u[p] = rp /\ u[q] = rq /\ \A x \in Player \ {p, q} : u[x] = players[x]
  BY <1>1, <1>2 DEF Untraded
<1>8. Paired(u)
  <2> SUFFICES ASSUME NEW x \in Player, u[x] # None, u[x].trade # None
               PROVE  LET y == u[x].trade.with IN
                      /\ u[x].inWorld /\ y # x /\ u[y] # None /\ u[y].inWorld
                      /\ u[y].trade # None /\ u[y].trade.with = x
    BY Zenon DEF Paired
  <2>1. x # p /\ x # q /\ u[x] = players[x]
    BY <1>4, <1>5, <1>7
  <2>2. PICK y : y = players[x].trade.with
    OBVIOUS
  <2>3. y \in Player
    <3>1. players[x].trade \in TradeData
      BY <2>1, PlayerFields
    <3> QED BY <2>2, <3>1 DEF TradeData
  <2>4. /\ players[x].inWorld /\ y # x /\ players[y] # None /\ players[y].inWorld
        /\ players[y].trade # None /\ players[y].trade.with = x
    BY <2>1, <2>2 DEF Paired
  <2>5. y # p /\ y # q
    BY <1>1, <2>1, <2>4
  <2> QED BY <1>7, <2>1, <2>2, <2>3, <2>4, <2>5
<1>9. \A x \in Player :
               /\ players[x] = None => u[x] = None
               /\ players[x] # None => /\ u[x] # None
                                       /\ u[x].gold = players[x].gold /\ u[x].bag = players[x].bag
                                       /\ u[x].mails = players[x].mails
                                       /\ u[x].inWorld = players[x].inWorld
  BY <1>1, <1>4, <1>5, <1>6, <1>7
<1> QED BY <1>1, <1>4, <1>5, <1>7, <1>8, <1>9, Zenon

LEMMA CancelIs ==
  ASSUME NEW s, NEW total, Kept(s, total), Enough(s), NEW p \in Player, s.pl[p] # None,
         NEW t, t = TradeCancel(s, p)
  PROVE  Kept(t, total) /\ Enough(t) /\ t.pl[p] # None /\ t.pl[p].trade = None /\ t.cut = s.cut
<1>1. s \in States /\ Paired(s.pl) /\ s.pl \in [Player -> PlayerRecord \cup {None}]
  BY KeptStates, StateFields DEF Kept
<1>2. /\ t \in States
      /\ t.db = s.db /\ t.txs = s.txs /\ t.house = s.house /\ t.aitems = s.aitems
      /\ t.past = s.past /\ t.cut = s.cut
      /\ s.pl[p].trade = None => t.pl = s.pl
      /\ s.pl[p].trade # None => t.pl = Untraded(s.pl, p, s.pl[p].trade.with)
  BY <1>1, TradeCancelIs
<1>3. CASE s.pl[p].trade = None
  <2>1. TradeStep(s, t)
    BY <1>2, <1>3 DEF TradeStep, PlayersStep
  <2> QED BY <1>1, <1>2, <1>3, <2>1, KeptTrades
<1>4. CASE s.pl[p].trade # None
  <2>1. PICK players, q, u : players = s.pl /\ q = s.pl[p].trade.with /\ u = t.pl
    OBVIOUS
  <2>2. /\ \A x \in Player :
               /\ players[x] = None => u[x] = None
               /\ players[x] # None => /\ u[x] # None
                                       /\ u[x].gold = players[x].gold /\ u[x].bag = players[x].bag
                                       /\ u[x].mails = players[x].mails
                                       /\ u[x].inWorld = players[x].inWorld
        /\ Paired(u) /\ u[p].trade = None
    BY <1>1, <1>2, <1>4, <2>1, UntradedIs
  <2>3. TradeStep(s, t)
    BY <1>2, <2>1, <2>2 DEF TradeStep, PlayersStep
  <2> QED BY <1>2, <2>1, <2>2, <2>3, KeptTrades
<1> QED BY <1>3, <1>4

LEMMA CancelTradeKeeps ==
  ASSUME NEW total, Kept(World, total), Enough(World), NEW p \in Player, TradeOf(p) # None,
         HandleCancelTrade(p)
  PROVE  Kept(World, total)' /\ Enough(World)'
<1>1. PICK s, t : s = World /\ t = TradeCancel(World, p)
  OBVIOUS
<1>2. s.pl[p] # None
  BY <1>1, WorldIs DEF TradeOf
<1>3. Kept(t, total) /\ Enough(t)
  BY <1>1, <1>2, CancelIs
<1>4. Outcome(t)
  BY <1>1 DEF HandleCancelTrade
<1> QED BY <1>3, <1>4, OutcomeKeeps

LEMMA UnacceptKeeps ==
  ASSUME NEW total, Kept(World, total), Enough(World), NEW p \in Player, TradeOf(p) # None,
         Outcome(Unaccepted(World, p))
  PROVE  Kept(World, total)' /\ Enough(World)'
<1>1. PICK s, t : s = World /\ t = SetAccepted(World, p, None)
  OBVIOUS
<1>2. s.pl = pl /\ s \in States /\ pl[p] # None /\ pl[p].trade # None
  BY <1>1, WorldIs, KeptStates DEF TradeOf
<1>3. TradeStep(s, t) /\ Sides(s.pl, t.pl)
  BY <1>1, <1>2, SetAcceptedIs
<1>4. Kept(t, total) /\ Enough(t)
  BY <1>1, <1>3, SidesKept
<1>5. Outcome(t)
  BY <1>1 DEF Unaccepted
<1> QED BY <1>4, <1>5, OutcomeKeeps

\* The offer of p changes, and nobody accepts it any more.
LEMMA OfferKeeps ==
  ASSUME NEW total, Kept(World, total), Enough(World), NEW p \in Player, TradeOf(p) # None,
         NEW o \in TradeData, o.with = pl[p].trade.with,
         NEW t, t = [World EXCEPT !.pl = [pl EXCEPT ![p] = [pl[p] EXCEPT !.trade = o]]],
         Outcome(BothUnaccepted(t, p))
  PROVE  Kept(World, total)' /\ Enough(World)'
<1>1. PICK s : s = World
  OBVIOUS
<1>2. s.pl = pl /\ s \in States /\ pl[p] # None /\ pl[p].trade # None
      /\ pl \in [Player -> PlayerRecord \cup {None}]
  BY <1>1, WorldIs, KeptStates, StateFields DEF TradeOf
<1>3. pl[p] \in PlayerRecord
  BY <1>2
<1>4. PICK u : u = [pl[p] EXCEPT !.trade = o]
  OBVIOUS
<1>5. /\ u \in PlayerRecord /\ u.trade = o /\ u.gold = pl[p].gold /\ u.bag = pl[p].bag
      /\ u.mails = pl[p].mails /\ u.inWorld = pl[p].inWorld
  BY <1>3, <1>4 DEF PlayerRecord
<1>6. PICK players : players = [pl EXCEPT ![p] = u]
  OBVIOUS
<1>7. players \in [Player -> PlayerRecord \cup {None}]
  BY <1>2, <1>5, <1>6
<1>8. t = [s EXCEPT !.pl = players]
  BY <1>1, <1>4, <1>6
<1>9. PlayersStep(s, t) /\ t.pl = players
  BY <1>2, <1>7, <1>8 DEF States, PlayersStep
<1>10. players[p] = u /\ \A q \in Player : q # p => players[q] = pl[q]
  BY <1>2, <1>6
<1>11. o # None
  BY NoneIsNothing
<1>12. TradeStep(s, t) /\ Sides(s.pl, t.pl)
  <2>1. s.pl[p] # None /\ s.pl[p].trade # None
    BY <1>2
  <2>2. /\ u.trade # None /\ u.trade.with = s.pl[p].trade.with /\ u.gold = s.pl[p].gold
        /\ u.bag = s.pl[p].bag /\ u.mails = s.pl[p].mails /\ u.inWorld = s.pl[p].inWorld
    BY <1>2, <1>5, <1>11
  <2>3. t.pl[p] = u /\ \A q \in Player : q # p => t.pl[q] = s.pl[q]
    BY <1>2, <1>9, <1>10
  <2> QED BY <1>2, <1>5, <1>9, <2>1, <2>2, <2>3, OfferIs
<1>13. t \in States /\ t.pl[p] # None /\ t.pl[p].trade # None
  BY <1>2, <1>5, <1>9, <1>10, <1>11, PlayerFields DEF PlayersStep
<1>14. Paired(t.pl)
  BY <1>1, <1>2, <1>12, PairedSame DEF Kept
<1>15. PICK v : v = BothUnaccepted(t, p)
  OBVIOUS
<1>16. TradeStep(t, v) /\ Sides(t.pl, v.pl)
  BY <1>13, <1>14, <1>15, BothUnacceptedIs
<1>17. TradeStep(s, v) /\ Sides(s.pl, v.pl)
  BY <1>12, <1>16, TradeStepTwice
<1>18. Kept(v, total) /\ Enough(v)
  BY <1>1, <1>17, SidesKept
<1> QED BY <1>15, <1>18, OutcomeKeeps

LEMMA SetTradeItemKeeps ==
  ASSUME NEW total, Kept(World, total), Enough(World), NEW p \in Player, TradeOf(p) # None,
         NEW i \in pl[p].bag \cup {None}, HandleSetTradeItem(p, i)
  PROVE  Kept(World, total)' /\ Enough(World)'
<1>1. World.pl = pl /\ World \in States /\ pl[p] # None /\ pl[p].trade # None
      /\ pl \in [Player -> PlayerRecord \cup {None}]
  BY WorldIs, KeptStates, StateFields DEF TradeOf
<1>2. pl[p] \in PlayerRecord /\ pl[p].trade \in TradeData /\ pl[p].bag \subseteq Item
  BY <1>1, PlayerFields
<1>3. PICK o : o = [pl[p].trade EXCEPT !.item = i]
  OBVIOUS
<1>4. o \in TradeData /\ o.with = pl[p].trade.with
  BY <1>2, <1>3 DEF TradeData
<1>5. PICK t : t = [World EXCEPT !.pl = [pl EXCEPT ![p] = [pl[p] EXCEPT !.trade = o]]]
  OBVIOUS
<1>6. [World EXCEPT !.pl[p].trade.item = i] = t
  BY <1>1, <1>2, <1>3, <1>5 DEF States, PlayerRecord
<1>7. Outcome(BothUnaccepted(t, p))
  BY <1>6 DEF HandleSetTradeItem
<1> QED BY <1>4, <1>5, <1>7, OfferKeeps

LEMMA SetTradeGoldKeeps ==
  ASSUME NEW total, Kept(World, total), Enough(World), NEW p \in Player, TradeOf(p) # None,
         NEW gold \in TradeGold, HandleSetTradeGold(p, gold)
  PROVE  Kept(World, total)' /\ Enough(World)'
<1>1. World.pl = pl /\ World \in States /\ pl[p] # None /\ pl[p].trade # None
      /\ pl \in [Player -> PlayerRecord \cup {None}]
  BY WorldIs, KeptStates, StateFields DEF TradeOf
<1>2. pl[p] \in PlayerRecord /\ pl[p].trade \in TradeData /\ gold \in Nat
  BY <1>1, PlayerFields, TradeConstants
<1>3. PICK o : o = [pl[p].trade EXCEPT !.money = gold]
  OBVIOUS
<1>4. o \in TradeData /\ o.with = pl[p].trade.with
  BY <1>2, <1>3 DEF TradeData
<1>5. PICK t : t = [World EXCEPT !.pl = [pl EXCEPT ![p] = [pl[p] EXCEPT !.trade = o]]]
  OBVIOUS
<1>6. [World EXCEPT !.pl[p].trade.money = gold] = t
  BY <1>1, <1>2, <1>3, <1>5 DEF States, PlayerRecord
<1>7. Outcome(BothUnaccepted(t, p))
  BY <1>6 DEF HandleSetTradeGold
<1> QED BY <1>4, <1>5, <1>7, OfferKeeps

LEMMA InitiateTradeKeeps ==
  ASSUME NEW total, Kept(World, total), Enough(World), NEW p \in Player, NEW q \in Player,
         HandleInitiateTrade(p, q)
  PROVE  Kept(World, total)' /\ Enough(World)'
<1>1. PICK s : s = World
  OBVIOUS
<1>2. s.pl = pl /\ s \in States /\ pl \in [Player -> PlayerRecord \cup {None}] /\ Paired(pl)
  BY <1>1, WorldIs, KeptStates, StateFields DEF Kept
<1>3. /\ p # q /\ pl[p] # None /\ pl[q] # None /\ pl[p].inWorld /\ pl[q].inWorld
      /\ pl[p].trade = None /\ pl[q].trade = None
  BY <1>2, WorldIs DEF HandleInitiateTrade, Here, InWorld, TradeOf
<1>4. PICK a, b : a = [with |-> q, item |-> None, money |-> 0, seen |-> None]
                  /\ b = [with |-> p, item |-> None, money |-> 0, seen |-> None]
  OBVIOUS
<1>5. a \in TradeData /\ b \in TradeData /\ a.with = q /\ b.with = p /\ a # None /\ b # None
  <2>1. a \in TradeData /\ b \in TradeData /\ a.with = q /\ b.with = p
    BY <1>4 DEF TradeData
  <2> QED BY <2>1, NoneIsNothing
<1>6. PICK rp, rq : rp = [pl[p] EXCEPT !.trade = a] /\ rq = [pl[q] EXCEPT !.trade = b]
  OBVIOUS
<1>7. /\ rp \in PlayerRecord /\ rp.trade = a /\ rp.gold = pl[p].gold
      /\ rp.bag = pl[p].bag /\ rp.mails = pl[p].mails /\ rp.inWorld = pl[p].inWorld
  <2>1. pl[p] \in PlayerRecord
    BY <1>2, <1>3
  <2> QED BY <1>5, <1>6, <2>1 DEF PlayerRecord
<1>8. /\ rq \in PlayerRecord /\ rq.trade = b /\ rq.gold = pl[q].gold
      /\ rq.bag = pl[q].bag /\ rq.mails = pl[q].mails /\ rq.inWorld = pl[q].inWorld
  <2>1. pl[q] \in PlayerRecord
    BY <1>2, <1>3
  <2> QED BY <1>5, <1>6, <2>1 DEF PlayerRecord
<1>9. rp # None /\ rq # None
  BY <1>7, <1>8, PlayerFields
<1>10. PICK players : players = [pl EXCEPT ![p] = rp, ![q] = rq]
  OBVIOUS
<1>11. /\ players \in [Player -> PlayerRecord \cup {None}]
       /\ players[p] = rp /\ players[q] = rq
       /\ \A x \in Player \ {p, q} : players[x] = pl[x]
  BY <1>2, <1>3, <1>7, <1>8, <1>10
<1>12. PICK t : t = [s EXCEPT !.pl = players]
  OBVIOUS
<1>13. PlayersStep(s, t) /\ t.pl = players
  BY <1>2, <1>11, <1>12 DEF States, PlayersStep
<1>14. TradeStep(s, t)
  BY <1>2, <1>3, <1>7, <1>8, <1>9, <1>11, <1>13 DEF TradeStep
<1>15. Paired(players)
  <2> SUFFICES ASSUME NEW x \in Player, players[x] # None, players[x].trade # None
               PROVE  LET y == players[x].trade.with IN
                      /\ players[x].inWorld /\ y # x /\ players[y] # None /\ players[y].inWorld
                      /\ players[y].trade # None /\ players[y].trade.with = x
    BY DEF Paired
  <2>1. CASE x = p
    BY <1>3, <1>5, <1>7, <1>8, <1>9, <1>11, <2>1
  <2>3. CASE x = q
    BY <1>3, <1>5, <1>7, <1>8, <1>9, <1>11, <2>3, Zenon
  <2>2. CASE x \notin {p, q}
    <3>1. players[x] = pl[x]
      BY <1>11, <2>2
    <3>2. PICK y : y = pl[x].trade.with
      OBVIOUS
    <3>3. y \in Player
      <4>1. pl[x].trade \in TradeData
        BY <1>2, <3>1, PlayerFields
      <4> QED BY <3>2, <4>1 DEF TradeData
    <3>4. /\ pl[x].inWorld /\ y # x /\ pl[y] # None /\ pl[y].inWorld
          /\ pl[y].trade # None /\ pl[y].trade.with = x
      BY <1>2, <3>1, <3>2 DEF Paired
    <3>5. players[y] = pl[y]
      BY <1>3, <1>11, <3>3, <3>4
    <3> QED BY <3>1, <3>2, <3>4, <3>5
  <2> QED BY <2>1, <2>2, <2>3
<1>16. Kept(t, total) /\ Enough(t)
  BY <1>1, <1>13, <1>14, <1>15, KeptTrades
<1>17. [World EXCEPT !.pl[p].trade = a, !.pl[q].trade = b] = t
  BY <1>1, <1>2, <1>3, <1>6, <1>10, <1>12 DEF States
<1>18. Outcome(t)
  BY <1>4, <1>17 DEF HandleInitiateTrade
<1> QED BY <1>16, <1>18, OutcomeKeeps

-----------------------------------------------------------------------------
(* A player is saved *)

\* D is the money that was taken out of the mail of M.
Taken(d, b, M, D) ==
    \/ M = {} /\ D = 0
    \/ \E m \in M : M = {m} /\ D = IF d.mail[m] = None THEN 0 ELSE b[m].money - d.mail[m].money

\* The purse and the bag of p are stored, and his mails b are not, of which he changed M.
Sweeping(s, p, b, M, D, total) ==
    /\ p \in InMemory(s) /\ b = s.pl[p].mails /\ M \subseteq DOMAIN b
    /\ Ledger(s, Removed(b), D, total) /\ Memory(s, {p}, M) /\ s.cut = {}
    /\ s.house = s.db.auction /\ s.aitems = Goods(s.db)
    /\ PurseInv(s.db, s.pl[p], p) /\ BagInv(s.db, s.pl[p], p)
    /\ \A m \in M : /\ b[m].state = "changed" /\ Opened(s.db, b[m], m, p)
                    /\ b[m].cod = 0 \/ b[m].cod = s.db.mail[m].cod
    /\ Taken(s.db, b, M, D)
    /\ \A i \in Removed(b) :
          /\ i \in s.db.instance /\ s.db.inventory[i] # None /\ \A a \in Auction : ~Sells(s.db, a, i)
          /\ \A n \in Mail, q \in Player :
                Posted(s.db, n, i, q) => n \in Mended(b) /\ i \in b[n].removed

LEMMA SweepKeeps ==
  ASSUME NEW s, NEW p, NEW b, NEW M, NEW D, NEW total, Sweeping(s, p, b, M, D, total),
         NEW t, t = Commit(_SaveMail(s, p), {})
  PROVE  /\ Kept(t, total) /\ FreeMails(s) \subseteq FreeMails(t) /\ t.house = s.house
         /\ t.cut = {} /\ InMemory(t) = InMemory(s)
<1> USE DEF Sweeping
<1>1. s \in States /\ s.db \in Database /\ s.pl[p] # None /\ p \in Player /\ b \in PlayerMails
      /\ DOMAIN b \subseteq Mail /\ \A m \in DOMAIN b : b[m] \in Letter
  BY RecordOf, StateFields, PlayerFields DEF Ledger
<1>2. PICK u : u = _SaveMail(s, p)
  OBVIOUS
<1>3. Saved2(s, u, p)
  BY <1>1, <1>2, SaveMailIs
<1>4. /\ u \in States /\ u.db = Swept(s.db, b) /\ u.cut = {} /\ u.house = s.house
      /\ u.aitems = s.aitems
  BY <1>3, Zenon DEF Saved2
<1>5. Sweepable(s.db, b, p) /\ Mended(b) = M
  <2>1. \A m \in M : m \in DOMAIN s.pl[p].mails => s.pl[p].mails[m].state # "deleted"
    OBVIOUS
  <2>2. Sweepable(s.db, b, p) /\ Mended(b) \subseteq M
    BY <1>1, <2>1, SweepableIs
  <2>3. M \subseteq Mended(b)
    BY DEF Mended
  <2> QED BY <2>2, <2>3
<1>6. SweptAs(s.db, u.db, b)
  BY <1>1, <1>4, SweptIs
<1>7. /\ u.db \in Database
      /\ u.db.inventory = s.db.inventory /\ u.db.auction = s.db.auction
      /\ u.db.instance = s.db.instance \ UNION {b[m].items : m \in Gone(b)}
      /\ u.db.attached = {x \in s.db.attached : x[1] \notin Gone(b) /\ x[2] \notin Removed(b)}
      /\ \A m \in Mail :
          u.db.mail[m] = IF m \in Gone(b) THEN None
                         ELSE IF m \in Mended(b) /\ s.db.mail[m] # None
                         THEN [s.db.mail[m] EXCEPT !.money = b[m].money, !.cod = b[m].cod]
                         ELSE s.db.mail[m]
  BY <1>6, Zenon DEF SweptAs, Removed
<1>20. u.db.inventory = s.db.inventory /\ u.db.auction = s.db.auction
  BY <1>6, Zenon DEF SweptAs
<1>8. \A i \in Item \ Removed(b) : Exact(s.db, i) /\ Clean(s.db, i)
  BY DEF Ledger, Exact
<1>9. ASSUME NEW i \in Item \cap Removed(b) PROVE Exact(u.db, i)
  <2>1. ASSUME NEW m \in Gone(b), i \in b[m].items PROVE FALSE
    <3>1. m \in Mail /\ Posted(s.db, m, i, p)
      BY <1>1, <1>5, <2>1 DEF Sweepable, Attached, Posted, Gone
    <3>2. m \in Mended(b)
      BY <1>1, <1>9, <3>1
    <3> QED BY <2>1, <3>2 DEF Mended, Gone
  <2>2. \A x : x \in UNION {b[m].items : m \in Gone(b)} <=> \E m \in Gone(b) : x \in b[m].items
    BY Zenon
  <2>3. i \in u.db.instance
    BY <1>7, <1>9, <2>1, <2>2, Zenon
  <2>4. \A n, q : <<n, i, q>> \notin u.db.attached
    <3> HIDE DEF Removed
    <3> QED BY <1>7, <1>9, Zenon
  <2>5. u.db.inventory[i] # None /\ \A a \in Auction : ~Sells(u.db, a, i)
    BY <1>9, <1>20 DEF Sells
  <2> QED BY <2>3, <2>4, <2>5 DEF Exact, Clean, Somewhere, Posted
<1>10. Ledger(u, {}, 0, total)
  <2>1. D \in Int
    BY DEF Ledger
  <2>2. 0 - D \in Int /\ D + (0 - D) = 0
    BY <2>1
  <2>3. (Mended(b) = {} /\ 0 - D = 0)
        \/ \E m \in Mail : /\ Mended(b) = {m}
                           /\ 0 - D = LetterWorth(s.db.mail[m]) - LetterWorth(u.db.mail[m])
    <3>1. CASE M = {} /\ D = 0
      <4>1. Mended(b) = {} /\ 0 - D = 0
        BY <1>5, <2>2, <3>1
      <4> QED BY <4>1
    <3>2. CASE \E m \in M : M = {m} /\ D = IF s.db.mail[m] = None THEN 0
                                           ELSE b[m].money - s.db.mail[m].money
      <4>1. PICK m \in M : M = {m} /\ D = IF s.db.mail[m] = None THEN 0
                                           ELSE b[m].money - s.db.mail[m].money
        BY <3>2
      <4>2. m \in Mail /\ m \in Mended(b) /\ m \notin Gone(b) /\ b[m] \in Letter
        BY <1>1, <1>5 DEF Mended, Gone
      <4>3. CASE s.db.mail[m] = None
        <5>1. u.db.mail[m] = None
          BY <1>7, <4>2, <4>3, Zenon
        <5> QED BY <1>5, <4>1, <4>2, <4>3, <5>1 DEF LetterWorth
      <4>4. CASE s.db.mail[m] # None
        <5>1. u.db.mail[m] = [s.db.mail[m] EXCEPT !.money = b[m].money, !.cod = b[m].cod]
          <6>1. u.db.mail[m] = IF m \in Gone(b) THEN None
                         ELSE IF m \in Mended(b) /\ s.db.mail[m] # None
                         THEN [s.db.mail[m] EXCEPT !.money = b[m].money, !.cod = b[m].cod]
                         ELSE s.db.mail[m]
            BY <1>7, <4>2, Zenon
          <6> QED BY <4>2, <4>4, <6>1, Zenon
        <5>2. s.db.mail[m] \in MailRow
          BY <1>1, <4>2, <4>4, DatabaseFields
        <5>3. u.db.mail[m].money = b[m].money /\ u.db.mail[m] \in MailRow
              /\ b[m].money \in Nat /\ s.db.mail[m].money \in Nat
          BY <4>2, <5>1, <5>2 DEF MailRow, Letter
        <5>4. LetterWorth(u.db.mail[m]) = b[m].money
              /\ LetterWorth(s.db.mail[m]) = s.db.mail[m].money
          BY <4>4, <5>3, NoneIsNothing DEF LetterWorth
        <5>5. 0 - D = LetterWorth(s.db.mail[m]) - LetterWorth(u.db.mail[m])
          <6>1. D = b[m].money - s.db.mail[m].money
            BY <4>1, <4>4
          <6>2. PICK x, y : x = b[m].money /\ y = s.db.mail[m].money
            OBVIOUS
          <6>3. x \in Nat /\ y \in Nat
            BY <5>3, <6>2, Zenon
          <6>5. D = x - y
            BY <6>1, <6>2, Zenon
          <6>4. 0 - D = y - x
            BY <6>3, <6>5
          <6> QED BY <5>4, <6>2, <6>4
        <5> QED BY <1>5, <4>1, <4>2, <5>5
      <4> QED BY <4>3, <4>4
    <3> QED BY <3>1, <3>2 DEF Taken
  <2>4. \A m \in Mended(b) : b[m].cod = 0 \/ b[m].cod = s.db.mail[m].cod
    BY <1>5
  <2>5. Ledger(u, {}, D + (0 - D), total)
    BY <1>1, <1>3, <1>5, <1>9, <2>2, <2>3, <2>4, LedgerSwept
  <2> QED BY <2>2, <2>5
<1>11. /\ Memory(u, {p}, {}) /\ FreeMails(s) \subseteq FreeMails(u) /\ InMemory(u) = InMemory(s)
       /\ PurseInv(u.db, u.pl[p], p) /\ BagInv(u.db, u.pl[p], p)
  <2>1. \A m \in M \cap DOMAIN b : b[m].state = "changed" /\ Opened(s.db, b[m], m, p)
    OBVIOUS
  <2>2. \A m \in M, q \in InMemory(s) : q \in {p} /\ q # p => m \notin DOMAIN s.pl[q].mails
    OBVIOUS
  <2>3. \A i \in Removed(b), n \in Mail, q \in Player :
             Posted(s.db, n, i, q) => n \in Mended(b) /\ i \in b[n].removed
    OBVIOUS
  <2>4. \A i \in Item \ Removed(b) : Clean(s.db, i)
    BY <1>8
  <2>5. p \in {p}
    OBVIOUS
  <2>6. /\ Memory(u, {p}, {}) /\ FreeMails(s) \subseteq FreeMails(u) /\ InMemory(u) = InMemory(s)
        /\ \A q \in Player \ {p} : u.pl[q] = s.pl[q]
        /\ u.pl[p] = [s.pl[p] EXCEPT !.mails = Sweep(b)]
        /\ PurseInv(s.db, s.pl[p], p) => PurseInv(u.db, u.pl[p], p)
        /\ BagInv(s.db, s.pl[p], p) => BagInv(u.db, u.pl[p], p)
    BY <1>1, <1>3, <2>1, <2>2, <2>3, <2>4, <2>5, SweepMemory, SMTT(60)
  <2> QED BY <2>6
<1>12. Memory(u, {}, {})
  BY <1>11 DEF Memory
<1>13. /\ t \in States /\ t.db = u.db /\ t.pl = u.pl /\ t.house = u.house /\ t.aitems = u.aitems
       /\ t.cut = u.cut
  BY <1>2, <1>4, CommitIs, Zenon
<1>14. Ledger(t, {}, 0, total)
  BY <1>2, <1>10, LedgerCommit
<1>15. Memory(t, {}, {}) /\ FreeMails(t) = FreeMails(u) /\ InMemory(t) = InMemory(u)
  <2>1. SameTables(u.db, t.db, {})
    BY <1>13 DEF SameTables
  <2> QED BY <1>12, <1>13, <2>1, MemorySame
<1>16. t.house = t.db.auction /\ t.aitems = Goods(t.db)
  <2>1. Goods(t.db) = Goods(s.db)
    BY <1>13, <1>20 DEF Goods, Sells
  <2> QED BY <1>4, <1>13, <1>20, <2>1
<1>17. AllClean(t.db)
  BY <1>4, <1>13, <1>14 DEF Ledger, AllClean, Exact
<1>18. Kept(t, total)
  BY <1>14, <1>15, <1>16, <1>17, KeptFrom
<1> QED BY <1>4, <1>11, <1>13, <1>15, <1>18

\* The purse and the bag of p are what the tables say, and they stay so.
LEMMA KeptBag ==
  ASSUME NEW s, NEW total, Kept(s, total), s.cut = {}, NEW p \in InMemory(s)
  PROVE  /\ \A i \in Item : BagHas(s.db, p, s.pl[p], i)
         /\ s.pl[p].bag \subseteq s.db.instance /\ s.db.gold[p] = s.pl[p].gold
         /\ \A q \in InMemory(s) : q # p => s.pl[q].bag \cap s.pl[p].bag = {}
<1>1. s \in States /\ p \in Player /\ p # None
  BY KeptStates, RecordOf, MailConstants
<1>2. \A q \in InMemory(s) : PurseInv(s.db, s.pl[q], q) /\ BagInv(s.db, s.pl[q], q)
  BY DEF Kept, PlayerInv
<1>3. \A i \in Item : s.db.inventory[i] # None => i \in s.db.instance
  BY KeptClean DEF AllClean, Clean
<1>4. \A i \in Item : BagHas(s.db, p, s.pl[p], i)
  BY <1>1, <1>2, <1>3 DEF BagHas, BagInv
<1> QED BY <1>2, <1>4 DEF BagInv, PurseInv

LEMMA SavedKeeps ==
  ASSUME NEW s, NEW total, Kept(s, total), Enough(s), s.cut = {}, NEW p \in InMemory(s),
         NEW t, t = Commit(_SaveMail(SaveInventoryAndGoldToDB(s, p), p), {})
  PROVE  Kept(t, total) /\ Enough(t) /\ t.cut = {} /\ InMemory(t) = InMemory(s)
<1>1. s \in States /\ p \in Player /\ s.pl[p] # None /\ s.pl[p] \in PlayerRecord
  BY KeptStates, RecordOf
<1>2. PICK u : u = SaveInventoryAndGoldToDB(s, p)
  OBVIOUS
<1>3. /\ u \in States /\ u.txs = s.txs /\ u.pl = s.pl /\ u.house = s.house /\ u.aitems = s.aitems
      /\ u.past = s.past /\ u.cut = s.cut
  BY <1>1, <1>2, SaveIs DEF DbStep
<1>4. /\ \A i \in Item : BagHas(s.db, p, s.pl[p], i)
      /\ s.pl[p].bag \subseteq s.db.instance /\ s.db.gold[p] = s.pl[p].gold
      /\ \A q \in InMemory(s) : q # p => s.pl[q].bag \cap s.pl[p].bag = {}
  BY KeptBag
<1>5. Ledger(u, {}, 0, total)
  <2>1. Ledger(s, {}, 0, total)
    BY DEF Kept
  <2>2. \A i \in Item \ ({} \cup s.cut) : BagHas(s.db, p, s.pl[p], i)
    BY <1>4
  <2>3. Ledger(u, {} \cup {}, 0 + (s.db.gold[p] - s.pl[p].gold), total)
    BY <1>1, <1>2, <2>1, <2>2, LedgerSave
  <2>4. 0 + (s.db.gold[p] - s.pl[p].gold) = 0 /\ {} \cup {} = {}
    <3>1. s.pl[p].gold \in Int
      BY <1>1, PlayerFields
    <3> QED BY <1>4, <3>1
  <2> QED BY <2>3, <2>4
<1>6. /\ Memory(u, {}, {}) /\ FreeMails(u) = FreeMails(s) /\ InMemory(u) = InMemory(s)
      /\ u.db.auction = s.db.auction
  <2>1. Memory(s, {}, {})
    BY MemoryOf
  <2> QED BY <1>1, <1>2, <1>4, <2>1, SaveMemory
<1>7. PICK b : b = u.pl[p].mails
  OBVIOUS
<1>8. Memory(u, {p}, {}) /\ PurseInv(u.db, u.pl[p], p) /\ BagInv(u.db, u.pl[p], p)
  BY <1>6 DEF Memory
<1>9. Mended(b) = {} /\ Removed(b) = {}
  <2>1. \A m \in DOMAIN b : b[m].state # "changed"
    <3>1. DOMAIN b \subseteq Mail
      BY <1>3, <1>6, <1>7, RecordOf
    <3> QED BY <1>6, <1>7, <3>1 DEF Memory, MailInv
  <2> QED BY <2>1 DEF Mended, Removed
<1>10. u.house = u.db.auction /\ u.aitems = Goods(u.db)
  <2>1. Goods(u.db) = Goods(s.db)
    BY <1>6 DEF Goods, Sells
  <2> QED BY <1>3, <1>6, <2>1 DEF Kept
<1>11. /\ Kept(t, total) /\ FreeMails(u) \subseteq FreeMails(t) /\ t.house = u.house
       /\ t.cut = {} /\ InMemory(t) = InMemory(u)
  <2>1. Ledger(u, Removed(b), 0, total) /\ u.cut = {}
    BY <1>3, <1>5, <1>9
  <2>2. t = Commit(_SaveMail(u, p), {}) /\ p \in InMemory(u) /\ b = u.pl[p].mails
    BY <1>2, <1>6, <1>7
  <2>3. Taken(u.db, b, {}, 0)
    BY DEF Taken
  <2>4. Sweeping(u, p, b, {}, 0, total)
    BY <1>8, <1>9, <1>10, <2>1, <2>2, <2>3 DEF Sweeping
  <2>5. PICK M, D : M = {} /\ D = 0
    OBVIOUS
  <2>6. Sweeping(u, p, b, M, D, total)
    BY <2>4, <2>5
  <2> QED BY ONLY <2>2, <2>6, SweepKeeps
<1>12. Enough(t)
  <2>1. FreeMails(s) \subseteq FreeMails(t) /\ t.house = s.house
    BY <1>3, <1>6, <1>11
  <2> QED BY <2>1, OwedIs, EnoughSame
<1> QED BY <1>6, <1>11, <1>12

LEMMA SaveToDBKeeps ==
  ASSUME NEW total, Kept(World, total), Enough(World), cut = {}, NEW p \in Player, SaveToDB(p)
  PROVE  Kept(World, total)' /\ Enough(World)'
<1>1. PICK s, t : s = World /\ t = Saved(p)
  OBVIOUS
<1>2. s.cut = {} /\ p \in InMemory(s)
  BY <1>1, WorldIs DEF SaveToDB, Here, InWorld, InMemory
<1>3. t = Commit(_SaveMail(SaveInventoryAndGoldToDB(s, p), p), {})
  BY <1>1 DEF Saved
<1>4. Kept(t, total) /\ Enough(t)
  BY <1>1, <1>2, <1>3, SavedKeeps
<1>5. Outcome(t)
  BY <1>1 DEF SaveToDB
<1> QED BY <1>4, <1>5, OutcomeKeeps

LEMMA LeavesKept ==
  ASSUME NEW s, NEW total, Kept(s, total), Enough(s), NEW p \in Player, s.pl[p] # None,
         s.pl[p].trade = None, NEW t, t = [s EXCEPT !.pl[p] = None]
  PROVE  Kept(t, total) /\ Enough(t)
<1>1. s \in States /\ Paired(s.pl) /\ s.pl \in [Player -> PlayerRecord \cup {None}]
  BY KeptStates, StateFields DEF Kept
<1>2. PICK players : players = [s.pl EXCEPT ![p] = None]
  OBVIOUS
<1>3. players \in [Player -> PlayerRecord \cup {None}]
  BY <1>1, <1>2
<1>4. t = [s EXCEPT !.pl = players]
  BY <1>1, <1>2 DEF States
<1>5. PlayersStep(s, t) /\ t.pl = players
  BY <1>1, <1>3, <1>4 DEF States, PlayersStep
<1>6. players[p] = None /\ \A q \in Player : q # p => players[q] = s.pl[q]
  BY <1>1, <1>2
<1>7. Paired(players)
  <2> SUFFICES ASSUME NEW x \in Player, players[x] # None, players[x].trade # None
               PROVE  LET y == players[x].trade.with IN
                      /\ players[x].inWorld /\ y # x /\ players[y] # None /\ players[y].inWorld
                      /\ players[y].trade # None /\ players[y].trade.with = x
    BY DEF Paired
  <2>1. x # p /\ players[x] = s.pl[x]
    BY <1>6
  <2>2. PICK y : y = s.pl[x].trade.with
    OBVIOUS
  <2>3. y \in Player
    <3>1. s.pl[x].trade \in TradeData
      BY <1>1, <2>1, PlayerFields
    <3> QED BY <2>2, <3>1 DEF TradeData
  <2>4. /\ s.pl[x].inWorld /\ y # x /\ s.pl[y] # None /\ s.pl[y].inWorld
        /\ s.pl[y].trade # None /\ s.pl[y].trade.with = x
    BY <1>1, <2>1, <2>2 DEF Paired
  <2>5. players[y] = s.pl[y]
    BY <1>6, <2>3, <2>4
  <2> QED BY <2>1, <2>2, <2>4, <2>5
<1>8. Kept(t, total)
  <2>1. InMemory(t) \subseteq InMemory(s)
    BY <1>5, <1>6 DEF InMemory
  <2>2. ASSUME NEW q \in InMemory(t) PROVE PlayerInv(t.db, t.cut, t.pl[q], q)
    <3>1. q \in InMemory(s) /\ t.pl[q] = s.pl[q]
      BY <1>5, <1>6, <2>1 DEF InMemory
    <3> QED BY <1>5, <3>1 DEF Kept, PlayersStep
  <2>3. InMemory(t) # {} => AllClean(s.db)
    BY <2>1 DEF Kept
  <2> QED BY <1>5, <1>7, <2>2, <2>3, KeptPlayers
<1>9. Enough(t)
  <2>1. FreeMails(s) \subseteq FreeMails(t)
    BY <1>5, <1>6 DEF FreeMails, PlayersStep
  <2>2. Owed(t.house) <= Owed(s.house)
    BY <1>5, OwedIs DEF PlayersStep
  <2> QED BY <2>1, <2>2, EnoughSame
<1> QED BY <1>8, <1>9

LEMMA LogoutKeeps ==
  ASSUME NEW total, Kept(World, total), Enough(World), cut = {}, NEW p \in Player, LogoutPlayer(p)
  PROVE  Kept(World, total)' /\ Enough(World)'
<1>1. PICK s, t, u, v : s = World /\ t = Saved(p) /\ u = TradeCancel(t, p) /\ v = [u EXCEPT !.pl[p] = None]
  OBVIOUS
<1>2. s.cut = {} /\ p \in InMemory(s)
  BY <1>1, WorldIs DEF LogoutPlayer, Here, InWorld, InMemory
<1>3. t = Commit(_SaveMail(SaveInventoryAndGoldToDB(s, p), p), {})
  BY <1>1 DEF Saved
<1>4. Kept(t, total) /\ Enough(t) /\ InMemory(t) = InMemory(s)
  BY <1>1, <1>2, <1>3, SavedKeeps
<1>5. t.pl[p] # None
  BY <1>2, <1>4 DEF InMemory
<1>6. Kept(u, total) /\ Enough(u) /\ u.pl[p] # None /\ u.pl[p].trade = None
  BY <1>1, <1>4, <1>5, CancelIs
<1>7. Kept(v, total) /\ Enough(v)
  BY <1>1, <1>6, LeavesKept
<1>8. Outcome(v)
  BY <1>1 DEF LogoutPlayer
<1> QED BY <1>7, <1>8, OutcomeKeeps

-----------------------------------------------------------------------------
(* The mailbox *)

\* t is s but for the record of p, r, and nothing but his mail m, which is f.
ClosedAs(s, t, p, m, f, r) ==
    /\ PlayersStep(s, t) /\ r \in PlayerRecord /\ t.pl = [s.pl EXCEPT ![p] = r] /\ t.pl[p] = r
    /\ r.inWorld = s.pl[p].inWorld /\ r.trade = s.pl[p].trade
    /\ r.gold = s.pl[p].gold /\ r.bag = s.pl[p].bag
    /\ DOMAIN r.mails = DOMAIN s.pl[p].mails /\ r.mails[m] = f
    /\ \A n \in DOMAIN r.mails \ {m} : r.mails[n] = s.pl[p].mails[n]

LEMMA ClosedIs ==
  ASSUME World \in States, NEW p \in Player, pl[p] # None, NEW m \in DOMAIN pl[p].mails,
         NEW f \in Letter
  PROVE  \E r : ClosedAs(World, Closed(p, m, f), p, m, f, r)
<1>1. World.pl = pl /\ pl[p] \in PlayerRecord /\ pl \in [Player -> PlayerRecord \cup {None}]
  BY WorldIs, StateFields
<1>2. PICK b : b = pl[p].mails
  OBVIOUS
<1>3. b \in PlayerMails /\ DOMAIN b \in SUBSET Mail /\ b \in [DOMAIN b -> Letter]
  BY <1>1, <1>2, PlayerFields, PlayerMailsIs
<1>4. PICK mails : mails = [b EXCEPT ![m] = f]
  OBVIOUS
<1>5. DOMAIN mails = DOMAIN b /\ mails \in [DOMAIN mails -> Letter] /\ mails[m] = f
      /\ \A n \in DOMAIN b \ {m} : mails[n] = b[n]
  BY <1>2, <1>3, <1>4
<1>6. mails \in PlayerMails
  BY <1>3, <1>5, PlayerMailsIs
<1>7. PICK r : r = [pl[p] EXCEPT !.mails = mails]
  OBVIOUS
<1>8. /\ r \in PlayerRecord /\ r.mails = mails /\ r.inWorld = pl[p].inWorld
      /\ r.trade = pl[p].trade /\ r.gold = pl[p].gold /\ r.bag = pl[p].bag
  BY <1>1, <1>6, <1>7 DEF PlayerRecord
<1>9. PICK players : players = [pl EXCEPT ![p] = r]
  OBVIOUS
<1>10. players \in [Player -> PlayerRecord \cup {None}] /\ players[p] = r
  BY <1>1, <1>8, <1>9
<1>11. PICK t : t = [World EXCEPT !.pl = players]
  OBVIOUS
<1>12. Closed(p, m, f) = t
  BY <1>1, <1>2, <1>4, <1>7, <1>9, <1>11 DEF Closed, States, PlayerRecord
<1>13. PlayersStep(World, t) /\ t.pl = players
  BY <1>10, <1>11 DEF States, PlayersStep
<1>14. ClosedAs(World, t, p, m, f, r)
  BY <1>1, <1>2, <1>5, <1>8, <1>9, <1>10, <1>13 DEF ClosedAs
<1> QED BY <1>12, <1>14

LEMMA ClosedKept ==
  ASSUME NEW s, NEW total, Kept(s, total), NEW p \in InMemory(s), NEW m, NEW f, NEW r,
         NEW t, ClosedAs(s, t, p, m, f, r)
  PROVE  /\ Ledger(t, {}, 0, total) /\ Memory(t, {p}, {m}) /\ FreeMails(t) = FreeMails(s)
         /\ InMemory(t) = InMemory(s) /\ t.house = t.db.auction /\ t.aitems = Goods(t.db)
         /\ PurseInv(t.db, t.pl[p], p) /\ BagInv(t.db, t.pl[p], p)
<1>1. s \in States /\ PlayersStep(s, t)
  BY KeptStates DEF ClosedAs
<1>2. Ledger(t, {}, 0, total)
  <2>1. Logged(t, total)
    BY <1>1, LoggedSame DEF PlayersStep, Kept, Ledger
  <2> QED BY <1>1, <2>1 DEF PlayersStep, Kept, Ledger
<1>3. Memory(t, {p}, {m}) /\ FreeMails(t) = FreeMails(s) /\ InMemory(t) = InMemory(s)
  <2>1. Memory(s, {p}, {m})
    BY MemoryOf
  <2>2. /\ r \in PlayerRecord /\ t.pl = [s.pl EXCEPT ![p] = r]
        /\ r.inWorld = s.pl[p].inWorld /\ r.trade = s.pl[p].trade
        /\ DOMAIN r.mails = DOMAIN s.pl[p].mails
        /\ \A n \in DOMAIN r.mails \ {m} : r.mails[n] = s.pl[p].mails[n]
        /\ t.db = s.db /\ t.cut = s.cut
    BY DEF ClosedAs, PlayersStep
  <2>3. p \in {p}
    OBVIOUS
  <2> QED BY <1>1, <2>1, <2>2, <2>3, MemoryRecord
<1>4. PurseInv(s.db, s.pl[p], p) /\ BagInv(s.db, s.pl[p], p)
  BY DEF Kept, PlayerInv
<1>5. PurseInv(t.db, t.pl[p], p) /\ BagInv(t.db, t.pl[p], p)
  BY <1>1, <1>4 DEF ClosedAs, PlayersStep, PurseInv, BagInv
<1>6. t.house = t.db.auction /\ t.aitems = Goods(t.db)
  BY <1>1 DEF PlayersStep, Kept
<1> QED BY <1>2, <1>3, <1>5, <1>6

\* A mail of a player as long as nothing is stored by half.
LEMMA LetterIs ==
  ASSUME NEW s, NEW total, Kept(s, total), s.cut = {}, NEW p \in InMemory(s),
         NEW m \in DOMAIN s.pl[p].mails, NEW e, e = s.pl[p].mails[m]
  PROVE  /\ e \in Letter /\ m \in Mail /\ e.removed = {} /\ e.state \in {"unchanged", "deleted"}
         /\ e.state = "deleted" => e.cod = 0
         /\ \/ Fresh(s.db, e, m, p)
            \/ e.money = 0 /\ e.cod = 0 /\ e.items = {} /\ s.db.mail[m] = None
<1>1. e \in Letter /\ m \in Mail
  BY KeptStates, RecordOf
<1>2. MailInv(s.db, {}, e, m, p)
  BY DEF Kept, PlayerInv, BoxInv
<1>3. e.state \in MailState /\ e.money \in Nat /\ e.cod \in Nat
  BY <1>1 DEF Letter
<1>4. Stale(s.db, e, m, {}) => e.money = 0 /\ e.cod = 0 /\ e.items = {} /\ s.db.mail[m] = None
  BY <1>3 DEF Stale, Held
<1> QED BY <1>1, <1>2, <1>3, <1>4 DEF MailInv, MailState

LEMMA MailDeleteKeeps ==
  ASSUME NEW total, Kept(World, total), Enough(World), cut = {}, NEW p \in Player, Here(p),
         NEW m \in DOMAIN pl[p].mails, HandleMailDelete(p, m)
  PROVE  Kept(World, total)' /\ Enough(World)'
<1>1. PICK s : s = World
  OBVIOUS
<1>2. s.pl = pl /\ s \in States /\ p \in InMemory(s) /\ pl[p] # None /\ s.cut = {}
  BY <1>1, WorldIs, KeptStates DEF Here, InWorld, InMemory
<1>3. PICK e, f : e = pl[p].mails[m] /\ f = [e EXCEPT !.state = "deleted"]
  OBVIOUS
<1>4. e.cod = 0 /\ Outcome(Closed(p, m, f))
  BY <1>3, Zenon DEF HandleMailDelete
<1>5. e \in Letter /\ m \in Mail /\ e.removed = {}
      /\ (Fresh(s.db, e, m, p) \/ (e.money = 0 /\ e.cod = 0 /\ e.items = {} /\ s.db.mail[m] = None))
  BY <1>1, <1>2, <1>3, LetterIs
<1>6. /\ f \in Letter /\ f.state = "deleted" /\ f.sender = e.sender /\ f.kind = e.kind
      /\ f.money = e.money /\ f.cod = e.cod /\ f.items = e.items /\ f.removed = e.removed
  BY <1>3, <1>5 DEF Letter, MailState
<1>7. MailInv(s.db, {}, f, m, p)
  <2>1. Fresh(s.db, e, m, p) => Fresh(s.db, f, m, p)
    BY <1>6 DEF Fresh
  <2>2. e.money = 0 /\ e.cod = 0 /\ e.items = {} /\ s.db.mail[m] = None => Stale(s.db, f, m, {})
    BY <1>6 DEF Stale, Held
  <2> QED BY <1>4, <1>5, <1>6, <2>1, <2>2 DEF MailInv
<1>8. PICK t, r : t = Closed(p, m, f) /\ ClosedAs(s, t, p, m, f, r)
  BY <1>1, <1>2, <1>6, ClosedIs
<1>9. /\ Ledger(t, {}, 0, total) /\ Memory(t, {p}, {m}) /\ FreeMails(t) = FreeMails(s)
      /\ InMemory(t) = InMemory(s) /\ t.house = t.db.auction /\ t.aitems = Goods(t.db)
      /\ PurseInv(t.db, t.pl[p], p) /\ BagInv(t.db, t.pl[p], p)
  BY <1>1, <1>2, <1>8, ClosedKept
<1>10. t.db = s.db /\ t.cut = {} /\ t.house = s.house /\ t.pl[p].mails[m] = f
  BY <1>2, <1>8 DEF ClosedAs, PlayersStep
<1>11. Memory(t, {}, {m})
  BY <1>7, <1>9, <1>10 DEF Memory
<1>12. AllClean(t.db)
  BY <1>9, <1>10 DEF Ledger, Exact, AllClean
<1>13. Kept(t, total)
  BY <1>9, <1>11, <1>12, KeptFrom
<1>14. Enough(t)
  BY <1>1, <1>9, <1>10, OwedIs, EnoughSame
<1> QED BY <1>4, <1>8, <1>13, <1>14, OutcomeKeeps

LEMMA TakeMoneyKeeps ==
  ASSUME NEW total, Kept(World, total), Enough(World), cut = {}, NEW p \in Player, Here(p),
         NEW m \in DOMAIN pl[p].mails, HandleMailTakeMoney(p, m)
  PROVE  Kept(World, total)' /\ Enough(World)'
<1>1. PICK s : s = World
  OBVIOUS
<1>2. s.pl = pl /\ s \in States /\ p \in InMemory(s) /\ pl[p] # None /\ s.cut = {}
      /\ s.db \in Database /\ s.house = s.db.auction
  BY <1>1, WorldIs, KeptStates DEF Here, InWorld, InMemory, Kept
<1>3. PICK e, f : e = pl[p].mails[m] /\ f = [e EXCEPT !.money = 0, !.state = "changed"]
  BY Zenon
<1>4. PICK t, u, v, w :
        /\ t = Closed(p, m, f) /\ u = ModifyMoney(t, p, e.money)
        /\ v = [u EXCEPT !.db.gold[p] = u.pl[p].gold] /\ w = Commit(_SaveMail(v, p), {})
  OBVIOUS
<1>5. e.state # "deleted" /\ Outcome(w)
  <2> DEFINE S(x, y) == ModifyMoney(Closed(p, m, y), p, x.money)
             W(z) == Commit(_SaveMail([z EXCEPT !.db.gold[p] = z.pl[p].gold], p), {})
  <2>1. e.state # "deleted" /\ Outcome(W(S(e, f)))
    BY <1>3, Zenon DEF HandleMailTakeMoney
  <2>2. W(S(e, f)) = w
    BY <1>4, Zenon
  <2> QED BY <2>1, <2>2, Zenon
<1>6. e \in Letter /\ m \in Mail /\ e.removed = {}
      /\ (Fresh(s.db, e, m, p) \/ (e.money = 0 /\ e.cod = 0 /\ e.items = {} /\ s.db.mail[m] = None))
  BY <1>1, <1>2, <1>3, LetterIs
<1>7. /\ f \in Letter /\ f.state = "changed" /\ f.sender = e.sender /\ f.kind = e.kind
      /\ f.money = 0 /\ f.cod = e.cod /\ f.items = e.items /\ f.removed = {}
      /\ e.money \in Nat /\ e.cod \in Nat
  BY <1>3, <1>6 DEF Letter, MailState
<1>8. PICK r : ClosedAs(s, t, p, m, f, r)
  BY <1>1, <1>2, <1>4, <1>7, ClosedIs
<1>9. /\ Ledger(t, {}, 0, total) /\ Memory(t, {p}, {m}) /\ FreeMails(t) = FreeMails(s)
      /\ InMemory(t) = InMemory(s) /\ t.house = t.db.auction /\ t.aitems = Goods(t.db)
      /\ PurseInv(t.db, t.pl[p], p) /\ BagInv(t.db, t.pl[p], p)
  BY <1>1, <1>2, <1>8, ClosedKept
<1>10. t \in States /\ t.db = s.db /\ t.cut = {} /\ t.house = s.house /\ t.pl[p] = r
       /\ r \in PlayerRecord /\ r.mails[m] = f /\ m \in DOMAIN r.mails
  BY <1>2, <1>8 DEF ClosedAs, PlayersStep
<1>11. PICK g \in 0 .. MaxGold, over \in Nat : Paid(t, u, p, e.money, g, over)
  <2>1. t.pl[p] # None /\ e.money \in Int
    BY <1>7, <1>10, PlayerFields
  <2> QED BY <1>4, <1>10, <2>1, ModifyMoneyIs
<1>12. PICK q : q = [r EXCEPT !.gold = g]
  OBVIOUS
<1>13. /\ q \in PlayerRecord /\ q.gold = g /\ q.inWorld = r.inWorld /\ q.trade = r.trade
       /\ q.bag = r.bag /\ q.mails = r.mails /\ g \in Nat /\ g \in Int /\ r.gold \in Nat
  BY <1>10, <1>12, MailConstants DEF PlayerRecord
<1>14. /\ u \in States /\ u.db = s.db /\ u.cut = {} /\ u.house = s.house /\ u.aitems = t.aitems
       /\ u.pl = [t.pl EXCEPT ![p] = q] /\ u.txs = t.txs
       /\ g + over = r.gold + e.money
  <2>1. r.gold + e.money >= 0
    BY <1>7, <1>13
  <2> QED BY <1>10, <1>11, <1>12, <2>1 DEF Paid
<1>15. u.pl[p] = q
  BY <1>2, <1>10, <1>14, StateFields
<1>16. Ledger(u, {}, 0 - over, total)
  BY <1>9, <1>11, LedgerPaid
<1>17. Memory(u, {p}, {m}) /\ FreeMails(u) = FreeMails(s) /\ InMemory(u) = InMemory(s)
  <2>1. p \in {p} /\ p \in InMemory(t) /\ u.db = t.db /\ u.cut = t.cut
    BY <1>2, <1>9, <1>10, <1>14
  <2>2. /\ q.inWorld = t.pl[p].inWorld /\ q.trade = t.pl[p].trade
        /\ DOMAIN q.mails = DOMAIN t.pl[p].mails
        /\ \A n \in DOMAIN q.mails \ {m} : q.mails[n] = t.pl[p].mails[n]
    BY <1>10, <1>13
  <2>3. Memory(u, {p}, {m}) /\ FreeMails(u) = FreeMails(t) /\ InMemory(u) = InMemory(t)
    <3>1. t \in States /\ Memory(t, {p}, {m}) /\ q \in PlayerRecord
          /\ u.pl = [t.pl EXCEPT ![p] = q]
      BY <1>9, <1>10, <1>13, <1>14
    <3> QED BY <2>1, <2>2, <3>1, MemoryRecord, SMTT(60)
  <2> QED BY <1>9, <2>3
<1>18. PICK d : d = [s.db EXCEPT !.gold = [@ EXCEPT ![p] = g]]
  OBVIOUS
<1>19. /\ d \in Database /\ d.gold[p] = g /\ \A x \in Player : x # p => d.gold[x] = s.db.gold[x]
       /\ d.inventory = s.db.inventory /\ d.instance = s.db.instance /\ d.attached = s.db.attached
       /\ d.auction = s.db.auction /\ d.mail = s.db.mail
  BY <1>2, <1>18 DEF Database
<1>20. v = [u EXCEPT !.db = d]
  BY <1>4, <1>13, <1>14, <1>15, <1>18 DEF States, Database
<1>21. /\ v \in States /\ v.db = d /\ v.pl = u.pl /\ v.cut = {} /\ v.house = u.house
       /\ v.aitems = u.aitems /\ v.past = u.past /\ v.txs = u.txs
  BY <1>14, <1>19, <1>20 DEF States
<1>22. r.gold = s.db.gold[p]
  BY <1>9, <1>10 DEF PurseInv
<1>23. Ledger(v, {}, 0 - e.money, total)
  <2>1. GoldOf(d) = GoldOf(s.db) - s.db.gold[p] + d.gold[p]
    BY <1>2, <1>19, GoldChanged
  <2>2. DepositOf(d) = DepositOf(s.db) /\ LetterOf(d) = LetterOf(s.db)
    BY <1>19, SameMoney
  <2>3. GoldOf(s.db) \in Nat /\ DepositOf(s.db) \in Nat /\ LetterOf(s.db) \in Nat
    BY <1>2, MoneyIs, StateFields
  <2>4. PICK x : x = r.gold - g
    OBVIOUS
  <2>5. x \in Int /\ (0 - over) + x = 0 - e.money
    BY <1>7, <1>13, <1>14, <2>4
  <2>6. GoldOf(v.db) + DepositOf(v.db) + LetterOf(v.db)
           = GoldOf(u.db) + DepositOf(u.db) + LetterOf(u.db) - x
    BY <1>13, <1>14, <1>19, <1>21, <1>22, <2>1, <2>2, <2>3, <2>4
  <2>7. DbInv(v.db) /\ WonInv(v.db, v.past)
    BY <1>14, <1>16, <1>19, <1>21 DEF Ledger, DbInv, WonInv, Sells
  <2>8. \A i \in Item \ (u.cut \cup {}) : Exact(v.db, i)
    BY <1>14, <1>16, <1>19, <1>21 DEF Ledger, Exact, Clean, Somewhere, Sells, Posted
  <2>9. Ledger(v, {}, (0 - over) + x, total)
    BY <1>14, <1>16, <1>21, <2>5, <2>6, <2>7, <2>8, LedgerTables
  <2> QED BY <2>5, <2>9
<1>24. Memory(v, {p}, {m}) /\ FreeMails(v) = FreeMails(s) /\ InMemory(v) = InMemory(s)
  <2>1. SameTables(u.db, v.db, {p})
    BY <1>14, <1>19, <1>21 DEF SameTables
  <2>2. u.cut \subseteq v.cut
    BY <1>14, <1>21
  <2> QED BY <1>17, <1>21, <2>1, <2>2, MemorySame
<1>25. PICK b : b = q.mails
  OBVIOUS
<1>26. /\ v.pl[p] = q /\ b = v.pl[p].mails /\ b[m] = f /\ m \in DOMAIN b
  BY <1>10, <1>13, <1>15, <1>21, <1>25
<1>27. Mended(b) \subseteq {m} /\ Removed(b) = {}
  <2>1. p \in InMemory(v) /\ DOMAIN b \subseteq Mail
    BY <1>2, <1>21, <1>24, <1>26, RecordOf
  <2>2. \A n \in DOMAIN b \ {m} : b[n].state # "changed"
    BY <1>24, <1>26, <2>1 DEF Memory, MailInv
  <2>3. Mended(b) \subseteq {m}
    BY <2>2 DEF Mended
  <2>4. \A n \in Mended(b) : b[n].removed = {}
    BY <1>7, <1>26, <2>3
  <2>5. \A i : i \in Removed(b) <=> \E n \in Mended(b) : i \in b[n].removed
    BY Zenon DEF Removed
  <2> QED BY <2>3, <2>4, <2>5
<1>28. Sweeping(v, p, b, {m}, 0 - e.money, total)
  <2>1. Ledger(v, Removed(b), 0 - e.money, total)
    BY <1>23, <1>27
  <2>2. v.house = v.db.auction /\ v.aitems = Goods(v.db)
    BY <1>2, <1>9, <1>10, <1>14, <1>19, <1>21 DEF Goods, Sells
  <2>3. PurseInv(v.db, v.pl[p], p) /\ BagInv(v.db, v.pl[p], p)
    BY <1>9, <1>10, <1>13, <1>19, <1>21, <1>26 DEF PurseInv, BagInv
  <2>4. v.db.mail = s.db.mail /\ Attached(v.db, m, p) = Attached(s.db, m, p)
    BY <1>19, <1>21 DEF Attached
  <2>5. Opened(v.db, b[m], m, p) /\ (b[m].cod = 0 \/ b[m].cod = v.db.mail[m].cod)
    <3>1. CASE Fresh(s.db, e, m, p)
      BY <1>7, <1>26, <2>4, <3>1 DEF Fresh, Opened
    <3>2. CASE e.money = 0 /\ e.cod = 0 /\ e.items = {} /\ s.db.mail[m] = None
      BY <1>7, <1>26, <2>4, <3>2 DEF Opened, Held
    <3> QED BY <1>6, <3>1, <3>2
  <2>6. Taken(v.db, b, {m}, 0 - e.money)
    <3>1. CASE Fresh(s.db, e, m, p)
      BY <1>7, <1>26, <2>4, <3>1 DEF Fresh, Taken
    <3>2. CASE e.money = 0 /\ e.cod = 0 /\ e.items = {} /\ s.db.mail[m] = None
      BY <1>7, <1>26, <2>4, <3>2 DEF Taken
    <3> QED BY <1>6, <3>1, <3>2
  <2> QED BY <1>2, <1>7, <1>21, <1>24, <1>26, <1>27, <2>1, <2>2, <2>3, <2>5, <2>6 DEF Sweeping
<1>29. Kept(w, total) /\ FreeMails(v) \subseteq FreeMails(w) /\ w.house = v.house
  <2>1. w = Commit(_SaveMail(v, p), {})
    BY <1>4, Zenon
  <2> QED BY ONLY <1>28, <2>1, SweepKeeps
<1>30. Enough(w)
  <2>1. FreeMails(s) \subseteq FreeMails(w) /\ w.house = s.house
    BY <1>14, <1>21, <1>24, <1>29
  <2> QED BY <1>1, <2>1, OwedIs, EnoughSame
<1> QED BY <1>5, <1>29, <1>30, OutcomeKeeps

-----------------------------------------------------------------------------
(* What the handlers do with a mail and with a purse *)

\* The item i is not left by half, or somebody in memory may have it.
Tracked(s, i) == i \notin s.cut \/ InMemory(s) # {}

\* The items H and the money D are in hand, and of the players G their bags, their purses and
\* the mails M.
Hand(s, H, D, G, M, total) ==
    /\ Ledger(s, H, D, total) /\ Memory(s, G, M)
    /\ \A i \in Item : Tracked(s, i) => Clean(s.db, i)

\* t is s but for a mail with the items, that nobody had before.
Delivered(s, t, items) ==
    /\ t.house = s.house /\ t.aitems = s.aitems /\ t.past = s.past /\ t.cut = s.cut
    /\ t.db.gold = s.db.gold /\ t.db.inventory = s.db.inventory
    /\ t.db.instance = s.db.instance /\ t.db.auction = s.db.auction
    /\ InMemory(t) = InMemory(s)
    /\ \A n \in Mail : s.db.mail[n] # None =>
          t.db.mail[n] = s.db.mail[n] /\ \A q : Attached(t.db, n, q) = Attached(s.db, n, q)
    /\ \A i \in Item \ items, n \in Mail, q \in Player :
          Posted(t.db, n, i, q) <=> Posted(s.db, n, i, q)
    /\ \A q \in InMemory(s) :
          /\ t.pl[q].inWorld = s.pl[q].inWorld /\ t.pl[q].trade = s.pl[q].trade
          /\ t.pl[q].gold = s.pl[q].gold /\ t.pl[q].bag = s.pl[q].bag
          /\ \A n \in DOMAIN s.pl[q].mails :
                n \in DOMAIN t.pl[q].mails /\ t.pl[q].mails[n] = s.pl[q].mails[n]

LEMMA DeliveredIs ==
  ASSUME NEW s \in States, NEW m \in FreeMails(s), NEW row \in MailRow,
         NEW items \in SUBSET Item, NEW open, NEW t, Sent(s, t, m, row, items, open)
  PROVE  Delivered(s, t, items)
<1>1. PICK d, e : d = s.db /\ e = t.db
  OBVIOUS
<1>2. d \in Database /\ m \in Mail /\ d.mail[m] = None /\ d.mail \in [Mail -> MailRow \cup {None}]
  BY <1>1, StateFields, DatabaseFields DEF FreeMails
<1>3. e = PostedDb(d, m, row, items)
  BY <1>1 DEF Sent
<1>4. /\ e.gold = d.gold /\ e.inventory = d.inventory /\ e.instance = d.instance
      /\ e.auction = d.auction
      /\ e.mail = [d.mail EXCEPT ![m] = row]
      /\ e.attached = d.attached \cup {<<m, i, row.receiver>> : i \in items}
  BY <1>2, <1>3, PostedDbIs
<1>5. \A n \in Mail : d.mail[n] # None => n # m /\ e.mail[n] = d.mail[n]
  BY <1>2, <1>4
<1>6. \A n, i, q : n # m \/ i \notin items => (<<n, i, q>> \in e.attached <=> <<n, i, q>> \in d.attached)
  BY <1>4
<1>7. \A n \in Mail : d.mail[n] # None => \A q : Attached(e, n, q) = Attached(d, n, q)
  BY <1>4, <1>5, <1>6 DEF Attached
<1>8. \A q \in Player : Grown(s.pl[q], t.pl[q], m)
  BY SentRecords
<1>9. InMemory(t) = InMemory(s)
  BY <1>8 DEF InMemory, Grown
<1>10. ASSUME NEW q \in InMemory(s)
       PROVE  /\ t.pl[q].inWorld = s.pl[q].inWorld /\ t.pl[q].trade = s.pl[q].trade
              /\ t.pl[q].gold = s.pl[q].gold /\ t.pl[q].bag = s.pl[q].bag
              /\ \A n \in DOMAIN s.pl[q].mails :
                    n \in DOMAIN t.pl[q].mails /\ t.pl[q].mails[n] = s.pl[q].mails[n]
  BY <1>8 DEF InMemory, Grown
<1>11. \A i \in Item \ items, n \in Mail, q \in Player : Posted(e, n, i, q) <=> Posted(d, n, i, q)
  BY <1>6 DEF Posted
<1>12. t.house = s.house /\ t.aitems = s.aitems /\ t.past = s.past /\ t.cut = s.cut
  BY DEF Sent
<1> QED BY <1>1, <1>4, <1>5, <1>7, <1>9, <1>10, <1>11, <1>12 DEF Delivered

\* A mail with some of H and the money D can be sent, and K stays in hand.
Posting(s, H, D, K, receiver, sender, kind, money, cod, items, open) ==
    /\ FreeMails(s) # {} /\ receiver \in Player /\ sender \in Player \cup {None}
    /\ kind \in {"auction", "normal", "payment", "returned"}
    /\ money \in Nat /\ cod \in Nat /\ items \in SUBSET Item /\ open \in SUBSET Thing
    /\ cod # 0 \/ kind = "normal" => sender # None
    /\ \A i \in items : Tracked(s, i) => i \in s.db.instance /\ Nowhere(s.db, i)
    /\ items \subseteq H /\ H \subseteq K \cup items /\ K \subseteq open \cup s.cut
    /\ D = money \/ "money" \in open \cup s.cut

LEMMA HandSend ==
  ASSUME NEW s, NEW H, NEW D, NEW G, NEW M, NEW total, Hand(s, H, D, G, M, total),
         NEW receiver, NEW sender, NEW kind, NEW money, NEW cod, NEW items, NEW open, NEW K,
         Posting(s, H, D, K, receiver, sender, kind, money, cod, items, open),
         NEW t, t = SendMailTo(s, receiver, sender, kind, money, cod, items, open)
  PROVE  Hand(t, K, D - money, G, M, total) /\ Delivered(s, t, items)
         /\ \E m \in FreeMails(s) : FreeMails(t) = FreeMails(s) \ {m}
<1>0. /\ FreeMails(s) # {} /\ receiver \in Player /\ sender \in Player \cup {None}
      /\ kind \in {"auction", "normal", "payment", "returned"}
      /\ money \in Nat /\ cod \in Nat /\ items \in SUBSET Item /\ open \in SUBSET Thing
      /\ cod # 0 \/ kind = "normal" => sender # None
      /\ \A i \in items : Tracked(s, i) => i \in s.db.instance /\ Nowhere(s.db, i)
      /\ items \subseteq H /\ H \subseteq K \cup items /\ K \subseteq open \cup s.cut
      /\ D = money \/ "money" \in open \cup s.cut
  BY DEF Posting
<1>1. s \in States /\ s.db \in Database
  BY StateFields DEF Hand, Ledger
<1>2. PICK row : row = Row(receiver, sender, kind, money, cod)
  OBVIOUS
<1>3. row \in MailRow
  BY <1>0, <1>1, <1>2, SendMailIs
<1>4. PICK m \in FreeMails(s) : Sent(s, t, m, row, items, open)
  BY <1>0, <1>1, <1>2, SendMailIs
<1>5. MailRowInv(row) /\ row.money = money
  BY <1>0, <1>2 DEF MailRowInv, Row
<1>6. m \in Mail /\ s.db.mail[m] = None
  BY <1>4 DEF FreeMails
<1>7. t.db = PostedDb(s.db, m, row, items)
  BY <1>4 DEF Sent
<1>8. /\ \A i \in Item \ items : SameItem(s.db, t.db, i)
      /\ \A i \in items : Nowhere(s.db, i) /\ i \in s.db.instance => Exact(t.db, i)
  BY <1>0, <1>1, <1>3, <1>6, <1>7, PostedItems
<1>9. Delivered(s, t, items)
  BY <1>0, <1>1, <1>3, <1>4, DeliveredIs
<1>10. \A i \in items : Tracked(s, i) => Exact(t.db, i)
  BY <1>0, <1>8
<1>11. Ledger(t, K, D - row.money, total)
  <2>1. Ledger(s, H, D, total)
    BY DEF Hand
  <2>2. \A i \in (Item \cap H) \ (K \cup s.cut) : Exact(t.db, i)
    BY <1>0, <1>10 DEF Tracked
  <2>3. D = row.money \/ "money" \in open \cup s.cut
    BY <1>0, <1>5
  <2> QED BY <1>0, <1>3, <1>4, <1>5, <2>1, <2>2, <2>3, LedgerSent, Zenon
<1>12. \A i \in Item : Tracked(t, i) => Clean(t.db, i)
  <2> SUFFICES ASSUME NEW i \in Item, Tracked(t, i) PROVE Clean(t.db, i)
    OBVIOUS
  <2>1. Tracked(s, i)
    BY <1>9 DEF Delivered, Tracked
  <2>2. CASE i \in items
    BY <1>10, <2>1, <2>2 DEF Exact
  <2>3. CASE i \notin items
    BY <1>8, <2>1, <2>3, SameItemKept DEF Hand
  <2> QED BY <2>2, <2>3
<1>13. Memory(t, G, M) /\ FreeMails(t) = FreeMails(s) \ {m}
  <2>1. CASE InMemory(s) # {}
    <3>1. items \in SUBSET s.db.instance
      BY <1>0, <2>1 DEF Tracked
    <3>2. \A i \in Item \ items : Clean(s.db, i)
      BY <2>1 DEF Hand, Tracked
    <3>3. Memory(s, G, M)
      BY DEF Hand
    <3>4. InMemory(s) # {} => \A i \in Item \ items : Clean(s.db, i)
      BY <3>2
    <3>5. /\ Memory(t, G, M) /\ FreeMails(t) = FreeMails(s) \ {m} /\ InMemory(t) = InMemory(s)
          /\ t.db.gold = s.db.gold /\ t.db.inventory = s.db.inventory
          /\ t.db.instance = s.db.instance /\ t.db.auction = s.db.auction
      BY <1>1, <1>3, <1>4, <3>1, <3>4, <3>3, SentMemory, SMTT(60)
    <3> QED BY <3>5
  <2>2. CASE InMemory(s) = {}
    <3>1. InMemory(t) = {}
      BY <1>9, <2>2 DEF Delivered
    <3>2. Memory(t, G, M)
      BY <3>1 DEF Memory, InMemory, Paired
    <3>3. t.db.mail = [s.db.mail EXCEPT ![m] = row] /\ s.db.mail \in [Mail -> MailRow \cup {None}]
      <4>1. PICK d, e : d = s.db /\ e = t.db
        OBVIOUS
      <4>2. d \in Database /\ e = PostedDb(d, m, row, items)
        BY <1>1, <1>7, <4>1
      <4>3. e.mail = [d.mail EXCEPT ![m] = row]
        BY <1>0, <1>3, <1>6, <4>2, PostedDbIs
      <4> QED BY <1>1, <4>1, <4>3, DatabaseFields
    <3>4. FreeMails(t) = FreeMails(s) \ {m}
      <4>1. \A q \in Player : t.pl[q] = None /\ s.pl[q] = None
        BY <2>2, <3>1 DEF InMemory
      <4>2. row # None
        BY <1>3, NoneIsNothing
      <4>3. \A n \in Mail : t.db.mail[n] = None <=> s.db.mail[n] = None /\ n # m
        BY <1>6, <3>3, <4>2
      <4> QED BY <4>1, <4>3 DEF FreeMails
    <3> QED BY <3>2, <3>4
  <2> QED BY <2>1, <2>2
<1>14. Hand(t, K, D - money, G, M, total)
  BY <1>5, <1>11, <1>12, <1>13 DEF Hand
<1> QED BY <1>4, <1>9, <1>13, <1>14

\* t is s but for the purse of p.
Charging(s, t, p) ==
    /\ t.house = s.house /\ t.aitems = s.aitems /\ t.cut = s.cut /\ t.db = s.db /\ t.txs = s.txs
    /\ t.past.won = s.past.won /\ t.past.late = s.past.late
    /\ InMemory(t) = InMemory(s) /\ FreeMails(t) = FreeMails(s)
    /\ t.pl[p].inWorld = s.pl[p].inWorld /\ t.pl[p].trade = s.pl[p].trade
    /\ t.pl[p].bag = s.pl[p].bag /\ t.pl[p].mails = s.pl[p].mails
    /\ \A q \in Player \ {p} : t.pl[q] = s.pl[q]

LEMMA HandPay ==
  ASSUME NEW s, NEW H, NEW D, NEW G, NEW M, NEW total, Hand(s, H, D, G, M, total),
         NEW p \in G, p \in InMemory(s), NEW d \in Int,
         NEW t, t = ModifyMoney(s, p, d)
  PROVE  \E over \in Nat :
            /\ Hand(t, H, D - over, G, M, total) /\ Charging(s, t, p)
            /\ s.pl[p].gold + d >= 0 => t.pl[p].gold + over = s.pl[p].gold + d
            /\ s.pl[p].gold + d <= MaxGold => over = 0
<1>1. s \in States /\ s.pl \in [Player -> PlayerRecord \cup {None}]
      /\ p \in Player /\ s.pl[p] # None /\ s.pl[p] \in PlayerRecord
  BY StateFields, RecordOf DEF Hand, Ledger
<1>2. PICK g \in 0 .. MaxGold, over \in Nat : Paid(s, t, p, d, g, over)
  BY <1>1, ModifyMoneyIs
<1>3. PICK r : r = [s.pl[p] EXCEPT !.gold = g]
  OBVIOUS
<1>4. /\ r \in PlayerRecord /\ r.gold = g /\ r.inWorld = s.pl[p].inWorld
      /\ r.trade = s.pl[p].trade /\ r.bag = s.pl[p].bag /\ r.mails = s.pl[p].mails
  BY <1>1, <1>2, <1>3 DEF PlayerRecord
<1>5. t.pl = [s.pl EXCEPT ![p] = r] /\ t.past = [s.past EXCEPT !.money = @ + over]
  BY <1>2, <1>3 DEF Paid
<1>6. t.pl[p] = r /\ \A q \in Player \ {p} : t.pl[q] = s.pl[q]
  BY <1>1, <1>5
<1>7. /\ t \in States /\ t.house = s.house /\ t.aitems = s.aitems /\ t.cut = s.cut /\ t.db = s.db
      /\ t.txs = s.txs
  BY <1>2 DEF Paid
<1>8. t.past.won = s.past.won /\ t.past.late = s.past.late
  BY <1>1, <1>5, StateFields, PastMoney
<1>9. Memory(t, G, M) /\ FreeMails(t) = FreeMails(s) /\ InMemory(t) = InMemory(s)
  <2>1. Memory(s, G, M)
    BY DEF Hand
  <2>2. DOMAIN r.mails = DOMAIN s.pl[p].mails
        /\ \A m \in DOMAIN r.mails \ M : r.mails[m] = s.pl[p].mails[m]
    BY <1>4
  <2> QED BY <1>1, <1>4, <1>5, <1>7, <2>1, <2>2, MemoryRecord
<1>10. Ledger(t, H, D - over, total)
  BY <1>2, LedgerPaid DEF Hand
<1>11. Hand(t, H, D - over, G, M, total)
  BY <1>7, <1>9, <1>10 DEF Hand, Tracked
<1>12. Charging(s, t, p)
  BY <1>4, <1>6, <1>7, <1>8, <1>9 DEF Charging
<1>13. /\ s.pl[p].gold + d >= 0 => t.pl[p].gold + over = s.pl[p].gold + d
       /\ s.pl[p].gold + d <= MaxGold => over = 0
  BY <1>2, <1>4, <1>6 DEF Paid
<1> QED BY <1>11, <1>12, <1>13

LEMMA HandOf ==
  ASSUME NEW s, NEW total, Kept(s, total), NEW G, NEW M
  PROVE  Hand(s, {}, 0, G, M, total)
<1>1. \A i \in Item : Tracked(s, i) => Clean(s.db, i)
  BY DEF Kept, Ledger, Exact, Tracked, AllClean
<1> QED BY <1>1, MemoryOf DEF Hand, Kept

-----------------------------------------------------------------------------
(* Items are taken out of mails, and put into them *)

\* p, who has the money D too much in hand, puts the item i of his mail m into his bag.
Unpacking(s, p, m, i, D, total) ==
    /\ Hand(s, {}, D, {p}, {m}, total) /\ s.cut = {}
    /\ p \in InMemory(s) /\ m \in DOMAIN s.pl[p].mails
    /\ s.house = s.db.auction /\ s.aitems = Goods(s.db)
    /\ s.pl[p].gold = s.db.gold[p] + D
    /\ BagInv(s.db, s.pl[p], p)
    /\ i \in Item /\ Posted(s.db, m, i, p) /\ s.db.mail[m] # None /\ s.db.mail[m].receiver = p
    /\ LET f == s.pl[p].mails[m] IN
       /\ f.state = "changed" /\ f.cod = 0 /\ f.removed = {i}
       /\ f.sender = s.db.mail[m].sender /\ f.kind = s.db.mail[m].kind
       /\ f.money = s.db.mail[m].money /\ f.items = Attached(s.db, m, p) \ {i}

LEMMA UnpackingKeeps ==
  ASSUME NEW s, NEW p, NEW m, NEW i, NEW D, NEW total, Unpacking(s, p, m, i, D, total)
  PROVE  Kept(Commit(_SaveMail(SaveInventoryAndGoldToDB(
                [s EXCEPT !.pl[p].bag = @ \cup {i}], p), p), {}), total)
<1>41. PICK t : t = [s EXCEPT !.pl[p].bag = @ \cup {i}]
  OBVIOUS
<1>42. PICK u : u = SaveInventoryAndGoldToDB(t, p)
  OBVIOUS
<1>43. PICK v : v = Commit(_SaveMail(u, p), {})
  OBVIOUS
<1>0. /\ Hand(s, {}, D, {p}, {m}, total) /\ s.cut = {}
      /\ p \in InMemory(s) /\ m \in DOMAIN s.pl[p].mails
      /\ s.house = s.db.auction /\ s.aitems = Goods(s.db)
      /\ s.pl[p].gold = s.db.gold[p] + D /\ BagInv(s.db, s.pl[p], p)
  BY DEF Unpacking
<1>31. /\ i \in Item /\ Posted(s.db, m, i, p) /\ s.db.mail[m] # None /\ s.db.mail[m].receiver = p
        /\ s.pl[p].mails[m].state = "changed" /\ s.pl[p].mails[m].cod = 0
        /\ s.pl[p].mails[m].removed = {i}
        /\ s.pl[p].mails[m].sender = s.db.mail[m].sender /\ s.pl[p].mails[m].kind = s.db.mail[m].kind
        /\ s.pl[p].mails[m].money = s.db.mail[m].money
        /\ s.pl[p].mails[m].items = Attached(s.db, m, p) \ {i}
  BY Zenon DEF Unpacking
<1>1. /\ s \in States /\ s.db \in Database /\ p \in Player /\ s.pl[p] # None /\ p # None
      /\ s.pl[p] \in PlayerRecord /\ m \in Mail /\ s.pl[p].bag \subseteq Item
      /\ s.pl \in [Player -> PlayerRecord \cup {None}] /\ s.pl[p].gold \in Int
      /\ s.db.gold[p] \in Int /\ D \in Int
  <2>1. s \in States /\ D \in Int
    BY <1>0 DEF Hand, Ledger
  <2>2. p \in Player /\ s.pl[p] \in PlayerRecord /\ s.pl[p] # None /\ DOMAIN s.pl[p].mails \subseteq Mail
        /\ s.pl[p].bag \subseteq Item /\ s.pl[p].gold \in 0 .. MaxGold
    BY <1>0, <2>1, RecordOf
  <2>3. s.db \in Database /\ s.pl \in [Player -> PlayerRecord \cup {None}]
        /\ s.db.gold \in [Player -> 0 .. MaxGold]
    BY <2>1, StateFields, DatabaseFields
  <2>4. m \in Mail
    BY <1>0, <2>2
  <2>5. p # None /\ s.pl[p].gold \in Int /\ s.db.gold[p] \in Int
    BY <2>2, <2>3, MailConstants
  <2> QED BY <2>1, <2>2, <2>3, <2>4, <2>5
<1>2. \A j \in Item : Clean(s.db, j)
  BY <1>0 DEF Hand, Tracked
<1>3. /\ i \in s.db.instance /\ s.db.inventory[i] = None /\ \A a \in Auction : ~Sells(s.db, a, i)
      /\ \A n \in Mail, q \in Player : Posted(s.db, n, i, q) => n = m
  BY <1>1, <1>2, <1>31 DEF Clean
<1>4. i \notin s.pl[p].bag
  BY <1>0, <1>1, <1>3 DEF BagInv
<1>5. PICK r : r = [s.pl[p] EXCEPT !.bag = @ \cup {i}]
  OBVIOUS
<1>6. /\ r \in PlayerRecord /\ r.inWorld = s.pl[p].inWorld /\ r.trade = s.pl[p].trade
      /\ r.gold = s.pl[p].gold /\ r.mails = s.pl[p].mails /\ r.bag = s.pl[p].bag \cup {i}
  BY <1>1, <1>5, <1>31 DEF PlayerRecord
<1>7. PICK players : players = [s.pl EXCEPT ![p] = r]
  OBVIOUS
<1>8. players \in [Player -> PlayerRecord \cup {None}] /\ players[p] = r
      /\ \A q \in Player \ {p} : players[q] = s.pl[q]
  BY <1>1, <1>6, <1>7
<1>9. t = [s EXCEPT !.pl = players]
  BY <1>1, <1>5, <1>7, <1>41 DEF States, PlayerRecord
<1>10. PlayersStep(s, t) /\ t.pl = players
  BY <1>1, <1>8, <1>9 DEF States, PlayersStep
<1>11. Memory(t, {p}, {m}) /\ FreeMails(t) = FreeMails(s) /\ InMemory(t) = InMemory(s)
  <2>1. Memory(s, {p}, {m}) /\ p \in {p}
    BY <1>0 DEF Hand
  <2>2. t.pl = [s.pl EXCEPT ![p] = r] /\ t.db = s.db /\ t.cut = s.cut
        /\ DOMAIN r.mails = DOMAIN s.pl[p].mails
        /\ \A n \in DOMAIN r.mails \ {m} : r.mails[n] = s.pl[p].mails[n]
    BY <1>6, <1>7, <1>10 DEF PlayersStep
  <2>3. s \in States /\ p \in InMemory(s) /\ r \in PlayerRecord
        /\ r.inWorld = s.pl[p].inWorld /\ r.trade = s.pl[p].trade
    BY <1>0, <1>1, <1>6
  <2>4. PICK G, M : G = {p} /\ M = {m}
    OBVIOUS
  <2>5. Memory(t, G, M) /\ FreeMails(t) = FreeMails(s) /\ InMemory(t) = InMemory(s)
    <3>1. Memory(s, G, M) /\ p \in G /\ \A n \in DOMAIN r.mails \ M : r.mails[n] = s.pl[p].mails[n]
      BY <2>1, <2>2, <2>4
    <3> QED BY <2>2, <2>3, <3>1, MemoryRecord
  <2> QED BY <2>4, <2>5, Zenon
<1>12. Ledger(t, {}, D, total)
  <2>1. Ledger(s, {}, D, total)
    BY <1>0 DEF Hand
  <2>2. Logged(t, total)
    BY <1>10, <2>1, LoggedSame DEF PlayersStep, Ledger
  <2> QED BY <1>10, <2>1, <2>2 DEF PlayersStep, Ledger
<1>13. t \in States /\ t.db = s.db /\ t.pl[p] = r /\ t.house = s.house /\ t.aitems = s.aitems
       /\ t.cut = {} /\ p \in InMemory(t)
  BY <1>0, <1>8, <1>10, <1>11 DEF PlayersStep
<1>14. Ledger(u, {i}, 0, total)
  <2>1. \A j \in Item \ ({i} \cup t.cut) : BagHas(t.db, p, t.pl[p], j)
    <3>1. \A j \in Item : s.db.inventory[j] # None => j \in s.db.instance
      BY <1>2 DEF Clean
    <3> QED BY <1>0, <1>1, <1>6, <1>13, <3>1 DEF BagHas, BagInv
  <2>2. t.pl[p] # None
    BY <1>6, <1>13, PlayerFields
  <2>3. Ledger(u, {} \cup {i}, D + (t.db.gold[p] - t.pl[p].gold), total)
    BY <1>1, <1>12, <1>42, <2>1, <2>2, LedgerSave
  <2>4. D + (t.db.gold[p] - t.pl[p].gold) = 0 /\ {} \cup {i} = {i}
    BY <1>0, <1>1, <1>6, <1>13
  <2> QED BY <2>3, <2>4
<1>15. /\ Memory(u, {p}, {m}) /\ FreeMails(u) = FreeMails(t) /\ InMemory(u) = InMemory(t)
       /\ PurseInv(u.db, u.pl[p], p) /\ BagInv(u.db, u.pl[p], p)
       /\ u.pl = t.pl /\ u.db.instance = t.db.instance /\ u.db.mail = t.db.mail
       /\ u.db.attached = t.db.attached /\ u.db.auction = t.db.auction
       /\ \A j \in Item : u.db.inventory[j] = IF j \in t.pl[p].bag THEN p
                                              ELSE IF t.db.inventory[j] = p THEN None
                                              ELSE t.db.inventory[j]
  <2>1. t.pl[p].bag \subseteq t.db.instance
    BY <1>0, <1>3, <1>6, <1>13 DEF BagInv
  <2>2. ASSUME NEW q \in InMemory(t) \ {p}, q # p PROVE t.pl[q].bag \cap t.pl[p].bag = {}
    <3>1. t.pl[q] = s.pl[q] /\ q \in InMemory(s) /\ q \in Player /\ q # None
      BY <1>8, <1>10, <1>11, <2>2, MailConstants DEF InMemory
    <3>2. BagInv(s.db, s.pl[q], q)
      BY <1>0, <2>2, <3>1 DEF Hand, Memory
    <3> QED BY <1>0, <1>3, <1>6, <1>13, <3>1, <3>2 DEF BagInv
  <2>3. t \in States /\ Memory(t, {p}, {m}) /\ p \in InMemory(t)
    BY <1>11, <1>13
  <2>4. \A q \in InMemory(t) \ {p} : q # p => t.pl[q].bag \cap t.pl[p].bag = {}
    BY <2>2
  <2>5. PICK G, M : G = {p} /\ M = {m}
    OBVIOUS
  <2>6. Memory(t, G, M) /\ \A q \in InMemory(t) \ G : q # p => t.pl[q].bag \cap t.pl[p].bag = {}
    BY <2>3, <2>4, <2>5
  <2>7. /\ Memory(u, G, M) /\ FreeMails(u) = FreeMails(t) /\ InMemory(u) = InMemory(t)
       /\ PurseInv(u.db, u.pl[p], p) /\ BagInv(u.db, u.pl[p], p)
       /\ u.pl = t.pl /\ u.db.instance = t.db.instance /\ u.db.mail = t.db.mail
       /\ u.db.attached = t.db.attached /\ u.db.auction = t.db.auction
       /\ \A j \in Item : u.db.inventory[j] = IF j \in t.pl[p].bag THEN p
                                              ELSE IF t.db.inventory[j] = p THEN None
                                              ELSE t.db.inventory[j]
    BY <1>42, <2>1, <2>3, <2>6, SaveMemory
  <2> QED BY <2>5, <2>7, Zenon
<1>16. u.house = u.db.auction /\ u.aitems = Goods(u.db) /\ u.cut = {} /\ u \in States
  <2>1. DbStep(t, u)
    BY <1>1, <1>6, <1>13, <1>42, PlayerFields, SaveIs
  <2>3. u.db.auction = s.db.auction
    BY <1>13, <1>15
  <2>2. Goods(u.db) = Goods(s.db)
    BY <2>3 DEF Goods, Sells
  <2> QED BY <1>0, <1>13, <1>15, <2>1, <2>2 DEF DbStep
<1>17. PICK b : b = u.pl[p].mails
  OBVIOUS
<1>18. b = s.pl[p].mails /\ m \in DOMAIN b
  BY <1>0, <1>6, <1>13, <1>15, <1>17
<1>19. Mended(b) = {m} /\ Removed(b) = {i}
  <2>1. p \in InMemory(u) /\ DOMAIN b \subseteq Mail
    BY <1>13, <1>15, <1>16, <1>17, RecordOf
  <2>2. \A n \in DOMAIN b \ {m} : b[n].state # "changed"
    BY <1>15, <1>17, <2>1 DEF Memory, MailInv
  <2>3. Mended(b) = {m}
    BY <1>18, <1>31, <2>2 DEF Mended
  <2>4. \A j : j \in Removed(b) <=> \E n \in Mended(b) : j \in b[n].removed
    BY Zenon DEF Removed
  <2>5. b[m].removed = {i}
    BY <1>18, <1>31
  <2> QED BY <2>3, <2>4, <2>5
<1>20. Sweeping(u, p, b, {m}, 0, total)
  <2>1. Ledger(u, Removed(b), 0, total)
    BY <1>14, <1>19
  <2>2. Attached(u.db, m, p) = Attached(s.db, m, p)
    BY <1>13, <1>15 DEF Attached
  <2>3. u.db.mail = s.db.mail
    BY <1>13, <1>15
  <2>4. b[m].state = "changed" /\ Opened(u.db, b[m], m, p) /\ b[m].cod = 0
    BY <1>18, <1>31, <2>2, <2>3 DEF Opened
  <2>5. Taken(u.db, b, {m}, 0)
    <3>1. b[m].money \in Int
      BY <1>0, <1>1, <1>18, RecordOf DEF Letter
    <3>2. b[m].money = u.db.mail[m].money /\ u.db.mail[m] # None
      BY <1>18, <1>31, <2>3
    <3>3. PICK x, y : x = b[m].money /\ y = u.db.mail[m].money
      OBVIOUS
    <3>4. x \in Int /\ x = y
      BY <3>1, <3>2, <3>3, Zenon
    <3>5. x - y = 0
      BY <3>4
    <3>6. 0 = IF u.db.mail[m] = None THEN 0 ELSE b[m].money - u.db.mail[m].money
      BY <3>2, <3>3, <3>5, Zenon
    <3> QED BY <3>6 DEF Taken
  <2>6. /\ i \in u.db.instance /\ u.db.inventory[i] # None /\ \A a \in Auction : ~Sells(u.db, a, i)
        /\ \A n \in Mail, q \in Player : Posted(u.db, n, i, q) => n = m
    <3>1. i \in t.pl[p].bag
      BY <1>6, <1>13
    <3>2. u.db.inventory[i] = p /\ p # None
      BY <1>1, <1>15, <1>31, <3>1
    <3>3. u.db.auction = s.db.auction /\ u.db.instance = s.db.instance
          /\ u.db.attached = s.db.attached
      BY <1>13, <1>15
    <3> QED BY <1>3, <3>2, <3>3 DEF Sells, Posted
  <2>7. /\ p \in InMemory(u) /\ {m} \subseteq DOMAIN b /\ Memory(u, {p}, {m})
        /\ PurseInv(u.db, u.pl[p], p) /\ BagInv(u.db, u.pl[p], p)
    BY <1>13, <1>15, <1>18
  <2>8. \A n \in Mail, q \in Player : Posted(u.db, n, i, q) => n \in Mended(b) /\ i \in b[n].removed
    BY <1>18, <1>19, <1>31, <2>6
  <2> QED BY <1>16, <1>17, <1>19, <2>1, <2>4, <2>5, <2>6, <2>7, <2>8 DEF Sweeping
<1>21. Kept(v, total)
  BY <1>20, <1>43, SweepKeeps, Zenon
<1> QED BY <1>21, <1>41, <1>42, <1>43, Zenon

LEMMA NumbersIs ==
  ASSUME NEW n \in {1, 2}, HasNumbers(n)
  PROVE  FreeMails(World) # {} /\ (n = 2 => \A m : FreeMails(World) \ {m} # {})
<1>1. PICK F : F = FreeMails(World)
  OBVIOUS
<1>2. IsFiniteSet(F) /\ Cardinality(F) \in Nat /\ Cardinality(F) >= n
  BY <1>1, FreeMailsIs DEF HasNumbers
<1>3. F # {}
  BY <1>2, FS_EmptySet
<1>4. ASSUME n = 2, NEW m, F \ {m} = {} PROVE FALSE
  <2>1. F = {m}
    BY <1>3, <1>4
  <2>2. Cardinality(F) = 1
    BY <2>1, FS_Singleton
  <2> QED BY <1>2, <1>4, <2>2
<1> QED BY <1>1, <1>3, <1>4

\* A client's request ends as s.
LEMMA HandledKeeps ==
  ASSUME NEW s, NEW total, Kept(s, total), Handled(s)
  PROVE  Kept(World, total)' /\ Enough(World)'
BY OutcomeKeeps DEF Handled, Enough

LEMMA TakeItemKeeps ==
  ASSUME NEW total, Kept(World, total), Enough(World), cut = {}, NEW p \in Player, Here(p),
         NEW m \in DOMAIN pl[p].mails, NEW i \in Item, i \in pl[p].mails[m].items, HandleMailTakeItem(p, m, i)
  PROVE  Kept(World, total)' /\ Enough(World)'
<1>1. PICK s : s = World
  OBVIOUS
<1>2. s.pl = pl /\ s \in States /\ p \in InMemory(s) /\ pl[p] # None /\ s.cut = {}
      /\ s.db \in Database /\ s.house = s.db.auction /\ Kept(s, total)
      /\ s.pl[p] \in PlayerRecord
  BY <1>1, WorldIs, KeptStates, RecordOf DEF Here, InWorld, InMemory, Kept
<1>3. PICK e, f : e = pl[p].mails[m] /\ f = [e EXCEPT !.items = @ \ {i}, !.removed = @ \cup {i},
                                                  !.cod = 0, !.state = "changed"]
  BY Zenon
<1>4. PICK t : t = Closed(p, m, f)
  OBVIOUS
<1>5. PICK v : v = IF e.cod = 0 THEN t
                   ELSE ModifyMoney(SendMailTo(t, e.sender, p, "payment", e.cod, 0, {}, {"money"}),
                                    p, -e.cod)
  OBVIOUS
<1>6. PICK y : y = Commit(_SaveMail(SaveInventoryAndGoldToDB(
                       [v EXCEPT !.pl[p].bag = @ \cup {i}], p), p), {})
  OBVIOUS
<1>7. i \in e.items /\ pl[p].gold >= e.cod /\ HasNumbers(1) /\ Handled(y)
  <2> DEFINE F(a) == [a EXCEPT !.items = @ \ {i}, !.removed = @ \cup {i}, !.cod = 0, !.state = "changed"]
             V(a, z) == IF a.cod = 0 THEN z
                        ELSE ModifyMoney(SendMailTo(z, a.sender, p, "payment", a.cod, 0, {}, {"money"}),
                                         p, -a.cod)
             Y(z) == Commit(_SaveMail(SaveInventoryAndGoldToDB(
                              [z EXCEPT !.pl[p].bag = @ \cup {i}], p), p), {})
  <2>1. /\ pl[p].gold >= e.cod /\ HasNumbers(1)
        /\ Handled(Y(V(e, Closed(p, m, F(e)))))
    BY <1>3, Zenon DEF HandleMailTakeItem
  <2>2. f = F(e)
    BY <1>3, Zenon
  <2>3. v = V(e, t)
    BY <1>5, Zenon
  <2>4. y = Y(v)
    BY <1>6, Zenon
  <2> HIDE DEF F, V, Y
  <2>5. i \in e.items
    BY <1>3
  <2> QED BY <1>4, <2>1, <2>2, <2>3, <2>4, <2>5, Zenon
<1>8. e \in Letter /\ m \in Mail /\ e.removed = {} /\ Fresh(s.db, e, m, p)
  BY <1>1, <1>2, <1>3, <1>7, LetterIs
<1>9. /\ f \in Letter /\ f.state = "changed" /\ f.sender = e.sender /\ f.kind = e.kind
      /\ f.money = e.money /\ f.cod = 0 /\ f.items = e.items \ {i} /\ f.removed = {i}
      /\ e.cod \in Nat /\ e.sender \in Player \cup {None}
  BY <1>3, <1>8 DEF Letter, MailState
<1>10. PICK r : ClosedAs(s, t, p, m, f, r)
  BY <1>1, <1>2, <1>4, <1>9, ClosedIs
<1>11. /\ Ledger(t, {}, 0, total) /\ Memory(t, {p}, {m}) /\ FreeMails(t) = FreeMails(s)
       /\ InMemory(t) = InMemory(s) /\ t.house = t.db.auction /\ t.aitems = Goods(t.db)
       /\ PurseInv(t.db, t.pl[p], p) /\ BagInv(t.db, t.pl[p], p)
  BY <1>1, <1>2, <1>10, ClosedKept
<1>12. t \in States /\ t.db = s.db /\ t.cut = {} /\ t.house = s.house /\ t.pl[p] = r
       /\ r \in PlayerRecord /\ r.mails[m] = f /\ m \in DOMAIN r.mails /\ r.gold = s.pl[p].gold
  BY <1>2, <1>10 DEF ClosedAs, PlayersStep
<1>13. Hand(t, {}, 0, {p}, {m}, total)
  <2>1. \A j \in Item : Clean(t.db, j)
    BY <1>2, <1>12, KeptClean DEF AllClean
  <2> QED BY <1>11, <2>1 DEF Hand
<1>14. i \in Item /\ Posted(s.db, m, i, p) /\ s.db.mail[m] # None /\ s.db.mail[m].receiver = p
       /\ e.sender = s.db.mail[m].sender /\ e.kind = s.db.mail[m].kind
       /\ e.money = s.db.mail[m].money /\ e.cod = s.db.mail[m].cod /\ e.items = Attached(s.db, m, p)
  BY <1>7, <1>8 DEF Fresh, Attached, Posted
<1>15. r.gold \in Int /\ r.gold = s.db.gold[p]
  <2>1. r.gold \in 0 .. MaxGold /\ MaxGold \in Nat
    BY <1>12, PlayerFields, MailConstants
  <2> QED BY <1>11, <1>12, <2>1 DEF PurseInv
<1>16. CASE e.cod = 0
  <2>1. v = t
    BY <1>5, <1>16
  <2>2. r.gold = t.db.gold[p] + 0
    BY <1>12, <1>15
  <2>3. Unpacking(t, p, m, i, 0, total)
    BY <1>2, <1>9, <1>11, <1>12, <1>13, <1>14, <2>2 DEF Unpacking
  <2>4. Kept(y, total)
    BY <1>6, <2>1, <2>3, UnpackingKeeps, Zenon
  <2> QED BY <1>7, <2>4, HandledKeeps
<1>17. CASE e.cod # 0
  <2>1. PICK c : c = e.cod
    OBVIOUS
  <2>2. PICK u : u = SendMailTo(t, e.sender, p, "payment", c, 0, {}, {"money"})
    OBVIOUS
  <2>3. v = ModifyMoney(u, p, -c)
    BY <1>5, <1>17, <2>1, <2>2
  <2>4. e.sender \in Player
    <3>1. MailRowInv(s.db.mail[m])
      BY <1>2, <1>8, <1>14 DEF Kept, Ledger, DbInv
    <3> QED BY <1>9, <1>14, <1>17, <3>1 DEF MailRowInv
  <2>5. FreeMails(t) # {}
    BY <1>1, <1>7, <1>11, NumbersIs
  <2>6. Hand(u, {}, 0 - c, {p}, {m}, total) /\ Delivered(t, u, {})
    <3>1. Posting(t, {}, 0, {}, e.sender, p, "payment", c, 0, {}, {"money"})
      BY <1>9, <2>1, <2>4, <2>5 DEF Posting, Thing
    <3> QED BY <1>13, <2>2, <3>1, HandSend
  <2>7. /\ u.pl[p].gold = r.gold /\ u.pl[p].mails[m] = f /\ m \in DOMAIN u.pl[p].mails
        /\ u.pl[p].bag = r.bag /\ p \in InMemory(u) /\ u.cut = {}
        /\ u.house = t.house /\ u.aitems = t.aitems
        /\ u.db.gold = s.db.gold /\ u.db.inventory = s.db.inventory /\ u.db.instance = s.db.instance
        /\ u.db.auction = s.db.auction
        /\ u.db.mail[m] = s.db.mail[m] /\ Attached(u.db, m, p) = Attached(s.db, m, p)
        /\ \A j \in Item, n \in Mail, q \in Player : Posted(u.db, n, j, q) <=> Posted(s.db, n, j, q)
    BY <1>2, <1>8, <1>11, <1>12, <1>14, <2>6 DEF Delivered
  <2>8. PICK d : d = -c
    OBVIOUS
  <2>9. d \in Int /\ d = 0 - c /\ c \in Nat /\ r.gold >= c
    BY <1>2, <1>7, <1>9, <1>12, <2>1, <2>8
  <2>10. PICK over \in Nat :
            /\ Hand(v, {}, d - over, {p}, {m}, total) /\ Charging(u, v, p)
            /\ u.pl[p].gold + d >= 0 => v.pl[p].gold + over = u.pl[p].gold + d
            /\ u.pl[p].gold + d <= MaxGold => over = 0
    <3>1. PICK H, G, M : H = {} /\ G = {p} /\ M = {m}
      OBVIOUS
    <3>2. Hand(u, H, d, G, M, total) /\ p \in G /\ v = ModifyMoney(u, p, d)
      BY <2>3, <2>6, <2>8, <2>9, <3>1
    <3>3. \E over \in Nat :
            /\ Hand(v, H, d - over, G, M, total) /\ Charging(u, v, p)
            /\ u.pl[p].gold + d >= 0 => v.pl[p].gold + over = u.pl[p].gold + d
            /\ u.pl[p].gold + d <= MaxGold => over = 0
      BY <2>7, <2>9, <3>2, HandPay
    <3> QED BY <3>1, <3>3
  <2>11. over = 0 /\ d - over = d /\ v.pl[p].gold \in Int /\ v.pl[p].gold = r.gold + d
    <3>1. v.pl[p].gold \in 0 .. MaxGold /\ MaxGold \in Nat
      BY <2>7, <2>10, RecordOf, MailConstants DEF Hand, Ledger, Charging
    <3>2. r.gold <= MaxGold
      BY <1>12, PlayerFields, MailConstants
    <3> QED BY <1>15, <2>7, <2>9, <2>10, <3>1, <3>2
  <2>12. Unpacking(v, p, m, i, d, total)
    <3>1. Hand(v, {}, d, {p}, {m}, total)
      BY <2>10, <2>11
    <3>2. v.cut = {} /\ p \in InMemory(v) /\ m \in DOMAIN v.pl[p].mails /\ v.db = u.db
          /\ v.pl[p].mails[m] = f /\ v.pl[p].bag = r.bag /\ v.house = t.house /\ v.aitems = t.aitems
      BY <2>7, <2>10 DEF Charging
    <3>3. v.house = v.db.auction /\ v.aitems = Goods(v.db)
      <4>1. Goods(v.db) = Goods(t.db)
        BY <1>12, <2>7, <3>2 DEF Goods, Sells
      <4> QED BY <1>11, <1>12, <2>7, <3>2, <4>1
    <3>4. v.pl[p].gold = v.db.gold[p] + d
      BY <1>15, <2>7, <2>11, <3>2
    <3>5. BagInv(v.db, v.pl[p], p)
      BY <1>11, <1>12, <2>7, <3>2 DEF BagInv
    <3>6. /\ Posted(v.db, m, i, p) /\ v.db.mail[m] # None /\ v.db.mail[m].receiver = p
      BY <1>8, <1>14, <2>7, <3>2
    <3>7. /\ f.sender = v.db.mail[m].sender /\ f.kind = v.db.mail[m].kind
          /\ f.money = v.db.mail[m].money /\ f.items = Attached(v.db, m, p) \ {i}
      BY <1>9, <1>14, <2>7, <3>2
    <3> QED BY <1>9, <3>1, <3>2, <3>3, <3>4, <3>5, <3>6, <3>7 DEF Unpacking
  <2>13. Kept(y, total)
    BY <1>6, <2>12, UnpackingKeeps, Zenon
  <2> QED BY <1>7, <2>13, HandledKeeps
<1> QED BY <1>16, <1>17

\* One item leaves the inventory of p for a mail with all these.
Packed(p, items, s, i) ==
    Commit([s EXCEPT !.pl[p].bag = @ \ {i}, !.db.inventory[i] = None],
           (items \ s.pl[p].bag) \cup {i})

LEMMA SeqOfSet ==
  ASSUME NEW S, IsFiniteSet(S)
  PROVE  /\ Cardinality(S) \in Nat /\ SetToSeq(S) \in [1 .. Cardinality(S) -> S]
         /\ IsInjective(SetToSeq(S))
<1>1. Cardinality(S) \in Nat /\ ExistsBijection(1 .. Cardinality(S), S)
  BY FS_CardinalityType
<1>2. \E f \in [1 .. Cardinality(S) -> S] : IsInjective(f)
  BY <1>1 DEF ExistsBijection, Bijection, Injection
<1> QED BY <1>1, <1>2 DEF SetToSeq

\* p can be saved: what he has too much is the money D, and the tables have another place for
\* the items I of his bag at most.
Saving(s, p, H, I, D, total) ==
    /\ Ledger(s, H, D, total) /\ Memory(s, {p}, {}) /\ p \in InMemory(s)
    /\ D + s.db.gold[p] = s.pl[p].gold
    /\ s.pl[p].bag \subseteq s.db.instance
    /\ \A q \in InMemory(s) \ {p} : s.pl[q].bag \cap s.pl[p].bag = {}
    /\ \A i \in Item \ I : BagHas(s.db, p, s.pl[p], i)

\* t is s after p was saved.
SavedAs(s, t, p) ==
    /\ DbStep(s, t) /\ FreeMails(t) = FreeMails(s) /\ InMemory(t) = InMemory(s)
    /\ t.db.instance = s.db.instance /\ t.db.mail = s.db.mail
    /\ t.db.attached = s.db.attached /\ t.db.auction = s.db.auction
    /\ \A i \in Item : t.db.inventory[i] = IF i \in s.pl[p].bag THEN p
                                           ELSE IF s.db.inventory[i] = p THEN None
                                           ELSE s.db.inventory[i]

LEMMA SavingIs ==
  ASSUME NEW s, NEW p, NEW H, NEW I, NEW D, NEW total, Saving(s, p, H, I, D, total),
         NEW t, t = SaveInventoryAndGoldToDB(s, p)
  PROVE  Ledger(t, H \cup I, 0, total) /\ Memory(t, {}, {}) /\ SavedAs(s, t, p)
<1>1. t = SaveInventoryAndGoldToDB(s, p)
  OBVIOUS
<1>2. s \in States /\ D \in Int /\ Memory(s, {p}, {}) /\ p \in InMemory(s) /\ Ledger(s, H, D, total)
  BY DEF Saving, Ledger
<1>3. p \in Player /\ s.pl[p] # None /\ s.pl[p].gold \in 0 .. MaxGold /\ s.db.gold[p] \in 0 .. MaxGold
  BY <1>2, RecordOf, StateFields, DatabaseFields
<1>4. DbStep(s, t)
  BY <1>1, <1>2, <1>3, SaveIs
<1>5. Ledger(t, H \cup I, 0, total)
  <2>1. \A i \in Item \ (I \cup s.cut) : BagHas(s.db, p, s.pl[p], i)
    BY DEF Saving
  <2>2. Ledger(t, H \cup I, D + (s.db.gold[p] - s.pl[p].gold), total)
    BY <1>1, <1>2, <1>3, <2>1, LedgerSave
  <2>3. D + (s.db.gold[p] - s.pl[p].gold) = 0
    BY <1>2, <1>3, MailConstants DEF Saving
  <2> QED BY <2>2, <2>3
<1>6. /\ Memory(t, {p}, {}) /\ FreeMails(t) = FreeMails(s) /\ InMemory(t) = InMemory(s)
      /\ PurseInv(t.db, t.pl[p], p) /\ BagInv(t.db, t.pl[p], p)
      /\ t.pl = s.pl /\ t.db.instance = s.db.instance /\ t.db.mail = s.db.mail
      /\ t.db.attached = s.db.attached /\ t.db.auction = s.db.auction
      /\ \A i \in Item : t.db.inventory[i] = IF i \in s.pl[p].bag THEN p
                                             ELSE IF s.db.inventory[i] = p THEN None
                                             ELSE s.db.inventory[i]
  <2>1. PICK G, M : G = {p} /\ M = {}
    OBVIOUS
  <2>2. Memory(s, G, M) /\ s.pl[p].bag \subseteq s.db.instance
        /\ \A q \in InMemory(s) \ G : q # p => s.pl[q].bag \cap s.pl[p].bag = {}
    BY <1>2, <2>1 DEF Saving
  <2>3. /\ Memory(t, G, M) /\ FreeMails(t) = FreeMails(s) /\ InMemory(t) = InMemory(s)
        /\ PurseInv(t.db, t.pl[p], p) /\ BagInv(t.db, t.pl[p], p)
        /\ t.pl = s.pl /\ t.db.instance = s.db.instance /\ t.db.mail = s.db.mail
        /\ t.db.attached = s.db.attached /\ t.db.auction = s.db.auction
        /\ \A i \in Item : t.db.inventory[i] = IF i \in s.pl[p].bag THEN p
                                               ELSE IF s.db.inventory[i] = p THEN None
                                               ELSE s.db.inventory[i]
    BY <1>1, <1>2, <2>2, SaveMemory
  <2> QED BY <2>1, <2>3, Zenon
<1>7. Memory(t, {}, {})
  BY <1>6 DEF Memory
<1> QED BY <1>4, <1>5, <1>6, <1>7 DEF SavedAs

\* Nothing is in hand any more: the state as it is left to Outcome.
LEMMA KeptCommit ==
  ASSUME NEW s, NEW total, Ledger(s, {}, 0, total), Memory(s, {}, {}), s.cut = {},
         s.house = s.db.auction, s.aitems = Goods(s.db)
  PROVE  Kept(Commit(s, {}), total)
<1>1. PICK t : t = Commit(s, {})
  OBVIOUS
<1>2. s \in States
  BY DEF Ledger
<1>3. /\ t.db = s.db /\ t.pl = s.pl /\ t.house = s.house /\ t.aitems = s.aitems /\ t.cut = {}
  BY <1>1, <1>2, CommitIs
<1>4. Ledger(t, {}, 0, total)
  BY <1>1, LedgerCommit
<1>5. Memory(t, {}, {})
  <2>1. SameTables(s.db, t.db, {})
    BY <1>3 DEF SameTables
  <2> QED BY <1>3, <2>1, MemorySame
<1>6. AllClean(t.db)
  BY <1>3, <1>4 DEF Ledger, AllClean, Exact
<1> QED BY <1>1, <1>3, <1>4, <1>5, <1>6, KeptFrom

\* The item i has left the bag of p, and t.
Carrying(s, t, p, i, total) ==
    /\ Hand(t, {i}, 0, {p}, {}, total) /\ t.cut = {}
    /\ FreeMails(t) = FreeMails(s) /\ InMemory(t) = InMemory(s)
    /\ t.house = s.house /\ t.aitems = s.aitems /\ t.pl[p].gold = s.pl[p].gold
    /\ t.db.gold = s.db.gold /\ t.db.auction = s.db.auction
    /\ BagInv(t.db, t.pl[p], p) /\ i \in t.db.instance /\ Nowhere(t.db, i)

LEMMA CarryingIs ==
  ASSUME NEW s, NEW p, NEW i, NEW total, Hand(s, {}, 0, {p}, {}, total), s.cut = {},
         p \in InMemory(s), i \in s.pl[p].bag, BagInv(s.db, s.pl[p], p)
  PROVE  Carrying(s, Packed(p, {i}, s, i), p, i, total)
<1>1. PICK t : t = Packed(p, {i}, s, i)
  OBVIOUS
<1>2. /\ s \in States /\ s.db \in Database /\ p \in Player /\ p # None /\ s.pl[p] \in PlayerRecord
      /\ s.pl \in [Player -> PlayerRecord \cup {None}] /\ i \in Item
      /\ s.db.inventory \in [Item -> Player \cup {None}]
  BY StateFields, DatabaseFields, RecordOf, MailConstants DEF Hand, Ledger
<1>3. PICK r : r = [s.pl[p] EXCEPT !.bag = @ \ {i}]
  OBVIOUS
<1>4. /\ r \in PlayerRecord /\ r.inWorld = s.pl[p].inWorld /\ r.trade = s.pl[p].trade
      /\ r.gold = s.pl[p].gold /\ r.mails = s.pl[p].mails /\ r.bag = s.pl[p].bag \ {i}
  BY <1>2, <1>3 DEF PlayerRecord
<1>5. PICK players : players = [s.pl EXCEPT ![p] = r]
  OBVIOUS
<1>6. players \in [Player -> PlayerRecord \cup {None}] /\ players[p] = r
      /\ \A q \in Player \ {p} : players[q] = s.pl[q]
  BY <1>2, <1>4, <1>5
<1>7. PICK inventory : inventory = [s.db.inventory EXCEPT ![i] = None]
  OBVIOUS
<1>8. inventory \in [Item -> Player \cup {None}] /\ inventory[i] = None
      /\ \A j \in Item : j # i => inventory[j] = s.db.inventory[j]
  BY <1>2, <1>7
<1>9. PICK d : d = [s.db EXCEPT !.inventory = inventory]
  OBVIOUS
<1>10. /\ d \in Database /\ d.inventory = inventory /\ d.gold = s.db.gold
       /\ d.instance = s.db.instance /\ d.attached = s.db.attached /\ d.auction = s.db.auction
       /\ d.mail = s.db.mail
  BY <1>2, <1>8, <1>9 DEF Database
<1>11. PICK v : v = [s EXCEPT !.pl = players]
  OBVIOUS
<1>12. PICK u : u = [v EXCEPT !.db = d]
  OBVIOUS
<1>13. PlayersStep(s, v) /\ v.pl = players
  BY <1>2, <1>6, <1>11 DEF States, PlayersStep
<1>14. /\ u \in States /\ u.db = d /\ u.pl = players /\ u.txs = s.txs /\ u.house = s.house
       /\ u.aitems = s.aitems /\ u.past = s.past /\ u.cut = s.cut
  BY <1>10, <1>12, <1>13 DEF States, PlayersStep
<1>15. t = Commit(u, {i})
  <2>1. t = Commit([s EXCEPT !.pl[p].bag = @ \ {i}, !.db.inventory[i] = None],
                   ({i} \ s.pl[p].bag) \cup {i})
    BY <1>1, Zenon DEF Packed
  <2>2. ({i} \ s.pl[p].bag) \cup {i} = {i}
    OBVIOUS
  <2>3. [s EXCEPT !.pl[p].bag = @ \ {i}, !.db.inventory[i] = None] = u
    <3>1. [s EXCEPT !.pl[p].bag = @ \ {i}, !.db.inventory[i] = None]
            = [s EXCEPT !.pl = players, !.db = d]
      BY <1>2, <1>3, <1>5, <1>7, <1>9 DEF States
    <3>2. u = [s EXCEPT !.pl = players, !.db = d]
      BY <1>2, <1>11, <1>12 DEF States
    <3> QED BY <3>1, <3>2, Zenon
  <2> QED BY <2>1, <2>2, <2>3, Zenon
<1>16. \A j \in Item : Clean(s.db, j)
  BY DEF Hand, Tracked
<1>17. s.db.inventory[i] = p /\ i \in s.db.instance
  BY <1>2 DEF BagInv
<1>18. \A j \in Item \ {i} : SameItem(s.db, d, j)
  BY <1>8, <1>10 DEF SameItem, Sells, Posted
<1>19. Nowhere(d, i)
  BY <1>2, <1>8, <1>10, <1>16, <1>17 DEF Nowhere, Clean, Sells, Posted
<1>20. Ledger(u, {i}, 0, total)
  <2>1. Ledger(s, {}, 0, total)
    BY DEF Hand
  <2>2. DbInv(u.db) /\ WonInv(u.db, u.past)
    BY <1>10, <1>14, <2>1 DEF Ledger, DbInv, WonInv, Sells
  <2>3. \A j \in Item \ (s.cut \cup {i}) : Exact(u.db, j)
    BY <1>14, <1>18, <2>1, SameItemKept DEF Ledger
  <2>4. GoldOf(u.db) + DepositOf(u.db) + LetterOf(u.db)
           = GoldOf(s.db) + DepositOf(s.db) + LetterOf(s.db) - 0
    <3>1. GoldOf(d) = GoldOf(s.db) /\ DepositOf(d) = DepositOf(s.db) /\ LetterOf(d) = LetterOf(s.db)
      BY <1>10, SameMoney
    <3>2. GoldOf(s.db) \in Nat /\ DepositOf(s.db) \in Nat /\ LetterOf(s.db) \in Nat
      BY <1>2, MoneyIs, StateFields
    <3> QED BY <1>14, <3>1, <3>2
  <2>5. Ledger(u, {i}, 0 + 0, total)
    BY <1>14, <2>1, <2>2, <2>3, <2>4, LedgerTables
  <2> QED BY <2>5
<1>21. Memory(v, {p}, {}) /\ FreeMails(v) = FreeMails(s) /\ InMemory(v) = InMemory(s)
  <2>1. PICK G, M : G = {p} /\ M = {}
    OBVIOUS
  <2>2. Memory(s, G, M) /\ p \in G /\ v.pl = [s.pl EXCEPT ![p] = r] /\ v.db = s.db /\ v.cut = s.cut
        /\ DOMAIN r.mails = DOMAIN s.pl[p].mails
        /\ \A n \in DOMAIN r.mails \ M : r.mails[n] = s.pl[p].mails[n]
    BY <1>4, <1>5, <1>13, <2>1 DEF Hand, PlayersStep
  <2>3. Memory(v, G, M) /\ FreeMails(v) = FreeMails(s) /\ InMemory(v) = InMemory(s)
    <3>1. s \in States /\ p \in InMemory(s) /\ r \in PlayerRecord
          /\ r.inWorld = s.pl[p].inWorld /\ r.trade = s.pl[p].trade
      BY <1>2, <1>4
    <3> QED BY <2>2, <3>1, MemoryRecord, SMTT(60)
  <2> QED BY <2>1, <2>3, Zenon
<1>22. Memory(u, {p}, {}) /\ FreeMails(u) = FreeMails(s) /\ InMemory(u) = InMemory(s)
  <2>1. InMemory(u) = InMemory(v) /\ u.pl = v.pl
    BY <1>13, <1>14 DEF InMemory
  <2>2. FreeMails(u) = FreeMails(v)
    BY <1>10, <1>13, <1>14 DEF FreeMails, PlayersStep
  <2>3. ASSUME NEW q \in InMemory(u) \ {p} PROVE PurseInv(u.db, u.pl[q], q) /\ BagInv(u.db, u.pl[q], q)
    <3>1. PurseInv(s.db, u.pl[q], q) /\ BagInv(s.db, u.pl[q], q) /\ q \in Player /\ q # None
      BY <1>13, <1>21, <2>1, MailConstants DEF Memory, PlayersStep, InMemory
    <3>2. \A j \in Item : inventory[j] = q <=> s.db.inventory[j] = q
      BY <1>8, <1>17, <3>1
    <3>3. s.db.instance \subseteq Item
      BY <1>2, DatabaseFields
    <3> QED BY <1>10, <1>14, <3>1, <3>2, <3>3 DEF PurseInv, BagInv
  <2>4. ASSUME NEW q \in InMemory(u), NEW n \in Mail, n \in DOMAIN u.pl[q].mails
        PROVE  MailInv(u.db, u.cut, u.pl[q].mails[n], n, q)
    <3>1. MailInv(s.db, s.cut, u.pl[q].mails[n], n, q)
      BY <1>13, <1>21, <2>1, <2>4 DEF Memory, PlayersStep
    <3>2. u.db.mail[n] = s.db.mail[n] /\ Attached(u.db, n, q) = Attached(s.db, n, q)
      BY <1>10, <1>14 DEF Attached
    <3> QED BY <1>14, <3>1, <3>2, MailInvSame
  <2>5. Paired(u.pl)
    BY <1>21, <2>1 DEF Memory
  <2> QED BY <1>21, <2>1, <2>2, <2>3, <2>4, <2>5 DEF Memory
<1>23. \A j \in Item : Clean(u.db, j)
  <2>1. Clean(u.db, i)
    BY <1>14, <1>19 DEF Clean, Nowhere
  <2> QED BY <1>14, <1>16, <1>18, <2>1, SameItemKept
<1>24. /\ t \in States /\ t.db = u.db /\ t.pl = u.pl /\ t.house = u.house /\ t.aitems = u.aitems
       /\ t.cut = u.cut
  <2>1. {i} \in SUBSET Thing
    BY <1>2 DEF Thing
  <2> QED BY <1>14, <1>15, <2>1, CommitIs
<1>25. Ledger(t, {i}, 0, total)
  <2>1. {i} \in SUBSET Thing
    BY <1>2 DEF Thing
  <2> QED BY <1>15, <1>20, <2>1, LedgerCommit
<1>26. Memory(t, {p}, {}) /\ FreeMails(t) = FreeMails(u) /\ InMemory(t) = InMemory(u)
  <2>1. PICK G, M : G = {p} /\ M = {}
    OBVIOUS
  <2>2. SameTables(u.db, t.db, G) /\ Memory(u, G, M) /\ t.pl = u.pl /\ u.cut \subseteq t.cut
    BY <1>22, <1>24, <2>1 DEF SameTables
  <2>3. Memory(t, G, M) /\ FreeMails(t) = FreeMails(u) /\ InMemory(t) = InMemory(u)
    BY <2>2, MemorySame
  <2> QED BY <2>1, <2>3, Zenon
<1>27. BagInv(t.db, t.pl[p], p)
  <2>1. \A j \in Item : j \in r.bag <=> j \in s.db.instance /\ inventory[j] = p
    BY <1>2, <1>4, <1>8, <1>17 DEF BagInv
  <2>2. s.db.instance \subseteq Item /\ r.bag \subseteq Item
    BY <1>2, <1>4, DatabaseFields, PlayerFields
  <2> QED BY <1>6, <1>10, <1>14, <1>24, <2>1, <2>2 DEF BagInv
<1>28. Hand(t, {i}, 0, {p}, {}, total)
  BY <1>23, <1>24, <1>25, <1>26 DEF Hand
<1>29. Carrying(s, t, p, i, total)
  BY <1>4, <1>6, <1>10, <1>14, <1>17, <1>19, <1>22, <1>24, <1>26, <1>27, <1>28 DEF Carrying
<1> QED BY <1>1, <1>29

\* The mail with the money and the items of p is sent, and then he is saved.
Mailed(p, r, items, money, cod, cost, b) ==
    Commit(SaveInventoryAndGoldToDB(
              Spent(SendMailTo(b, r, p, "normal", money, cod, items, {"money"}), cost), p), {})

LEMMA SendMailParts ==
  ASSUME NEW p, NEW r, NEW items, NEW i, items = {} \/ items = {i}, NEW money, NEW cod,
         HandleSendMail(p, r, items, money, cod),
         NEW cost, cost = Postage * Max({1, Cardinality(items)}),
         NEW a, a = ModifyMoney(World, p, -(cost + money))
  PROVE  /\ Here(p) /\ items \subseteq pl[p].bag /\ pl[p].gold >= cost + money
         /\ HasNumbers(1)
         /\ Handled(Mailed(p, r, items, money, cod, cost,
                           IF items = {} THEN a ELSE Packed(p, items, a, i)))
<1>1. PICK n, q : n = Cardinality(items) /\ q = SetToSeq(items)
  OBVIOUS
<1>2. IsFiniteSet(items) /\ (items = {} => n = 0) /\ (items # {} => n = 1)
  BY <1>1, FS_EmptySet, FS_Singleton
<1>3. q \in [1 .. n -> items] /\ n \in {0, 1}
  BY <1>1, <1>2, SeqOfSet
<1>4. DOMAIN q = 1 .. n /\ (n = 1 => q[1] = i)
  BY <1>2, <1>3
<1> DEFINE Step(s, j) == Packed(p, items, s, j)
           E(f) == f = [S \in SUBSET (1 .. n) |-> IF S = {} THEN a
                                                  ELSE Step(f[S \ {Max(S)}], q[Max(S)])]
           it == CHOOSE f : E(f)
           h == [S \in SUBSET (1 .. n) |-> IF S = {} THEN a ELSE Step(a, i)]
<1>5. FoldLeft(LAMBDA s, j : Packed(p, items, s, j), a, SetToSeq(items)) = it[1 .. n]
  BY <1>1, <1>4 DEF FoldLeft, MapThenFoldSet
<1>6. \A S \in SUBSET (1 .. n) : S # {} => n = 1 /\ S = {1} /\ Max(S) = 1 /\ S \ {1} = {}
  <2>1. Max({1}) = 1
    BY MaxIs
  <2>2. 1 .. 0 = {} /\ 1 .. 1 = {1}
    OBVIOUS
  <2> QED BY <1>3, <2>1, <2>2
<1>7. E(h)
  <2>1. \A S \in SUBSET (1 .. n) : h[S] = IF S = {} THEN a ELSE Step(a, i)
    OBVIOUS
  <2>2. h[{}] = a
    OBVIOUS
  <2>3. \A S \in SUBSET (1 .. n) : h[S] = IF S = {} THEN a ELSE Step(h[S \ {Max(S)}], q[Max(S)])
    <3> SUFFICES ASSUME NEW S \in SUBSET (1 .. n), S # {}
                 PROVE  h[S] = Step(h[S \ {Max(S)}], q[Max(S)])
      BY <2>1, Zenon
    <3>1. S \ {Max(S)} = {} /\ q[Max(S)] = i
      BY <1>4, <1>6
    <3> HIDE DEF h, Step
    <3> QED BY <2>1, <2>2, <3>1
  <2>4. h = [S \in SUBSET (1 .. n) |-> h[S]]
    OBVIOUS
  <2> HIDE DEF h, Step
  <2> QED BY <2>3, <2>4
<1>8. E(it)
  <2> HIDE DEF E
  <2> QED BY <1>7
<1>9. \A S \in SUBSET (1 .. n) : it[S] = IF S = {} THEN a ELSE Step(it[S \ {Max(S)}], q[Max(S)])
  <2> HIDE DEF it, Step
  <2> QED BY <1>8
<1>10. it[{}] = a
  BY <1>9
<1> HIDE DEF it
<1>21. PICK c : c = FoldLeft(LAMBDA s, j : Packed(p, items, s, j), a, SetToSeq(items))
  BY Zenon
<1>22. c = it[1 .. n]
  BY <1>5, <1>21, Zenon
<1>23. /\ Here(p) /\ items \subseteq pl[p].bag /\ pl[p].gold >= cost + money
       /\ HasNumbers(1)
       /\ Handled(Mailed(p, r, items, money, cod, cost, c))
  BY <1>21, Zenon DEF HandleSendMail, Mailed, Packed
<1>11. CASE items = {}
  <2>1. 1 .. n = {}
    BY <1>2, <1>11
  <2>2. c = a
    BY <1>10, <1>22, <2>1
  <2> QED BY <1>11, <1>23, <2>2, Zenon
<1>12. CASE items # {}
  <2>1. 1 .. n = {1} /\ n = 1 /\ q[1] = i
    BY <1>2, <1>4, <1>12
  <2>2. Max({1}) = 1 /\ {1} \ {1} = {}
    BY <1>6, <2>1
  <2>3. it[{1}] = Step(it[{}], i)
    <3> HIDE DEF Step
    <3> QED BY <1>9, <2>1, <2>2
  <2> HIDE DEF Step
  <2>4. it[1 .. n] = Step(a, i)
    BY <1>10, <2>1, <2>3
  <2>5. c = Packed(p, items, a, i)
    BY <1>22, <2>4, Zenon DEF Step
  <2> QED BY <1>12, <1>23, <2>5, Zenon
<1> QED BY <1>11, <1>12

\* p has money enough for d, and his purse holds it.
LEMMA HandCharge ==
  ASSUME NEW s, NEW H, NEW D, NEW p, NEW M, NEW total, Hand(s, H, D, {p}, M, total),
         p \in InMemory(s), NEW d \in Int, s.pl[p].gold + d \in 0 .. MaxGold,
         NEW t, t = ModifyMoney(s, p, d)
  PROVE  Hand(t, H, D, {p}, M, total) /\ Charging(s, t, p) /\ t.pl[p].gold = s.pl[p].gold + d
<1>1. PICK G : G = {p}
  OBVIOUS
<1>2. Hand(s, H, D, G, M, total) /\ p \in G
  BY <1>1
<1>3. s.pl[p].gold + d >= 0 /\ s.pl[p].gold + d <= MaxGold
  BY MailConstants
<1>4. PICK over \in Nat :
          /\ Hand(t, H, D - over, G, M, total) /\ Charging(s, t, p)
          /\ s.pl[p].gold + d >= 0 => t.pl[p].gold + over = s.pl[p].gold + d
          /\ s.pl[p].gold + d <= MaxGold => over = 0
  BY <1>2, HandPay
<1>5. over = 0
  BY <1>3, <1>4
<1>6. D - over = D
  <2>1. D \in Int
    BY DEF Hand, Ledger
  <2> QED BY <1>5, <2>1
<1>7. t.pl[p].gold \in Int
  <2>1. t \in States /\ p \in InMemory(t)
    BY <1>4 DEF Hand, Ledger, Charging
  <2>2. t.pl[p].gold \in 0 .. MaxGold
    BY <2>1, RecordOf
  <2> QED BY <2>2, MailConstants
<1>8. t.pl[p].gold = s.pl[p].gold + d
  BY <1>3, <1>4, <1>5, <1>7
<1> QED BY <1>1, <1>4, <1>6, <1>8

\* p, whose bag is stored, can be saved; what he has too much is the money D in hand.
Ready(s, p, H, D, total) ==
    /\ Hand(s, H, D, {p}, {}, total) /\ s.cut = {} /\ p \in InMemory(s)
    /\ BagInv(s.db, s.pl[p], p) /\ D + s.db.gold[p] = s.pl[p].gold

LEMMA SaveHand ==
  ASSUME NEW s, NEW p, NEW H, NEW D, NEW total, Ready(s, p, H, D, total),
         NEW t, t = SaveInventoryAndGoldToDB(s, p)
  PROVE  Hand(t, H, 0, {}, {}, total) /\ SavedAs(s, t, p)
<1>0. /\ Hand(s, H, D, {p}, {}, total) /\ s.cut = {} /\ p \in InMemory(s)
      /\ BagInv(s.db, s.pl[p], p) /\ D + s.db.gold[p] = s.pl[p].gold
  BY DEF Ready
<1>1. /\ s \in States /\ s.db \in Database /\ p # None /\ s.db.instance \subseteq Item /\ p \in Player
      /\ Ledger(s, H, D, total) /\ Memory(s, {p}, {})
  BY <1>0, MailConstants, StateFields, DatabaseFields DEF Hand, Ledger, InMemory
<1>2. \A j \in Item : Clean(s.db, j)
  BY <1>0 DEF Hand, Tracked
<1>3. s.pl[p].bag \subseteq s.db.instance
  BY <1>0 DEF BagInv
<1>4. ASSUME NEW q \in InMemory(s) \ {p} PROVE s.pl[q].bag \cap s.pl[p].bag = {}
  <2>1. BagInv(s.db, s.pl[q], q)
    BY <1>1 DEF Memory
  <2> QED BY <1>0, <1>4, <2>1 DEF BagInv
<1>5. \A j \in Item : BagHas(s.db, p, s.pl[p], j)
  BY <1>0, <1>1, <1>2 DEF BagHas, BagInv, Clean
<1>6. Saving(s, p, H, {}, D, total)
  BY <1>0, <1>1, <1>3, <1>4, <1>5 DEF Saving
<1>7. PICK I : I = {}
  OBVIOUS
<1>8. Saving(s, p, H, I, D, total)
  BY <1>6, <1>7
<1>9. Ledger(t, H \cup I, 0, total) /\ Memory(t, {}, {}) /\ SavedAs(s, t, p)
  BY <1>8, SavingIs
<1>10. H \cup I = H
  BY <1>7
<1>11. Ledger(t, H, 0, total) /\ Memory(t, {}, {})
  BY <1>9, <1>10
<1>12. t.db.inventory = s.db.inventory
  <2>1. t.db.inventory \in [Item -> Player \cup {None}] /\ s.db.inventory \in [Item -> Player \cup {None}]
    BY <1>1, <1>11, StateFields, DatabaseFields DEF Ledger
  <2>2. \A i \in Item : t.db.inventory[i] = s.db.inventory[i]
    BY <1>5, <1>9 DEF BagHas, SavedAs
  <2> QED BY <2>1, <2>2
<1>13. \A j \in Item : Clean(t.db, j)
  <2>1. \A j \in Item : SameItem(s.db, t.db, j)
    BY <1>9, <1>12 DEF SameItem, Sells, Posted, SavedAs
  <2> QED BY <1>2, <2>1, SameItemKept
<1> QED BY <1>9, <1>11, <1>13 DEF Hand

LEMMA SendMailKeeps ==
  ASSUME NEW total, Kept(World, total), Enough(World), cut = {}, NEW p \in Player, NEW r \in Player,
         NEW i, NEW items, items = {} \/ items = {i}, NEW money \in Nat, NEW cod \in Nat,
         HandleSendMail(p, r, items, money, cod)
  PROVE  Kept(World, total)' /\ Enough(World)'
<1>1. PICK s : s = World
  OBVIOUS
<1>2. PICK cost : cost = Postage * Max({1, Cardinality(items)})
  OBVIOUS
<1>3. cost \in Nat
  <2>1. Cardinality(items) \in {0, 1}
    BY FS_EmptySet, FS_Singleton
  <2>2. Max({1, Cardinality(items)}) = 1
    BY <2>1, MaxIs
  <2> QED BY <1>2, <2>2, AuctionConstants
<1>4. PICK d, a : d = -(cost + money) /\ a = ModifyMoney(s, p, d)
  OBVIOUS
<1>5. PICK b : b = IF items = {} THEN a ELSE Packed(p, items, a, i)
  OBVIOUS
<1>6. PICK c : c = SendMailTo(b, r, p, "normal", money, cod, items, {"money"})
  OBVIOUS
<1>7. PICK x : x = Spent(c, cost)
  OBVIOUS
<1>8. PICK y : y = SaveInventoryAndGoldToDB(x, p)
  OBVIOUS
<1>9. PICK z : z = Commit(y, {})
  OBVIOUS
<1>10. /\ Here(p) /\ items \subseteq pl[p].bag /\ pl[p].gold >= cost + money
       /\ HasNumbers(1) /\ Handled(z)
  <2>1. a = ModifyMoney(World, p, -(cost + money))
    BY <1>1, <1>4, Zenon
  <2>2. /\ Here(p) /\ items \subseteq pl[p].bag /\ pl[p].gold >= cost + money
        /\ HasNumbers(1)
        /\ Handled(Mailed(p, r, items, money, cod, cost,
                           IF items = {} THEN a ELSE Packed(p, items, a, i)))
    BY <1>2, <2>1, SendMailParts
  <2>3. Mailed(p, r, items, money, cod, cost, b) = z
    BY <1>6, <1>7, <1>8, <1>9, Zenon DEF Mailed
  <2> QED BY <1>5, <2>2, <2>3, Zenon
<1>11. /\ s.pl = pl /\ s \in States /\ p \in InMemory(s) /\ s.cut = {} /\ s.db \in Database
       /\ s.house = s.db.auction /\ s.aitems = Goods(s.db) /\ Kept(s, total)
       /\ s.pl[p].gold = s.db.gold[p] /\ BagInv(s.db, s.pl[p], p) /\ s.pl[p].gold \in 0 .. MaxGold
  <2>1. s.pl = pl /\ s \in States /\ p \in InMemory(s) /\ s.cut = {} /\ s.db \in Database /\ Kept(s, total)
    BY <1>1, <1>10, WorldIs, KeptStates DEF Here, InWorld, InMemory
  <2>2. s.house = s.db.auction /\ s.aitems = Goods(s.db) /\ PlayerInv(s.db, s.cut, s.pl[p], p)
    BY <2>1 DEF Kept
  <2>3. s.pl[p].gold \in 0 .. MaxGold
    BY <2>1, RecordOf
  <2> QED BY <2>1, <2>2, <2>3 DEF PlayerInv, PurseInv
<1>12. Hand(s, {}, 0, {p}, {}, total)
  BY <1>11, HandOf
<1>13. d \in Int /\ d = 0 - (cost + money) /\ s.pl[p].gold + d >= 0 /\ s.pl[p].gold + d <= MaxGold
  BY <1>3, <1>4, <1>10, <1>11, MailConstants
<1>14. Hand(a, {}, 0, {p}, {}, total) /\ Charging(s, a, p) /\ a.pl[p].gold = s.pl[p].gold + d
  <2>1. s.pl[p].gold + d \in 0 .. MaxGold
    BY <1>11, <1>13, MailConstants
  <2>2. a = ModifyMoney(s, p, d) /\ p \in InMemory(s) /\ d \in Int
    BY <1>4, <1>11, <1>13
  <2>3. PICK N : N = {}
    OBVIOUS
  <2>4. Hand(s, N, 0, {p}, N, total)
    BY <1>12, <2>3, Zenon
  <2>5. Hand(a, N, 0, {p}, N, total) /\ Charging(s, a, p) /\ a.pl[p].gold = s.pl[p].gold + d
    BY <2>1, <2>2, <2>4, HandCharge
  <2> QED BY <2>3, <2>5, Zenon
<1>15. /\ a.db = s.db /\ a.house = s.house /\ a.aitems = s.aitems /\ a.cut = {} /\ p \in InMemory(a)
       /\ FreeMails(a) = FreeMails(s) /\ a.pl[p].bag = s.pl[p].bag /\ BagInv(a.db, a.pl[p], p)
  BY <1>11, <1>14 DEF Charging, BagInv
<1>16. /\ Hand(b, items, 0, {p}, {}, total) /\ b.cut = {} /\ FreeMails(b) = FreeMails(s)
       /\ p \in InMemory(b)
       /\ b.house = s.house /\ b.aitems = s.aitems /\ b.pl[p].gold = s.pl[p].gold + d
       /\ b.db.gold = s.db.gold /\ b.db.auction = s.db.auction
       /\ BagInv(b.db, b.pl[p], p) /\ \A j \in items : j \in b.db.instance /\ Nowhere(b.db, j)
  <2>1. CASE items = {}
    <3>1. b = a
      BY <1>5, <2>1
    <3> QED BY <1>14, <1>15, <2>1, <3>1
  <2>2. CASE items = {i} /\ items # {}
    <3>1. b = Packed(p, {i}, a, i) /\ i \in a.pl[p].bag
      BY <1>5, <1>10, <1>11, <1>15, <2>2
    <3>2. Carrying(a, b, p, i, total)
      BY <1>14, <1>15, <3>1, CarryingIs
    <3> QED BY <1>14, <1>15, <2>2, <3>2 DEF Carrying
  <2> QED BY <2>1, <2>2
<1>17. Hand(c, {}, 0 - money, {p}, {}, total) /\ Delivered(b, c, items)
  <2>1. FreeMails(b) # {}
    BY <1>1, <1>10, <1>16, NumbersIs
  <2>2. p # None /\ items \in SUBSET Item
    BY <1>10, <1>11, MailConstants, RecordOf
  <2>3. Posting(b, items, 0, {}, r, p, "normal", money, cod, items, {"money"})
    BY <1>16, <2>1, <2>2 DEF Posting, Thing
  <2>4. Hand(b, items, 0, {p}, {}, total)
    BY <1>16
  <2> QED BY <1>6, <2>3, <2>4, HandSend
<1>18. /\ c.cut = {} /\ p \in InMemory(c) /\ c.house = s.house /\ c.aitems = s.aitems
       /\ c.pl[p].gold = s.pl[p].gold + d /\ c.db.gold = s.db.gold /\ c.db.auction = s.db.auction
       /\ BagInv(c.db, c.pl[p], p) /\ c \in States
  BY <1>16, <1>17 DEF Delivered, BagInv, Hand, Ledger
<1>19. /\ x \in States /\ x.db = c.db /\ x.pl = c.pl /\ x.cut = {} /\ x.house = s.house
       /\ x.aitems = s.aitems /\ x.txs = c.txs
  BY <1>3, <1>7, <1>18, SpentIs
<1>20. Ledger(x, {}, d, total)
  <2>1. Ledger(c, {}, 0 - money, total)
    BY <1>17 DEF Hand
  <2>2. Ledger(x, {}, (0 - money) - cost, total)
    BY <1>3, <1>7, <2>1, LedgerSpent
  <2>3. (0 - money) - cost = d
    BY <1>3, <1>13
  <2> QED BY <2>2, <2>3
<1>21. Memory(x, {p}, {}) /\ InMemory(x) = InMemory(c)
  <2>1. PICK G, M : G = {p} /\ M = {}
    OBVIOUS
  <2>2. Memory(c, G, M) /\ SameTables(c.db, x.db, G) /\ x.pl = c.pl /\ c.cut \subseteq x.cut
    BY <1>17, <1>18, <1>19, <2>1 DEF Hand, SameTables
  <2>3. Memory(x, G, M) /\ FreeMails(x) = FreeMails(c) /\ InMemory(x) = InMemory(c)
    BY <2>2, MemorySame
  <2> QED BY <2>1, <2>3, Zenon
<1>22. Hand(x, {}, d, {p}, {}, total)
  BY <1>17, <1>18, <1>19, <1>20, <1>21 DEF Hand, Tracked
<1>23. Hand(y, {}, 0, {}, {}, total) /\ SavedAs(x, y, p)
  <2>1. d + x.db.gold[p] = x.pl[p].gold
    <3>1. s.db.gold[p] \in Int
      BY <1>11, MailConstants
    <3> QED BY <1>11, <1>13, <1>18, <1>19, <3>1
  <2>2. BagInv(x.db, x.pl[p], p) /\ p \in InMemory(x)
    BY <1>18, <1>19, <1>21
  <2>3. Ready(x, p, {}, d, total)
    BY <1>19, <1>22, <2>1, <2>2 DEF Ready
  <2> QED BY <1>8, <2>3, SaveHand
<1>24. Kept(z, total)
  <2>1. y.cut = {} /\ y.house = y.db.auction
    BY <1>11, <1>18, <1>19, <1>23 DEF DbStep, SavedAs
  <2>2. y.aitems = Goods(y.db)
    BY <1>11, <1>18, <1>19, <1>23 DEF DbStep, SavedAs, Goods, Sells
  <2> QED BY <1>9, <1>23, <2>1, <2>2, KeptCommit DEF Hand
<1> QED BY <1>10, <1>24, HandledKeeps

-----------------------------------------------------------------------------
(* A mail goes back *)

LEMMA KeptHand ==
  ASSUME NEW s, NEW total, Hand(s, {}, 0, {}, {}, total), s.house = s.db.auction,
         s.aitems = Goods(s.db)
  PROVE  Kept(s, total)
<1>1. Ledger(s, {}, 0, total) /\ Memory(s, {}, {})
  BY DEF Hand
<1>2. InMemory(s) # {} => AllClean(s.db)
  BY DEF Hand, Tracked, AllClean
<1> QED BY <1>1, <1>2, KeptFrom

\* The items in hand are left by half.
LEMMA HandCut ==
  ASSUME NEW s, NEW H, NEW D, NEW total, Hand(s, H, D, {}, {}, total), s.cut = {},
         H \in SUBSET Item, NEW t, t = [s EXCEPT !.cut = @ \cup H]
  PROVE  /\ Hand(t, {}, D, {}, {}, total) /\ t.db = s.db /\ t.house = s.house
         /\ t.aitems = s.aitems
<1>1. s \in States /\ s.cut \in SUBSET Thing /\ H \in SUBSET Thing
  BY StateFields DEF Hand, Ledger, Thing
<1>2. /\ t \in States /\ t.cut = H /\ t.db = s.db /\ t.txs = s.txs /\ t.pl = s.pl
      /\ t.house = s.house /\ t.aitems = s.aitems /\ t.past = s.past
  BY <1>1 DEF States
<1>3. Ledger(t, {}, D, total)
  <2>1. Ledger(s, H, D, total)
    BY DEF Hand
  <2>2. Logged(t, total)
    <3> SUFFICES ASSUME NEW k \in 1 .. Len(t.txs) PROVE TxInv(t.txs[k], t.cut, total)
      BY DEF Logged
    <3>1. TxInv(s.txs[k], {}, total)
      BY <1>2, <2>1 DEF Ledger, Logged
    <3> QED BY <1>2, <3>1 DEF TxInv
  <2>3. \A i \in Item \ (t.cut \cup {}) : Exact(t.db, i)
    BY <1>2, <2>1 DEF Ledger
  <2>4. "money" \notin t.cut => MoneyIn(t.db, t.past) + D = total
    BY <1>2, <2>1 DEF Ledger
  <2> QED BY <1>2, <2>1, <2>2, <2>3, <2>4 DEF Ledger
<1>4. Memory(t, {}, {})
  <2>1. PICK G : G = {}
    OBVIOUS
  <2>2. Memory(s, G, G) /\ t.pl = s.pl /\ s.cut \subseteq t.cut /\ SameTables(s.db, t.db, G)
    BY <1>2, <2>1 DEF Hand, SameTables
  <2>3. Memory(t, G, G)
    BY <2>2, MemorySame
  <2> QED BY <2>1, <2>3, Zenon
<1>5. \A i \in Item : Clean(t.db, i)
  BY <1>2 DEF Hand, Tracked
<1> QED BY <1>2, <1>3, <1>4, <1>5 DEF Hand

\* The mail m of p, with the items and the money of e, is nowhere any more.
Dropped(s, p, m, e) ==
    Commit([s EXCEPT !.db.mail[m] = None,
                     !.db.attached = {x \in @ : x[1] # m},
                     !.pl[p].mails = [x \in DOMAIN @ \ {m} |-> @[x]]],
           e.items \cup {"money"})

Dropping(s, t, e, total) ==
    /\ Hand(t, e.items, e.money, {}, {}, total) /\ t.cut = {} /\ InMemory(t) = InMemory(s)
    /\ t.house = s.house /\ t.aitems = s.aitems /\ t.db.auction = s.db.auction
    /\ \A i \in e.items : i \in t.db.instance /\ Nowhere(t.db, i)

LEMMA DroppedIs ==
  ASSUME NEW s, NEW total, Kept(s, total), s.cut = {}, NEW p \in InMemory(s),
         NEW m \in DOMAIN s.pl[p].mails, NEW e, e = s.pl[p].mails[m]
  PROVE  Dropping(s, Dropped(s, p, m, e), e, total)
<1>1. PICK t : t = Dropped(s, p, m, e)
  OBVIOUS
<1>2. /\ s \in States /\ s.db \in Database /\ p \in Player /\ p # None /\ s.pl[p] \in PlayerRecord
      /\ s.pl \in [Player -> PlayerRecord \cup {None}] /\ m \in Mail /\ s.pl[p] # None
      /\ s.db.mail \in [Mail -> MailRow \cup {None}] /\ s.db.attached \subseteq Mail \X Item \X Player
  BY KeptStates, StateFields, DatabaseFields, RecordOf, MailConstants
<1>3. /\ e \in Letter /\ e.items \in SUBSET Item /\ e.money \in Nat
      /\ \/ Fresh(s.db, e, m, p)
         \/ e.money = 0 /\ e.cod = 0 /\ e.items = {} /\ s.db.mail[m] = None
  BY LetterIs DEF Letter
<1>4. PICK mails : mails = [x \in DOMAIN s.pl[p].mails \ {m} |-> s.pl[p].mails[x]]
  OBVIOUS
<1>5. mails \in PlayerMails /\ DOMAIN mails = DOMAIN s.pl[p].mails \ {m}
      /\ \A n \in DOMAIN mails : mails[n] = s.pl[p].mails[n]
  <2>1. DOMAIN s.pl[p].mails \in SUBSET Mail /\ s.pl[p].mails \in [DOMAIN s.pl[p].mails -> Letter]
    BY <1>2, PlayerFields, PlayerMailsIs
  <2>2. DOMAIN mails \in SUBSET Mail /\ mails \in [DOMAIN mails -> Letter]
    BY <1>4, <2>1
  <2> QED BY <1>4, <2>2, PlayerMailsIs
<1>6. PICK r : r = [s.pl[p] EXCEPT !.mails = mails]
  OBVIOUS
<1>7. /\ r \in PlayerRecord /\ r.inWorld = s.pl[p].inWorld /\ r.trade = s.pl[p].trade /\ r # None
      /\ r.gold = s.pl[p].gold /\ r.mails = mails /\ r.bag = s.pl[p].bag
  BY <1>2, <1>5, <1>6, PlayerFields DEF PlayerRecord
<1>8. PICK players : players = [s.pl EXCEPT ![p] = r]
  OBVIOUS
<1>9. players \in [Player -> PlayerRecord \cup {None}] /\ players[p] = r
      /\ \A q \in Player \ {p} : players[q] = s.pl[q]
  BY <1>2, <1>7, <1>8
<1>10. PICK rows, att : rows = [s.db.mail EXCEPT ![m] = None] /\ att = {x \in s.db.attached : x[1] # m}
  OBVIOUS
<1>11. /\ rows \in [Mail -> MailRow \cup {None}] /\ rows[m] = None
       /\ \A n \in Mail \ {m} : rows[n] = s.db.mail[n]
       /\ att \subseteq Mail \X Item \X Player
  BY <1>2, <1>10
<1>12. PICK d : d = [s.db EXCEPT !.mail = rows, !.attached = att]
  OBVIOUS
<1>13. /\ d \in Database /\ d.inventory = s.db.inventory /\ d.gold = s.db.gold
       /\ d.instance = s.db.instance /\ d.attached = att /\ d.auction = s.db.auction
       /\ d.mail = rows
  BY <1>2, <1>11, <1>12 DEF Database
<1>14. PICK u : u = [s EXCEPT !.db = d, !.pl = players]
  OBVIOUS
<1>15. /\ u \in States /\ u.db = d /\ u.pl = players /\ u.txs = s.txs /\ u.house = s.house
       /\ u.aitems = s.aitems /\ u.past = s.past /\ u.cut = {}
  BY <1>2, <1>9, <1>13, <1>14 DEF States
<1>16. t = Commit(u, e.items \cup {"money"})
  <2>1. t = Commit([s EXCEPT !.db.mail[m] = None,
                     !.db.attached = {x \in @ : x[1] # m},
                     !.pl[p].mails = [x \in DOMAIN @ \ {m} |-> @[x]]],
           e.items \cup {"money"})
    BY <1>1, Zenon DEF Dropped
  <2>2. [s EXCEPT !.db.mail[m] = None,
                     !.db.attached = {x \in @ : x[1] # m},
                     !.pl[p].mails = [x \in DOMAIN @ \ {m} |-> @[x]]] = u
    BY <1>2, <1>4, <1>6, <1>8, <1>10, <1>12, <1>14 DEF States, Database
  <2> QED BY <2>1, <2>2, Zenon
<1>17. (\A i \in Item : Clean(s.db, i) /\ Exact(s.db, i))
  BY KeptClean DEF AllClean
<1>18. \A n \in Mail, j \in Item, q \in Player :
          Posted(d, n, j, q) <=> n # m /\ Posted(s.db, n, j, q)
  BY <1>10, <1>13 DEF Posted
<1>19. \A j \in Item, q \in Player : Posted(s.db, m, j, q) => j \in e.items /\ q = p
  <2> SUFFICES ASSUME NEW j \in Item, NEW q \in Player, Posted(s.db, m, j, q)
               PROVE  j \in e.items /\ q = p
    OBVIOUS
  <2>1. j \in s.db.instance /\ s.db.mail[m] # None /\ s.db.mail[m].receiver = q
    BY <1>2, <1>17 DEF Clean
  <2>2. Fresh(s.db, e, m, p)
    BY <1>3, <2>1
  <2> QED BY <2>1, <2>2 DEF Fresh, Attached, Posted
<1>20. \A j \in e.items : Posted(s.db, m, j, p) /\ j \in Item
  BY <1>3 DEF Fresh, Attached, Posted
<1>21. \A j \in Item \ e.items : SameItem(s.db, d, j)
  BY <1>11, <1>13, <1>18, <1>19 DEF SameItem, Sells
<1>22. \A j \in e.items : Nowhere(d, j) /\ j \in d.instance
  BY <1>2, <1>13, <1>17, <1>18, <1>20 DEF Nowhere, Clean, Sells
<1>23. Ledger(u, e.items, e.money, total)
  <2>1. Ledger(s, {}, 0, total)
    BY DEF Kept
  <2>2. DbInv(u.db) /\ WonInv(u.db, u.past)
    <3>1. DbInv(s.db) /\ WonInv(s.db, s.past)
      BY <2>1 DEF Ledger
    <3> QED BY <1>11, <1>13, <1>15, <3>1 DEF DbInv, WonInv, Sells
  <2>3. \A j \in Item \ (s.cut \cup e.items) : Exact(u.db, j)
    BY <1>15, <1>17, <1>21, SameItemKept
  <2>4. GoldOf(u.db) + DepositOf(u.db) + LetterOf(u.db)
           = GoldOf(s.db) + DepositOf(s.db) + LetterOf(s.db) - e.money
    <3>1. GoldOf(d) = GoldOf(s.db) /\ DepositOf(d) = DepositOf(s.db)
      BY <1>13, SameMoney
    <3>2. GoldOf(s.db) \in Nat /\ DepositOf(s.db) \in Nat /\ LetterOf(s.db) \in Nat
      BY <1>2, MoneyIs, StateFields
    <3>3. LetterOf(d) = LetterOf(s.db) - LetterWorth(s.db.mail[m]) + LetterWorth(d.mail[m])
      BY <1>2, <1>11, <1>13, LetterChanged
    <3>4. LetterWorth(s.db.mail[m]) = e.money /\ LetterWorth(d.mail[m]) = 0
      BY <1>3, <1>11, <1>13 DEF LetterWorth, Fresh
    <3> QED BY <1>3, <1>15, <3>1, <3>2, <3>3, <3>4
  <2>5. e.money \in Int /\ u.past = s.past /\ u.txs = s.txs /\ u.cut = s.cut
    BY <1>3, <1>15
  <2>6. Ledger(u, e.items, 0 + e.money, total)
    BY <1>15, <2>1, <2>2, <2>3, <2>4, <2>5, LedgerTables
  <2>7. 0 + e.money = e.money
    BY <1>3
  <2> QED BY <2>6, <2>7
<1>24. Memory(u, {}, {}) /\ InMemory(u) = InMemory(s)
  <2>1. InMemory(u) = InMemory(s)
    BY <1>7, <1>9, <1>15 DEF InMemory
  <2>2. Memory(s, {}, {})
    BY MemoryOf
  <2>3. ASSUME NEW q \in InMemory(u) PROVE PurseInv(u.db, u.pl[q], q) /\ BagInv(u.db, u.pl[q], q)
    <3>1. PurseInv(s.db, s.pl[q], q) /\ BagInv(s.db, s.pl[q], q) /\ q \in Player
      BY <2>1, <2>2, <2>3 DEF Memory, InMemory
    <3>2. u.pl[q].gold = s.pl[q].gold /\ u.pl[q].bag = s.pl[q].bag
      BY <1>7, <1>9, <1>15, <3>1
    <3> QED BY <1>13, <1>15, <3>1, <3>2 DEF PurseInv, BagInv
  <2>4. ASSUME NEW q \in InMemory(u), NEW n \in Mail, n \in DOMAIN u.pl[q].mails
        PROVE  MailInv(u.db, u.cut, u.pl[q].mails[n], n, q)
    <3>1. q \in Player /\ n \in DOMAIN s.pl[q].mails /\ u.pl[q].mails[n] = s.pl[q].mails[n]
          /\ (q = p => n # m)
      BY <1>5, <1>7, <1>9, <1>15, <2>4 DEF InMemory
    <3>2. MailInv(s.db, {}, u.pl[q].mails[n], n, q)
      BY <2>1, <2>2, <3>1 DEF Memory
    <3>3. CASE n # m
      <4>1. u.db.mail[n] = s.db.mail[n] /\ Attached(u.db, n, q) = Attached(s.db, n, q)
        BY <1>10, <1>11, <1>13, <1>15, <3>3 DEF Attached
      <4> QED BY <1>15, <3>2, <4>1, MailInvSame
    <3>4. CASE n = m
      <4>1. q # p /\ Stale(s.db, u.pl[q].mails[n], n, {}) /\ s.db.mail[m] = None
        BY <1>3, <3>1, <3>2, <3>4 DEF MailInv, Stale, Fresh
      <4>2. Stale(u.db, u.pl[q].mails[n], n, u.cut)
        BY <1>11, <1>13, <1>15, <3>4, <4>1 DEF Stale
      <4> QED BY <3>2, <4>2 DEF MailInv
    <3> QED BY <3>3, <3>4
  <2>5. Paired(u.pl)
    <3>1. Sides(s.pl, u.pl)
      BY <1>2, <1>7, <1>9, <1>15 DEF Sides
    <3> QED BY <1>2, <2>2, <3>1, PairedSame DEF Memory
  <2> QED BY <2>1, <2>3, <2>4, <2>5 DEF Memory
<1>25. \A j \in Item : Clean(u.db, j)
  <2>1. \A j \in e.items : Clean(d, j)
    BY <1>22 DEF Clean, Nowhere
  <2> QED BY <1>15, <1>17, <1>21, <2>1, SameItemKept
<1>26. e.items \cup {"money"} \in SUBSET Thing
  BY <1>3 DEF Thing
<1>27. /\ t \in States /\ t.db = u.db /\ t.pl = u.pl /\ t.house = u.house /\ t.aitems = u.aitems
       /\ t.cut = u.cut
  BY <1>15, <1>16, <1>26, CommitIs
<1>28. Ledger(t, e.items, e.money, total)
  <2>1. PICK open : open = e.items \cup {"money"}
    OBVIOUS
  <2>2. e.items \subseteq open \cup u.cut /\ "money" \in open \cup u.cut /\ open \in SUBSET Thing
    BY <1>26, <2>1
  <2>3. t = Commit(u, open)
    BY <1>16, <2>1
  <2> QED BY <1>23, <2>2, <2>3, LedgerCommit
<1>29. Memory(t, {}, {}) /\ InMemory(t) = InMemory(u)
  <2>1. PICK G : G = {}
    OBVIOUS
  <2>2. SameTables(u.db, t.db, G) /\ Memory(u, G, G) /\ t.pl = u.pl /\ u.cut \subseteq t.cut
    BY <1>24, <1>27, <2>1 DEF SameTables
  <2>3. Memory(t, G, G) /\ InMemory(t) = InMemory(u)
    BY <2>2, MemorySame
  <2> QED BY <2>1, <2>3, Zenon
<1>30. Hand(t, e.items, e.money, {}, {}, total)
  BY <1>25, <1>27, <1>28, <1>29 DEF Hand
<1>31. Dropping(s, t, e, total)
  BY <1>13, <1>15, <1>22, <1>24, <1>27, <1>29, <1>30 DEF Dropping
<1> QED BY <1>1, <1>31

LEMMA ReturnKeeps ==
  ASSUME NEW total, Kept(World, total), Enough(World), cut = {}, NEW p \in Player, Here(p),
         NEW m \in DOMAIN pl[p].mails, HandleMailReturnToSender(p, m)
  PROVE  Kept(World, total)' /\ Enough(World)'
<1>1. PICK s : s = World
  OBVIOUS
<1>2. PICK e : e = s.pl[p].mails[m]
  OBVIOUS
<1>3. PICK g : g = Dropped(s, p, m, e)
  OBVIOUS
<1>4. /\ s.pl = pl /\ s \in States /\ p \in InMemory(s) /\ s.cut = {} /\ Kept(s, total)
      /\ s.house = s.db.auction /\ s.aitems = Goods(s.db)
  BY <1>1, WorldIs, KeptStates DEF Here, InWorld, InMemory, Kept
<1>5. PICK t : t = IF e.sender # None
                   THEN SendMailTo(g, e.sender, p, "returned", e.money, 0, e.items, {})
                   ELSE [Spent(g, e.money) EXCEPT !.cut = @ \cup e.items]
  OBVIOUS
<1>6. FreeMails(g) # {} /\ Handled(t)
  <2> DEFINE G(x) == Commit([World EXCEPT !.db.mail[m] = None,
                                     !.db.attached = {z \in @ : z[1] # m},
                                     !.pl[p].mails = [z \in DOMAIN @ \ {m} |-> @[z]]],
                            x.items \cup {"money"})
             T(x, y) == IF x.sender # None
                        THEN SendMailTo(y, x.sender, p, "returned", x.money, 0, x.items, {})
                        ELSE [Spent(y, x.money) EXCEPT !.cut = @ \cup x.items]
  <2>1. FreeMails(G(pl[p].mails[m])) # {} /\ Handled(T(pl[p].mails[m], G(pl[p].mails[m])))
    BY Zenon DEF HandleMailReturnToSender
  <2>2. g = G(e)
    BY <1>1, <1>3, Zenon DEF Dropped
  <2>3. t = T(e, g)
    BY <1>5, Zenon
  <2>4. e = pl[p].mails[m]
    BY <1>2, <1>4
  <2> HIDE DEF G, T
  <2> QED BY <2>1, <2>2, <2>3, <2>4, Zenon
<1>7. Dropping(s, g, e, total)
  BY <1>2, <1>3, <1>4, DroppedIs
<1>8. /\ e \in Letter /\ e.items \in SUBSET Item /\ e.money \in Nat /\ e.sender \in Player \cup {None}
  BY <1>2, <1>4, LetterIs DEF Letter
<1>9. PICK H, D : H = e.items /\ D = e.money
  OBVIOUS
<1>10. /\ Hand(g, H, D, {}, {}, total) /\ g.cut = {} /\ g.house = s.house /\ g.aitems = s.aitems
       /\ g.db.auction = s.db.auction /\ H \in SUBSET Item /\ D \in Nat /\ g \in States
       /\ \A i \in H : i \in g.db.instance /\ Nowhere(g.db, i)
  BY <1>7, <1>8, <1>9 DEF Dropping, Hand, Ledger
<1>11. CASE e.sender # None
  <2>1. t = SendMailTo(g, e.sender, p, "returned", D, 0, H, {})
    BY <1>5, <1>9, <1>11
  <2>2. Posting(g, H, D, {}, e.sender, p, "returned", D, 0, H, {})
    BY <1>6, <1>8, <1>10, <1>11 DEF Posting, Thing
  <2>3. Hand(t, {}, D - D, {}, {}, total) /\ Delivered(g, t, H)
    BY <1>10, <2>1, <2>2, HandSend
  <2>4. D - D = 0
    BY <1>10
  <2>5. t.house = t.db.auction /\ t.aitems = Goods(t.db)
    BY <1>4, <1>10, <2>3 DEF Delivered, Goods, Sells
  <2>6. Kept(t, total)
    BY <2>3, <2>4, <2>5, KeptHand
  <2> QED BY <1>6, <2>6, HandledKeeps
<1>12. CASE e.sender = None
  <2>1. PICK w : w = Spent(g, D)
    OBVIOUS
  <2>2. t = [w EXCEPT !.cut = @ \cup H]
    BY <1>5, <1>9, <1>12, <2>1
  <2>3. w.db = g.db /\ w.pl = g.pl /\ w.house = g.house /\ w.aitems = g.aitems /\ w.cut = {}
    BY <1>10, <2>1, SpentIs
  <2>4. Hand(w, H, 0, {}, {}, total)
    <3>1. Ledger(w, H, D - D, total)
      BY <1>10, <2>1, LedgerSpent DEF Hand
    <3>2. D - D = 0
      BY <1>10
    <3>3. PICK G : G = {}
      OBVIOUS
    <3>4. SameTables(g.db, w.db, G) /\ Memory(g, G, G) /\ w.pl = g.pl /\ g.cut \subseteq w.cut
      BY <1>10, <2>3, <3>3 DEF SameTables, Hand
    <3>5. Memory(w, G, G)
      BY <3>4, MemorySame
    <3>6. \A i \in Item : Clean(w.db, i)
      BY <1>10, <2>3 DEF Hand, Tracked
    <3> QED BY <3>1, <3>2, <3>3, <3>5, <3>6 DEF Hand
  <2>5. Hand(t, {}, 0, {}, {}, total) /\ t.db = w.db /\ t.house = w.house /\ t.aitems = w.aitems
    BY <1>10, <2>2, <2>3, <2>4, HandCut
  <2>6. t.house = t.db.auction /\ t.aitems = Goods(t.db)
    BY <1>4, <1>10, <2>3, <2>5 DEF Goods, Sells
  <2>7. Kept(t, total)
    BY <2>5, <2>6, KeptHand
  <2> QED BY <1>6, <2>7, HandledKeeps
<1> QED BY <1>11, <1>12

=============================================================================
