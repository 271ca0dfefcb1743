----------------------------- MODULE FoldLemmas -----------------------------
(***************************************************************************)
(* Lemmas about the folds the models are built from: FoldLeft over a log   *)
(* of events (Replay of a ledger, the row of an account) and               *)
(* SumFunctionOnSet over a set of transactions.                            *)
(*                                                                         *)
(* Induction is over sets: a set of numbers that has 0 and the successor   *)
(* of each of its elements has every number.                               *)
(***************************************************************************)
EXTENDS Integers, Sequences, SequencesExt, Functions, FiniteSetTheorems,
        WellFoundedInduction, TLAPS

LEMMA Least ==
  ASSUME NEW T, T \subseteq Nat, T # {}
  PROVE  \E x \in T : \A y \in T : x <= y
<1>1. IsWellFoundedOn(OpToRel(<, Nat), Nat)
  BY NatLessThanWellFounded
<1>2. PICK x \in T : \A y \in T : <<y, x>> \notin OpToRel(<, Nat)
  <2> HIDE DEF OpToRel
  <2> QED BY <1>1, WFMin
<1>3. \A y \in T : ~(y < x)
  BY <1>2 DEF OpToRel
<1> QED BY <1>3

LEMMA SetInduction ==
  ASSUME NEW T, 0 \in T, \A n \in T : n + 1 \in T
  PROVE  Nat \subseteq T
<1> SUFFICES ASSUME Nat \ T # {} PROVE FALSE
  OBVIOUS
<1>1. PICK x \in Nat \ T : \A y \in Nat \ T : x <= y
  BY Least
<1>2. x - 1 \in Nat /\ x - 1 < x /\ (x - 1) + 1 = x
  BY <1>1
<1>3. x - 1 \in T
  BY <1>1, <1>2
<1> QED BY <1>1, <1>2, <1>3

-----------------------------------------------------------------------------
(* Folding a sequence.                                                     *)

LEMMA MaxOf ==
  ASSUME NEW n \in Nat, NEW s \in SUBSET (1..n), s # {}
  PROVE  /\ Max(s) \in s
         /\ \A x \in s : x <= Max(s)
         /\ n \in s => Max(s) = n
<1> DEFINE T == {n - x : x \in s}
<1>1. PICK y \in T : \A z \in T : y <= z
  <2>1. \A x \in s : n - x \in Nat
    OBVIOUS
  <2>2. T \subseteq Nat /\ T # {}
    BY <2>1
  <2> HIDE DEF T
  <2> QED BY <2>2, Least
<1>2. PICK x \in s : y = n - x
  BY <1>1
<1>3. \A z \in s : n - x <= n - z
  BY <1>1, <1>2
<1>4. \A z \in s : x >= z
  BY <1>3
<1>5. Max(s) \in s /\ \A z \in s : Max(s) >= z
  BY <1>2, <1>4 DEF Max
<1> HIDE DEF T
<1>6. \A z \in s : z \in 1..n
  OBVIOUS
<1>7. \A z \in s : z <= Max(s)
  <2> SUFFICES ASSUME NEW z \in s PROVE z <= Max(s)
    OBVIOUS
  <2>1. z \in 1..n /\ Max(s) \in 1..n /\ Max(s) >= z
    BY <1>5, <1>6
  <2> QED BY <2>1
<1>8. n \in s => Max(s) = n
  <2> SUFFICES ASSUME n \in s PROVE Max(s) = n
    OBVIOUS
  <2>1. Max(s) \in 1..n /\ Max(s) >= n
    BY <1>5, <1>6
  <2> QED BY <2>1
<1> QED BY <1>5, <1>7, <1>8

(* c is what FoldLeft recurs over: the value of each set of places. *)
Folding(c, G, base, n) ==
  c = [s \in SUBSET (1..n) |->
         IF s = {} THEN base ELSE G[<<c[s \ {Max(s)}], Max(s)>>]]

LEMMA FoldingExists ==
  ASSUME NEW V, NEW base \in V, NEW n \in Nat, NEW G \in [V \X (1..n) -> V]
  PROVE  \E c \in [SUBSET (1..n) -> V] : Folding(c, G, base, n)
<1> DEFINE P(k) == \E c \in [SUBSET (1..k) -> V] : Folding(c, G, base, k)
           T == {k \in Nat : k <= n => P(k)}
<1>1. P(0)
  <2> DEFINE c == [s \in SUBSET (1..0) |-> base]
  <2>1. c \in [SUBSET (1..0) -> V] /\ Folding(c, G, base, 0)
    BY DEF Folding
  <2> QED BY <2>1
<1>2. ASSUME NEW k \in Nat, k + 1 <= n, P(k) PROVE P(k + 1)
  <2>1. PICK g \in [SUBSET (1..k) -> V] : Folding(g, G, base, k)
    BY <1>2
  <2> DEFINE c == [s \in SUBSET (1..(k + 1)) |->
                     IF k + 1 \in s THEN G[<<g[s \ {k + 1}], k + 1>>] ELSE g[s]]
  <2>2. ASSUME NEW s \in SUBSET (1..(k + 1)), k + 1 \in s
        PROVE  /\ Max(s) = k + 1 /\ s \ {k + 1} \in SUBSET (1..k)
               /\ c[s] = G[<<g[s \ {k + 1}], k + 1>>] /\ c[s] \in V
               /\ c[s \ {k + 1}] = g[s \ {k + 1}]
    <3>1. Max(s) = k + 1
      BY <2>2, MaxOf
    <3>2. s \ {k + 1} \in SUBSET (1..k) /\ s \ {k + 1} \in SUBSET (1..(k + 1))
      BY <1>2
    <3>3. g[s \ {k + 1}] \in V /\ k + 1 \in 1..n
      BY <1>2, <3>2
    <3>4. G[<<g[s \ {k + 1}], k + 1>>] \in V
      BY <3>3
    <3>5. /\ c[s] = G[<<g[s \ {k + 1}], k + 1>>]
          /\ c[s \ {k + 1}] = g[s \ {k + 1}]
      BY <2>2, <3>2
    <3> QED BY <3>1, <3>2, <3>4, <3>5
  <2>3. ASSUME NEW s \in SUBSET (1..(k + 1)), k + 1 \notin s
        PROVE  /\ s \in SUBSET (1..k) /\ c[s] = g[s] /\ c[s] \in V
               /\ c[s \ {Max(s)}] = g[s \ {Max(s)}]
    <3>1. s \in SUBSET (1..k)
      BY <1>2, <2>3
    <3>2. s \ {Max(s)} \in SUBSET (1..(k + 1)) /\ k + 1 \notin s \ {Max(s)}
      BY <2>3
    <3> QED BY <2>3, <3>1, <3>2
  <2>4. ASSUME NEW s \in SUBSET (1..(k + 1))
        PROVE  c[s] = IF s = {} THEN base ELSE G[<<c[s \ {Max(s)}], Max(s)>>]
    <3>1. CASE k + 1 \in s
      BY <2>2, <3>1
    <3>2. CASE k + 1 \notin s
      <4>1. g[s] = IF s = {} THEN base ELSE G[<<g[s \ {Max(s)}], Max(s)>>]
        BY <2>1, <2>3, <3>2 DEF Folding
      <4> QED BY <2>3, <3>2, <4>1
    <3> QED BY <3>1, <3>2
  <2>5. \A s \in SUBSET (1..(k + 1)) : c[s] \in V
    BY <2>2, <2>3
  <2>6. c \in [SUBSET (1..(k + 1)) -> V]
    BY <2>5
  <2>7. Folding(c, G, base, k + 1)
    <3>1. c = [s \in SUBSET (1..(k + 1)) |-> c[s]]
      OBVIOUS
    <3> HIDE DEF c
    <3> QED BY <2>4, <3>1 DEF Folding
  <2> HIDE DEF c
  <2> QED BY <2>6, <2>7
<1> HIDE DEF P
<1>3. 0 \in T /\ \A k \in T : k + 1 \in T
  BY <1>1, <1>2
<1>4. n \in T
  <2> HIDE DEF T
  <2> QED BY <1>3, SetInduction
<1>5. P(n)
  BY <1>4
<1> QED BY <1>5 DEF P

(* The value of a prefix is what its events, one by one, make of base. *)
LEMMA FoldingPrefix ==
  ASSUME NEW n \in Nat, NEW base, NEW G, NEW c, Folding(c, G, base, n), NEW h,
         h[0] = base, \A k \in 1..n : h[k] = G[<<h[k - 1], k>>]
  PROVE  c[1..n] = h[n]
<1> DEFINE P(k) == c[1..k] = h[k]
           T == {k \in Nat : k <= n => P(k)}
<1>1. P(0)
  <2>1. 1..0 = {} /\ {} \in SUBSET (1..n)
    OBVIOUS
  <2> QED BY <2>1 DEF Folding
<1>2. ASSUME NEW k \in Nat, k + 1 <= n, P(k) PROVE P(k + 1)
  <2> DEFINE s == 1..(k + 1)
  <2>1. s \in SUBSET (1..n) /\ s # {} /\ k + 1 \in s
    <3>1. \A x \in s : x \in 1..n
      BY <1>2
    <3> QED BY <3>1
  <2>2. Max(s) = k + 1
    BY <2>1, MaxOf
  <2>3. s \ {Max(s)} = 1..k
    BY <2>2
  <2>4. c[s] = G[<<c[1..k], k + 1>>]
    BY <2>1, <2>2, <2>3 DEF Folding
  <2>5. k + 1 \in 1..n /\ (k + 1) - 1 = k
    BY <1>2
  <2> QED BY <1>2, <2>4, <2>5
<1> HIDE DEF P
<1>3. 0 \in T /\ \A k \in T : k + 1 \in T
  BY <1>1, <1>2
<1>4. n \in T
  <2> HIDE DEF T
  <2> QED BY <1>3, SetInduction
<1>5. P(n)
  BY <1>4
<1> QED BY <1>5 DEF P

(* The values of the prefixes, one event after the other. *)
LEMMA FoldingSteps ==
  ASSUME NEW n \in Nat, NEW base, NEW G, NEW c, Folding(c, G, base, n)
  PROVE  c[1..0] = base /\ \A k \in 1..n : c[1..k] = G[<<c[1..(k - 1)], k>>]
<1>1. c[1..0] = base
  <2>1. 1..0 = {} /\ {} \in SUBSET (1..n)
    OBVIOUS
  <2> QED BY <2>1 DEF Folding
<1>2. ASSUME NEW k \in 1..n PROVE c[1..k] = G[<<c[1..(k - 1)], k>>]
  <2> DEFINE s == 1..k
  <2>1. k \in Nat /\ s # {} /\ k \in s /\ s \in SUBSET (1..n) /\ s \in SUBSET (1..k)
    OBVIOUS
  <2>2. s \ {k} = 1..(k - 1)
    OBVIOUS
  <2> HIDE DEF s
  <2>3. Max(s) = k
    BY <2>1, MaxOf
  <2>4. c[s] = G[<<c[s \ {k}], k>>]
    BY <2>1, <2>3 DEF Folding
  <2> QED BY <2>2, <2>4 DEF s
<1> QED BY <1>1, <1>2

-----------------------------------------------------------------------------
(* Adding up over a finite set.                                            *)

(* A set of subsets of S that has every s whose s \ {x} it has, has all. *)
LEMMA SubsetInduction ==
  ASSUME NEW S, IsFiniteSet(S), NEW T,
         \A s \in SUBSET S : (\A x \in s : s \ {x} \in T) => s \in T
  PROVE  SUBSET S \subseteq T
<1> DEFINE P(k) == \A s \in SUBSET S : Cardinality(s) = k => s \in T
           N == {k \in Nat : P(k)}
<1>1. \A s \in SUBSET S : IsFiniteSet(s) /\ Cardinality(s) \in Nat
  BY FS_Subset, FS_CardinalityType
<1>2. P(0)
  <2> SUFFICES ASSUME NEW s \in SUBSET S, Cardinality(s) = 0 PROVE s \in T
    OBVIOUS
  <2>1. s = {}
    BY <1>1, FS_EmptySet
  <2> QED BY <2>1
<1>3. ASSUME NEW k \in Nat, P(k) PROVE P(k + 1)
  <2> SUFFICES ASSUME NEW s \in SUBSET S, Cardinality(s) = k + 1 PROVE s \in T
    OBVIOUS
  <2>1. ASSUME NEW x \in s PROVE s \ {x} \in T
    <3>1. Cardinality(s \ {x}) = k
      BY <1>1, FS_RemoveElement
    <3> QED BY <1>3, <3>1
  <2> QED BY <2>1
<1> HIDE DEF P
<1>4. 0 \in N /\ \A k \in N : k + 1 \in N
  BY <1>2, <1>3
<1>5. Nat \subseteq N
  <2> HIDE DEF N
  <2> QED BY <1>4, SetInduction
<1>6. ASSUME NEW s \in SUBSET S PROVE s \in T
  BY <1>1, <1>5, <1>6 DEF P
<1> QED BY <1>6

Picked(s) == CHOOSE x \in s : TRUE

(* c is what SumFunctionOnSet recurs over. *)
Summing(c, f, S) ==
  c = [s \in SUBSET S |-> IF s = {} THEN 0 ELSE f[Picked(s)] + c[s \ {Picked(s)}]]

LEMMA SummingExists ==
  ASSUME NEW S, IsFiniteSet(S), NEW f
  PROVE  \E c : Summing(c, f, S)
<1> DEFINE Small(k) == {s \in SUBSET S : Cardinality(s) <= k}
           Of(c, s) == IF s = {} THEN 0 ELSE f[Picked(s)] + c[s \ {Picked(s)}]
           P(k) == \E c : c = [s \in Small(k) |-> Of(c, s)]
           N == {k \in Nat : P(k)}
<1>1. \A s \in SUBSET S : IsFiniteSet(s) /\ Cardinality(s) \in Nat
  BY FS_Subset, FS_CardinalityType
<1>2. P(0)
  <2> DEFINE c == [s \in Small(0) |-> 0]
  <2>1. \A s \in Small(0) : s = {}
    BY <1>1, FS_EmptySet
  <2>2. c = [s \in Small(0) |-> Of(c, s)]
    BY <2>1
  <2> HIDE DEF c
  <2> QED BY <2>2
<1>3. ASSUME NEW k \in Nat, P(k) PROVE P(k + 1)
  <2>1. PICK g : g = [s \in Small(k) |-> Of(g, s)]
    BY <1>3
  <2> DEFINE c == [s \in Small(k + 1) |-> Of(g, s)]
  <2>2. ASSUME NEW s \in Small(k) PROVE c[s] = g[s]
    <3>1. s \in Small(k + 1)
      BY <1>1
    <3> QED BY <2>1, <3>1
  <2>3. ASSUME NEW s \in Small(k + 1) PROVE c[s] = Of(c, s)
    <3>1. CASE s = {}
      BY <3>1
    <3>2. CASE s # {}
      <4>1. Picked(s) \in s
        BY <3>2 DEF Picked
      <4>2. Cardinality(s \ {Picked(s)}) = Cardinality(s) - 1
        BY <1>1, <4>1, FS_RemoveElement
      <4>3. s \ {Picked(s)} \in Small(k)
        BY <1>1, <4>2
      <4>4. c[s \ {Picked(s)}] = g[s \ {Picked(s)}]
        BY <2>2, <4>3
      <4> QED BY <3>2, <4>4
    <3> QED BY <3>1, <3>2
  <2>4. c = [s \in Small(k + 1) |-> c[s]]
    OBVIOUS
  <2> HIDE DEF c
  <2>5. c = [s \in Small(k + 1) |-> Of(c, s)]
    <3> HIDE DEF Of
    <3> QED BY <2>3, <2>4
  <2> HIDE DEF Of
  <2> QED BY <2>5
<1>4. P(Cardinality(S))
  <2> HIDE DEF P
  <2>1. 0 \in N /\ \A k \in N : k + 1 \in N
    BY <1>2, <1>3
  <2>2. Nat \subseteq N
    <3> HIDE DEF N
    <3> QED BY <2>1, SetInduction
  <2> QED BY <1>1, <2>2
<1>5. Small(Cardinality(S)) = SUBSET S
  BY FS_Subset
<1> QED BY <1>4, <1>5 DEF Summing

LEMMA SumIs ==
  ASSUME NEW S, IsFiniteSet(S), NEW f
  PROVE  \E c : Summing(c, f, S) /\ SumFunctionOnSet(f, S) = c[S]
<1> DEFINE P(c) == Summing(c, f, S)
           d == CHOOSE c : P(c)
<1>1. \E c : P(c)
  BY SummingExists
<1>2. P(d)
  <2> HIDE DEF P
  <2> QED BY <1>1
<1>3. SumFunctionOnSet(f, S) = d[S]
  BY DEF SumFunctionOnSet, FoldFunctionOnSet, MapThenFoldSet, Summing, Picked
<1> HIDE DEF d
<1> QED BY <1>2, <1>3

(* What is added up does not depend on the set it is a part of. *)
LEMMA SummingAgree ==
  ASSUME NEW R, NEW S, IsFiniteSet(S), S \subseteq R, NEW f, NEW g, NEW c, NEW d,
         Summing(c, f, S), Summing(d, g, R), \A x \in S : f[x] = g[x]
  PROVE  \A s \in SUBSET S : c[s] = d[s]
<1> DEFINE T == {s \in SUBSET S : c[s] = d[s]}
<1>1. ASSUME NEW s \in SUBSET S, \A x \in s : s \ {x} \in T PROVE s \in T
  <2>1. CASE s = {}
    BY <2>1 DEF Summing
  <2>2. CASE s # {}
    <3>1. Picked(s) \in s
      BY <2>2 DEF Picked
    <3>2. c[s \ {Picked(s)}] = d[s \ {Picked(s)}] /\ f[Picked(s)] = g[Picked(s)]
      BY <1>1, <3>1
    <3>3. s \in SUBSET R
      OBVIOUS
    <3>4. c[s] = f[Picked(s)] + c[s \ {Picked(s)}]
      BY <2>2 DEF Summing
    <3>5. d[s] = g[Picked(s)] + d[s \ {Picked(s)}]
      BY <2>2, <3>3 DEF Summing
    <3> QED BY <3>2, <3>4, <3>5
  <2> QED BY <2>1, <2>2
<1> HIDE DEF T
<1>2. SUBSET S \subseteq T
  BY <1>1, SubsetInduction
<1> QED BY <1>2 DEF T

LEMMA SummingType ==
  ASSUME NEW S, IsFiniteSet(S), NEW f, NEW c, Summing(c, f, S), \A x \in S : f[x] \in Int
  PROVE  \A s \in SUBSET S : c[s] \in Int
<1> DEFINE T == {s \in SUBSET S : c[s] \in Int}
<1>1. ASSUME NEW s \in SUBSET S, \A x \in s : s \ {x} \in T PROVE s \in T
  <2>1. CASE s = {}
    BY <2>1 DEF Summing
  <2>2. CASE s # {}
    <3>1. Picked(s) \in s
      BY <2>2 DEF Picked
    <3>2. c[s \ {Picked(s)}] \in Int /\ f[Picked(s)] \in Int
      BY <1>1, <3>1
    <3>3. c[s] = f[Picked(s)] + c[s \ {Picked(s)}]
      BY <2>2 DEF Summing
    <3> QED BY <3>2, <3>3
  <2> QED BY <2>1, <2>2
<1> HIDE DEF T
<1>2. SUBSET S \subseteq T
  BY <1>1, SubsetInduction
<1> QED BY <1>2 DEF T

(* Whatever order Picked takes, an element counts once. *)
LEMMA SummingAdd ==
  ASSUME NEW S, IsFiniteSet(S), NEW f, NEW c, Summing(c, f, S), \A x \in S : f[x] \in Int
  PROVE  \A s \in SUBSET S : \A t \in S \ s : c[s \cup {t}] = c[s] + f[t]
<1> DEFINE T == {s \in SUBSET S : \A t \in S \ s : c[s \cup {t}] = c[s] + f[t]}
<1>0. \A s \in SUBSET S : c[s] \in Int
  BY SummingType
<1>1. ASSUME NEW s \in SUBSET S, \A x \in s : s \ {x} \in T PROVE s \in T
  <2> SUFFICES ASSUME NEW t \in S \ s PROVE c[s \cup {t}] = c[s] + f[t]
    OBVIOUS
  <2> DEFINE u == s \cup {t}
             x == Picked(u)
  <2>1. u \in SUBSET S /\ u # {} /\ x \in u
    BY DEF Picked
  <2>2. c[u] = f[x] + c[u \ {x}]
    BY <2>1 DEF Summing
  <2>3. CASE x = t
    <3>1. u \ {x} = s
      BY <2>3
    <3>2. c[s] \in Int /\ f[t] \in Int
      BY <1>0
    <3>3. c[u] = f[t] + c[s]
      BY <2>2, <2>3, <3>1
    <3> HIDE DEF u, x
    <3> QED BY <3>2, <3>3 DEF u
  <2>4. CASE x # t
    <3>1. x \in s /\ s \ {x} \in T
      BY <1>1, <2>1, <2>4
    <3>2. u \ {x} = (s \ {x}) \cup {t} /\ t \in S \ (s \ {x})
      BY <2>4
    <3>3. s = (s \ {x}) \cup {x} /\ x \in S \ (s \ {x})
      BY <3>1
    <3>4. c[u \ {x}] = c[s \ {x}] + f[t]
      BY <3>1, <3>2
    <3>5. c[s] = c[s \ {x}] + f[x]
      BY <3>1, <3>3
    <3>6. c[s \ {x}] \in Int /\ f[t] \in Int /\ f[x] \in Int
      BY <1>0, <3>1
    <3> QED BY <2>2, <3>4, <3>5, <3>6
  <2> QED BY <2>3, <2>4
<1> HIDE DEF T
<1>2. SUBSET S \subseteq T
  BY <1>1, SubsetInduction
<1> QED BY <1>2 DEF T

LEMMA SumEmpty ==
  ASSUME NEW f
  PROVE  SumFunctionOnSet(f, {}) = 0
<1>1. IsFiniteSet({})
  BY FS_EmptySet
<1>2. PICK c : Summing(c, f, {}) /\ SumFunctionOnSet(f, {}) = c[{}]
  BY <1>1, SumIs
<1> QED BY <1>2 DEF Summing

LEMMA SumType ==
  ASSUME NEW S, IsFiniteSet(S), NEW f, \A x \in S : f[x] \in Int
  PROVE  SumFunctionOnSet(f, S) \in Int
<1>1. PICK c : Summing(c, f, S) /\ SumFunctionOnSet(f, S) = c[S]
  BY SumIs
<1> QED BY <1>1, SummingType

LEMMA SumAgree ==
  ASSUME NEW S, IsFiniteSet(S), NEW f, NEW g, \A x \in S : f[x] = g[x]
  PROVE  SumFunctionOnSet(f, S) = SumFunctionOnSet(g, S)
<1>1. PICK c : Summing(c, f, S) /\ SumFunctionOnSet(f, S) = c[S]
  BY SumIs
<1>2. PICK d : Summing(d, g, S) /\ SumFunctionOnSet(g, S) = d[S]
  BY SumIs
<1>3. \A s \in SUBSET S : c[s] = d[s]
  BY <1>1, <1>2, SummingAgree
<1> QED BY <1>1, <1>2, <1>3

LEMMA SumAdd ==
  ASSUME NEW S, IsFiniteSet(S), NEW f, NEW t, t \notin S, \A x \in S \cup {t} : f[x] \in Int
  PROVE  SumFunctionOnSet(f, S \cup {t}) = SumFunctionOnSet(f, S) + f[t]
<1> DEFINE R == S \cup {t}
<1>1. IsFiniteSet(R) /\ S \subseteq R
  BY FS_AddElement
<1>2. PICK c : Summing(c, f, S) /\ SumFunctionOnSet(f, S) = c[S]
  BY SumIs
<1>3. PICK d : Summing(d, f, R) /\ SumFunctionOnSet(f, R) = d[R]
  BY <1>1, SumIs
<1> HIDE DEF R
<1>4. c[S] = d[S]
  BY <1>1, <1>2, <1>3, SummingAgree
<1>5. \A x \in R : f[x] \in Int
  BY DEF R
<1>6. d[S \cup {t}] = d[S] + f[t]
  BY <1>1, <1>3, <1>5, SummingAdd DEF R
<1> QED BY <1>2, <1>3, <1>4, <1>6 DEF R

(* One summand more by a, the sum more by a. *)
LEMMA SumChange ==
  ASSUME NEW S, IsFiniteSet(S), NEW f, NEW g, NEW t \in S, NEW a \in Int,
         \A x \in S : f[x] \in Int,
         \A x \in S \ {t} : g[x] = f[x],
         g[t] = f[t] + a
  PROVE  SumFunctionOnSet(g, S) = SumFunctionOnSet(f, S) + a
<1> DEFINE R == S \ {t}
<1>1. IsFiniteSet(R) /\ t \notin R /\ R \cup {t} = S
  BY FS_Subset
<1>2. \A x \in R : f[x] \in Int /\ g[x] = f[x]
  OBVIOUS
<1> HIDE DEF R
<1>3. f[t] \in Int /\ g[t] \in Int
  OBVIOUS
<1>4. (\A x \in R \cup {t} : f[x] \in Int) /\ (\A x \in R \cup {t} : g[x] \in Int)
  BY <1>2, <1>3
<1>5. SumFunctionOnSet(f, R \cup {t}) = SumFunctionOnSet(f, R) + f[t]
  BY ONLY <1>1, <1>4, SumAdd
<1>6. SumFunctionOnSet(g, R \cup {t}) = SumFunctionOnSet(g, R) + g[t]
  BY ONLY <1>1, <1>4, SumAdd
<1>7. SumFunctionOnSet(g, R) = SumFunctionOnSet(f, R)
  BY <1>1, <1>2, SumAgree
<1>8. SumFunctionOnSet(f, R) \in Int
  BY <1>1, <1>2, SumType
<1>9. SumFunctionOnSet(g, R \cup {t}) = SumFunctionOnSet(f, R \cup {t}) + a
  BY <1>3, <1>5, <1>6, <1>7, <1>8
<1> QED BY <1>1, <1>9
=============================================================================
