---------------------------- MODULE SetSums_proofs ----------------------------
(***************************************************************************)
(* Sums over finite sets, for proofs about the byte accounts of lease      *)
(* registries.  MapThenSumSet of the community modules is a recursive      *)
(* function over the subsets of a set; what such a function computes is    *)
(* shown here from a smallest subset for which it would not hold.          *)
(***************************************************************************)
EXTENDS Integers, FiniteSetTheorems, WellFoundedInduction, TLAPS

\* A set of natural numbers has a smallest element.
LEMMA SmallestNumber ==
  ASSUME NEW T \in SUBSET Nat, T # {}
  PROVE  \E n \in T : \A m \in T : n <= m
<1>1. PICK n \in T : \A m \in T : ~(<<m, n>> \in OpToRel(<, Nat))
  BY NatLessThanWellFounded, WFMin
<1>2. \A m \in T : <<m, n>> \in Nat \X Nat
  OBVIOUS
<1>3. \A m \in T : ~(m < n)
  BY <1>1, <1>2 DEF OpToRel
<1>4. QED BY <1>3

\* Among subsets of a finite set there is one of which no part is among them.
LEMMA SmallestSubset ==
  ASSUME NEW U, IsFiniteSet(U), NEW Bad \in SUBSET (SUBSET U), Bad # {}
  PROVE  \E s \in Bad : \A t \in SUBSET s : t # s => t \notin Bad
<1> DEFINE Cards == {Cardinality(s) : s \in Bad}
<1>1. \A s \in Bad : IsFiniteSet(s) /\ Cardinality(s) \in Nat
  BY FS_Subset, FS_CardinalityType
<1>2. PICK n \in Cards : \A m \in Cards : n <= m
  <2>1. Cards \in SUBSET Nat /\ Cards # {}
    BY <1>1
  <2> HIDE DEF Cards
  <2>2. QED BY <2>1, SmallestNumber
<1>3. PICK s \in Bad : Cardinality(s) = n
  BY <1>2
<1>4. ASSUME NEW t \in SUBSET s, t # s, t \in Bad PROVE FALSE
  <2>1. Cardinality(t) <= Cardinality(s) /\ Cardinality(t) # Cardinality(s)
    BY <1>1, <1>4, FS_Subset
  <2>2. Cardinality(s) <= Cardinality(t)
    BY <1>2, <1>3, <1>4
  <2>3. QED BY <1>1, <1>4, <2>1, <2>2
<1>5. QED BY <1>3, <1>4

-----------------------------------------------------------------------------
\* The function MapThenSumSet defines: the sum of h over each subset of S.
Any(s) == CHOOSE x \in s : TRUE
Sums(g, h, S) ==
  g = [s \in SUBSET S |-> IF s = {} THEN 0 ELSE h[Any(s)] + g[s \ {Any(s)}]]

LEMMA SumsStep ==
  ASSUME NEW g, NEW h, NEW S, Sums(g, h, S), NEW s \in SUBSET S
  PROVE  /\ s = {} => g[s] = 0
         /\ s # {} => /\ Any(s) \in s /\ s \ {Any(s)} \in SUBSET S
                      /\ g[s] = h[Any(s)] + g[s \ {Any(s)}]
<1>1. s # {} => Any(s) \in s
  BY DEF Any
<1>2. g[s] = IF s = {} THEN 0 ELSE h[Any(s)] + g[s \ {Any(s)}]
  BY Zenon DEF Sums
<1>3. QED BY <1>1, <1>2

\* Two sums of the same numbers are the same.
LEMMA SumsAgree ==
  ASSUME NEW g, NEW h, NEW S, Sums(g, h, S), NEW k, NEW j, NEW T, Sums(k, j, T),
         IsFiniteSet(S), NEW U, U \subseteq S, U \subseteq T, \A x \in U : h[x] = j[x]
  PROVE  g[U] = k[U]
<1> DEFINE Bad == {s \in SUBSET U : g[s] # k[s]}
<1>1. ASSUME Bad # {} PROVE FALSE
  <2>1. IsFiniteSet(U) /\ Bad \in SUBSET (SUBSET U)
    BY FS_Subset
  <2>2. PICK s \in Bad : \A t \in SUBSET s : t # s => t \notin Bad
    <3> HIDE DEF Bad
    <3>1. QED BY <1>1, <2>1, SmallestSubset
  <2>3. s \in SUBSET S /\ s \in SUBSET T /\ g[s] # k[s]
    BY <2>2
  <2>4. s # {} /\ Any(s) \in s
    BY <2>3, SumsStep
  <2>5. s \ {Any(s)} \in SUBSET s /\ s \ {Any(s)} # s
    BY <2>4
  <2>6. g[s \ {Any(s)}] = k[s \ {Any(s)}]
    BY <2>2, <2>5
  <2>7. h[Any(s)] = j[Any(s)]
    BY <2>2, <2>4
  <2>8. /\ g[s] = h[Any(s)] + g[s \ {Any(s)}]
        /\ k[s] = j[Any(s)] + k[s \ {Any(s)}]
    <3>1. s \in SUBSET S /\ s \in SUBSET T /\ s # {}
      BY <2>3, <2>4
    <3>2. g[s] = h[Any(s)] + g[s \ {Any(s)}]
      BY <3>1, SumsStep
    <3>3. k[s] = j[Any(s)] + k[s \ {Any(s)}]
      BY <3>1, SumsStep
    <3>4. QED BY <3>2, <3>3
  <2>9. QED BY <2>3, <2>6, <2>7, <2>8
<1>2. QED BY <1>1

\* There is such a function.
LEMMA SumsExist ==
  ASSUME NEW h, NEW S, IsFiniteSet(S)
  PROVE  \E g : Sums(g, h, S)
<1> DEFINE Bad == {s \in SUBSET S : ~\E g : Sums(g, h, s)}
<1>1. ASSUME NEW U \in SUBSET S, \A t \in SUBSET U : t # U => \E g : Sums(g, h, t)
      PROVE  \E g : Sums(g, h, U)
  <2> DEFINE F(t) == CHOOSE g : Sums(g, h, t)
             Rest(s) == s \ {Any(s)}
             Of(s) == IF s = {} THEN 0 ELSE h[Any(s)] + F(Rest(s))[Rest(s)]
             g == [s \in SUBSET U |-> Of(s)]
  <2>1. ASSUME NEW t \in SUBSET U, t # U PROVE Sums(F(t), h, t) /\ IsFiniteSet(t)
    <3>1. \E f : Sums(f, h, t)
      BY <1>1, <2>1
    <3>2. Sums(F(t), h, t)
      BY <3>1
    <3>3. t \in SUBSET S
      BY <2>1
    <3>4. QED BY <3>2, <3>3, FS_Subset
  <2>2. \A s \in SUBSET U : s # {} =>
          Any(s) \in s /\ Rest(s) \in SUBSET U /\ Rest(s) # U /\ Rest(s) \subseteq s
    BY DEF Any
  <2> HIDE DEF F
  <2>3. ASSUME NEW t \in SUBSET U, t # U PROVE F(t)[t] = Of(t)
    <3>1. Sums(F(t), h, t) /\ IsFiniteSet(t) /\ t \in SUBSET t
      BY <2>1, <2>3
    <3>2. CASE t = {}
      <4>1. F(t)[t] = 0
        BY <3>1, <3>2, SumsStep
      <4>2. QED BY <3>2, <4>1
    <3>3. CASE t # {}
      <4>1. F(t)[t] = h[Any(t)] + F(t)[Rest(t)]
        BY <3>1, <3>3, SumsStep
      <4>2. Rest(t) \in SUBSET U /\ Rest(t) # U /\ Rest(t) \subseteq t
        BY <2>2, <3>3
      <4>3. Sums(F(Rest(t)), h, Rest(t))
        BY <2>1, <4>2
      <4>4. F(t)[Rest(t)] = F(Rest(t))[Rest(t)]
        <5> HIDE DEF Rest
        <5>1. QED BY <3>1, <4>2, <4>3, SumsAgree
      <4>5. QED BY <3>3, <4>1, <4>4
    <3>4. QED BY <3>2, <3>3
  <2>4. \A s \in SUBSET U : s # {} => g[Rest(s)] = F(Rest(s))[Rest(s)]
    <3> HIDE DEF Of
    <3>1. \A s \in SUBSET U : s # {} => g[Rest(s)] = Of(Rest(s))
      BY <2>2
    <3>2. QED BY <2>2, <2>3, <3>1
  <2>5. \A s \in SUBSET U : g[s] = IF s = {} THEN 0 ELSE h[Any(s)] + g[Rest(s)]
    <3>1. \A s \in SUBSET U : g[s] = Of(s)
      OBVIOUS
    <3> HIDE DEF g
    <3>2. QED BY <2>4, <3>1
  <2>6. g = [s \in SUBSET U |-> IF s = {} THEN 0 ELSE h[Any(s)] + g[Rest(s)]]
    <3>1. g = [s \in SUBSET U |-> g[s]]
      OBVIOUS
    <3> HIDE DEF g
    <3>2. QED BY <2>5, <3>1, Zenon
  <2>7. Sums(g, h, U)
    <3> HIDE DEF g
    <3>1. QED BY <2>6 DEF Sums
  <2>8. QED BY <2>7
<1>2. Bad = {}
  <2>1. SUFFICES ASSUME Bad # {} PROVE FALSE
    OBVIOUS
  <2>2. Bad \in SUBSET (SUBSET S)
    OBVIOUS
  <2>3. PICK U \in Bad : \A t \in SUBSET U : t # U => t \notin Bad
    <3> HIDE DEF Bad
    <3>1. QED BY <2>1, <2>2, SmallestSubset
  <2>4. U \in SUBSET S /\ \A t \in SUBSET U : t # U => \E g : Sums(g, h, t)
    BY <2>3
  <2>5. QED BY <1>1, <2>3, <2>4
<1>3. S \in SUBSET S
  OBVIOUS
<1>4. QED BY <1>2, <1>3

\* Sums of natural numbers are natural numbers.
LEMMA SumsAreNat ==
  ASSUME NEW g, NEW h, NEW S, Sums(g, h, S), IsFiniteSet(S), \A x \in S : h[x] \in Nat,
         NEW U \in SUBSET S
  PROVE  g[U] \in Nat
<1> DEFINE Bad == {s \in SUBSET S : g[s] \notin Nat}
<1>1. ASSUME Bad # {} PROVE FALSE
  <2>1. Bad \in SUBSET (SUBSET S)
    OBVIOUS
  <2>2. PICK s \in Bad : \A t \in SUBSET s : t # s => t \notin Bad
    <3> HIDE DEF Bad
    <3>1. QED BY <1>1, <2>1, SmallestSubset
  <2>3. s \in SUBSET S /\ g[s] \notin Nat
    OBVIOUS
  <2>4. s # {}
    <3>1. s = {} => g[s] = 0
      BY <2>3, SumsStep
    <3>2. QED BY <2>3, <3>1
  <2>5. /\ Any(s) \in s /\ s \ {Any(s)} \in SUBSET S
        /\ g[s] = h[Any(s)] + g[s \ {Any(s)}]
    BY <2>3, <2>4, SumsStep
  <2>6. g[s \ {Any(s)}] \in Nat /\ h[Any(s)] \in Nat
    BY <2>2, <2>3, <2>5
  <2>7. QED BY <2>3, <2>5, <2>6
<1>2. QED BY <1>1

\* It does not matter which element comes first.
LEMMA SumsRemove ==
  ASSUME NEW g, NEW h, NEW S, Sums(g, h, S), IsFiniteSet(S), \A x \in S : h[x] \in Nat,
         NEW U \in SUBSET S, NEW y \in U
  PROVE  g[U] = g[U \ {y}] + h[y]
<1> DEFINE Bad == {s \in SUBSET S : \E x \in s : g[s] # g[s \ {x}] + h[x]}
<1>1. ASSUME Bad # {} PROVE FALSE
  <2>1. Bad \in SUBSET (SUBSET S)
    OBVIOUS
  <2>2. PICK s \in Bad : \A t \in SUBSET s : t # s => t \notin Bad
    <3> HIDE DEF Bad
    <3>1. QED BY <1>1, <2>1, SmallestSubset
  <2>3. PICK x \in s : g[s] # g[s \ {x}] + h[x]
    OBVIOUS
  <2> DEFINE c == Any(s)
  <2>4. /\ s \in SUBSET S /\ c \in s
        /\ g[s] = h[c] + g[s \ {c}]
    <3>1. s \in SUBSET S /\ s # {}
      BY <2>3
    <3>2. QED BY <3>1, SumsStep
  <2> HIDE DEF c
  <2>5. /\ h[x] \in Nat /\ h[c] \in Nat
        /\ g[s \ {c}] \in Nat /\ g[s \ {x}] \in Nat /\ g[(s \ {c}) \ {x}] \in Nat
    BY <2>4, SumsAreNat
  <2>6. c # x
    <3>1. h[c] + g[s \ {c}] = g[s \ {c}] + h[c]
      BY <2>5
    <3>2. QED BY <2>3, <2>4, <3>1, Zenon
  <2>7. \A t \in SUBSET s : t # s => \A z \in t : g[t] = g[t \ {z}] + h[z]
    BY <2>2, <2>4
  <2>8. g[s \ {c}] = g[(s \ {c}) \ {x}] + h[x]
    BY <2>4, <2>6, <2>7
  <2>9. g[s \ {x}] = g[(s \ {x}) \ {c}] + h[c]
    BY <2>4, <2>6, <2>7
  <2>10. (s \ {c}) \ {x} = (s \ {x}) \ {c}
    OBVIOUS
  <2>11. g[(s \ {x}) \ {c}] = g[(s \ {c}) \ {x}]
    BY <2>10, Zenon
  <2>12. g[s] = g[s \ {x}] + h[x]
    BY <2>4, <2>5, <2>8, <2>9, <2>11
  <2>13. QED BY <2>3, <2>12, Zenon
<1>2. QED BY <1>1

\* The sum over a set is the sum over a part of it and over the rest.
LEMMA SumsSplit ==
  ASSUME NEW g, NEW h, NEW S, Sums(g, h, S), IsFiniteSet(S), \A x \in S : h[x] \in Nat,
         NEW T \in SUBSET S
  PROVE  g[S] = g[T] + g[S \ T]
<1> DEFINE Bad == {s \in SUBSET S : g[S] # g[s] + g[S \ s]}
<1>1. ASSUME Bad # {} PROVE FALSE
  <2>1. Bad \in SUBSET (SUBSET S)
    OBVIOUS
  <2>2. PICK s \in Bad : \A t \in SUBSET s : t # s => t \notin Bad
    <3> HIDE DEF Bad
    <3>1. QED BY <1>1, <2>1, SmallestSubset
  <2>3. s \in SUBSET S /\ g[S] # g[s] + g[S \ s]
    OBVIOUS
  <2>4. g[S] \in Nat /\ g[s] \in Nat /\ g[S \ s] \in Nat
    BY <2>3, SumsAreNat
  <2>5. CASE s = {}
    <3>1. g[s] = 0
      BY <2>3, <2>5, SumsStep
    <3>2. S \ s = S
      BY <2>5
    <3>3. g[S \ s] = g[S]
      BY <3>2, Zenon
    <3>4. QED BY <2>3, <2>4, <3>1, <3>3
  <2>6. CASE s # {}
    <3>1. PICK x \in s : TRUE
      BY <2>6
    <3> DEFINE t == s \ {x}
    <3>2. g[S] = g[t] + g[S \ t]
      <4>1. t \in SUBSET s /\ t # s /\ t \in SUBSET S
        BY <2>3, <3>1
      <4>2. QED BY <2>2, <4>1
    <3>3. g[s] = g[t] + h[x]
      BY <2>3, SumsRemove
    <3>4. g[S \ t] = g[S \ s] + h[x]
      <4>1. x \in S \ t /\ S \ t \in SUBSET S /\ (S \ t) \ {x} = S \ s
        BY <2>3
      <4>2. g[S \ t] = g[(S \ t) \ {x}] + h[x]
        <5> HIDE DEF t
        <5>1. QED BY <4>1, SumsRemove
      <4>3. QED BY <4>1, <4>2
    <3>5. g[t] \in Nat /\ h[x] \in Nat
      BY <2>3, SumsAreNat
    <3>6. QED BY <2>3, <2>4, <3>2, <3>3, <3>4, <3>5
  <2>7. QED BY <2>5, <2>6
<1>2. QED BY <1>1
=============================================================================
