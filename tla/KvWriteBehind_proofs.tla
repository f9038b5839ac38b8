------------------------- MODULE KvWriteBehind_proofs -------------------------
(***************************************************************************)
(* Theorems about KvWriteBehind: operations are applied in the order they  *)
(* were asked for, what is reported as flushed is readable, what is        *)
(* removed stays removed, and the account of bytes is that of what is      *)
(* stored, for any number of Apps, keys, values, jobs and launches.        *)
(***************************************************************************)
EXTENDS KvWriteBehind, SetSums_proofs

-----------------------------------------------------------------------------
(***************************************************************************)
(* Operations one after the other                                          *)
(***************************************************************************)
\* A finite set of jobs, each with its number.
Queue(ops) ==
  /\ IsFiniteSet(ops)
  /\ \A p \in ops : p.job \in Nat
  /\ \A p, q \in ops : p.job = q.job => p = q

LEMMA QueuePart ==
  ASSUME NEW ops, Queue(ops), NEW T \in SUBSET ops
  PROVE  Queue(T)
BY FS_Subset DEF Queue

\* A set with anything in it has a newest job: one that no part of it without one has.
LEMMA NewestExists ==
  ASSUME NEW ops, Queue(ops), ops # {}
  PROVE  \E p \in ops : \A q \in ops : q.job <= p.job
<1> DEFINE Bad == {t \in SUBSET ops : t # {} /\ ~\E p \in t : \A q \in t : q.job <= p.job}
<1>1. ASSUME Bad # {} PROVE FALSE
  <2>1. IsFiniteSet(ops) /\ Bad \in SUBSET (SUBSET ops)
    BY DEF Queue
  <2>2. PICK t \in Bad : \A s \in SUBSET t : s # t => s \notin Bad
    <3> HIDE DEF Bad
    <3>1. QED BY <1>1, <2>1, SmallestSubset
  <2>3. PICK x \in t : TRUE
    OBVIOUS
  <2>4. \A p \in t : p.job \in Nat
    BY DEF Queue
  <2>5. CASE t \ {x} = {}
    <3>1. \A q \in t : q = x
      BY <2>5
    <3>2. \A q \in t : q.job <= x.job
      BY <2>4, <3>1
    <3>3. QED BY <3>2
  <2>6. CASE t \ {x} # {}
    <3>1. t \ {x} \in SUBSET t /\ t \ {x} # t /\ t \ {x} \in SUBSET ops
      OBVIOUS
    <3>2. PICK p \in t \ {x} : \A q \in t \ {x} : q.job <= p.job
      BY <2>2, <2>6, <3>1
    <3>3. CASE x.job <= p.job
      BY <3>2, <3>3
    <3>4. CASE ~(x.job <= p.job)
      <4>1. \A q \in t : q.job <= x.job
        BY <2>4, <3>2, <3>4
      <4>2. QED BY <4>1
    <3>5. QED BY <3>3, <3>4
  <2>7. QED BY <2>5, <2>6
<1>2. QED BY <1>1

LEMMA NewestIs ==
  ASSUME NEW ops, Queue(ops), ops # {}
  PROVE  Newest(ops) \in ops /\ \A q \in ops : q.job <= Newest(ops).job
BY NewestExists DEF Newest

LEMMA NewestIsThis ==
  ASSUME NEW ops, Queue(ops), NEW p \in ops, \A q \in ops : q.job <= p.job
  PROVE  Newest(ops) = p
<1>1. Newest(ops) \in ops /\ p.job <= Newest(ops).job /\ Newest(ops).job <= p.job
  BY NewestIs
<1>2. QED BY <1>1 DEF Queue

\* Likewise for the oldest.
LEMMA OldestIs ==
  ASSUME NEW S, S # {}, \A x \in S : x.job \in Nat
  PROVE  Oldest(S) \in S /\ \A y \in S : Oldest(S).job <= y.job
<1>1. Jobs(S) \in SUBSET Nat /\ Jobs(S) # {}
  BY DEF Jobs
<1>2. PICK n \in Jobs(S) : \A m \in Jobs(S) : n <= m
  BY <1>1, SmallestNumber
<1>3. \E x \in S : \A y \in S : x.job <= y.job
  BY <1>2 DEF Jobs
<1>4. QED BY <1>3 DEF Oldest

\* The function AppliedAll defines: what is made of s by each part of ops.
Steps(g, s, ops) ==
  g = [t \in SUBSET ops |->
        IF t = {} THEN s ELSE Applied(g[t \ {Newest(t)}], Newest(t).op)]

LEMMA StepsStep ==
  ASSUME NEW g, NEW s, NEW ops, Steps(g, s, ops), Queue(ops), NEW t \in SUBSET ops
  PROVE  /\ t = {} => g[t] = s
         /\ t # {} => /\ Newest(t) \in t /\ t \ {Newest(t)} \in SUBSET ops
                      /\ g[t] = Applied(g[t \ {Newest(t)}], Newest(t).op)
<1>1. t # {} => Newest(t) \in t
  BY QueuePart, NewestIs
<1>2. g[t] = IF t = {} THEN s ELSE Applied(g[t \ {Newest(t)}], Newest(t).op)
  BY Zenon DEF Steps
<1>3. QED BY <1>1, <1>2

LEMMA StepsAgree ==
  ASSUME NEW g, NEW k, NEW s, NEW S, NEW T, Steps(g, s, S), Steps(k, s, T), Queue(S), Queue(T),
         NEW U, U \subseteq S, U \subseteq T
  PROVE  g[U] = k[U]
<1> DEFINE Bad == {t \in SUBSET U : g[t] # k[t]}
<1>1. ASSUME Bad # {} PROVE FALSE
  <2>1. IsFiniteSet(U) /\ Bad \in SUBSET (SUBSET U)
    BY FS_Subset DEF Queue
  <2>2. PICK t \in Bad : \A r \in SUBSET t : r # t => r \notin Bad
    <3> HIDE DEF Bad
    <3>1. QED BY <1>1, <2>1, SmallestSubset
  <2>3. t \in SUBSET S /\ t \in SUBSET T /\ g[t] # k[t]
    OBVIOUS
  <2>4. t # {}
    <3>1. t = {} => g[t] = s /\ k[t] = s
      BY <2>3, StepsStep
    <3>2. QED BY <2>3, <3>1
  <2>5. /\ Newest(t) \in t
        /\ g[t] = Applied(g[t \ {Newest(t)}], Newest(t).op)
        /\ k[t] = Applied(k[t \ {Newest(t)}], Newest(t).op)
    <3>1. Newest(t) \in t /\ g[t] = Applied(g[t \ {Newest(t)}], Newest(t).op)
      BY <2>3, <2>4, StepsStep
    <3>2. k[t] = Applied(k[t \ {Newest(t)}], Newest(t).op)
      BY <2>3, <2>4, StepsStep
    <3>3. QED BY <3>1, <3>2
  <2>6. g[t \ {Newest(t)}] = k[t \ {Newest(t)}]
    BY <2>2, <2>5
  <2>7. QED BY <2>3, <2>5, <2>6, Zenon
<1>2. QED BY <1>1

\* There is such a function.
LEMMA StepsExist ==
  ASSUME NEW s, NEW ops, Queue(ops)
  PROVE  \E g : Steps(g, s, ops)
<1> DEFINE Bad == {t \in SUBSET ops : ~\E g : Steps(g, s, t)}
<1>1. ASSUME NEW U \in SUBSET ops, \A t \in SUBSET U : t # U => \E g : Steps(g, s, t)
      PROVE  \E g : Steps(g, s, U)
  <2> DEFINE F(t) == CHOOSE g : Steps(g, s, t)
             Rest(t) == t \ {Newest(t)}
             Of(t) == IF t = {} THEN s ELSE Applied(F(Rest(t))[Rest(t)], Newest(t).op)
             g == [t \in SUBSET U |-> Of(t)]
  <2>1. ASSUME NEW t \in SUBSET U, t # U PROVE Steps(F(t), s, t) /\ Queue(t)
    <3>1. \E f : Steps(f, s, t)
      BY <1>1, <2>1
    <3>2. Steps(F(t), s, t)
      BY <3>1
    <3>3. t \in SUBSET ops
      BY <2>1
    <3>4. QED BY <3>2, <3>3, QueuePart
  <2>2. \A t \in SUBSET U : t # {} =>
          Newest(t) \in t /\ Rest(t) \in SUBSET U /\ Rest(t) # U /\ Rest(t) \subseteq t
    <3>1. \A t \in SUBSET U : t # {} => Newest(t) \in t
      BY QueuePart, NewestIs
    <3>2. QED BY <3>1
  <2> HIDE DEF F
  <2>3. ASSUME NEW t \in SUBSET U, t # U PROVE F(t)[t] = Of(t)
    <3>1. Steps(F(t), s, t) /\ Queue(t) /\ t \in SUBSET t
      BY <2>1, <2>3
    <3>2. CASE t = {}
      <4>1. F(t)[t] = s
        BY <3>1, <3>2, StepsStep
      <4>2. QED BY <3>2, <4>1
    <3>3. CASE t # {}
      <4>1. F(t)[t] = Applied(F(t)[Rest(t)], Newest(t).op)
        BY <3>1, <3>3, StepsStep
      <4>2. Rest(t) \in SUBSET U /\ Rest(t) # U /\ Rest(t) \subseteq t
        BY <2>2, <3>3
      <4>3. Steps(F(Rest(t)), s, Rest(t)) /\ Queue(Rest(t))
        BY <2>1, <4>2
      <4>4. F(t)[Rest(t)] = F(Rest(t))[Rest(t)]
        <5> HIDE DEF Rest
        <5>1. QED BY <3>1, <4>2, <4>3, StepsAgree
      <4>5. QED BY <3>3, <4>1, <4>4, Zenon
    <3>4. QED BY <3>2, <3>3
  <2>4. \A t \in SUBSET U : t # {} => g[Rest(t)] = F(Rest(t))[Rest(t)]
    <3> HIDE DEF Of
    <3>1. \A t \in SUBSET U : t # {} => g[Rest(t)] = Of(Rest(t))
      BY <2>2
    <3>2. QED BY <2>2, <2>3, <3>1
  <2>5. \A t \in SUBSET U : g[t] = IF t = {} THEN s ELSE Applied(g[Rest(t)], Newest(t).op)
    <3>1. \A t \in SUBSET U : g[t] = Of(t)
      OBVIOUS
    <3> HIDE DEF g
    <3>2. QED BY <2>4, <3>1, Zenon
  <2>6. g = [t \in SUBSET U |-> IF t = {} THEN s ELSE Applied(g[Rest(t)], Newest(t).op)]
    <3>1. g = [t \in SUBSET U |-> g[t]]
      OBVIOUS
    <3> HIDE DEF g
    <3>2. QED BY <2>5, <3>1, Zenon
  <2>7. Steps(g, s, U)
    <3> HIDE DEF g
    <3>1. QED BY <2>6, Zenon DEF Steps
  <2>8. QED BY <2>7
<1>2. Bad = {}
  <2>1. SUFFICES ASSUME Bad # {} PROVE FALSE
    OBVIOUS
  <2>2. IsFiniteSet(ops) /\ Bad \in SUBSET (SUBSET ops)
    BY DEF Queue
  <2>3. PICK U \in Bad : \A t \in SUBSET U : t # U => t \notin Bad
    <3> HIDE DEF Bad
    <3>1. QED BY <2>1, <2>2, SmallestSubset
  <2>4. U \in SUBSET ops /\ \A t \in SUBSET U : t # U => \E g : Steps(g, s, t)
    BY <2>3
  <2>5. QED BY <1>1, <2>3, <2>4
<1>3. ops \in SUBSET ops
  OBVIOUS
<1>4. QED BY <1>2, <1>3

LEMMA AppliedAllIs ==
  ASSUME NEW s, NEW ops, Queue(ops)
  PROVE  \E g : /\ Steps(g, s, ops)
                /\ \A U \in SUBSET ops : AppliedAll(s, U) = g[U]
<1>1. ASSUME NEW U, Queue(U) PROVE \E g : Steps(g, s, U) /\ AppliedAll(s, U) = g[U]
  <2> DEFINE P(g) == g = [t \in SUBSET U |->
                           IF t = {} THEN s ELSE Applied(g[t \ {Newest(t)}], Newest(t).op)]
  <2>1. \A g : P(g) <=> Steps(g, s, U)
    BY Zenon DEF Steps
  <2>2. \E g : P(g)
    BY <1>1, <2>1, StepsExist
  <2>3. P(CHOOSE g : P(g))
    <3> HIDE DEF P
    <3>1. QED BY <2>2
  <2>4. AppliedAll(s, U) = (CHOOSE g : P(g))[U]
    BY DEF AppliedAll, MapThenFoldSet
  <2> HIDE DEF P
  <2>5. QED BY <2>1, <2>3, <2>4
<1>2. PICK g : Steps(g, s, ops)
  BY StepsExist
<1>3. ASSUME NEW U \in SUBSET ops PROVE AppliedAll(s, U) = g[U]
  <2>1. Queue(U)
    BY QueuePart
  <2>2. PICK k : Steps(k, s, U) /\ AppliedAll(s, U) = k[U]
    BY <1>1, <2>1
  <2>3. g[U] = k[U]
    BY <1>2, <2>1, <2>2, StepsAgree
  <2>4. QED BY <2>2, <2>3
<1>4. QED BY <1>2, <1>3

LEMMA AppliedNone == ASSUME NEW s PROVE AppliedAll(s, {}) = s
<1>1. Queue({})
  BY FS_EmptySet DEF Queue
<1>2. PICK g : Steps(g, s, {}) /\ \A U \in SUBSET {} : AppliedAll(s, U) = g[U]
  BY <1>1, AppliedAllIs
<1>3. {} \in SUBSET {}
  OBVIOUS
<1>4. g[{}] = s
  BY <1>1, <1>2, <1>3, StepsStep
<1>5. QED BY <1>2, <1>3, <1>4

LEMMA AppliedStep ==
  ASSUME NEW s, NEW ops, Queue(ops), ops # {}
  PROVE  AppliedAll(s, ops) = Applied(AppliedAll(s, ops \ {Newest(ops)}), Newest(ops).op)
<1>1. PICK g : Steps(g, s, ops) /\ \A U \in SUBSET ops : AppliedAll(s, U) = g[U]
  BY AppliedAllIs
<1>2. ops \in SUBSET ops /\ ops \ {Newest(ops)} \in SUBSET ops
  OBVIOUS
<1>3. g[ops] = Applied(g[ops \ {Newest(ops)}], Newest(ops).op)
  BY <1>1, <1>2, StepsStep
<1>4. AppliedAll(s, ops) = g[ops] /\ AppliedAll(s, ops \ {Newest(ops)}) = g[ops \ {Newest(ops)}]
  BY <1>1, <1>2
<1>5. QED BY <1>3, <1>4, Zenon

\* A new operation is applied last.
LEMMA AppliedNewest ==
  ASSUME NEW s, NEW ops, NEW p, Queue(ops), p.job \in Nat, \A q \in ops : q.job < p.job
  PROVE  AppliedAll(s, ops \cup {p}) = Applied(AppliedAll(s, ops), p.op)
<1> DEFINE all == ops \cup {p}
<1>1. Queue(all)
  BY FS_AddElement DEF Queue
<1>2. p \in all /\ \A q \in all : q.job <= p.job
  BY DEF Queue
<1>3. Newest(all) = p
  <2> HIDE DEF all
  <2>1. QED BY <1>1, <1>2, NewestIsThis
<1>4. all \ {p} = ops
  BY DEF Queue
<1>5. AppliedAll(s, all) = Applied(AppliedAll(s, all \ {Newest(all)}), Newest(all).op)
  <2> HIDE DEF all
  <2>1. QED BY <1>1, <1>2, AppliedStep
<1> HIDE DEF all
<1>6. AppliedAll(s, all) = Applied(AppliedAll(s, ops), p.op)
  BY <1>3, <1>4, <1>5, Zenon
<1>7. QED BY <1>6 DEF all

\* First some, then those that are newer.
LEMMA AppliedInTwo ==
  ASSUME NEW s, NEW ops, Queue(ops), NEW T \in SUBSET ops,
         \A p \in T, q \in ops \ T : p.job < q.job
  PROVE  AppliedAll(AppliedAll(s, T), ops \ T) = AppliedAll(s, ops)
<1> DEFINE Bad == {t \in SUBSET (ops \ T) : AppliedAll(AppliedAll(s, T), t) # AppliedAll(s, T \cup t)}
<1>1. ASSUME Bad # {} PROVE FALSE
  <2>1. IsFiniteSet(ops \ T) /\ Bad \in SUBSET (SUBSET (ops \ T))
    BY FS_Subset DEF Queue
  <2>2. PICK t \in Bad : \A r \in SUBSET t : r # t => r \notin Bad
    <3> HIDE DEF Bad
    <3>1. QED BY <1>1, <2>1, SmallestSubset
  <2>3. t \in SUBSET (ops \ T) /\ AppliedAll(AppliedAll(s, T), t) # AppliedAll(s, T \cup t)
    OBVIOUS
  <2>4. t # {}
    <3>1. t = {} => T \cup t = T
      OBVIOUS
    <3>2. QED BY <2>3, <3>1, AppliedNone
  <2>5. Queue(t) /\ Queue(T \cup t) /\ T \cup t # {}
    BY <2>3, <2>4, QueuePart
  <2> DEFINE n == Newest(t)
  <2>6. n \in t /\ \A q \in t : q.job <= n.job
    BY <2>4, <2>5, NewestIs
  <2>7. Newest(T \cup t) = n
    <3>1. \A q \in T : q.job < n.job
      BY <2>3, <2>6
    <3>2. n \in T \cup t /\ \A q \in T \cup t : q.job <= n.job
      BY <2>5, <2>6, <3>1 DEF Queue
    <3> HIDE DEF n
    <3>3. QED BY <2>5, <3>2, NewestIsThis
  <2>8. (T \cup t) \ {n} = T \cup (t \ {n})
    BY <2>3, <2>6
  <2>9. AppliedAll(AppliedAll(s, T), t \ {n}) = AppliedAll(s, T \cup (t \ {n}))
    <3>1. t \ {n} \in SUBSET t /\ t \ {n} # t /\ t \ {n} \in SUBSET (ops \ T)
      BY <2>3, <2>6
    <3>2. QED BY <2>2, <3>1
  <2>10. AppliedAll(AppliedAll(s, T), t) = Applied(AppliedAll(AppliedAll(s, T), t \ {n}), n.op)
    BY <2>4, <2>5, AppliedStep
  <2>11. AppliedAll(s, T \cup t) = Applied(AppliedAll(s, (T \cup t) \ {Newest(T \cup t)}), Newest(T \cup t).op)
    BY <2>5, AppliedStep
  <2> HIDE DEF n
  <2>12. QED BY <2>3, <2>7, <2>8, <2>9, <2>10, <2>11, Zenon
<1>2. ops \ T \in SUBSET (ops \ T) /\ T \cup (ops \ T) = ops
  OBVIOUS
<1>3. AppliedAll(AppliedAll(s, T), ops \ T) = AppliedAll(s, T \cup (ops \ T))
  BY <1>1, <1>2
<1>4. QED BY <1>2, <1>3, Zenon

-----------------------------------------------------------------------------
(***************************************************************************)
(* Spaces                                                                  *)
(***************************************************************************)
\* The bytes of the keys in S.
Stored(s, S) == MapThenSumSet(LAMBDA k : BytesOf(s, k), S)
BytesOfEach(s, S) == [k \in S |-> BytesOf(s, k)]

\* A space that was filled by operations alone: the account is what is stored, within the
\* budgets.
SpaceOK(s) ==
  /\ DOMAIN s.values \subseteq Keys /\ IsFiniteSet(DOMAIN s.values)
  /\ Cardinality(DOMAIN s.values) <= MaxItems
  /\ \A k \in DOMAIN s.values : s.values[k] \in Values
  /\ s.bytes = Stored(s, DOMAIN s.values)
  /\ s.bytes <= MaxBytes

LEMMA StoredIsSum ==
  ASSUME NEW s, NEW S, IsFiniteSet(S)
  PROVE  \E g : Sums(g, BytesOfEach(s, S), S) /\ Stored(s, S) = g[S]
<1> DEFINE P(g) == g = [t \in SUBSET S |->
                         IF t = {} THEN 0 ELSE BytesOf(s, Any(t)) + g[t \ {Any(t)}]]
<1>1. \A g : P(g) <=> Sums(g, BytesOfEach(s, S), S)
  <2>1. \A t \in SUBSET S : t # {} => BytesOfEach(s, S)[Any(t)] = BytesOf(s, Any(t))
    BY DEF BytesOfEach, Any
  <2>2. ASSUME NEW g
        PROVE  [t \in SUBSET S |-> IF t = {} THEN 0 ELSE BytesOf(s, Any(t)) + g[t \ {Any(t)}]]
             = [t \in SUBSET S |-> IF t = {} THEN 0 ELSE BytesOfEach(s, S)[Any(t)] + g[t \ {Any(t)}]]
    BY <2>1
  <2>3. QED BY <2>2, Zenon DEF Sums
<1>2. \E g : P(g)
  BY <1>1, SumsExist
<1>3. P(CHOOSE g : P(g))
  <2> HIDE DEF P
  <2>1. QED BY <1>2
<1>4. Stored(s, S) = (CHOOSE g : P(g))[S]
  BY DEF Stored, MapThenSumSet, MapThenFoldSet, Any
<1> HIDE DEF P
<1>5. QED BY <1>1, <1>3, <1>4

LEMMA StoredNat ==
  ASSUME NEW s, NEW S, IsFiniteSet(S), \A k \in S : BytesOf(s, k) \in Nat
  PROVE  Stored(s, S) \in Nat
<1>1. \A k \in S : BytesOfEach(s, S)[k] \in Nat
  BY DEF BytesOfEach
<1>2. PICK g : Sums(g, BytesOfEach(s, S), S) /\ Stored(s, S) = g[S]
  BY StoredIsSum
<1>3. g[S] \in Nat
  BY <1>1, <1>2, SumsAreNat
<1>4. QED BY <1>2, <1>3

LEMMA StoredAgrees ==
  ASSUME NEW s, NEW r, NEW S, IsFiniteSet(S), \A k \in S : BytesOf(s, k) = BytesOf(r, k)
  PROVE  Stored(s, S) = Stored(r, S)
<1>1. \A k \in S : BytesOfEach(s, S)[k] = BytesOfEach(r, S)[k]
  BY DEF BytesOfEach
<1>2. PICK g : Sums(g, BytesOfEach(s, S), S) /\ Stored(s, S) = g[S]
  BY StoredIsSum
<1>3. PICK k : Sums(k, BytesOfEach(r, S), S) /\ Stored(r, S) = k[S]
  BY StoredIsSum
<1>4. g[S] = k[S]
  BY <1>1, <1>2, <1>3, SumsAgree
<1>5. QED BY <1>2, <1>3, <1>4

LEMMA StoredWithout ==
  ASSUME NEW s, NEW S, IsFiniteSet(S), \A k \in S : BytesOf(s, k) \in Nat, NEW y \in S
  PROVE  Stored(s, S) = Stored(s, S \ {y}) + BytesOf(s, y)
<1>1. \A k \in S : BytesOfEach(s, S)[k] \in Nat /\ BytesOfEach(s, S)[k] = BytesOf(s, k)
  BY DEF BytesOfEach
<1>2. PICK g : Sums(g, BytesOfEach(s, S), S) /\ Stored(s, S) = g[S]
  BY StoredIsSum
<1>3. IsFiniteSet(S \ {y})
  BY FS_Subset
<1>4. PICK k : Sums(k, BytesOfEach(s, S \ {y}), S \ {y}) /\ Stored(s, S \ {y}) = k[S \ {y}]
  BY <1>3, StoredIsSum
<1>5. \A x \in S \ {y} : BytesOfEach(s, S)[x] = BytesOfEach(s, S \ {y})[x]
  BY DEF BytesOfEach
<1>6. g[S \ {y}] = k[S \ {y}]
  <2> DEFINE U == S \ {y}
  <2>1. U \subseteq S /\ U \subseteq U
    OBVIOUS
  <2>2. Sums(k, BytesOfEach(s, U), U) /\ \A x \in U : BytesOfEach(s, S)[x] = BytesOfEach(s, U)[x]
    BY <1>4, <1>5
  <2> HIDE DEF U
  <2>3. g[U] = k[U]
    BY <1>2, <2>1, <2>2, SumsAgree
  <2>4. QED BY <2>3 DEF U
<1>7. S \in SUBSET S /\ g[S] = g[S \ {y}] + BytesOfEach(s, S)[y]
  BY <1>1, <1>2, SumsRemove
<1>8. QED BY <1>1, <1>2, <1>4, <1>6, <1>7

LEMMA BytesOfNat ==
  ASSUME NEW s, SpaceOK(s), NEW k
  PROVE  BytesOf(s, k) \in Nat
<1>1. k \in DOMAIN s.values => s.values[k] \in Nat
  BY KvAssumption DEF SpaceOK
<1>2. QED BY <1>1 DEF BytesOf, Stores, KeyBytes

LEMMA NothingOK == SpaceOK(Nothing)
<1>1. DOMAIN Nothing.values = {} /\ Nothing.bytes = 0
  BY DEF Nothing
<1>2. IsFiniteSet({}) /\ Cardinality({}) = 0
  BY FS_EmptySet
<1>3. PICK g : Sums(g, BytesOfEach(Nothing, {}), {}) /\ Stored(Nothing, {}) = g[{}]
  BY <1>2, StoredIsSum
<1>4. g[{}] = 0
  <2>1. ASSUME NEW h, Sums(g, h, {}) PROVE g[{}] = 0
    <3>1. {} \in SUBSET {}
      OBVIOUS
    <3>2. QED BY <2>1, <3>1, SumsStep
  <2>2. QED BY <1>3, <2>1
<1>5. QED BY <1>1, <1>2, <1>3, <1>4, KvAssumption DEF SpaceOK

LEMMA RemovedOK ==
  ASSUME NEW s, SpaceOK(s), NEW key
  PROVE  SpaceOK(Removed(s, key))
<1> DEFINE r == Removed(s, key)
           D == DOMAIN s.values
<1>1. /\ DOMAIN r.values = D \ {key} /\ r.bytes = s.bytes - BytesOf(s, key)
      /\ \A k \in D \ {key} : r.values[k] = s.values[k]
  BY DEF Removed
<1> HIDE DEF r
<1>2. IsFiniteSet(D) /\ D \subseteq Keys /\ Cardinality(D) <= MaxItems
  BY DEF SpaceOK
<1>3. /\ IsFiniteSet(D \ {key}) /\ Cardinality(D \ {key}) <= Cardinality(D)
      /\ Cardinality(D) \in Nat /\ Cardinality(D \ {key}) \in Nat
  <2>1. D \ {key} \subseteq D
    OBVIOUS
  <2>2. QED BY <1>2, <2>1, FS_Subset, FS_CardinalityType
<1>4. \A k : BytesOf(s, k) \in Nat
  BY BytesOfNat
<1>5. \A k \in D \ {key} : BytesOf(r, k) = BytesOf(s, k)
  BY <1>1 DEF BytesOf, Stores
<1>6. Stored(r, D \ {key}) = Stored(s, D \ {key})
  BY <1>3, <1>5, StoredAgrees
<1>7. Stored(s, D) \in Nat /\ Stored(s, D \ {key}) \in Nat
  BY <1>2, <1>3, <1>4, StoredNat
<1>8. Stored(s, D \ {key}) = Stored(s, D) - BytesOf(s, key)
  <2>1. CASE key \in D
    <3>1. Stored(s, D) = Stored(s, D \ {key}) + BytesOf(s, key)
      BY <1>2, <1>4, <2>1, StoredWithout
    <3>2. QED BY <1>4, <1>7, <3>1
  <2>2. CASE key \notin D
    <3>1. D \ {key} = D /\ BytesOf(s, key) = 0
      BY <2>2 DEF BytesOf, Stores
    <3>2. Stored(s, D \ {key}) = Stored(s, D)
      BY <3>1, Zenon
    <3>3. QED BY <1>7, <3>1, <3>2
  <2>3. QED BY <2>1, <2>2
<1>9. s.bytes = Stored(s, D) /\ s.bytes <= MaxBytes /\ \A k \in D : s.values[k] \in Values
  BY DEF SpaceOK
<1>10. r.bytes = Stored(r, D \ {key}) /\ r.bytes <= MaxBytes
  BY <1>1, <1>4, <1>6, <1>7, <1>8, <1>9, KvAssumption
<1>11. Cardinality(D \ {key}) <= MaxItems
  BY <1>2, <1>3, KvAssumption
<1>12. SpaceOK(r)
  BY <1>1, <1>2, <1>3, <1>9, <1>10, <1>11 DEF SpaceOK
<1>13. QED BY <1>12 DEF r

LEMMA AppliedOK ==
  ASSUME NEW s, SpaceOK(s), NEW op \in Operations
  PROVE  SpaceOK(Applied(s, op))
<1>1. CASE op.kind = "set" /\ CanStore(s, op.key, op.value)
  <2> DEFINE r == Applied(s, op)
             D == DOMAIN s.values
             E == D \cup {op.key}
  <2>1. op.key \in Keys /\ op.value \in Values /\ op.value \in Nat
    BY <1>1, KvAssumption DEF Operations
  <2>2. /\ DOMAIN r.values = E /\ r.bytes = s.bytes - BytesOf(s, op.key) + KeyBytes + op.value
        /\ \A k \in E : r.values[k] = IF k = op.key THEN op.value ELSE s.values[k]
    BY <1>1 DEF Applied
  <2> HIDE DEF r
  <2>3. /\ IsFiniteSet(D) /\ D \subseteq Keys /\ Cardinality(D) <= MaxItems /\ s.bytes <= MaxBytes
        /\ s.bytes = Stored(s, D) /\ \A k \in D : s.values[k] \in Values
    BY DEF SpaceOK
  <2>4. IsFiniteSet(E) /\ Cardinality(E) <= MaxItems
    <3>1. CASE op.key \in D
      <4>1. E = D
        BY <3>1
      <4>2. QED BY <2>3, <4>1
    <3>2. CASE op.key \notin D
      <4>1. Cardinality(D) < MaxItems
        BY <1>1, <3>2 DEF CanStore, Stores
      <4>2. IsFiniteSet(E) /\ Cardinality(E) = Cardinality(D) + 1 /\ Cardinality(D) \in Nat
        BY <2>3, <3>2, FS_AddElement, FS_CardinalityType
      <4>3. QED BY <4>1, <4>2, KvAssumption
    <3>3. QED BY <3>1, <3>2
  <2>5. \A k : BytesOf(s, k) \in Nat
    BY BytesOfNat
  <2>6. \A k \in E : BytesOf(r, k) = IF k = op.key THEN KeyBytes + op.value ELSE BytesOf(s, k)
    BY <2>2 DEF BytesOf, Stores
  <2>7. \A k \in E : BytesOf(r, k) \in Nat
    BY <2>1, <2>5, <2>6 DEF KeyBytes
  <2>8. E \ {op.key} = D \ {op.key} /\ IsFiniteSet(D \ {op.key})
    BY <2>3, FS_Subset
  <2>9. Stored(r, E) = Stored(r, D \ {op.key}) + KeyBytes + op.value
    <3>1. Stored(r, E) = Stored(r, E \ {op.key}) + BytesOf(r, op.key)
      <4>1. op.key \in E
        OBVIOUS
      <4> HIDE DEF E
      <4>2. QED BY <2>4, <2>7, <4>1, StoredWithout
    <3>2. BytesOf(r, op.key) = KeyBytes + op.value
      BY <2>6
    <3>3. Stored(r, D \ {op.key}) \in Nat
      BY <2>7, <2>8, StoredNat
    <3>4. QED BY <2>1, <2>8, <3>1, <3>2, <3>3 DEF KeyBytes
  <2>10. Stored(r, D \ {op.key}) = Stored(s, D \ {op.key})
    BY <2>6, <2>8, StoredAgrees
  <2>11. Stored(s, D) \in Nat /\ Stored(s, D \ {op.key}) \in Nat
    BY <2>3, <2>5, <2>8, StoredNat
  <2>12. Stored(s, D \ {op.key}) = Stored(s, D) - BytesOf(s, op.key)
    <3>1. CASE op.key \in D
      <4>1. Stored(s, D) = Stored(s, D \ {op.key}) + BytesOf(s, op.key)
        BY <2>3, <2>5, <3>1, StoredWithout
      <4>2. QED BY <2>5, <2>11, <4>1
    <3>2. CASE op.key \notin D
      <4>1. D \ {op.key} = D /\ BytesOf(s, op.key) = 0
        BY <3>2 DEF BytesOf, Stores
      <4>2. QED BY <2>11, <4>1
    <3>3. QED BY <3>1, <3>2
  <2>13. r.bytes = Stored(r, E)
    BY <2>2, <2>3, <2>9, <2>10, <2>12
  <2>14. r.bytes <= MaxBytes
    BY <1>1, <2>2 DEF CanStore
  <2>15. E \subseteq Keys /\ \A k \in E : r.values[k] \in Values
    BY <2>1, <2>2, <2>3
  <2>16. SpaceOK(r)
    BY <2>2, <2>4, <2>13, <2>14, <2>15 DEF SpaceOK
  <2>17. QED BY <2>16 DEF r
<1>2. CASE op.kind = "remove"
  BY <1>2, RemovedOK DEF Applied
<1>3. CASE op.kind = "clear"
  BY <1>3, NothingOK DEF Applied
<1>4. CASE op.kind = "get" \/ (op.kind = "set" /\ ~CanStore(s, op.key, op.value))
  BY <1>4 DEF Applied
<1>5. op.kind \in {"set", "remove", "clear", "get"}
  BY DEF Operations
<1>6. QED BY <1>1, <1>2, <1>3, <1>4, <1>5

LEMMA AppliedAllOK ==
  ASSUME NEW s, SpaceOK(s), NEW ops, Queue(ops), \A p \in ops : p.op \in Operations
  PROVE  SpaceOK(AppliedAll(s, ops))
<1> DEFINE Bad == {t \in SUBSET ops : ~SpaceOK(AppliedAll(s, t))}
<1>1. ASSUME Bad # {} PROVE FALSE
  <2>1. IsFiniteSet(ops) /\ Bad \in SUBSET (SUBSET ops)
    BY DEF Queue
  <2>2. PICK t \in Bad : \A r \in SUBSET t : r # t => r \notin Bad
    <3> HIDE DEF Bad
    <3>1. QED BY <1>1, <2>1, SmallestSubset
  <2>3. t \in SUBSET ops /\ ~SpaceOK(AppliedAll(s, t)) /\ Queue(t)
    BY QueuePart
  <2>4. t # {}
    BY <2>3, AppliedNone
  <2>5. Newest(t) \in t
    BY <2>3, <2>4, NewestIs
  <2>6. SpaceOK(AppliedAll(s, t \ {Newest(t)})) /\ Newest(t).op \in Operations
    BY <2>2, <2>3, <2>5
  <2>7. AppliedAll(s, t) = Applied(AppliedAll(s, t \ {Newest(t)}), Newest(t).op)
    BY <2>3, <2>4, AppliedStep
  <2>8. SpaceOK(AppliedAll(s, t))
    BY <2>6, <2>7, AppliedOK
  <2>9. QED BY <2>3, <2>8
<1>2. ops \in SUBSET ops
  OBVIOUS
<1>3. QED BY <1>1, <1>2

-----------------------------------------------------------------------------
(***************************************************************************)
(* The queues                                                              *)
(***************************************************************************)
\* Jobs are numbered as they come, each once, and a job is of one instance.
Numbered ==
  /\ jobs \in 0 .. MaxJobs /\ launches \in 0 .. MaxInstances
  /\ IsFiniteSet(pending)
  /\ \A p \in pending : p.job \in 1 .. jobs /\ p.id \in 1 .. launches /\ p.app \in Apps /\ p.op \in Operations
  /\ \A r \in requests \cup held : r.job \in 1 .. jobs
  /\ \A p, q \in pending : p.job = q.job => p = q
  /\ \A r \in requests \cup held, p \in pending : r.job = p.job => r.id = p.id

\* At most one App runs, and it is installed until its end has been reported.
Running ==
  /\ \A c, d \in current : c = d
  /\ \A c \in current : /\ c \in [id : 1 .. launches, app : Apps]
                        /\ closing \/ c.app \in installed
  /\ closing \in BOOLEAN /\ installed \subseteq Apps

\* An instance is one of one App.
Launched ==
  /\ \A p, q \in pending : p.id = q.id => p.app = q.app
  /\ \A p \in pending, c \in current : p.id = c.id => p.app = c.app

\* The host's queue is of the running instance, and for whatever that waits for there is a job
\* there or at the worker; what the worker has is the oldest of its instance.
Queued ==
  /\ \A r \in requests : \E c \in current : r.id = c.id
  /\ \A p \in pending, c \in current : p.id = c.id => p.job \in Jobs(requests \cup held)
  /\ \A h, i \in held : h = i
  /\ \A p \in pending, h \in held : p.id = h.id => h.job <= p.job

\* Nothing is pending of an App that was removed.
NothingRemoved == \A p \in pending : p.app \in installed

QueueInv == Numbered /\ Running /\ Launched /\ Queued /\ NothingRemoved

LEMMA PendingIsQueue == ASSUME QueueInv, NEW ops \in SUBSET pending PROVE Queue(ops)
<1>1. Queue(pending)
  BY DEF QueueInv, Numbered, Queue
<1>2. QED BY <1>1, QueuePart

\* What goes from pending goes from the queue with its job, if that is there.
LEMMA QueuesShrink ==
  ASSUME QueueInv, pending' \subseteq pending, requests' \subseteq requests,
         UNCHANGED <<held, jobs, launches, current>>,
         \A p \in pending', r \in requests : r.job = p.job => r \in requests'
  PROVE  Numbered' /\ Launched' /\ Queued'
<1>1. Numbered'
  <2>1. IsFiniteSet(pending')
    BY FS_Subset DEF QueueInv, Numbered
  <2>2. QED BY <2>1 DEF QueueInv, Numbered
<1>2. Launched'
  BY DEF QueueInv, Launched
<1>3. Queued'
  <2>1. ASSUME NEW p \in pending', NEW c \in current', p.id = c.id
        PROVE  p.job \in Jobs(requests' \cup held')
    BY <2>1 DEF QueueInv, Queued, Jobs
  <2>2. QED BY <2>1 DEF QueueInv, Queued
<1>4. QED BY <1>1, <1>2, <1>3

LEMMA TakenIsPending ==
  ASSUME NEW t, NEW a
  PROVE  /\ Taken(t, a) \subseteq Concerned(a) /\ Concerned(a) \subseteq pending
         /\ \A p \in Taken(t, a) : p.app = a
         /\ Drops(t) => Taken(t, a) = {}
BY DEF Taken, Flushable, Concerned, Flushes

LEMMA ReportQueues ==
  ASSUME QueueInv, NEW t, NEW a, Report(t, a), UNCHANGED <<held, jobs, launches, current>>
  PROVE  /\ Numbered' /\ Launched' /\ Queued'
         /\ pending' \subseteq pending
         /\ t = "uninstall" => \A p \in pending' : p.app # a
<1>1. Taken(t, a) \subseteq pending
  BY TakenIsPending
<1>2. pending' = IF Drops(t) THEN Undropped(a) ELSE pending \ Taken(t, a)
  BY DEF Report
<1>3. requests' = {r \in requests : r.job \notin Jobs(Taken(t, a))}
  BY DEF Report
<1>4. Drops(t) => Taken(t, a) = {}
  BY TakenIsPending
<1>5. pending' \subseteq pending /\ requests' \subseteq requests
  BY <1>2, <1>3 DEF Undropped
<1>6. ASSUME NEW p \in pending', NEW r \in requests, r.job = p.job PROVE r \in requests'
  <2>1. p \in pending /\ p \notin Taken(t, a)
    BY <1>2, <1>4 DEF Undropped
  <2>2. p.job \notin Jobs(Taken(t, a))
    BY <1>1, <2>1 DEF QueueInv, Numbered, Jobs
  <2>3. QED BY <1>3, <1>6, <2>2
<1>7. t = "uninstall" => \A p \in pending' : p.app # a
  BY <1>2 DEF Drops, Undropped
<1>8. QED BY <1>5, <1>6, <1>7, QueuesShrink

LEMMA LaunchQueues == ASSUME QueueInv, Launch PROVE QueueInv'
<1>1. PICK a \in installed : current' = {[id |-> launches + 1, app |-> a]}
  BY DEF Launch
<1>2. /\ current = {} /\ launches < MaxInstances /\ launches' = launches + 1
      /\ UNCHANGED <<closing, jobs, installed, requests, held, pending>>
  BY DEF Launch
<1>3. Numbered'
  BY <1>2, KvAssumption DEF QueueInv, Numbered
<1>4. Running'
  BY <1>1, <1>2 DEF QueueInv, Running, Numbered
<1>5. \A p \in pending : p.id # launches + 1
  BY DEF QueueInv, Numbered
<1>6. Launched'
  BY <1>1, <1>2, <1>5 DEF QueueInv, Launched
<1>7. requests = {}
  BY <1>2 DEF QueueInv, Queued
<1>8. Queued'
  BY <1>1, <1>2, <1>5, <1>7 DEF QueueInv, Queued
<1>9. NothingRemoved'
  BY <1>2 DEF QueueInv, NothingRemoved
<1>10. QED BY <1>3, <1>4, <1>6, <1>8, <1>9 DEF QueueInv

LEMMA SubmitQueues == ASSUME QueueInv, Submit PROVE QueueInv'
<1>1. PICK c \in current, op \in Operations :
        pending' = pending \cup {[job |-> jobs + 1, id |-> c.id, app |-> c.app, op |-> op]}
  BY DEF Submit
<1>2. /\ ~closing /\ jobs < MaxJobs /\ jobs' = jobs + 1
      /\ requests' = requests \cup {[job |-> jobs + 1, id |-> d.id] : d \in current}
      /\ UNCHANGED <<current, closing, launches, installed, held>>
  BY DEF Submit
<1> DEFINE new == [job |-> jobs + 1, id |-> c.id, app |-> c.app, op |-> op]
           asks == [job |-> jobs + 1, id |-> c.id]
<1>3. current = {c} /\ c.id \in 1 .. launches /\ c.app \in installed /\ c.app \in Apps
  BY <1>2 DEF QueueInv, Running
<1>4. requests' = requests \cup {asks}
  BY <1>2, <1>3
<1>5. /\ new.job = jobs + 1 /\ new.id = c.id /\ new.app = c.app /\ new.op = op
      /\ asks.job = jobs + 1 /\ asks.id = c.id /\ pending' = pending \cup {new}
  BY <1>1
<1> HIDE DEF new, asks
<1>6. /\ \A p \in pending : p.job \in 1 .. jobs /\ p.job # jobs + 1
      /\ \A r \in requests \cup held : r.job \in 1 .. jobs /\ r.job # jobs + 1
      /\ jobs \in Nat
  BY DEF QueueInv, Numbered
<1>7. Numbered'
  <2>1. IsFiniteSet(pending')
    BY <1>5, FS_AddElement DEF QueueInv, Numbered
  <2>2. /\ jobs' \in 0 .. MaxJobs /\ launches' \in 0 .. MaxInstances
        /\ \A p \in pending' : p.job \in 1 .. jobs' /\ p.id \in 1 .. launches' /\ p.app \in Apps /\ p.op \in Operations
        /\ \A r \in requests' \cup held' : r.job \in 1 .. jobs'
    BY <1>2, <1>3, <1>4, <1>5, KvAssumption DEF QueueInv, Numbered
  <2>3. \A p, q \in pending' : p.job = q.job => p = q
    BY <1>5, <1>6 DEF QueueInv, Numbered
  <2>4. \A r \in requests' \cup held', p \in pending' : r.job = p.job => r.id = p.id
    BY <1>2, <1>4, <1>5, <1>6 DEF QueueInv, Numbered
  <2>5. QED BY <2>1, <2>2, <2>3, <2>4 DEF Numbered
<1>8. Running'
  BY <1>2 DEF QueueInv, Running
<1>9. Launched'
  BY <1>2, <1>3, <1>5 DEF QueueInv, Launched
<1>10. Queued'
  <2>1. \A r \in requests' : \E d \in current' : r.id = d.id
    BY <1>2, <1>3, <1>4, <1>5 DEF QueueInv, Queued
  <2>2. \A p \in pending', d \in current' : p.id = d.id => p.job \in Jobs(requests' \cup held')
    BY <1>2, <1>4, <1>5 DEF QueueInv, Queued, Jobs
  <2>3. \A p \in pending', h \in held' : p.id = h.id => h.job <= p.job
    BY <1>2, <1>5, <1>6 DEF QueueInv, Queued
  <2>4. \A h, i \in held' : h = i
    BY <1>2 DEF QueueInv, Queued
  <2>5. QED BY <2>1, <2>2, <2>3, <2>4 DEF Queued
<1>11. NothingRemoved'
  BY <1>2, <1>3, <1>5 DEF QueueInv, NothingRemoved
<1>12. QED BY <1>7, <1>8, <1>9, <1>10, <1>11 DEF QueueInv

LEMMA TerminateQueues == ASSUME QueueInv, Terminate PROVE QueueInv'
<1>1. /\ closing' = FALSE /\ current' = {} /\ requests' = {r \in requests : \A c \in current : r.id # c.id}
      /\ UNCHANGED <<launches, jobs, installed, held, pending>>
  BY DEF Terminate
<1>2. requests' = {}
  BY <1>1 DEF QueueInv, Queued
<1>3. Numbered'
  BY <1>1, <1>2 DEF QueueInv, Numbered
<1>4. Running' /\ Launched' /\ NothingRemoved' /\ Queued'
  BY <1>1, <1>2 DEF QueueInv, Running, Launched, NothingRemoved, Queued
<1>5. QED BY <1>3, <1>4 DEF QueueInv

\* What the worker takes is the oldest job of its instance: the older ones were in the queue
\* before it.
LEMMA WorkerTakesQueues == ASSUME QueueInv, WorkerTakes PROVE QueueInv'
<1> DEFINE h == Oldest(requests)
<1>1. /\ held = {} /\ held' = {h} /\ requests' = requests \ {h}
      /\ UNCHANGED <<current, closing, launches, jobs, installed, pending>>
  BY DEF WorkerTakes
<1>2. h \in requests /\ \A r \in requests : h.job <= r.job
  <2>1. requests # {} /\ \A r \in requests : r.job \in Nat
    BY DEF WorkerTakes, QueueInv, Numbered
  <2>2. QED BY <2>1, OldestIs
<1> HIDE DEF h
<1>3. requests' \cup held' = requests
  BY <1>1, <1>2
<1>4. Numbered' /\ Running' /\ Launched' /\ NothingRemoved'
  <2>1. Numbered'
    BY <1>1, <1>2, <1>3 DEF QueueInv, Numbered
  <2>2. QED BY <1>1, <2>1 DEF QueueInv, Running, Launched, NothingRemoved
<1>5. \A p \in pending : p.id = h.id => h.job <= p.job
  BY <1>1, <1>2 DEF QueueInv, Queued, Jobs
<1>6. Queued'
  <2>1. \A p \in pending, c \in current : p.id = c.id => p.job \in Jobs(requests' \cup held')
    BY <1>1, <1>3 DEF QueueInv, Queued
  <2>2. QED BY <1>1, <1>5, <2>1 DEF QueueInv, Queued
<1>7. QED BY <1>4, <1>6 DEF QueueInv

\* What the worker gives back.
Done == {p \in pending : p.job \in Jobs(held)}
Late == {p \in Done : \A c \in current : p.id # c.id}

LEMMA WorkerCompletesSays ==
  ASSUME WorkerCompletes
  PROVE  /\ held # {} /\ held' = {} /\ pending' = pending \ Done
         /\ spaces' = [a \in Apps |-> AppliedAll(spaces[a], {p \in Done : p.app = a})]
         /\ flushed' = flushed \ {p.app : p \in Late}
         /\ written' = [a \in Apps |-> IF \A p \in Late : p.app # a THEN written[a]
                                       ELSE AppliedAll(spaces'[a], Concerned(a) \ Done)]
         /\ UNCHANGED <<current, closing, launches, jobs, installed, requests>>
BY DEF WorkerCompletes, Done, Late

LEMMA WorkerCompletesQueues == ASSUME QueueInv, WorkerCompletes PROVE QueueInv'
<1>1. /\ held' = {} /\ pending' = pending \ Done
      /\ UNCHANGED <<current, closing, launches, jobs, installed, requests>>
  BY WorkerCompletesSays
<1>2. Numbered'
  <2>1. IsFiniteSet(pending')
    BY <1>1, FS_Subset DEF QueueInv, Numbered
  <2>2. QED BY <1>1, <2>1 DEF QueueInv, Numbered
<1>3. Running' /\ Launched' /\ NothingRemoved'
  BY <1>1 DEF QueueInv, Running, Launched, NothingRemoved
<1>4. Queued'
  BY <1>1 DEF QueueInv, Queued, Done, Jobs
<1>5. QED BY <1>2, <1>3, <1>4 DEF QueueInv

LEMMA ReportRunningQueues == ASSUME QueueInv, ReportRunning PROVE QueueInv'
<1>1. PICK c \in current, t \in Triggers :
        /\ Report(t, c.app) /\ closing' = (t \notin {"suspend", "pressure"})
        /\ installed' = IF t = "uninstall" THEN installed \ {c.app} ELSE installed
  BY DEF ReportRunning
<1>2. UNCHANGED <<current, launches, jobs, held>> /\ ~closing
  BY DEF ReportRunning
<1>3. /\ Numbered' /\ Launched' /\ Queued' /\ pending' \subseteq pending
      /\ t = "uninstall" => \A p \in pending' : p.app # c.app
  BY <1>1, <1>2, ReportQueues
<1>4. NothingRemoved'
  BY <1>1, <1>3 DEF QueueInv, NothingRemoved
<1>5. Running'
  BY <1>1, <1>2 DEF QueueInv, Running
<1>6. QED BY <1>3, <1>4, <1>5 DEF QueueInv

LEMMA ReportStoppedQueues == ASSUME QueueInv, ReportStopped PROVE QueueInv'
<1>1. PICK a \in installed \ {c.app : c \in current}, t \in {"uninstall", "update"} :
        Report(t, a) /\ installed' = IF t = "uninstall" THEN installed \ {a} ELSE installed
  BY DEF ReportStopped
<1>2. UNCHANGED <<current, closing, launches, jobs, held>>
  BY DEF ReportStopped
<1>3. /\ Numbered' /\ Launched' /\ Queued' /\ pending' \subseteq pending
      /\ t = "uninstall" => \A p \in pending' : p.app # a
  BY <1>1, <1>2, ReportQueues
<1>4. NothingRemoved'
  BY <1>1, <1>3 DEF QueueInv, NothingRemoved
<1>5. Running'
  BY <1>1, <1>2 DEF QueueInv, Running
<1>6. QED BY <1>3, <1>4, <1>5 DEF QueueInv

LEMMA NextQueueInv == QueueInv /\ [KvNext]_kvVars => QueueInv'
<1> SUFFICES ASSUME QueueInv, [KvNext]_kvVars
             PROVE  QueueInv'
  OBVIOUS
<1>1. CASE Install
  <2>1. /\ installed \subseteq installed' /\ installed' \subseteq Apps \cup installed
        /\ UNCHANGED <<current, closing, launches, jobs, requests, held, pending>>
    BY <1>1 DEF Install
  <2>2. QED BY <2>1 DEF QueueInv, Numbered, Running, Launched, Queued, NothingRemoved
<1>2. CASE UNCHANGED kvVars
  BY <1>2 DEF kvVars, QueueInv, Numbered, Running, Launched, Queued, NothingRemoved
<1>3. QED
  BY <1>1, <1>2, LaunchQueues, SubmitQueues, TerminateQueues, WorkerTakesQueues,
     WorkerCompletesQueues, ReportRunningQueues, ReportStoppedQueues DEF KvNext

LEMMA InitQueueInv == KvInit => QueueInv
<1> SUFFICES ASSUME KvInit
             PROVE  QueueInv
  OBVIOUS
<1>1. /\ current = {} /\ closing = FALSE /\ launches = 0 /\ jobs = 0 /\ installed = Apps
      /\ requests = {} /\ held = {} /\ pending = {} /\ IsFiniteSet({})
  BY FS_EmptySet DEF KvInit
<1>2. Numbered
  BY <1>1, KvAssumption DEF Numbered
<1>3. Running /\ Launched /\ Queued /\ NothingRemoved
  BY <1>1 DEF Running, Launched, Queued, NothingRemoved
<1>4. QED BY <1>2, <1>3 DEF QueueInv

THEOREM QueueInvariant == KvSpec => []QueueInv
<1> QED
  BY InitQueueInv, NextQueueInv, PTL DEF KvSpec

\* Whoever applies or drops operations, the worker or a report, what goes takes all that was
\* asked for before it by the same instance with it, or finds it gone (flush_pending_app_instance
\* stops at a job that a worker holds).
THEOREM OperationsKeepOrder == KvSpec => AppliesInOrder
<1>1. ASSUME QueueInv, KvNext, NEW p \in pending, NEW q \in pending, p.id = q.id, p.job < q.job,
             q \notin pending'
      PROVE  p \notin pending'
  <2>1. CASE pending \subseteq pending'
    BY <1>1, <2>1
  <2>2. CASE WorkerCompletes
    <3>1. q \in Done
      BY <1>1, <2>2, WorkerCompletesSays
    <3>2. PICK h \in held : h.job = q.job
      BY <3>1 DEF Done, Jobs
    <3>3. h.id = q.id
      BY <1>1, <3>2 DEF QueueInv, Numbered
    <3>4. h.job <= p.job
      BY <1>1, <3>3 DEF QueueInv, Queued
    <3>5. QED BY <1>1, <3>2, <3>4 DEF QueueInv, Numbered
  <2>3. ASSUME NEW t, NEW a, Report(t, a)
        PROVE  p \notin pending'
    <3>1. p.app = q.app
      BY <1>1 DEF QueueInv, Launched
    <3>2. pending' = IF Drops(t) THEN Undropped(a) ELSE pending \ Taken(t, a)
      BY <2>3 DEF Report
    <3>3. CASE Drops(t)
      BY <1>1, <3>1, <3>2, <3>3 DEF Undropped
    <3>4. CASE ~Drops(t)
      <4>1. q \in Taken(t, a)
        BY <1>1, <3>2, <3>4
      <4>2. Taken(t, a) = Flushable(a)
        BY <4>1 DEF Taken
      <4> DEFINE mine == Concerned(a)
      <4>3. q \in mine /\ FitsFlush(UpTo(q, mine)) /\ Jobs(UpTo(q, mine)) \subseteq Jobs(requests)
        BY <4>1, <4>2 DEF Flushable
      <4>4. p \in mine
        BY <1>1, <3>1, <4>3 DEF Concerned
      <4>5. UpTo(p, mine) \subseteq UpTo(q, mine)
        <5>1. \A r \in mine : r.job \in Nat
          BY <1>1 DEF QueueInv, Numbered, Concerned
        <5>2. QED BY <1>1, <4>3, <4>4, <5>1 DEF UpTo
      <4>6. FitsFlush(UpTo(p, mine))
        <5>1. IsFiniteSet(UpTo(q, mine))
          <6>1. UpTo(q, mine) \subseteq pending
            BY DEF UpTo, Concerned
          <6>2. QED BY <1>1, <6>1, FS_Subset DEF QueueInv, Numbered
        <5>2. /\ Cardinality(UpTo(p, mine)) <= Cardinality(UpTo(q, mine))
              /\ Cardinality(UpTo(p, mine)) \in Nat /\ Cardinality(UpTo(q, mine)) \in Nat
          BY <4>5, <5>1, FS_Subset, FS_CardinalityType
        <5>3. QED BY <4>3, <5>2, KvAssumption DEF FitsFlush
      <4>7. Jobs(UpTo(p, mine)) \subseteq Jobs(requests)
        BY <4>3, <4>5 DEF Jobs
      <4>8. p \in Taken(t, a)
        BY <4>2, <4>4, <4>6, <4>7 DEF Flushable
      <4>9. QED BY <3>2, <3>4, <4>8
    <3>5. QED BY <3>3, <3>4
  <2>4. CASE ReportRunning
    BY <2>3, <2>4 DEF ReportRunning
  <2>5. CASE ReportStopped
    BY <2>3, <2>5 DEF ReportStopped
  <2>6. CASE Launch \/ Submit \/ Terminate \/ Install \/ WorkerTakes
    <3>1. pending \subseteq pending'
      BY <2>6 DEF Launch, Submit, Terminate, Install, WorkerTakes
    <3>2. QED BY <2>1, <3>1
  <2>7. QED BY <1>1, <2>2, <2>4, <2>5, <2>6 DEF KvNext
<1> DEFINE Ordered == \A p, q \in pending :
                        p.id = q.id /\ p.job < q.job /\ q \notin pending' => p \notin pending'
<1>2. QueueInv /\ [KvNext]_kvVars => [Ordered]_kvVars
  BY <1>1
<1>3. KvSpec => [][Ordered]_kvVars
  <2> HIDE DEF Ordered
  <2> QED BY <1>2, QueueInvariant, PTL DEF KvSpec
<1> QED
  BY <1>3 DEF AppliesInOrder

-----------------------------------------------------------------------------
(***************************************************************************)
(* What is stored                                                          *)
(***************************************************************************)
\* What the running instance has asked for is what its space will be when all that is pending
\* has been applied.
WrittenIsPending ==
  \A c \in current : ~closing => written[c.app] = AppliedAll(spaces[c.app], Concerned(c.app))

\* What was reported as flushed is there, and nothing that is pending will change it.
FlushedIsDone ==
  \A a \in flushed :
    /\ spaces[a] = written[a]
    /\ \A c \in current : c.app = a => closing /\ Concerned(a) = {}

SpacesOK ==
  /\ DOMAIN spaces = Apps /\ DOMAIN written = Apps /\ flushed \subseteq Apps
  /\ \A a \in Apps : SpaceOK(spaces[a])

StorageInv == SpacesOK /\ WrittenIsPending /\ FlushedIsDone

LEMMA ConcernedIsQueue ==
  ASSUME QueueInv, NEW a
  PROVE  /\ Concerned(a) \subseteq pending /\ Queue(Concerned(a))
         /\ Flushable(a) \subseteq Concerned(a) /\ Queue(Flushable(a))
<1>1. Concerned(a) \subseteq pending /\ Flushable(a) \subseteq Concerned(a)
  BY DEF Concerned, Flushable
<1>2. QED BY <1>1, PendingIsQueue

\* The flush takes the oldest of what it is about.
LEMMA FlushableAreOldest ==
  ASSUME QueueInv, NEW a
  PROVE  \A p \in Flushable(a), q \in Concerned(a) \ Flushable(a) : p.job < q.job
<1> DEFINE mine == Concerned(a)
<1> SUFFICES ASSUME NEW p \in Flushable(a), NEW q \in mine, q \notin Flushable(a)
             PROVE  p.job < q.job
  OBVIOUS
<1>1. p \in mine /\ p \in pending /\ q \in pending
  BY ConcernedIsQueue
<1>2. p.job \in Nat /\ q.job \in Nat
  BY <1>1 DEF QueueInv, Numbered
<1>3. ASSUME q.job <= p.job PROVE FALSE
  <2>1. UpTo(q, mine) \subseteq UpTo(p, mine)
    <3>1. \A r \in mine : r.job \in Nat
      BY DEF QueueInv, Numbered, Concerned
    <3>2. QED BY <1>2, <1>3, <3>1 DEF UpTo
  <2>2. FitsFlush(UpTo(p, mine)) /\ Jobs(UpTo(p, mine)) \subseteq Jobs(requests)
    BY DEF Flushable
  <2>3. IsFiniteSet(UpTo(p, mine))
    <3>1. UpTo(p, mine) \subseteq pending
      BY DEF UpTo, Concerned
    <3>2. QED BY <3>1, FS_Subset DEF QueueInv, Numbered
  <2>4. /\ Cardinality(UpTo(q, mine)) <= Cardinality(UpTo(p, mine))
        /\ Cardinality(UpTo(q, mine)) \in Nat /\ Cardinality(UpTo(p, mine)) \in Nat
    BY <2>1, <2>3, FS_Subset, FS_CardinalityType
  <2>5. FitsFlush(UpTo(q, mine)) /\ Jobs(UpTo(q, mine)) \subseteq Jobs(requests)
    BY <2>1, <2>2, <2>4, KvAssumption DEF FitsFlush, Jobs
  <2>6. QED BY <2>5 DEF Flushable
<1>4. QED BY <1>2, <1>3

\* Only the running instance has jobs in the queue.
LEMMA FlushesTheRunning ==
  ASSUME QueueInv, NEW a, \A c \in current : c.app # a
  PROVE  Flushable(a) = {}
<1> SUFFICES ASSUME NEW p \in Flushable(a)
             PROVE  FALSE
  OBVIOUS
<1>1. p \in Concerned(a) /\ p \in pending /\ p.app = a
  BY DEF Flushable, Concerned
<1>2. p \in UpTo(p, Concerned(a)) /\ Jobs(UpTo(p, Concerned(a))) \subseteq Jobs(requests)
  BY <1>1 DEF Flushable, UpTo, QueueInv, Numbered
<1>3. PICK r \in requests : r.job = p.job
  BY <1>2 DEF Jobs
<1>4. PICK c \in current : r.id = c.id
  BY DEF QueueInv, Queued
<1>5. p.id = c.id
  BY <1>1, <1>3, <1>4 DEF QueueInv, Numbered
<1>6. QED BY <1>1, <1>5 DEF QueueInv, Launched

\* A report stores nothing but what it applies, for its own App.
LEMMA ReportStores ==
  ASSUME QueueInv, SpacesOK, NEW t, NEW a \in Apps, Report(t, a)
  PROVE  /\ SpacesOK'
         /\ \A b \in Apps : b # a => spaces'[b] = spaces[b]
         /\ spaces'[a] = IF Deletes(t) THEN Nothing ELSE AppliedAll(spaces[a], Taken(t, a))
         /\ \A b \in Apps : written'[b] = IF b = a /\ (Drops(t) \/ Deletes(t)) THEN spaces'[b]
                                          ELSE written[b]
         /\ Drops(t) => Taken(t, a) = {}
<1>1. Taken(t, a) \subseteq pending /\ (Drops(t) => Taken(t, a) = {})
  BY TakenIsPending
<1>2. Queue(Taken(t, a))
  BY <1>1, PendingIsQueue
<1>3. \A p \in Taken(t, a) : p.op \in Operations
  BY <1>1 DEF QueueInv, Numbered
<1>4. SpaceOK(AppliedAll(spaces[a], Taken(t, a)))
  BY <1>2, <1>3, AppliedAllOK DEF SpacesOK
<1>5. spaces' = [spaces EXCEPT ![a] = IF Deletes(t) THEN Nothing ELSE AppliedAll(@, Taken(t, a))]
  BY DEF Report, AppliedAll
<1>6. written' = IF Drops(t) \/ Deletes(t) THEN [written EXCEPT ![a] = spaces'[a]] ELSE written
  BY DEF Report
<1>7. flushed' \subseteq Apps
  BY DEF Report, SpacesOK
<1>8. QED BY <1>1, <1>4, <1>5, <1>6, <1>7, NothingOK DEF SpacesOK

LEMMA LaunchStores == ASSUME QueueInv, StorageInv, Launch PROVE StorageInv'
<1>1. PICK a \in installed :
        /\ current' = {[id |-> launches + 1, app |-> a]}
        /\ written' = [written EXCEPT ![a] = spaces[a]] /\ flushed' = flushed \ {a}
  BY DEF Launch
<1>2. UNCHANGED <<closing, pending, spaces>> /\ a \in Apps
  BY DEF Launch, QueueInv, Running
<1>3. SpacesOK'
  BY <1>1, <1>2 DEF StorageInv, SpacesOK
<1>4. Concerned(a)' = {}
  BY <1>1, <1>2 DEF Concerned, QueueInv, Numbered
<1>5. WrittenIsPending'
  <2>1. AppliedAll(spaces[a], {}) = spaces[a]
    BY AppliedNone
  <2>2. AppliedAll(spaces'[a], Concerned(a)') = written'[a]
    BY <1>1, <1>2, <1>4, <2>1 DEF StorageInv, SpacesOK
  <2>3. ASSUME NEW c \in current'
        PROVE  written'[c.app] = AppliedAll(spaces'[c.app], Concerned(c.app)')
    <3>1. c.app = a
      BY <1>1
    <3>2. QED BY <2>2, <3>1
  <2>4. QED BY <2>3 DEF WrittenIsPending
<1>6. FlushedIsDone'
  BY <1>1, <1>2 DEF StorageInv, SpacesOK, FlushedIsDone
<1>7. QED BY <1>3, <1>5, <1>6 DEF StorageInv

LEMMA SubmitStores == ASSUME QueueInv, StorageInv, Submit PROVE StorageInv'
<1>1. PICK c \in current, op \in Operations :
        /\ pending' = pending \cup {[job |-> jobs + 1, id |-> c.id, app |-> c.app, op |-> op]}
        /\ written' = [written EXCEPT ![c.app] = Applied(@, op)]
  BY DEF Submit
<1>2. UNCHANGED <<current, closing, spaces, flushed>> /\ ~closing
  BY DEF Submit
<1> DEFINE new == [job |-> jobs + 1, id |-> c.id, app |-> c.app, op |-> op]
<1>3. new.job = jobs + 1 /\ new.id = c.id /\ new.app = c.app /\ new.op = op /\ pending' = pending \cup {new}
  BY <1>1
<1> HIDE DEF new
<1>4. current = {c} /\ c.app \in Apps
  BY DEF QueueInv, Running
<1>5. SpacesOK'
  BY <1>1, <1>2 DEF StorageInv, SpacesOK
<1>6. Concerned(c.app)' = Concerned(c.app) \cup {new}
  BY <1>2, <1>3, <1>4 DEF Concerned
<1>7. AppliedAll(spaces[c.app], Concerned(c.app) \cup {new})
        = Applied(AppliedAll(spaces[c.app], Concerned(c.app)), op)
  <2>1. Queue(Concerned(c.app)) /\ Concerned(c.app) \subseteq pending
    BY ConcernedIsQueue
  <2>2. new.job \in Nat /\ \A q \in Concerned(c.app) : q.job < new.job
    BY <1>3, <2>1 DEF QueueInv, Numbered
  <2>3. QED BY <1>3, <2>1, <2>2, AppliedNewest
<1>8. WrittenIsPending'
  <2>1. written'[c.app] = Applied(written[c.app], op)
    BY <1>1, <1>4 DEF StorageInv, SpacesOK
  <2>2. written[c.app] = AppliedAll(spaces[c.app], Concerned(c.app))
    BY <1>2 DEF StorageInv, WrittenIsPending
  <2>3. written'[c.app] = AppliedAll(spaces[c.app], Concerned(c.app) \cup {new})
    BY <1>7, <2>1, <2>2, Zenon
  <2>4. written'[c.app] = AppliedAll(spaces'[c.app], Concerned(c.app)')
    BY <1>2, <1>6, <2>3, Zenon
  <2>5. ASSUME NEW d \in current'
        PROVE  written'[d.app] = AppliedAll(spaces'[d.app], Concerned(d.app)')
    <3>1. d = c
      BY <1>2, <1>4
    <3>2. QED BY <2>4, <3>1
  <2>6. QED BY <2>5 DEF WrittenIsPending
<1>9. FlushedIsDone'
  <2>1. c.app \notin flushed
    BY <1>2 DEF StorageInv, FlushedIsDone
  <2>2. QED BY <1>1, <1>2, <1>4, <2>1 DEF StorageInv, FlushedIsDone, SpacesOK
<1>10. QED BY <1>5, <1>8, <1>9 DEF StorageInv

\* The worker applies the oldest operation of the running instance, or one of an instance that
\* is gone; that may change what its App had reported as flushed.
LEMMA WorkerCompletesStores == ASSUME QueueInv, StorageInv, WorkerCompletes PROVE StorageInv'
<1> DEFINE DoneOf(a) == {p \in Done : p.app = a}
<1>1. /\ pending' = pending \ Done
      /\ spaces' = [a \in Apps |-> AppliedAll(spaces[a], DoneOf(a))]
      /\ flushed' = flushed \ {p.app : p \in Late}
      /\ written' = [a \in Apps |-> IF \A p \in Late : p.app # a THEN written[a]
                                    ELSE AppliedAll(spaces'[a], Concerned(a) \ Done)]
      /\ UNCHANGED <<current, closing>>
  BY WorkerCompletesSays
<1>2. Done \subseteq pending /\ Late \subseteq Done
  BY DEF Done, Late
<1>3. \A p, q \in Done : p = q
  <2> SUFFICES ASSUME NEW p \in Done, NEW q \in Done
               PROVE  p = q
    OBVIOUS
  <2>1. PICK h \in held : h.job = p.job
    BY DEF Done, Jobs
  <2>2. PICK i \in held : i.job = q.job
    BY DEF Done, Jobs
  <2>3. h = i
    BY DEF QueueInv, Queued
  <2>4. QED BY <1>2, <2>1, <2>2, <2>3 DEF QueueInv, Numbered
<1>4. \A a : Concerned(a)' = Concerned(a) \ Done
  BY <1>1 DEF Concerned
<1>5. SpacesOK'
  <2>1. ASSUME NEW a \in Apps PROVE SpaceOK(spaces'[a])
    <3>1. DoneOf(a) \subseteq pending
      BY <1>2
    <3>2. Queue(DoneOf(a)) /\ \A p \in DoneOf(a) : p.op \in Operations
      BY <3>1, PendingIsQueue DEF QueueInv, Numbered
    <3> HIDE DEF DoneOf
    <3>3. SpaceOK(AppliedAll(spaces[a], DoneOf(a)))
      BY <3>2, AppliedAllOK DEF StorageInv, SpacesOK
    <3>4. QED BY <1>1, <3>3
  <2> HIDE DEF DoneOf
  <2>2. QED BY <1>1, <2>1 DEF StorageInv, SpacesOK
<1>6. WrittenIsPending'
  <2> SUFFICES ASSUME NEW c \in current, ~closing
               PROVE  written'[c.app] = AppliedAll(spaces'[c.app], Concerned(c.app)')
    BY <1>1 DEF WrittenIsPending
  <2> DEFINE a == c.app
  <2>1. a \in Apps /\ current = {c}
    BY DEF QueueInv, Running
  <2>2. CASE \E p \in Late : p.app = a
    <3>1. written'[a] = AppliedAll(spaces'[a], Concerned(a) \ Done)
      BY <1>1, <2>1, <2>2
    <3> HIDE DEF a
    <3>2. written'[a] = AppliedAll(spaces'[a], Concerned(a)')
      BY <1>4, <3>1, Zenon
    <3>3. QED BY <3>2 DEF a
  <2>3. CASE \A p \in Late : p.app # a
    <3>1. written'[a] = written[a] /\ written[a] = AppliedAll(spaces[a], Concerned(a))
      BY <1>1, <2>1, <2>3 DEF StorageInv, WrittenIsPending
    <3>2. DoneOf(a) \subseteq Concerned(a)
      BY <1>2, <2>1, <2>3 DEF Late, Concerned
    <3>3. \A p \in DoneOf(a), q \in Concerned(a) \ DoneOf(a) : p.job < q.job
      <4> SUFFICES ASSUME NEW p \in DoneOf(a), NEW q \in Concerned(a), q \notin DoneOf(a)
                   PROVE  p.job < q.job
        OBVIOUS
      <4>1. p.id = c.id /\ q.id = c.id /\ p \in pending /\ q \in pending /\ q # p
        BY <1>2, <2>1, <3>2 DEF Concerned
      <4>2. PICK h \in held : h.job = p.job
        BY DEF Done, Jobs
      <4>3. h.id = q.id
        BY <4>1, <4>2 DEF QueueInv, Numbered
      <4>4. h.job <= q.job
        BY <4>1, <4>3 DEF QueueInv, Queued
      <4>5. QED BY <4>1, <4>2, <4>4 DEF QueueInv, Numbered
    <3>4. Concerned(a) \ Done = Concerned(a) \ DoneOf(a)
      BY <1>2, <2>1 DEF Concerned
    <3>5. spaces'[a] = AppliedAll(spaces[a], DoneOf(a))
      BY <1>1, <2>1
    <3>6. Queue(Concerned(a))
      BY ConcernedIsQueue
    <3> HIDE DEF DoneOf, a
    <3>7. AppliedAll(AppliedAll(spaces[a], DoneOf(a)), Concerned(a) \ DoneOf(a))
            = AppliedAll(spaces[a], Concerned(a))
      BY <3>2, <3>3, <3>6, AppliedInTwo
    <3>8. written'[a] = AppliedAll(spaces'[a], Concerned(a)')
      BY <1>4, <3>1, <3>4, <3>5, <3>7, Zenon
    <3>9. QED BY <3>8 DEF a
  <2>4. QED BY <2>2, <2>3
<1>7. FlushedIsDone'
  <2> SUFFICES ASSUME NEW a \in flushed'
               PROVE  /\ spaces'[a] = written'[a]
                      /\ \A c \in current : c.app = a => closing /\ Concerned(a)' = {}
    BY <1>1 DEF FlushedIsDone
  <2>1. a \in flushed /\ a \in Apps /\ \A p \in Late : p.app # a
    BY <1>1 DEF StorageInv, SpacesOK
  <2>2. spaces[a] = written[a] /\ \A c \in current : c.app = a => closing /\ Concerned(a) = {}
    BY <2>1 DEF StorageInv, FlushedIsDone
  <2>3. DoneOf(a) = {}
    <3> SUFFICES ASSUME NEW p \in Done, p.app = a
                 PROVE  FALSE
      OBVIOUS
    <3>1. PICK c \in current : p.id = c.id
      BY <2>1 DEF Late
    <3>2. c.app = a
      BY <1>2, <3>1 DEF QueueInv, Launched
    <3>3. p \in Concerned(a)
      BY <1>2, <3>1 DEF Concerned, QueueInv, Running
    <3>4. QED BY <2>2, <3>2, <3>3
  <2>4. spaces'[a] = AppliedAll(spaces[a], DoneOf(a)) /\ written'[a] = written[a]
    BY <1>1, <2>1
  <2> HIDE DEF DoneOf
  <2>5. spaces'[a] = spaces[a]
    BY <2>3, <2>4, AppliedNone
  <2>6. QED BY <1>4, <2>2, <2>4, <2>5
<1>8. QED BY <1>5, <1>6, <1>7 DEF StorageInv

LEMMA ReportRunningStores == ASSUME QueueInv, StorageInv, ReportRunning PROVE StorageInv'
<1>1. PICK c \in current, t \in Triggers :
        Report(t, c.app) /\ closing' = (t \notin {"suspend", "pressure"})
  BY DEF ReportRunning
<1>2. UNCHANGED current /\ ~closing
  BY DEF ReportRunning
<1> DEFINE a == c.app
<1>3. current = {c} /\ a \in Apps
  BY DEF QueueInv, Running
<1>4. /\ SpacesOK'
      /\ \A b \in Apps : b # a => spaces'[b] = spaces[b]
      /\ spaces'[a] = IF Deletes(t) THEN Nothing ELSE AppliedAll(spaces[a], Taken(t, a))
      /\ \A b \in Apps : written'[b] = IF b = a /\ (Drops(t) \/ Deletes(t)) THEN spaces'[b]
                                       ELSE written[b]
      /\ Drops(t) => Taken(t, a) = {}
  <2> HIDE DEF a
  <2>1. Report(t, a)
    BY <1>1 DEF a
  <2>2. QED BY <1>3, <2>1, ReportStores DEF StorageInv
<1>5. /\ pending' = IF Drops(t) THEN Undropped(a) ELSE pending \ Taken(t, a)
      /\ flushed' = CASE ReportsFlushed(t, a) -> flushed \cup {a}
                      [] Deletes(t) -> flushed \ {a}
                      [] OTHER -> flushed
  BY <1>1 DEF Report
<1>6. written[a] = AppliedAll(spaces[a], Concerned(a)) /\ a \notin flushed
  BY <1>2 DEF StorageInv, WrittenIsPending, FlushedIsDone
<1>7. Concerned(a)' = IF Drops(t) THEN {} ELSE Concerned(a) \ Taken(t, a)
  BY <1>2, <1>5 DEF Concerned, Undropped
<1> HIDE DEF a
<1>8. Queue(Concerned(a)) /\ \A p \in Taken(t, a), q \in Concerned(a) \ Taken(t, a) : p.job < q.job
  BY ConcernedIsQueue, FlushableAreOldest DEF Taken
<1>9. Taken(t, a) \subseteq Concerned(a)
  BY TakenIsPending
<1>10. AppliedAll(AppliedAll(spaces[a], Taken(t, a)), Concerned(a) \ Taken(t, a))
         = AppliedAll(spaces[a], Concerned(a))
  BY <1>8, <1>9, AppliedInTwo
<1>11. WrittenIsPending'
  <2>1. CASE t \in {"suspend", "pressure"} /\ ~Drops(t)
    <3>1. ~Deletes(t)
      BY <2>1 DEF Deletes
    <3>2. written'[a] = written[a] /\ spaces'[a] = AppliedAll(spaces[a], Taken(t, a))
      BY <1>3, <1>4, <2>1, <3>1
    <3>3. Concerned(a)' = Concerned(a) \ Taken(t, a)
      BY <1>7, <2>1
    <3>4. written'[a] = AppliedAll(spaces'[a], Concerned(a)')
      BY <1>6, <1>10, <3>2, <3>3, Zenon
    <3>5. QED BY <1>2, <1>3, <3>4 DEF WrittenIsPending, a
  <2>2. CASE t \in {"suspend", "pressure"} /\ Drops(t)
    <3>1. written'[a] = spaces'[a] /\ Concerned(a)' = {}
      BY <1>3, <1>4, <1>7, <2>2
    <3>2. AppliedAll(spaces'[a], {}) = spaces'[a]
      BY AppliedNone
    <3>3. written'[a] = AppliedAll(spaces'[a], Concerned(a)')
      BY <3>1, <3>2, Zenon
    <3>4. QED BY <1>2, <1>3, <3>3 DEF WrittenIsPending, a
  <2>3. CASE t \notin {"suspend", "pressure"}
    BY <1>1, <2>3 DEF WrittenIsPending
  <2>4. QED BY <2>1, <2>2, <2>3
<1>12. FlushedIsDone'
  <2>1. ASSUME NEW b \in flushed, b # a
        PROVE  /\ spaces'[b] = written'[b]
               /\ \A d \in current' : d.app # b
    <3>1. b \in Apps /\ spaces[b] = written[b]
      BY DEF StorageInv, SpacesOK, FlushedIsDone
    <3>2. QED BY <1>2, <1>3, <1>4, <2>1, <3>1 DEF a
  <2>2. CASE ReportsFlushed(t, a)
    <3>1. t = "exit" /\ Flushes(t) /\ Flushable(a) = Concerned(a) /\ ~Drops(t) /\ ~Deletes(t)
      BY <2>2 DEF ReportsFlushed, Flushes, Deletes
    <3>2. Taken(t, a) = Concerned(a)
      BY <3>1 DEF Taken
    <3>3. spaces'[a] = written'[a]
      <4>1. spaces'[a] = AppliedAll(spaces[a], Concerned(a))
        BY <1>4, <3>1, <3>2, Zenon
      <4>2. written'[a] = written[a]
        BY <1>3, <1>4, <3>1
      <4>3. QED BY <1>6, <4>1, <4>2
    <3>4. Concerned(a)' = {} /\ closing'
      BY <1>1, <1>7, <3>1, <3>2
    <3>5. flushed' = flushed \cup {a}
      BY <1>5, <2>2, <3>1
    <3>6. QED BY <2>1, <3>3, <3>4, <3>5 DEF FlushedIsDone
  <2>3. CASE ~ReportsFlushed(t, a)
    <3>1. flushed' \subseteq flushed
      BY <1>5, <2>3
    <3>2. QED BY <1>6, <2>1, <3>1 DEF FlushedIsDone
  <2>4. QED BY <2>2, <2>3
<1>13. QED BY <1>4, <1>11, <1>12 DEF StorageInv

LEMMA ReportStoppedStores == ASSUME QueueInv, StorageInv, ReportStopped PROVE StorageInv'
<1>1. PICK a \in installed \ {c.app : c \in current}, t \in {"uninstall", "update"} : Report(t, a)
  BY DEF ReportStopped
<1>2. UNCHANGED <<current, closing>> /\ a \in Apps /\ \A c \in current : c.app # a
  BY DEF ReportStopped, QueueInv, Running
<1>3. Taken(t, a) = {}
  BY <1>2, FlushesTheRunning DEF Taken
<1>4. /\ SpacesOK'
      /\ \A b \in Apps : b # a => spaces'[b] = spaces[b]
      /\ spaces'[a] = IF Deletes(t) THEN Nothing ELSE AppliedAll(spaces[a], Taken(t, a))
      /\ \A b \in Apps : written'[b] = IF b = a /\ (Drops(t) \/ Deletes(t)) THEN spaces'[b]
                                       ELSE written[b]
  BY <1>1, <1>2, ReportStores DEF StorageInv
<1>5. ~Deletes(t) => spaces'[a] = spaces[a]
  BY <1>3, <1>4, AppliedNone
<1>6. /\ pending' = IF Drops(t) THEN Undropped(a) ELSE pending \ Taken(t, a)
      /\ flushed' = CASE ReportsFlushed(t, a) -> flushed \cup {a}
                      [] Deletes(t) -> flushed \ {a}
                      [] OTHER -> flushed
  BY <1>1 DEF Report
<1>7. \A b : b # a => Concerned(b)' = Concerned(b)
  BY <1>2, <1>3, <1>6 DEF Concerned, Undropped
<1>8. WrittenIsPending'
  <2> SUFFICES ASSUME NEW c \in current, ~closing
               PROVE  written'[c.app] = AppliedAll(spaces'[c.app], Concerned(c.app)')
    BY <1>2 DEF WrittenIsPending
  <2>1. c.app # a /\ c.app \in Apps
    BY <1>2 DEF QueueInv, Running
  <2>2. written[c.app] = AppliedAll(spaces[c.app], Concerned(c.app))
    BY DEF StorageInv, WrittenIsPending
  <2>3. /\ written'[c.app] = written[c.app] /\ spaces'[c.app] = spaces[c.app]
        /\ Concerned(c.app)' = Concerned(c.app)
    BY <1>4, <1>7, <2>1
  <2>4. QED BY <2>2, <2>3, Zenon
<1>9. FlushedIsDone'
  <2>1. ~ReportsFlushed(t, a)
    BY DEF ReportsFlushed
  <2>2. flushed' \subseteq flushed
    BY <1>6, <2>1
  <2>3. ASSUME NEW b \in flushed', b # a
        PROVE  /\ spaces'[b] = written'[b]
               /\ \A c \in current' : c.app = b => closing' /\ Concerned(b)' = {}
    <3>1. /\ b \in Apps /\ spaces[b] = written[b]
          /\ \A c \in current : c.app = b => closing /\ Concerned(b) = {}
      BY <2>2 DEF StorageInv, SpacesOK, FlushedIsDone
    <3>2. QED BY <1>2, <1>4, <1>7, <2>3, <3>1
  <2>4. ASSUME a \in flushed'
        PROVE  spaces'[a] = written'[a]
    <3>1. a \in flushed /\ spaces[a] = written[a] /\ ~Deletes(t)
      BY <1>6, <2>1, <2>2, <2>4 DEF StorageInv, FlushedIsDone
    <3>2. QED BY <1>2, <1>4, <1>5, <3>1
  <2>5. QED BY <1>2, <2>3, <2>4 DEF FlushedIsDone
<1>10. QED BY <1>4, <1>8, <1>9 DEF StorageInv

LEMMA NextStorageInv == QueueInv /\ StorageInv /\ [KvNext]_kvVars => StorageInv'
<1> SUFFICES ASSUME QueueInv, StorageInv, [KvNext]_kvVars
             PROVE  StorageInv'
  OBVIOUS
<1>1. CASE Terminate
  <2>1. current' = {} /\ UNCHANGED <<spaces, written, flushed>>
    BY <1>1 DEF Terminate
  <2>2. QED BY <2>1 DEF StorageInv, SpacesOK, WrittenIsPending, FlushedIsDone
<1>2. CASE Install \/ WorkerTakes \/ UNCHANGED kvVars
  <2>1. UNCHANGED <<current, closing, pending, spaces, written, flushed>>
    BY <1>2 DEF Install, WorkerTakes, kvVars
  <2>2. \A a : Concerned(a)' = Concerned(a)
    BY <2>1 DEF Concerned
  <2>3. SpacesOK' /\ FlushedIsDone'
    BY <2>1, <2>2 DEF StorageInv, SpacesOK, FlushedIsDone
  <2>4. WrittenIsPending'
    BY <2>1, <2>2 DEF StorageInv, WrittenIsPending
  <2>5. QED BY <2>3, <2>4 DEF StorageInv
<1>3. QED
  BY <1>1, <1>2, LaunchStores, SubmitStores, WorkerCompletesStores, ReportRunningStores,
     ReportStoppedStores DEF KvNext

THEOREM StorageInvariant == KvSpec => []StorageInv
<1>1. KvInit => StorageInv
  <2> SUFFICES ASSUME KvInit
               PROVE  StorageInv
    OBVIOUS
  <2>1. current = {} /\ flushed = {} /\ spaces = [a \in Apps |-> Nothing] /\ written = spaces
    BY DEF KvInit
  <2>2. QED BY <2>1, NothingOK DEF StorageInv, SpacesOK, WrittenIsPending, FlushedIsDone
<1> QED
  BY <1>1, NextStorageInv, QueueInvariant, PTL DEF KvSpec

\* Whatever was set, replaced, removed, cleared and refused, by whomever it was applied, the
\* bytes charged to an App are those it stores, within its budgets.
THEOREM KvTypes == KvSpec => []KvTypeOK
<1>1. QueueInv /\ StorageInv => KvTypeOK
  <2> SUFFICES ASSUME QueueInv, StorageInv
               PROVE  KvTypeOK
    OBVIOUS
  <2>1. current \subseteq [id : 1 .. MaxInstances, app : Apps] /\ closing \in BOOLEAN /\ installed \subseteq Apps
    BY KvAssumption DEF QueueInv, Running, Numbered
  <2>2. Jobs(held \cup requests \cup pending) \subseteq 1 .. MaxJobs
    BY KvAssumption DEF QueueInv, Numbered, Jobs
  <2>3. \A a \in Apps : SpaceOK(spaces[a])
    BY DEF StorageInv, SpacesOK
  <2>4. flushed \subseteq Apps
    BY DEF StorageInv, SpacesOK
  <2>5. QED BY <2>1, <2>2, <2>3, <2>4, Zenon DEF KvTypeOK, SpaceOK, Stored
<1> QED
  BY <1>1, QueueInvariant, StorageInvariant, PTL

\* What an exit reports as flushed is what the App has asked for, and it is found again, under
\* any policy (report_app_storage_lifecycle).
THEOREM FlushedStaysReadable == KvSpec => []FlushedIsReadable
<1>1. StorageInv => FlushedIsReadable
  BY DEF StorageInv, FlushedIsDone, FlushedIsReadable
<1> QED
  BY <1>1, StorageInvariant, PTL

\* The data of a removed App is gone and stays gone, if the policy deletes it, whatever its
\* instances had asked for and a worker had taken already.
THEOREM RemovedIsGone ==
  KvSpec /\ "delete_data_on_uninstall" \in Policy => []RemovedStaysRemoved
<1> SUFFICES ASSUME "delete_data_on_uninstall" \in Policy
             PROVE  KvSpec => []RemovedStaysRemoved
  OBVIOUS
<1>1. KvInit => RemovedStaysRemoved
  BY DEF KvInit, RemovedStaysRemoved
<1>2. QueueInv /\ StorageInv /\ RemovedStaysRemoved /\ [KvNext]_kvVars => RemovedStaysRemoved'
  <2> SUFFICES ASSUME QueueInv, StorageInv, RemovedStaysRemoved, [KvNext]_kvVars
               PROVE  RemovedStaysRemoved'
    OBVIOUS
  <2>1. ASSUME UNCHANGED spaces, installed \subseteq installed' PROVE RemovedStaysRemoved'
    BY <2>1 DEF RemovedStaysRemoved
  <2>2. CASE WorkerCompletes
    <3> DEFINE DoneOf(a) == {p \in Done : p.app = a}
    <3>1. spaces' = [a \in Apps |-> AppliedAll(spaces[a], DoneOf(a))] /\ UNCHANGED installed
      BY <2>2, WorkerCompletesSays
    <3>2. ASSUME NEW a \in Apps \ installed PROVE spaces'[a] = Nothing
      <4>1. DoneOf(a) = {}
        BY <3>2 DEF Done, QueueInv, NothingRemoved
      <4> HIDE DEF DoneOf
      <4>2. spaces'[a] = AppliedAll(spaces[a], {})
        BY <3>1, <4>1
      <4>3. QED BY <4>2, AppliedNone DEF RemovedStaysRemoved
    <3>3. QED BY <3>1, <3>2 DEF RemovedStaysRemoved
  <2>3. ASSUME NEW t, NEW a \in Apps, Report(t, a), a \in installed,
               installed' = IF t = "uninstall" THEN installed \ {a} ELSE installed
        PROVE  RemovedStaysRemoved'
    <3>1. /\ \A b \in Apps : b # a => spaces'[b] = spaces[b]
          /\ Deletes(t) => spaces'[a] = Nothing
      BY <2>3, ReportStores DEF StorageInv
    <3>2. t = "uninstall" => Deletes(t)
      BY DEF Deletes
    <3>3. QED BY <2>3, <3>1, <3>2 DEF RemovedStaysRemoved
  <2>4. CASE ReportRunning
    <3>1. PICK c \in current, t \in Triggers :
            Report(t, c.app) /\ installed' = IF t = "uninstall" THEN installed \ {c.app} ELSE installed
      BY <2>4 DEF ReportRunning
    <3>2. ~closing /\ c.app \in installed /\ c.app \in Apps
      BY <2>4 DEF ReportRunning, QueueInv, Running
    <3>3. QED BY <2>3, <3>1, <3>2
  <2>5. CASE ReportStopped
    <3>1. PICK a \in installed \ {c.app : c \in current}, t \in {"uninstall", "update"} :
            Report(t, a) /\ installed' = IF t = "uninstall" THEN installed \ {a} ELSE installed
      BY <2>5 DEF ReportStopped
    <3>2. a \in installed /\ a \in Apps
      BY DEF QueueInv, Running
    <3>3. QED BY <2>3, <3>1, <3>2
  <2>6. CASE Launch \/ Submit \/ Terminate \/ Install \/ WorkerTakes \/ UNCHANGED kvVars
    <3>1. UNCHANGED spaces /\ installed \subseteq installed'
      BY <2>6 DEF Launch, Submit, Terminate, Install, WorkerTakes, kvVars
    <3>2. QED BY <2>1, <3>1
  <2>7. QED BY <2>2, <2>4, <2>5, <2>6 DEF KvNext
<1> QED
  BY <1>1, <1>2, QueueInvariant, StorageInvariant, PTL DEF KvSpec

\* What the reports of an App's life say is so.
THEOREM ReportsStayTrue ==
  KvSpec /\ "delete_data_on_uninstall" \in Policy => []ReportsAreTrue
<1>1. RemovedStaysRemoved /\ FlushedIsReadable => ReportsAreTrue
  BY DEF ReportsAreTrue
<1> QED
  BY <1>1, RemovedIsGone, FlushedStaysReadable, PTL
=============================================================================
