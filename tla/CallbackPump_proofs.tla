------------------------- MODULE CallbackPump_proofs -------------------------
(***************************************************************************)
(* Theorems about CallbackPump: however scripts add and clear timers and   *)
(* animation callbacks while the pumps walk the lists, each callback runs  *)
(* as CallbackRounds says, for lists and budgets of any size.              *)
(***************************************************************************)
EXTENDS CallbackPump, FiniteSetTheorems, SequenceTheorems, WellFoundedInduction, TLAPS

-----------------------------------------------------------------------------
(***************************************************************************)
(* Lists                                                                   *)
(***************************************************************************)
\* A set of natural numbers has a smallest element.
LEMMA SmallestOf ==
  ASSUME NEW T \in SUBSET Nat, T # {}
  PROVE  \E n \in T : \A m \in T : n <= m
<1>1. PICK n \in T : \A m \in T : ~(<<m, n>> \in OpToRel(<, Nat))
  BY NatLessThanWellFounded, WFMin
<1>2. \A m \in T : <<m, n>> \in Nat \X Nat
  OBVIOUS
<1>3. \A m \in T : ~(m < n)
  BY <1>1, <1>2 DEF OpToRel
<1>4. QED BY <1>3

LEMMA FirstNumbers ==
  ASSUME NEW n \in Nat
  PROVE  IsFiniteSet(1 .. n) /\ Cardinality(1 .. n) = n
<1>1. IsFiniteSet(1 .. n) /\ Cardinality(1 .. n) = IF 1 > n THEN 0 ELSE n - 1 + 1
  BY FS_Interval
<1>2. QED BY <1>1

\* The place of each number among those of a finite set counts them, one after the other.
LEMMA PlacesCount ==
  ASSUME NEW N \in Nat, NEW P \in SUBSET (1 .. N)
  PROVE  /\ IsFiniteSet(P) /\ Cardinality(P) \in 0 .. N
         /\ \A n \in 1 .. Cardinality(P) :
              \E k \in P : /\ Cardinality({p \in P : p <= k}) = n
                           /\ \A j \in P : Cardinality({p \in P : p <= j}) = n => j = k
         /\ \A k \in P : Cardinality({p \in P : p <= k}) \in 1 .. Cardinality(P)
<1> DEFINE UpTo(k) == {p \in P : p <= k}
           rank == [k \in P |-> Cardinality(UpTo(k))]
           M == Cardinality(P)
<1>1. IsFiniteSet(P) /\ M \in Nat /\ M <= N
  <2>1. IsFiniteSet(1 .. N) /\ Cardinality(1 .. N) = N
    BY FS_Interval
  <2>2. IsFiniteSet(P) /\ Cardinality(P) <= Cardinality(1 .. N)
    BY <2>1, FS_Subset
  <2>3. QED BY <2>1, <2>2, FS_CardinalityType
<1>2. ASSUME NEW k \in P PROVE IsFiniteSet(UpTo(k)) /\ rank[k] \in 1 .. M
  <2>1. UpTo(k) \in SUBSET P /\ k \in UpTo(k)
    OBVIOUS
  <2>2. IsFiniteSet(UpTo(k)) /\ Cardinality(UpTo(k)) <= M
    BY <1>1, <2>1, FS_Subset
  <2>3. Cardinality(UpTo(k)) \in Nat /\ Cardinality(UpTo(k)) # 0
    BY <2>1, <2>2, FS_CardinalityType, FS_EmptySet
  <2>4. QED BY <1>1, <2>2, <2>3
<1>3. ASSUME NEW j \in P, NEW k \in P, j < k PROVE rank[j] # rank[k]
  <2>1. UpTo(j) \in SUBSET UpTo(k) /\ k \in UpTo(k) /\ k \notin UpTo(j)
    <3>1. \A p \in P : p \in Nat
      OBVIOUS
    <3>2. \A p \in P : p <= j => p <= k
      BY <1>3, <3>1
    <3>3. k <= k /\ ~(k <= j)
      BY <1>3, <3>1
    <3>4. QED BY <3>2, <3>3
  <2>2. UpTo(j) # UpTo(k)
    BY <2>1
  <2>3. Cardinality(UpTo(k)) # Cardinality(UpTo(j))
    BY <1>2, <2>1, <2>2, FS_Subset
  <2>4. QED BY <2>3
<1>4. \A j, k \in P : rank[j] = rank[k] => j = k
  BY <1>3
<1>5. rank \in Surjection(P, 1 .. M)
  <2>1. rank \in [P -> 1 .. M]
    BY <1>2
  <2>2. rank \in Injection(P, 1 .. M)
    <3> HIDE DEF rank
    <3>1. QED BY <1>4, <2>1 DEF Injection, IsInjective
  <2>3. IsFiniteSet(1 .. M) /\ Cardinality(1 .. M) = M
    BY <1>1, FS_Interval
  <2>4. QED
    <3> HIDE DEF rank
    <3>1. QED BY <2>2, <2>3, FS_Injection
<1>6. \A n \in 1 .. M : \E k \in P : rank[k] = n
  BY <1>5 DEF Surjection
<1>7. QED BY <1>1, <1>2, <1>4, <1>6

\* What is picked from a list is of the list, at places of their own.
LEMMA Picked ==
  ASSUME NEW E, NEW s \in Seq(E), NEW P \in SUBSET DOMAIN s
  PROVE  /\ At(s, P) \in Seq(E) /\ Len(At(s, P)) <= Len(s)
         /\ ToSet(At(s, P)) = {s[k] : k \in P}
         /\ \A m, n \in DOMAIN At(s, P) :
              m # n => \E j, k \in P : j # k /\ At(s, P)[m] = s[j] /\ At(s, P)[n] = s[k]
<1> DEFINE rank(k) == Cardinality({p \in P : p <= k})
           M == Cardinality(P)
           nth(n) == CHOOSE k \in P : rank(k) = n
<1>1. /\ Len(s) \in Nat /\ DOMAIN s = 1 .. Len(s)
      /\ \A k \in P : s[k] \in E
  BY LenProperties, ElementOfSeq
<1>2. /\ M \in 0 .. Len(s)
      /\ \A n \in 1 .. M : \E k \in P : rank(k) = n /\ \A j \in P : rank(j) = n => j = k
      /\ \A k \in P : rank(k) \in 1 .. M
  BY <1>1, PlacesCount
<1>3. \A n \in 1 .. M : nth(n) \in P /\ rank(nth(n)) = n
  BY <1>2
<1>4. \A k \in P : nth(rank(k)) = k
  <2>1. TAKE k \in P
  <2>2. rank(k) \in 1 .. M
    BY <1>2
  <2>3. \A j \in P : rank(j) = rank(k) => j = k
    BY <1>2, <2>2
  <2>4. QED BY <1>3, <2>2, <2>3
<1>5. At(s, P) = [n \in 1 .. M |-> s[nth(n)]]
  BY DEF At
<1> HIDE DEF rank, nth, M
<1>6. /\ At(s, P) \in Seq(E) /\ Len(At(s, P)) = M /\ DOMAIN At(s, P) = 1 .. M
  <2>1. At(s, P) \in [1 .. M -> E]
    BY <1>1, <1>3, <1>5
  <2>2. QED BY <1>2, <1>5, <2>1, SeqDef, LenProperties
<1>7. \A n \in 1 .. M : At(s, P)[n] = s[nth(n)]
  BY <1>5
<1>8. ToSet(At(s, P)) = {s[k] : k \in P}
  BY <1>2, <1>3, <1>4, <1>6, <1>7 DEF ToSet
<1>9. \A m, n \in DOMAIN At(s, P) :
        m # n => nth(m) # nth(n) /\ nth(m) \in P /\ nth(n) \in P
  BY <1>3, <1>6
<1>10. QED BY <1>1, <1>2, <1>6, <1>7, <1>8, <1>9

\* No two entries have one id.
Distinct(entries) == \A j, k \in DOMAIN entries : entries[j].id = entries[k].id => j = k

Live(entries) == {e \in ToSet(entries) : e.active}

LEMMA PickedKeeps ==
  ASSUME NEW E, NEW s \in Seq(E), Distinct(s), NEW P \in SUBSET DOMAIN s
  PROVE  Distinct(At(s, P)) /\ ToSet(At(s, P)) \subseteq ToSet(s)
<1>1. ToSet(At(s, P)) = {s[k] : k \in P}
  BY Picked
<1>2. \A m, n \in DOMAIN At(s, P) :
        m # n => \E j, k \in P : j # k /\ At(s, P)[m] = s[j] /\ At(s, P)[n] = s[k]
  BY Picked
<1>3. Distinct(At(s, P))
  BY <1>2 DEF Distinct
<1>4. QED BY <1>1, <1>3 DEF ToSet

LEMMA ActiveIsLive ==
  ASSUME NEW E, NEW s \in Seq(E)
  PROVE  /\ Active(s) \in Seq(E) /\ Len(Active(s)) <= Len(s)
         /\ ToSet(Active(s)) = Live(s)
         /\ Distinct(s) => Distinct(Active(s))
<1> DEFINE P == {k \in DOMAIN s : s[k].active}
<1>1. P \in SUBSET DOMAIN s /\ Active(s) = At(s, P)
  BY DEF Active
<1>2. {s[k] : k \in P} = Live(s)
  BY DEF Live, ToSet
<1> HIDE DEF P
<1>3. At(s, P) \in Seq(E) /\ Len(At(s, P)) <= Len(s) /\ ToSet(At(s, P)) = {s[k] : k \in P}
  BY <1>1, Picked
<1>4. Distinct(s) => Distinct(At(s, P))
  BY <1>1, PickedKeeps
<1>5. QED BY <1>1, <1>2, <1>3, <1>4

LEMMA LiveIsLive ==
  ASSUME NEW E, NEW s \in Seq(E)
  PROVE  Live(Active(s)) = Live(s)
BY ActiveIsLive DEF Live

\* As long as there is room for an entry, there is an id for it.
LEMMA NewIdIsNew ==
  ASSUME MaxEntries \in Nat, NEW E, NEW s \in Seq(E), Len(s) < MaxEntries
  PROVE  NewId(s) \in Ids \ IdsIn(s)
<1> DEFINE ids == [k \in 1 .. Len(s) |-> s[k].id]
<1>1. Len(s) \in Nat /\ DOMAIN s = 1 .. Len(s)
  BY LenProperties
<1>2. ids \in Surjection(1 .. Len(s), IdsIn(s))
  BY <1>1 DEF Surjection, IdsIn, ToSet
<1>3. IsFiniteSet(IdsIn(s)) /\ Cardinality(IdsIn(s)) <= Len(s) /\ Cardinality(IdsIn(s)) \in Nat
  <2>1. IsFiniteSet(1 .. Len(s)) /\ Cardinality(1 .. Len(s)) = Len(s)
    BY <1>1, FirstNumbers
  <2> HIDE DEF ids
  <2>2. QED BY <1>2, <2>1, FS_Surjection, FS_CardinalityType
<1>4. Ids \ IdsIn(s) # {}
  <2>1. ASSUME Ids \subseteq IdsIn(s) PROVE FALSE
    <3>1. Cardinality(Ids) = MaxEntries
      BY FS_Interval DEF Ids
    <3>2. Cardinality(Ids) <= Cardinality(IdsIn(s))
      BY <1>3, <2>1, FS_Subset
    <3>3. QED BY <1>1, <1>3, <3>1, <3>2
  <2>2. QED BY <2>1
<1>5. Ids \ IdsIn(s) \in SUBSET Nat
  BY DEF Ids
<1>6. PICK n \in Ids \ IdsIn(s) : \A m \in Ids \ IdsIn(s) : n <= m
  BY <1>4, <1>5, SmallestOf
<1>7. QED BY <1>6 DEF NewId, Min

LEMMA AppendedTo ==
  ASSUME NEW E, NEW s \in Seq(E), Distinct(s), NEW e \in E, e.id \notin IdsIn(s)
  PROVE  /\ Append(s, e) \in Seq(E) /\ Distinct(Append(s, e))
         /\ Len(s) \in Nat /\ Len(Append(s, e)) = Len(s) + 1
         /\ \A k \in 1 .. Len(s) : Append(s, e)[k] = s[k]
         /\ ToSet(Append(s, e)) = ToSet(s) \cup {e}
<1>1. /\ Append(s, e) \in Seq(E) /\ Len(s) \in Nat /\ DOMAIN s = 1 .. Len(s)
      /\ Len(Append(s, e)) = Len(s) + 1 /\ DOMAIN Append(s, e) = 1 .. Len(s) + 1
      /\ \A k \in 1 .. Len(s) : Append(s, e)[k] = s[k]
      /\ Append(s, e)[Len(s) + 1] = e
  BY AppendProperties, LenProperties
<1>2. \A k \in 1 .. Len(s) : s[k].id # e.id
  BY <1>1 DEF IdsIn, ToSet
<1>3. Distinct(Append(s, e))
  BY <1>1, <1>2 DEF Distinct
<1>4. ToSet(Append(s, e)) = ToSet(s) \cup {e}
  BY <1>1 DEF ToSet
<1>5. QED BY <1>1, <1>3, <1>4

-----------------------------------------------------------------------------
(***************************************************************************)
(* Entries                                                                 *)
(***************************************************************************)
TimerEntries == [id : Ids, left : Nat, delay : Nat, repeat : BOOLEAN, active : BOOLEAN]
FrameEntries == [id : Ids, queued : BOOLEAN, active : BOOLEAN]

LEMMA GoneTimer ==
  ASSUME NEW e \in TimerEntries
  PROVE  Gone(e) \in TimerEntries /\ Gone(e).id = e.id /\ ~Gone(e).active
<1>1. DOMAIN e = {"id", "left", "delay", "repeat", "active"}
  BY DEF TimerEntries
<1>2. Gone(e).id = e.id /\ Gone(e).left = 0 /\ Gone(e).delay = 0 /\ Gone(e).repeat = FALSE /\ Gone(e).active = FALSE
  BY <1>1 DEF Gone
<1>3. Gone(e) = [f \in {"id", "left", "delay", "repeat", "active"} |-> Gone(e)[f]]
  BY <1>1 DEF Gone
<1>4. Gone(e).id \in Ids /\ Gone(e).left \in Nat /\ Gone(e).delay \in Nat
      /\ Gone(e).repeat \in BOOLEAN /\ Gone(e).active \in BOOLEAN
  <2>1. e.id \in Ids
    BY DEF TimerEntries
  <2>2. 0 \in Nat
    OBVIOUS
  <2>3. FALSE \in BOOLEAN
    OBVIOUS
  <2>4. QED BY <1>2, <2>1, <2>2, <2>3, Zenon
<1>5. Gone(e) \in TimerEntries
  BY <1>3, <1>4 DEF TimerEntries
<1>6. QED BY <1>2, <1>5

LEMMA GoneFrame ==
  ASSUME NEW e \in FrameEntries
  PROVE  Gone(e) \in FrameEntries /\ Gone(e).id = e.id /\ ~Gone(e).active
<1>1. DOMAIN e = {"id", "queued", "active"}
  BY DEF FrameEntries
<1>2. Gone(e).id = e.id /\ Gone(e).queued = FALSE /\ Gone(e).active = FALSE
  BY <1>1 DEF Gone
<1>3. Gone(e) = [f \in {"id", "queued", "active"} |-> Gone(e)[f]]
  BY <1>1 DEF Gone
<1>4. QED BY <1>2, <1>3 DEF FrameEntries

LEMMA DeactivatedIs ==
  ASSUME NEW E, \A e \in E : Gone(e) \in E /\ Gone(e).id = e.id /\ ~Gone(e).active,
         NEW s \in Seq(E), NEW id
  PROVE  LET r == Deactivated(s, id) IN
         /\ r \in Seq(E) /\ Len(r) = Len(s) /\ IdsIn(r) = IdsIn(s)
         /\ \A k \in DOMAIN s : r[k] = IF s[k].id = id THEN Gone(s[k]) ELSE s[k]
         /\ Distinct(s) => Distinct(r)
         /\ Live(r) = {e \in Live(s) : e.id # id}
<1> DEFINE r == Deactivated(s, id)
<1>1. Len(s) \in Nat /\ DOMAIN s = 1 .. Len(s) /\ \A k \in 1 .. Len(s) : s[k] \in E
  BY LenProperties, ElementOfSeq
<1>2. DOMAIN r = DOMAIN s /\ \A k \in DOMAIN s : r[k] = IF s[k].id = id THEN Gone(s[k]) ELSE s[k]
  BY DEF Deactivated
<1>3. r \in Seq(E) /\ Len(r) = Len(s)
  <2>1. r = [k \in 1 .. Len(s) |-> r[k]]
    BY <1>1 DEF Deactivated
  <2> HIDE DEF r
  <2>2. \A k \in 1 .. Len(s) : r[k] \in E
    BY <1>1, <1>2
  <2>3. r \in [1 .. Len(s) -> E]
    BY <2>1, <2>2
  <2>4. QED BY <1>1, <2>3, SeqDef, LenProperties
<1> HIDE DEF r
<1>4. \A k \in DOMAIN s : r[k].id = s[k].id
  BY <1>1, <1>2
<1>5. IdsIn(r) = IdsIn(s) /\ (Distinct(s) => Distinct(r))
  BY <1>2, <1>4 DEF IdsIn, Distinct, ToSet
<1>6. \A k \in DOMAIN s : r[k].active => r[k] = s[k] /\ s[k].id # id
  BY <1>1, <1>2
<1>7. \A k \in DOMAIN s : s[k].id # id => r[k] = s[k]
  BY <1>2
<1>8. Live(r) = {e \in Live(s) : e.id # id}
  BY <1>2, <1>6, <1>7 DEF Live, ToSet
<1>9. QED BY <1>2, <1>3, <1>5, <1>8 DEF r

-----------------------------------------------------------------------------
(***************************************************************************)
(* The invariant.  A walk over the timers stays within the list, which     *)
(* nothing leaves meanwhile; each animation callback that is marked as     *)
(* queued is in the batch, once, or running.                               *)
(***************************************************************************)
TimersInv ==
  /\ timers \in Seq(TimerEntries) /\ Distinct(timers)
  /\ index \in Nat \ {0} /\ initial \in Nat
  /\ place \in {"timers", "timer"} => initial <= Len(timers)

FramesInv ==
  /\ frames \in Seq(FrameEntries) /\ Distinct(frames)
  /\ batch \in Seq(Ids) /\ \A m, n \in DOMAIN batch : batch[m] = batch[n] => m = n
  /\ ToSet(batch) \subseteq IdsIn(frames)
  /\ place \notin {"frames", "frame"} => batch = <<>>
  /\ place = "frame" => running \in IdsIn(frames) \ ToSet(batch)
  /\ \A f \in Live(frames) :
       f.queued => f.id \in ToSet(batch) \/ (place = "frame" /\ f.id = running)

CallbackInv == TimersInv /\ FramesInv

LEMMA InitCallbackInv == CallbackInit => CallbackInv
<1> SUFFICES ASSUME CallbackInit PROVE CallbackInv
  OBVIOUS
<1>1. timers = <<>> /\ frames = <<>> /\ batch = <<>> /\ index = 1 /\ initial = 0 /\ place = "idle"
  BY DEF CallbackInit
<1>2. ToSet(<<>>) = {}
  BY DEF ToSet
<1>3. TimersInv
  BY <1>1 DEF TimersInv, Distinct
<1>4. FramesInv
  BY <1>1, <1>2 DEF FramesInv, Distinct, IdsIn, Live
<1>5. QED BY <1>3, <1>4 DEF CallbackInv

-----------------------------------------------------------------------------
(***************************************************************************)
(* Timers                                                                  *)
(***************************************************************************)
LEMMA GoneTimers == \A e \in TimerEntries : Gone(e) \in TimerEntries /\ Gone(e).id = e.id /\ ~Gone(e).active
BY GoneTimer

\* What adding a timer makes of the list.
LEMMA TimersAdded ==
  ASSUME TimersInv, NEW delay \in Delays, NEW repeat \in BOOLEAN, AddTimer(delay, repeat)
  PROVE  /\ timers' \in Seq(TimerEntries) /\ Distinct(timers')
         /\ place = "timer" => /\ Len(timers) <= Len(timers')
                               /\ \A k \in 1 .. Len(timers) : timers'[k] = timers[k]
         /\ \/ Live(timers') = Live(timers)
            \/ \E e \in TimerEntries :
                 /\ Live(timers') = Live(timers) \cup {e}
                 /\ e.active /\ e.repeat = repeat /\ \A f \in Live(timers) : f.id # e.id
<1> DEFINE kept == Kept(timers, place = "timer")
           e == [id |-> NewId(kept), left |-> delay, delay |-> delay, repeat |-> repeat, active |-> TRUE]
<1>1. /\ timers \in Seq(TimerEntries) /\ Distinct(timers) /\ delay \in Nat /\ MaxEntries \in Nat
  BY CallbackAssumption DEF TimersInv
<1>2. /\ kept \in Seq(TimerEntries) /\ Distinct(kept) /\ Live(kept) = Live(timers)
      /\ place = "timer" => kept = timers
  BY <1>1, ActiveIsLive, LiveIsLive DEF Kept
<1>3. /\ Len(kept) < MaxEntries
      /\ timers' = kept \/ timers' = Append(kept, e)
  BY DEF AddTimer
<1> HIDE DEF kept
<1>4. NewId(kept) \in Ids \ IdsIn(kept)
  BY <1>1, <1>2, <1>3, NewIdIsNew
<1>5. e \in TimerEntries /\ e.id = NewId(kept) /\ e.active /\ e.repeat = repeat
  BY <1>1, <1>4 DEF TimerEntries
<1> HIDE DEF e
<1>6. CASE timers' = kept
  <2>1. Len(timers) \in Nat
    BY <1>1, LenProperties
  <2>2. QED BY <1>2, <1>6, <2>1
<1>7. CASE timers' = Append(kept, e)
  <2>1. /\ timers' \in Seq(TimerEntries) /\ Distinct(timers')
        /\ Len(kept) \in Nat /\ Len(timers') = Len(kept) + 1
        /\ \A k \in 1 .. Len(kept) : timers'[k] = kept[k]
        /\ ToSet(timers') = ToSet(kept) \cup {e}
    BY <1>2, <1>4, <1>5, <1>7, AppendedTo
  <2>2. Live(timers') = Live(timers) \cup {e}
    BY <1>2, <1>5, <2>1 DEF Live
  <2>3. \A f \in Live(timers) : f.id # e.id
    BY <1>2, <1>4, <1>5 DEF Live, IdsIn
  <2>4. QED BY <1>2, <1>5, <2>1, <2>2, <2>3
<1>8. QED BY <1>3, <1>6, <1>7

LEMMA LargerOf ==
  ASSUME NEW m \in Int, NEW n \in Int
  PROVE  Max({m, n}) = IF m >= n THEN m ELSE n
<1>1. \E x \in {m, n} : \A y \in {m, n} : x >= y
  OBVIOUS
<1>2. Max({m, n}) \in {m, n} /\ \A y \in {m, n} : Max({m, n}) >= y
  BY <1>1 DEF Max
<1>3. QED BY <1>2

LEMMA TimerFields ==
  ASSUME NEW e \in TimerEntries
  PROVE  e.id \in Ids /\ e.left \in Nat /\ e.delay \in Nat /\ e.repeat \in BOOLEAN /\ e.active \in BOOLEAN
BY DEF TimerEntries

\* What another round makes of the list: those that are live are left, each a bit older.
Aged(e) == [e EXCEPT !.left = Max({0, @ - 1})]

LEMMA AgedIs ==
  ASSUME NEW e \in TimerEntries
  PROVE  /\ Aged(e) \in TimerEntries /\ Aged(e).id = e.id /\ Aged(e).repeat = e.repeat
         /\ Aged(e).active = e.active /\ (e.left = 0 => Aged(e).left = 0)
<1>1. e.left \in Nat
  BY TimerFields
<1>2. Max({0, e.left - 1}) \in Nat /\ (e.left = 0 => Max({0, e.left - 1}) = 0)
  BY <1>1, LargerOf
<1>3. Aged(e) \in TimerEntries
  BY <1>2 DEF Aged, TimerEntries
<1>4. QED BY <1>2, <1>3 DEF Aged, TimerEntries

LEMMA TimersAged ==
  ASSUME TimersInv, PumpTimers
  PROVE  /\ timers' \in Seq(TimerEntries) /\ Distinct(timers')
         /\ Live(timers') = {Aged(e) : e \in Live(timers)}
         /\ \A k \in DOMAIN timers' : timers'[k].active
         /\ index' = 1 /\ initial' = Len(timers') /\ initial' \in Nat
<1> DEFINE a == Active(timers)
<1>1. /\ timers \in Seq(TimerEntries) /\ Distinct(timers)
  BY DEF TimersInv
<1>2. a \in Seq(TimerEntries) /\ Distinct(a) /\ ToSet(a) = Live(timers)
  BY <1>1, ActiveIsLive
<1>3. timers' = [k \in DOMAIN a |-> Aged(a[k])] /\ index' = 1 /\ initial' = Len(a)
  BY DEF PumpTimers, Aged
<1> HIDE DEF a
<1>4. /\ Len(a) \in Nat /\ DOMAIN a = 1 .. Len(a)
      /\ \A k \in 1 .. Len(a) : a[k] \in TimerEntries /\ a[k].active
  BY <1>2, LenProperties, ElementOfSeq DEF Live, ToSet
<1>5. DOMAIN timers' = DOMAIN a /\ \A k \in DOMAIN a : timers'[k] = Aged(a[k])
  BY <1>3
<1>6. timers' \in Seq(TimerEntries) /\ Len(timers') = Len(a)
  <2>1. timers' \in [1 .. Len(a) -> TimerEntries]
    BY <1>3, <1>4, AgedIs
  <2>2. QED BY <1>4, <2>1, SeqDef, LenProperties
<1>7. \A k \in DOMAIN a : timers'[k].id = a[k].id /\ timers'[k].active
  BY <1>4, <1>5, AgedIs
<1>8. Distinct(timers')
  BY <1>2, <1>5, <1>7 DEF Distinct
<1>9. Live(timers') = {Aged(e) : e \in Live(timers)}
  <2>1. Live(timers') = ToSet(timers')
    BY <1>5, <1>7 DEF Live, ToSet
  <2>2. ToSet(timers') = {Aged(e) : e \in ToSet(a)}
    BY <1>5 DEF ToSet
  <2>3. QED BY <1>2, <2>1, <2>2
<1>10. QED BY <1>3, <1>4, <1>5, <1>6, <1>7, <1>8, <1>9

\* A timer that fires is due later or gone.
LEMMA FiredIs ==
  ASSUME NEW e \in TimerEntries
  PROVE  /\ Fired(e) \in TimerEntries /\ Fired(e).id = e.id
         /\ e.repeat => /\ Fired(e).active = e.active /\ Fired(e).left > 0
                        /\ Fired(e).repeat = e.repeat
         /\ ~e.repeat => ~Fired(e).active
<1>1. CASE e.repeat
  <2>1. e.delay \in Nat
    BY TimerFields
  <2>2. Max({1, e.delay}) \in Nat /\ Max({1, e.delay}) > 0
    BY <2>1, LargerOf
  <2>3. Fired(e) = [e EXCEPT !.left = Max({1, e.delay})]
    BY <1>1 DEF Fired
  <2>4. Fired(e) \in TimerEntries
    BY <2>2, <2>3 DEF TimerEntries
  <2>5. Fired(e).id = e.id /\ Fired(e).left = Max({1, e.delay})
        /\ Fired(e).active = e.active /\ Fired(e).repeat = e.repeat
    BY <2>3 DEF TimerEntries
  <2>6. QED BY <1>1, <2>2, <2>4, <2>5
<1>2. CASE ~e.repeat
  BY <1>2, GoneTimer DEF Fired
<1>3. QED BY <1>1, <1>2

LEMMA TimersFire ==
  ASSUME TimersInv, CallTimer
  PROVE  \E k \in Due :
           /\ k \in DOMAIN timers /\ k <= initial /\ k >= index /\ index' = k + 1
           /\ \A other \in Due : k <= other
           /\ timers' \in Seq(TimerEntries) /\ Distinct(timers') /\ Len(timers') = Len(timers)
           /\ timers'[k] = Fired(timers[k])
           /\ \A j \in DOMAIN timers \ {k} : timers'[j] = timers[j]
<1>1. /\ timers \in Seq(TimerEntries) /\ Distinct(timers)
      /\ index \in Nat \ {0} /\ initial \in Nat /\ initial <= Len(timers)
  BY DEF TimersInv, CallTimer
<1>2. Len(timers) \in Nat /\ DOMAIN timers = 1 .. Len(timers)
      /\ \A k \in 1 .. Len(timers) : timers[k] \in TimerEntries
  BY <1>1, LenProperties, ElementOfSeq
<1>3. PICK k \in Due :
        /\ \A other \in Due : k <= other
        /\ timers' = [timers EXCEPT ![k] = Fired(@)]
        /\ index' = k + 1
  BY DEF CallTimer
<1>4. k \in 1 .. Len(timers) /\ k <= initial /\ k >= index
  BY <1>1, <1>2 DEF Due
<1>5. /\ timers' \in Seq(TimerEntries) /\ Len(timers') = Len(timers)
      /\ timers'[k] = Fired(timers[k])
      /\ \A j \in DOMAIN timers \ {k} : timers'[j] = timers[j]
  <2>1. Fired(timers[k]) \in TimerEntries
    BY <1>2, <1>4, FiredIs
  <2>2. QED BY <1>1, <1>2, <1>3, <1>4, <2>1, ExceptSeq
<1>6. \A j \in DOMAIN timers : timers'[j].id = timers[j].id
  BY <1>2, <1>4, <1>5, FiredIs
<1>7. Distinct(timers')
  <2>1. DOMAIN timers' = DOMAIN timers
    BY <1>3
  <2>2. QED BY <1>1, <1>6, <2>1 DEF Distinct
<1>8. QED BY <1>2, <1>3, <1>4, <1>5, <1>7

LEMMA NextTimersInv == TimersInv /\ [CallbackNext]_callbackVars => TimersInv'
<1> SUFFICES ASSUME TimersInv, [CallbackNext]_callbackVars PROVE TimersInv'
  OBVIOUS
<1>1. /\ timers \in Seq(TimerEntries) /\ Distinct(timers)
      /\ index \in Nat \ {0} /\ initial \in Nat
      /\ place \in {"timers", "timer"} => initial <= Len(timers)
      /\ Len(timers) \in Nat
  BY LenProperties DEF TimersInv
<1>2. CASE \E delay \in Delays, repeat \in BOOLEAN : AddTimer(delay, repeat)
  <2>1. PICK delay \in Delays, repeat \in BOOLEAN : AddTimer(delay, repeat)
    BY <1>2
  <2>2. /\ timers' \in Seq(TimerEntries) /\ Distinct(timers')
        /\ place = "timer" => Len(timers) <= Len(timers')
    BY <2>1, TimersAdded
  <2>3. UNCHANGED <<place, index, initial>> /\ place \in {"idle", "timer", "frame"}
    BY <2>1 DEF AddTimer, pumpVars, ScriptRuns
  <2>4. Len(timers') \in Nat
    BY <2>2, LenProperties
  <2>5. QED BY <1>1, <2>2, <2>3, <2>4 DEF TimersInv
<1>3. CASE \E id \in IdsIn(timers) : ClearTimer(id)
  <2>1. PICK id : ClearTimer(id)
    BY <1>3
  <2>2. timers' = Deactivated(timers, id) /\ UNCHANGED <<place, index, initial>>
    BY <2>1 DEF ClearTimer, pumpVars
  <2>3. timers' \in Seq(TimerEntries) /\ Distinct(timers') /\ Len(timers') = Len(timers)
    BY <1>1, <2>2, DeactivatedIs, GoneTimers
  <2>4. QED BY <1>1, <2>2, <2>3 DEF TimersInv
<1>4. CASE PumpTimers
  <2>1. /\ timers' \in Seq(TimerEntries) /\ Distinct(timers')
        /\ index' = 1 /\ initial' = Len(timers') /\ initial' \in Nat
    BY <1>4, TimersAged
  <2>2. QED BY <2>1 DEF TimersInv
<1>5. CASE CallTimer
  <2>1. PICK k \in Due :
          /\ k \in DOMAIN timers /\ index' = k + 1
          /\ timers' \in Seq(TimerEntries) /\ Distinct(timers') /\ Len(timers') = Len(timers)
    BY <1>5, TimersFire
  <2>2. initial' = initial /\ place = "timers"
    BY <1>5 DEF CallTimer
  <2>3. DOMAIN timers = 1 .. Len(timers)
    BY <1>1, LenProperties
  <2>4. QED BY <1>1, <2>1, <2>2, <2>3 DEF TimersInv
<1>6. CASE TimerReturns
  <2>1. /\ UNCHANGED <<index, initial>> /\ place = "timer"
        /\ \/ place' = "timers" /\ timers' = timers
           \/ place' = "failed" /\ timers' = Active(timers)
    BY <1>6 DEF TimerReturns
  <2>2. Active(timers) \in Seq(TimerEntries) /\ Distinct(Active(timers))
    BY <1>1, ActiveIsLive
  <2>3. QED BY <1>1, <2>1, <2>2 DEF TimersInv
<1>7. CASE TimersDone
  <2>1. place' = "between" /\ timers' = Active(timers) /\ index' = 1 /\ initial' = 0
    BY <1>7 DEF TimersDone
  <2>2. Active(timers) \in Seq(TimerEntries) /\ Distinct(Active(timers))
    BY <1>1, ActiveIsLive
  <2>3. QED BY <2>1, <2>2 DEF TimersInv
<1>8. CASE UNCHANGED <<timers, index, initial>> /\ (place' = place \/ place' \notin {"timers", "timer"})
  BY <1>1, <1>8 DEF TimersInv
<1>9. CASE AddAnimationFrameCallback \/ \E id \in IdsIn(frames) : CancelAnimationFrameCallback(id)
  BY <1>8, <1>9 DEF AddAnimationFrameCallback, CancelAnimationFrameCallback, pumpVars
<1>10. CASE PumpAnimationFrame \/ CallFrame \/ FrameReturns \/ FramesDone
  BY <1>8, <1>10 DEF PumpAnimationFrame, CallFrame, FrameReturns, FramesDone
<1>11. CASE UNCHANGED callbackVars
  BY <1>8, <1>11 DEF callbackVars, pumpVars
<1>12. QED BY <1>2, <1>3, <1>4, <1>5, <1>6, <1>7, <1>9, <1>10, <1>11 DEF CallbackNext, Script, Pump

-----------------------------------------------------------------------------
(***************************************************************************)
(* Timers are callbacks of CallbackRounds                                  *)
(***************************************************************************)
Entered(l) == {[id |-> e.id, repeat |-> e.repeat] : e \in l}
DueOf(l) == {e.id : e \in {f \in l : f.left = 0}}
DueTimers == {e.id : e \in {f \in ToSet(timers) : IsDue(f)}}
TimersTurn == IF place \in {"timers", "timer"} THEN {timers[k].id : k \in Due} ELSE {}

LEMMA EnteredIs ==
  ASSUME NEW l
  PROVE  /\ {c.id : c \in Entered(l)} = {e.id : e \in l}
         /\ \A id : Entered({e \in l : e.id # id}) = {c \in Entered(l) : c.id # id}
         /\ \A id : {c \in Entered(l) : c.id # id} = Entered(l) \ {c \in Entered(l) : c.id = id}
<1> DEFINE Entry(e) == [id |-> e.id, repeat |-> e.repeat]
<1>1. \A e : Entry(e).id = e.id
  OBVIOUS
<1>2. Entered(l) = {Entry(e) : e \in l} /\ \A id : Entered({e \in l : e.id # id}) = {Entry(e) : e \in {f \in l : f.id # id}}
  BY DEF Entered
<1> HIDE DEF Entry
<1>3. {c.id : c \in {Entry(e) : e \in l}} = {e.id : e \in l}
  <2>1. \A e \in l : \E c \in {Entry(f) : f \in l} : c.id = e.id
    BY <1>1
  <2>2. \A c \in {Entry(f) : f \in l} : \E e \in l : c.id = e.id
    BY <1>1
  <2>3. QED BY <2>1, <2>2
<1>4. \A id : {Entry(e) : e \in {f \in l : f.id # id}} = {c \in {Entry(e) : e \in l} : c.id # id}
  BY <1>1
<1>5. QED BY <1>2, <1>3, <1>4

LEMMA ViewOf ==
  ASSUME NEW s \in Seq(TimerEntries)
  PROVE  /\ {[id |-> e.id, repeat |-> e.repeat] : e \in ToSet(Active(s))} = Entered(Live(s))
         /\ {e.id : e \in {f \in ToSet(s) : IsDue(f)}} = DueOf(Live(s))
<1>1. ToSet(Active(s)) = Live(s)
  BY ActiveIsLive
<1>2. {f \in ToSet(s) : IsDue(f)} = {f \in Live(s) : f.left = 0}
  BY DEF Live, IsDue
<1>3. QED BY <1>1, <1>2 DEF Entered, DueOf

\* The timers as the rounds see them, before and after a step.
LEMMA TimersView ==
  ASSUME TimersInv, TimersInv'
  PROVE  /\ Timers = Entered(Live(timers)) /\ DueTimers = DueOf(Live(timers))
         /\ Timers' = Entered(Live(timers')) /\ DueTimers' = DueOf(Live(timers'))
         /\ {c.id : c \in Timers} = {e.id : e \in Live(timers)}
<1>1. timers \in Seq(TimerEntries) /\ timers' \in Seq(TimerEntries)
  BY DEF TimersInv
<1>2. /\ Timers = Entered(Live(timers)) /\ DueTimers = DueOf(Live(timers))
      /\ Timers' = Entered(Live(timers')) /\ DueTimers' = DueOf(Live(timers'))
  BY <1>1, ViewOf DEF Timers, DueTimers
<1>3. QED BY <1>2, EnteredIs

\* One step of the rounds of timers, or none.
TimersStep == TimerRounds!RoundsNext \/ UNCHANGED <<Timers, DueTimers, TimersTurn>>

LEMMA AddTimerIsRegister ==
  ASSUME TimersInv, TimersInv', NEW delay \in Delays, NEW repeat \in BOOLEAN, AddTimer(delay, repeat)
  PROVE  TimersStep
<1>1. /\ Timers = Entered(Live(timers)) /\ DueTimers = DueOf(Live(timers))
      /\ Timers' = Entered(Live(timers')) /\ DueTimers' = DueOf(Live(timers'))
      /\ {c.id : c \in Timers} = {e.id : e \in Live(timers)}
  BY TimersView
<1>2. UNCHANGED <<place, index, initial>> /\ place \in {"idle", "timer", "frame"}
  BY DEF AddTimer, pumpVars, ScriptRuns
<1>3. /\ place = "timer" => \A k \in 1 .. Len(timers) : timers'[k] = timers[k]
      /\ \/ Live(timers') = Live(timers)
         \/ \E e \in TimerEntries :
              /\ Live(timers') = Live(timers) \cup {e}
              /\ e.active /\ e.repeat = repeat /\ \A f \in Live(timers) : f.id # e.id
  BY TimersAdded
<1>4. UNCHANGED TimersTurn
  <2>1. CASE place = "timer"
    <3>1. index \in Nat \ {0} /\ initial \in Nat /\ initial <= Len(timers) /\ Len(timers) \in Nat
      BY <2>1, LenProperties DEF TimersInv
    <3>2. \A k \in index .. initial : timers'[k] = timers[k]
      BY <1>3, <2>1, <3>1
    <3>3. Due' = Due /\ \A k \in Due : timers'[k] = timers[k]
      BY <1>2, <3>2 DEF Due, IsDue
    <3>4. {timers'[k].id : k \in Due'} = {timers[k].id : k \in Due}
      BY <3>3
    <3>5. QED BY <1>2, <3>4 DEF TimersTurn
  <2>2. CASE place # "timer"
    BY <1>2, <2>2 DEF TimersTurn
  <2>3. QED BY <2>1, <2>2
<1>5. CASE Live(timers') = Live(timers)
  BY <1>1, <1>4, <1>5 DEF TimersStep
<1>6. CASE \E e \in TimerEntries :
             /\ Live(timers') = Live(timers) \cup {e}
             /\ e.active /\ e.repeat = repeat /\ \A f \in Live(timers) : f.id # e.id
  <2>1. PICK e \in TimerEntries :
             /\ Live(timers') = Live(timers) \cup {e}
             /\ e.active /\ e.repeat = repeat /\ \A f \in Live(timers) : f.id # e.id
    BY <1>6
  <2>2. e.id \in Ids \ {c.id : c \in Timers}
    BY <1>1, <2>1, TimerFields
  <2>3. Timers' = Timers \cup {[id |-> e.id, repeat |-> repeat]}
    BY <1>1, <2>1 DEF Entered
  <2>4. DueTimers' \in {DueTimers, DueTimers \cup {e.id}}
    <3>1. CASE e.left = 0
      BY <1>1, <2>1, <3>1 DEF DueOf
    <3>2. CASE e.left # 0
      BY <1>1, <2>1, <3>2 DEF DueOf
    <3>3. QED BY <3>1, <3>2
  <2>5. TimerRounds!Register
    BY <1>4, <2>2, <2>3, <2>4 DEF TimerRounds!Register, TimerRounds!Registered, DueTimers, TimersTurn
  <2>6. QED BY <2>5 DEF TimersStep, TimerRounds!RoundsNext
<1>7. QED BY <1>3, <1>5, <1>6

LEMMA ClearTimerIsCancel ==
  ASSUME TimersInv, TimersInv', NEW id, ClearTimer(id)
  PROVE  TimersStep
<1>1. /\ Timers = Entered(Live(timers)) /\ DueTimers = DueOf(Live(timers))
      /\ Timers' = Entered(Live(timers')) /\ DueTimers' = DueOf(Live(timers'))
      /\ {c.id : c \in Timers} = {e.id : e \in Live(timers)}
  BY TimersView
<1>2. timers' = Deactivated(timers, id) /\ UNCHANGED <<place, index, initial>>
  BY DEF ClearTimer, pumpVars
<1>3. /\ timers \in Seq(TimerEntries) /\ DOMAIN timers = 1 .. Len(timers) /\ Len(timers) \in Nat
      /\ \A k \in 1 .. Len(timers) : timers[k] \in TimerEntries
      /\ index \in Nat \ {0} /\ initial \in Nat
      /\ place \in {"timers", "timer"} => initial <= Len(timers)
  BY LenProperties, ElementOfSeq DEF TimersInv
<1>4. /\ \A k \in DOMAIN timers : timers'[k] = IF timers[k].id = id THEN Gone(timers[k]) ELSE timers[k]
      /\ Live(timers') = {e \in Live(timers) : e.id # id}
  BY <1>2, <1>3, DeactivatedIs, GoneTimers
<1>5. /\ Timers' = {c \in Timers : c.id # id} /\ DueTimers' = DueTimers \ {id}
      /\ Timers' = Timers \ {c \in Timers : c.id = id}
  <2>1. /\ Entered({e \in Live(timers) : e.id # id}) = {c \in Entered(Live(timers)) : c.id # id}
        /\ {c \in Entered(Live(timers)) : c.id # id}
             = Entered(Live(timers)) \ {c \in Entered(Live(timers)) : c.id = id}
    BY EnteredIs
  <2>2. DueOf({e \in Live(timers) : e.id # id}) = DueOf(Live(timers)) \ {id}
    BY DEF DueOf
  <2>3. QED BY <1>1, <1>4, <2>1, <2>2, Zenon
<1>6. TimersTurn' = TimersTurn \ {id}
  <2>1. CASE place \in {"timers", "timer"}
    <3>1. index .. initial \subseteq DOMAIN timers
      BY <1>3, <2>1
    <3>2. \A k \in index .. initial : timers'[k].active => timers'[k] = timers[k] /\ timers[k].id # id
      BY <1>3, <1>4, <3>1, GoneTimers
    <3>3. \A k \in index .. initial : timers[k].id # id => timers'[k] = timers[k]
      BY <1>4, <3>1
    <3>4. Due' = {k \in Due : timers[k].id # id} /\ \A k \in Due' : timers'[k] = timers[k]
      BY <1>2, <3>2, <3>3 DEF Due, IsDue
    <3>5. {timers'[k].id : k \in Due'} = {timers[k].id : k \in Due} \ {id}
      BY <3>4
    <3>6. QED BY <1>2, <2>1, <3>5 DEF TimersTurn
  <2>2. CASE place \notin {"timers", "timer"}
    BY <1>2, <2>2 DEF TimersTurn
  <2>3. QED BY <2>1, <2>2
<1>7. CASE id \in {c.id : c \in Timers}
  BY <1>5, <1>6, <1>7 DEF TimersStep, TimerRounds!RoundsNext, TimerRounds!Cancel, TimerRounds!Registered,
    TimerRounds!Named, DueTimers, TimersTurn
<1>8. CASE id \notin {c.id : c \in Timers}
  <2>1. id \notin DueTimers
    BY <1>1, <1>8 DEF DueOf
  <2>2. TimersTurn \subseteq DueTimers
    <3>1. CASE place \in {"timers", "timer"}
      <4>1. Due \subseteq DOMAIN timers
        BY <1>3, <3>1 DEF Due
      <4>2. QED BY <3>1, <4>1 DEF TimersTurn, DueTimers, ToSet, Due
    <3>2. QED BY <3>1 DEF TimersTurn
  <2>3. Timers' = Timers
    BY <1>5, <1>8
  <2>4. QED BY <1>5, <1>6, <2>1, <2>2, <2>3 DEF TimersStep
<1>9. QED BY <1>7, <1>8

LEMMA PumpTimersIsBegin ==
  ASSUME TimersInv, TimersInv', PumpTimers
  PROVE  TimersStep
<1>1. /\ Timers = Entered(Live(timers)) /\ DueTimers = DueOf(Live(timers))
      /\ Timers' = Entered(Live(timers')) /\ DueTimers' = DueOf(Live(timers'))
      /\ {c.id : c \in Timers} = {e.id : e \in Live(timers)}
  BY TimersView
<1>2. /\ Live(timers') = {Aged(e) : e \in Live(timers)}
      /\ \A k \in DOMAIN timers' : timers'[k].active
      /\ index' = 1 /\ initial' = Len(timers') /\ timers' \in Seq(TimerEntries)
  BY TimersAged
<1>3. \A e \in Live(timers) : /\ Aged(e).id = e.id /\ Aged(e).repeat = e.repeat
                              /\ e.left = 0 => Aged(e).left = 0
  <2>1. \A e \in Live(timers) : e \in TimerEntries
    BY ElementOfSeq, LenProperties DEF Live, ToSet, TimersInv
  <2>2. QED BY <2>1, AgedIs
<1>4. Timers' = Timers
  BY <1>1, <1>2, <1>3 DEF Entered
<1>5. DueTimers \subseteq DueTimers' /\ DueTimers' \subseteq {c.id : c \in Timers}
  <2>1. DueTimers \subseteq DueTimers'
    BY <1>1, <1>2, <1>3 DEF DueOf
  <2>2. {e.id : e \in Live(timers')} \subseteq {e.id : e \in Live(timers)}
    BY <1>2, <1>3
  <2>3. DueOf(Live(timers')) \subseteq {e.id : e \in Live(timers')}
    BY DEF DueOf
  <2>4. QED BY <1>1, <2>1, <2>2, <2>3
<1>6. TimersTurn = {} /\ TimersTurn' \subseteq DueTimers'
  <2>1. place = "idle" /\ place' = "timers"
    BY DEF PumpTimers
  <2>2. Due' \subseteq DOMAIN timers'
    BY <1>2, LenProperties DEF Due
  <2>3. QED BY <2>1, <2>2 DEF TimersTurn, DueTimers, ToSet, Due
<1>7. TimerRounds!BeginRound
  BY <1>4, <1>5, <1>6 DEF TimerRounds!BeginRound, TimerRounds!Registered, DueTimers, TimersTurn
<1>8. QED BY <1>7 DEF TimersStep, TimerRounds!RoundsNext

\* Timers and what is due of them, by their places in the list.
LEMMA TimersAt ==
  ASSUME NEW s \in Seq(TimerEntries)
  PROVE  /\ Entered(Live(s)) = {[id |-> s[k].id, repeat |-> s[k].repeat] : k \in {j \in DOMAIN s : s[j].active}}
         /\ DueOf(Live(s)) = {s[k].id : k \in {j \in DOMAIN s : IsDue(s[j])}}
<1>1. Live(s) = {s[k] : k \in {j \in DOMAIN s : s[j].active}}
  BY DEF Live, ToSet
<1>2. {e \in Live(s) : e.left = 0} = {s[k] : k \in {j \in DOMAIN s : IsDue(s[j])}}
  BY <1>1 DEF IsDue
<1>3. Entered(Live(s)) = {[id |-> s[k].id, repeat |-> s[k].repeat] : k \in {j \in DOMAIN s : s[j].active}}
  BY <1>1 DEF Entered
<1>4. DueOf(Live(s)) = {s[k].id : k \in {j \in DOMAIN s : IsDue(s[j])}}
  BY <1>2 DEF DueOf
<1>5. QED BY <1>3, <1>4

LEMMA CallTimerIsRun ==
  ASSUME TimersInv, TimersInv', CallTimer
  PROVE  TimersStep
<1> DEFINE ActiveAt == {j \in DOMAIN timers : timers[j].active}
           DueAt == {j \in DOMAIN timers : IsDue(timers[j])}
           Entry(e) == [id |-> e.id, repeat |-> e.repeat]
<1>1. /\ timers \in Seq(TimerEntries) /\ Distinct(timers)
      /\ index \in Nat \ {0} /\ initial \in Nat /\ initial <= Len(timers)
      /\ DOMAIN timers = 1 .. Len(timers) /\ Len(timers) \in Nat
      /\ \A k \in DOMAIN timers : timers[k] \in TimerEntries
      /\ place = "timers" /\ place' = "timer" /\ initial' = initial
  BY LenProperties, ElementOfSeq DEF TimersInv, CallTimer
<1>2. PICK k \in Due :
        /\ k \in DOMAIN timers /\ k <= initial /\ k >= index /\ index' = k + 1
        /\ \A other \in Due : k <= other
        /\ timers' \in Seq(TimerEntries) /\ Len(timers') = Len(timers)
        /\ timers'[k] = Fired(timers[k])
        /\ \A j \in DOMAIN timers \ {k} : timers'[j] = timers[j]
  BY TimersFire
<1> DEFINE t == timers[k]
<1>3. /\ t.active /\ IsDue(t) /\ t \in TimerEntries
      /\ \A j \in DOMAIN timers \ {k} : timers[j].id # t.id
      /\ DOMAIN timers' = DOMAIN timers
  BY <1>1, <1>2, LenProperties DEF Due, IsDue, Distinct
<1>4. /\ timers'[k].id = t.id
      /\ t.repeat => timers'[k].active /\ timers'[k].left > 0 /\ timers'[k].repeat
      /\ ~t.repeat => ~timers'[k].active
  BY <1>2, <1>3, FiredIs
<1>5. ~IsDue(timers'[k])
  BY <1>3, <1>4 DEF IsDue
<1>6. /\ Timers = {Entry(timers[j]) : j \in ActiveAt} /\ DueTimers = {timers[j].id : j \in DueAt}
      /\ Timers' = {Entry(timers'[j]) : j \in {i \in DOMAIN timers' : timers'[i].active}}
      /\ DueTimers' = {timers'[j].id : j \in {i \in DOMAIN timers' : IsDue(timers'[i])}}
  BY <1>1, <1>2, TimersView, TimersAt
<1> HIDE DEF t
<1>7. TimersTurn' = TimersTurn \ {t.id} /\ t.id \in TimersTurn
  <2>1. Due' = Due \ {k}
    <3>1. \A j \in (k + 1) .. initial : j \in DOMAIN timers \ {k} /\ timers'[j] = timers[j] /\ j \in index .. initial
      BY <1>1, <1>2
    <3>2. \A j \in Due \ {k} : j \in (k + 1) .. initial
      BY <1>1, <1>2 DEF Due
    <3>3. Due' = {j \in (k + 1) .. initial : IsDue(timers'[j])}
      BY <1>1, <1>2 DEF Due
    <3>4. Due' = {j \in (k + 1) .. initial : IsDue(timers[j])}
      BY <3>1, <3>3
    <3>5. QED BY <3>1, <3>2, <3>4 DEF Due
  <2>2. \A j \in Due : j \in DOMAIN timers
    BY <1>1 DEF Due
  <2>3. {timers'[j].id : j \in Due'} = {timers[j].id : j \in Due \ {k}}
    BY <1>2, <2>1, <2>2
  <2>4. {timers[j].id : j \in Due \ {k}} = {timers[j].id : j \in Due} \ {t.id}
    BY <1>3, <2>2 DEF t
  <2>5. t.id \in {timers[j].id : j \in Due}
    BY <1>2 DEF t
  <2>6. QED BY <1>1, <2>3, <2>4, <2>5 DEF TimersTurn
<1>8. DueTimers' = DueTimers \ {t.id}
  <2>1. {i \in DOMAIN timers' : IsDue(timers'[i])} = DueAt \ {k}
    BY <1>2, <1>3, <1>5
  <2>2. {timers'[j].id : j \in DueAt \ {k}} = {timers[j].id : j \in DueAt \ {k}}
    BY <1>2
  <2>3. {timers[j].id : j \in DueAt \ {k}} = {timers[j].id : j \in DueAt} \ {t.id}
    BY <1>3 DEF t
  <2>4. QED BY <1>6, <2>1, <2>2, <2>3
<1>9. Timers' = {c \in Timers : c.id # t.id \/ c.repeat}
  <2>1. \A e : Entry(e).id = e.id /\ Entry(e).repeat = e.repeat
    OBVIOUS
  <2>2. \A j \in DOMAIN timers \ {k} : Entry(timers'[j]) = Entry(timers[j])
    BY <1>2
  <2>3. CASE t.repeat
    <3>1. {i \in DOMAIN timers' : timers'[i].active} = ActiveAt
      BY <1>2, <1>3, <1>4, <2>3 DEF t
    <3>2. Entry(timers'[k]) = Entry(timers[k])
      <4>1. timers[k].repeat \in BOOLEAN /\ timers'[k].repeat \in BOOLEAN
        BY <1>1, <1>2, <1>3, TimerFields, ElementOfSeq, LenProperties
      <4>2. timers'[k].repeat = timers[k].repeat
        BY <1>4, <2>3, <4>1 DEF t
      <4>3. QED BY <1>4, <4>2 DEF t
    <3> HIDE DEF Entry, ActiveAt
    <3>3. Timers' = Timers
      <4>1. \A j \in ActiveAt : Entry(timers'[j]) = Entry(timers[j])
        BY <2>2, <3>2 DEF ActiveAt
      <4>2. QED BY <1>6, <3>1, <4>1
    <3>4. \A c \in Timers : c.id # t.id \/ c.repeat
      <4>1. \A j \in ActiveAt : Entry(timers[j]).id # t.id \/ Entry(timers[j]).repeat
        BY <1>3, <2>1, <2>3 DEF ActiveAt, t
      <4>2. QED BY <1>6, <4>1
    <3>5. QED BY <3>3, <3>4
  <2>4. CASE ~t.repeat
    <3>1. {i \in DOMAIN timers' : timers'[i].active} = ActiveAt \ {k}
      BY <1>2, <1>3, <1>4, <2>4
    <3>2. k \in ActiveAt /\ t = timers[k]
      BY <1>2, <1>3 DEF t
    <3> HIDE DEF Entry
    <3>3. \A j \in ActiveAt \ {k} : Entry(timers'[j]) = Entry(timers[j]) /\ Entry(timers[j]).id # t.id
      BY <1>3, <2>1, <2>2
    <3>4. Entry(timers[k]).id = t.id /\ ~Entry(timers[k]).repeat
      BY <2>1, <2>4, <3>2
    <3> HIDE DEF ActiveAt
    <3>5. Timers' = {Entry(timers[j]) : j \in ActiveAt \ {k}}
      BY <1>6, <3>1, <3>3
    <3>6. {c \in Timers : c.id # t.id \/ c.repeat} = {Entry(timers[j]) : j \in ActiveAt \ {k}}
      BY <1>6, <3>2, <3>3, <3>4
    <3>7. QED BY <3>5, <3>6
  <2>5. QED BY <2>3, <2>4
<1>10. TimerRounds!Run
  BY <1>7, <1>8, <1>9 DEF TimerRounds!Run, DueTimers, TimersTurn
<1>11. QED BY <1>10 DEF TimersStep, TimerRounds!RoundsNext

LEMMA TimersReturnOrDone ==
  ASSUME TimersInv, TimersInv', TimerReturns \/ TimersDone
  PROVE  TimersStep
<1>1. /\ Timers = Entered(Live(timers)) /\ DueTimers = DueOf(Live(timers))
      /\ Timers' = Entered(Live(timers')) /\ DueTimers' = DueOf(Live(timers'))
  BY TimersView
<1>2. \/ /\ place = "timer" /\ place' = "timers" /\ UNCHANGED <<timers, index, initial>>
      \/ /\ place' \in {"failed", "between"} /\ timers' = Active(timers)
  BY DEF TimerReturns, TimersDone
<1>3. CASE place = "timer" /\ place' = "timers" /\ UNCHANGED <<timers, index, initial>>
  BY <1>1, <1>3 DEF TimersStep, TimersTurn, Due
<1>4. CASE place' \in {"failed", "between"} /\ timers' = Active(timers)
  <2>1. Live(timers') = Live(timers)
    BY <1>4, LiveIsLive DEF TimersInv
  <2>2. Timers' = Timers /\ DueTimers' = DueTimers
    BY <1>1, <2>1
  <2>3. TimersTurn' = {}
    BY <1>4 DEF TimersTurn
  <2>4. TimerRounds!EndRound
    BY <2>2, <2>3 DEF TimerRounds!EndRound, DueTimers, TimersTurn
  <2>5. QED BY <2>4 DEF TimersStep, TimerRounds!RoundsNext
<1>5. QED BY <1>2, <1>3, <1>4

LEMMA NextTimersStep == TimersInv /\ [CallbackNext]_callbackVars => TimersStep
<1> SUFFICES ASSUME TimersInv, [CallbackNext]_callbackVars PROVE TimersStep
  OBVIOUS
<1>1. TimersInv'
  BY NextTimersInv
<1>2. CASE \E delay \in Delays, repeat \in BOOLEAN : AddTimer(delay, repeat)
  BY <1>1, <1>2, AddTimerIsRegister
<1>3. CASE \E id \in IdsIn(timers) : ClearTimer(id)
  BY <1>1, <1>3, ClearTimerIsCancel
<1>4. CASE UNCHANGED <<timers, index, initial>> /\ (place' = place \/ {place, place'} \cap {"timers", "timer"} = {})
  <2>1. UNCHANGED Timers /\ UNCHANGED DueTimers
    BY <1>4 DEF Timers, DueTimers
  <2>2. UNCHANGED TimersTurn
    <3>1. CASE place' = place
      BY <1>4, <3>1 DEF TimersTurn, Due
    <3>2. CASE {place, place'} \cap {"timers", "timer"} = {}
      BY <3>2 DEF TimersTurn
    <3>3. QED BY <1>4, <3>1, <3>2
  <2>3. QED BY <2>1, <2>2 DEF TimersStep
<1>5. CASE AddAnimationFrameCallback \/ \E id \in IdsIn(frames) : CancelAnimationFrameCallback(id)
  BY <1>4, <1>5 DEF AddAnimationFrameCallback, CancelAnimationFrameCallback, pumpVars
<1>6. CASE PumpAnimationFrame \/ CallFrame \/ FrameReturns \/ FramesDone
  BY <1>4, <1>6 DEF PumpAnimationFrame, CallFrame, FrameReturns, FramesDone
<1>7. CASE UNCHANGED callbackVars
  BY <1>4, <1>7 DEF callbackVars, pumpVars
<1>8. QED BY <1>1, <1>2, <1>3, <1>5, <1>6, <1>7, PumpTimersIsBegin, CallTimerIsRun, TimersReturnOrDone
  DEF CallbackNext, Script, Pump

-----------------------------------------------------------------------------
(***************************************************************************)
(* Animation callbacks                                                     *)
(***************************************************************************)
LEMMA GoneFrames == \A e \in FrameEntries : Gone(e) \in FrameEntries /\ Gone(e).id = e.id /\ ~Gone(e).active
BY GoneFrame

LEMMA FrameFields ==
  ASSUME NEW e \in FrameEntries
  PROVE  e.id \in Ids /\ e.queued \in BOOLEAN /\ e.active \in BOOLEAN
BY DEF FrameEntries

IdsOf(l) == {e.id : e \in l}

\* The callbacks a pump may still call; the one that runs is not called again.
Open == IdsOf(Live(frames)) \ (IF place = "frame" THEN {running} ELSE {})

LEMMA AnimationAdded ==
  ASSUME FramesInv, AddAnimationFrameCallback
  PROVE  /\ FramesInv'
         /\ UNCHANGED batch
         /\ Open' = Open \/ \E id \in Ids \ Open : id \notin ToSet(batch) /\ Open' = Open \cup {id}
<1> DEFINE kept == Kept(frames, place = "frame")
           e == [id |-> NewId(kept), queued |-> FALSE, active |-> TRUE]
<1>1. /\ frames \in Seq(FrameEntries) /\ Distinct(frames) /\ MaxEntries \in Nat
      /\ ToSet(batch) \subseteq IdsIn(frames)
      /\ place # "frame" => batch = <<>>
      /\ UNCHANGED <<place, running, batch>>
  BY CallbackAssumption DEF FramesInv, AddAnimationFrameCallback, ScriptRuns, pumpVars
<1>2. /\ kept \in Seq(FrameEntries) /\ Distinct(kept) /\ Live(kept) = Live(frames)
      /\ place = "frame" => kept = frames
  BY <1>1, ActiveIsLive, LiveIsLive DEF Kept
<1>3. /\ Len(kept) < MaxEntries
      /\ frames' = kept \/ frames' = Append(kept, e)
  BY DEF AddAnimationFrameCallback
<1>4. ToSet(batch) \subseteq IdsIn(kept) /\ (place = "frame" => running \in IdsIn(kept))
  <2>1. ToSet(<<>>) = {}
    BY DEF ToSet
  <2>2. QED BY <1>1, <1>2, <2>1 DEF FramesInv
<1> HIDE DEF kept
<1>5. NewId(kept) \in Ids \ IdsIn(kept)
  BY <1>1, <1>2, <1>3, NewIdIsNew
<1>6. e \in FrameEntries /\ e.id = NewId(kept) /\ e.active /\ ~e.queued
  BY <1>5 DEF FrameEntries
<1> HIDE DEF e
<1>7. CASE frames' = kept
  <2>1. FramesInv'
    BY <1>1, <1>2, <1>4, <1>7 DEF FramesInv
  <2>2. Open' = Open
    BY <1>1, <1>2, <1>7 DEF Open
  <2>3. QED BY <1>1, <2>1, <2>2
<1>8. CASE frames' = Append(kept, e)
  <2>1. /\ frames' \in Seq(FrameEntries) /\ Distinct(frames')
        /\ ToSet(frames') = ToSet(kept) \cup {e}
    BY <1>2, <1>5, <1>6, <1>8, AppendedTo
  <2>2. Live(frames') = Live(frames) \cup {e}
    BY <1>2, <1>6, <2>1 DEF Live
  <2>3. IdsIn(kept) \subseteq IdsIn(frames')
    BY <2>1 DEF IdsIn
  <2>4. FramesInv'
    BY <1>1, <1>4, <1>6, <2>1, <2>2, <2>3 DEF FramesInv
  <2>5. e.id \notin ToSet(batch) /\ (place = "frame" => running # e.id)
    BY <1>4, <1>5, <1>6
  <2>6. Open \subseteq IdsIn(kept)
    BY <1>2 DEF Open, IdsOf, IdsIn, Live
  <2>7. Open' = Open \cup {e.id}
    BY <1>1, <2>2, <2>5 DEF Open, IdsOf
  <2>8. QED BY <1>1, <1>5, <1>6, <2>4, <2>5, <2>6, <2>7
<1>9. QED BY <1>3, <1>7, <1>8

LEMMA AnimationCancelled ==
  ASSUME FramesInv, NEW id, CancelAnimationFrameCallback(id)
  PROVE  FramesInv' /\ UNCHANGED batch /\ Open' = Open \ {id}
<1> DEFINE r == Deactivated(frames, id)
<1>1. /\ frames \in Seq(FrameEntries) /\ Distinct(frames)
      /\ ToSet(batch) \subseteq IdsIn(frames)
      /\ place # "frame" => batch = <<>>
      /\ UNCHANGED <<place, running, batch>>
      /\ frames' = Kept(r, place = "frame")
  BY DEF FramesInv, CancelAnimationFrameCallback, ScriptRuns, pumpVars
<1>2. /\ r \in Seq(FrameEntries) /\ Distinct(r) /\ IdsIn(r) = IdsIn(frames)
      /\ Live(r) = {e \in Live(frames) : e.id # id}
  BY <1>1, DeactivatedIs, GoneFrames
<1> HIDE DEF r
<1>3. /\ frames' \in Seq(FrameEntries) /\ Distinct(frames') /\ Live(frames') = Live(r)
      /\ place = "frame" => frames' = r
  BY <1>1, <1>2, ActiveIsLive, LiveIsLive DEF Kept
<1>4. ToSet(batch) \subseteq IdsIn(frames') /\ (place = "frame" => running \in IdsIn(frames'))
  <2>1. ToSet(<<>>) = {}
    BY DEF ToSet
  <2>2. QED BY <1>1, <1>2, <1>3, <2>1 DEF FramesInv
<1>5. FramesInv'
  BY <1>1, <1>2, <1>3, <1>4 DEF FramesInv
<1>6. Open' = Open \ {id}
  BY <1>1, <1>2, <1>3 DEF Open, IdsOf
<1>7. QED BY <1>1, <1>5, <1>6

LEMMA FramesReturn ==
  ASSUME FramesInv, FrameReturns
  PROVE  FramesInv' /\ UNCHANGED batch /\ Open' = Open
<1>1. /\ frames \in Seq(FrameEntries) /\ Distinct(frames)
      /\ place = "frame" /\ place' = "frames" /\ UNCHANGED batch
      /\ frames' = Deactivated(frames, running)
  BY DEF FramesInv, FrameReturns
<1>2. /\ frames' \in Seq(FrameEntries) /\ Distinct(frames') /\ IdsIn(frames') = IdsIn(frames)
      /\ Live(frames') = {e \in Live(frames) : e.id # running}
  BY <1>1, DeactivatedIs, GoneFrames
<1>3. FramesInv'
  BY <1>1, <1>2 DEF FramesInv
<1>4. Open' = Open
  BY <1>1, <1>2 DEF Open, IdsOf
<1>5. QED BY <1>1, <1>3, <1>4

LEMMA FramesAreDone ==
  ASSUME FramesInv, FramesDone
  PROVE  FramesInv' /\ UNCHANGED batch /\ Open' = Open
<1> DEFINE P == {k \in DOMAIN frames : frames[k].active /\ ~frames[k].queued}
<1>1. /\ frames \in Seq(FrameEntries) /\ Distinct(frames)
      /\ place = "frames" /\ place' \in {"idle", "failed"} /\ UNCHANGED batch /\ batch = <<>>
      /\ frames' = At(frames, P) /\ ToSet(batch) = {}
  BY DEF FramesInv, FramesDone, Rest, ToSet
<1>2. frames' \in Seq(FrameEntries) /\ Distinct(frames') /\ ToSet(frames') = {frames[k] : k \in P}
  <2>1. P \in SUBSET DOMAIN frames
    OBVIOUS
  <2> HIDE DEF P
  <2>2. QED BY <1>1, <2>1, Picked, PickedKeeps
<1>3. \A f \in Live(frames) : ~f.queued
  BY <1>1 DEF FramesInv
<1>4. {frames[k] : k \in P} = {f \in Live(frames) : ~f.queued}
  BY DEF Live, ToSet
<1>5. Live(frames') = Live(frames)
  BY <1>2, <1>3, <1>4 DEF Live
<1>6. FramesInv'
  BY <1>1, <1>2, <1>3, <1>5 DEF FramesInv
<1>7. Open' = Open
  BY <1>1, <1>5 DEF Open
<1>8. QED BY <1>1, <1>6, <1>7

LEMMA FirstOnesAre ==
  ASSUME NEW E, NEW s \in Seq(E)
  PROVE  /\ FirstOnes(s) \in Seq(E) /\ Len(FirstOnes(s)) <= Len(s) /\ Len(s) \in Nat
         /\ DOMAIN FirstOnes(s) = 1 .. Len(FirstOnes(s)) /\ Len(FirstOnes(s)) \in Nat
         /\ \A k \in DOMAIN FirstOnes(s) : k \in DOMAIN s /\ FirstOnes(s)[k] = s[k]
<1>1. Len(s) \in Nat /\ AnimationBudget \in Nat /\ DOMAIN s = 1 .. Len(s)
  BY CallbackAssumption, LenProperties
<1>2. \E n \in Nat : n <= Len(s) /\ FirstOnes(s) = SubSeq(s, 1, n)
  <2> DEFINE n == Min({Len(s), AnimationBudget})
  <2>1. \E x \in {Len(s), AnimationBudget} : \A y \in {Len(s), AnimationBudget} : x <= y
    BY <1>1
  <2>2. n \in {Len(s), AnimationBudget} /\ n <= Len(s)
    BY <2>1 DEF Min
  <2>3. n \in Nat /\ FirstOnes(s) = SubSeq(s, 1, n)
    BY <1>1, <2>2 DEF FirstOnes
  <2> HIDE DEF n
  <2>4. QED BY <2>2, <2>3
<1>3. PICK n \in Nat : n <= Len(s) /\ FirstOnes(s) = SubSeq(s, 1, n)
  BY <1>2
<1>4. \A k \in 1 .. n : k \in 1 .. Len(s)
  BY <1>1, <1>3
<1>5. \A k \in 1 .. n : s[k] \in E
  BY <1>4, ElementOfSeq
<1> DEFINE r == SubSeq(s, 1, n)
<1>6. /\ r \in Seq(E) /\ Len(r) = IF 1 <= n THEN n - 1 + 1 ELSE 0
      /\ \A k \in 1 .. n - 1 + 1 : r[k] = s[1 + k - 1]
  BY <1>3, <1>5, SubSeqProperties
<1>7. FirstOnes(s) = r
  BY <1>3
<1> HIDE DEF r
<1>8. Len(r) = n /\ \A k \in 1 .. n : r[k] = s[k]
  BY <1>3, <1>6
<1>9. DOMAIN r = 1 .. n
  BY <1>6, <1>8, LenProperties
<1>10. QED BY <1>1, <1>3, <1>4, <1>6, <1>7, <1>8, <1>9

LEMMA FramesBegin ==
  ASSUME FramesInv, PumpAnimationFrame
  PROVE  FramesInv' /\ ToSet(batch) = {} /\ Open' = Open
<1> DEFINE kept == Active(frames)
           first == FirstOnes(kept)
           Marked(k) == [kept[k] EXCEPT !.queued = @ \/ kept[k] \in ToSet(first)]
<1>1. /\ frames \in Seq(FrameEntries) /\ Distinct(frames)
      /\ place = "between" /\ batch = <<>> /\ ToSet(batch) = {}
      /\ place' = IF kept = <<>> THEN "idle" ELSE "frames"
      /\ frames' = [k \in DOMAIN kept |-> Marked(k)]
      /\ batch' = [k \in DOMAIN first |-> first[k].id]
  BY DEF FramesInv, PumpAnimationFrame, ToSet
<1>2. kept \in Seq(FrameEntries) /\ Distinct(kept) /\ ToSet(kept) = Live(frames)
  BY <1>1, ActiveIsLive
<1>3. /\ first \in Seq(FrameEntries) /\ Len(first) <= Len(kept) /\ Len(kept) \in Nat /\ Len(first) \in Nat
      /\ DOMAIN first = 1 .. Len(first)
      /\ \A k \in DOMAIN first : k \in DOMAIN kept /\ first[k] = kept[k]
  BY <1>2, FirstOnesAre
<1>4. /\ DOMAIN kept = 1 .. Len(kept)
      /\ \A k \in DOMAIN kept : kept[k] \in FrameEntries /\ kept[k] \in Live(frames)
  BY <1>2, LenProperties, ElementOfSeq DEF ToSet
<1> HIDE DEF kept, first
<1>5. \A k \in DOMAIN kept : ~kept[k].queued
  BY <1>1, <1>4 DEF FramesInv
<1>6. ASSUME NEW k \in DOMAIN kept
      PROVE  /\ Marked(k) \in FrameEntries /\ Marked(k).id = kept[k].id /\ Marked(k).active
             /\ Marked(k).queued => kept[k] \in ToSet(first)
  <2> DEFINE q == kept[k].queued \/ kept[k] \in ToSet(first)
  <2>1. kept[k] \in FrameEntries /\ q \in BOOLEAN /\ Marked(k) = [kept[k] EXCEPT !.queued = q]
    BY <1>4
  <2>2. q => kept[k] \in ToSet(first)
    BY <1>5
  <2> HIDE DEF q, Marked
  <2>3. Marked(k) \in FrameEntries
    BY <2>1 DEF FrameEntries
  <2>4. Marked(k).id = kept[k].id /\ Marked(k).active = kept[k].active /\ Marked(k).queued = q
    BY <2>1 DEF FrameEntries
  <2>5. kept[k].active
    BY <1>4 DEF Live
  <2>6. QED BY <2>2, <2>3, <2>4, <2>5
<1> HIDE DEF Marked
<1>7. /\ DOMAIN frames' = DOMAIN kept
      /\ \A k \in DOMAIN kept : /\ frames'[k] \in FrameEntries
                                /\ frames'[k].id = kept[k].id /\ frames'[k].active
                                /\ frames'[k].queued => kept[k] \in ToSet(first)
  BY <1>1, <1>6
<1>8. frames' \in Seq(FrameEntries) /\ Distinct(frames')
  <2>1. frames' \in [1 .. Len(kept) -> FrameEntries]
    BY <1>1, <1>4, <1>7
  <2>2. frames' \in Seq(FrameEntries)
    BY <1>3, <2>1, SeqDef
  <2>3. QED BY <1>2, <1>7, <2>2 DEF Distinct
<1>9. /\ batch' \in Seq(Ids) /\ DOMAIN batch' = DOMAIN first
      /\ \A k \in DOMAIN first : batch'[k] = kept[k].id
  <2>1. \A k \in DOMAIN first : first[k] = kept[k] /\ kept[k].id \in Ids
    BY <1>3, <1>4, FrameFields
  <2>2. batch' \in [1 .. Len(first) -> Ids]
    BY <1>1, <1>3, <2>1
  <2>3. batch' \in Seq(Ids)
    BY <1>3, <2>2, SeqDef
  <2>4. QED BY <1>1, <2>1, <2>3
<1>10. \A m, n \in DOMAIN batch' : batch'[m] = batch'[n] => m = n
  BY <1>2, <1>3, <1>9 DEF Distinct
<1>11. ToSet(batch') \subseteq IdsIn(frames')
  BY <1>3, <1>7, <1>9 DEF ToSet, IdsIn
<1>12. \A f \in Live(frames') : f.queued => f.id \in ToSet(batch')
  <2>1. \A k \in DOMAIN kept : kept[k] \in ToSet(first) => kept[k].id \in ToSet(batch')
    BY <1>3, <1>9 DEF ToSet
  <2>2. QED BY <1>7, <2>1 DEF Live, ToSet
<1>13. place' \notin {"frames", "frame"} => batch' = <<>>
  <2>1. ASSUME kept = <<>> PROVE batch' = <<>>
    <3>1. Len(kept) = 0
      BY <2>1
    <3>2. DOMAIN batch' = {}
      BY <1>3, <1>9, <3>1
    <3>3. Len(batch') = 0
      BY <1>9, <3>2, LenProperties
    <3>4. QED BY <1>9, <3>3, EmptySeq
  <2>2. QED BY <1>1, <2>1
<1>14. FramesInv'
  BY <1>1, <1>8, <1>9, <1>10, <1>11, <1>12, <1>13 DEF FramesInv
<1>15. IdsOf(Live(frames')) = IdsOf(Live(frames))
  <2>1. Live(frames') = ToSet(frames')
    BY <1>7 DEF Live, ToSet
  <2>2. IdsOf(ToSet(frames')) = IdsOf(ToSet(kept))
    BY <1>7 DEF IdsOf, ToSet
  <2>3. QED BY <1>2, <2>1, <2>2
<1>16. Open' = Open
  BY <1>1, <1>15 DEF Open
<1>17. QED BY <1>1, <1>14, <1>16

LEMMA FrameCalled ==
  ASSUME FramesInv, CallFrame
  PROVE  /\ FramesInv'
         /\ \E id : /\ ToSet(batch') = ToSet(batch) \ {id}
                    /\ \/ id \in Open /\ id \in ToSet(batch) /\ Open' = Open \ {id}
                       \/ id \notin Open /\ Open' = Open
<1> DEFINE id == Head(batch)
<1>1. /\ frames \in Seq(FrameEntries) /\ batch \in Seq(Ids) /\ batch # <<>>
      /\ \A m, n \in DOMAIN batch : batch[m] = batch[n] => m = n
      /\ place = "frames" /\ batch' = Tail(batch) /\ UNCHANGED frames
      /\ IF id \in IdsIn(Active(frames)) THEN place' = "frame" /\ running' = id
                                         ELSE UNCHANGED <<place, running>>
      /\ IdsIn(Active(frames)) = IdsOf(Live(frames))
  <2>1. frames \in Seq(FrameEntries)
    BY DEF FramesInv
  <2>2. IdsIn(Active(frames)) = IdsOf(Live(frames))
    BY <2>1, ActiveIsLive DEF IdsIn, IdsOf
  <2>3. QED BY <2>2 DEF FramesInv, CallFrame
<1>2. /\ Len(batch) \in Nat \ {0} /\ DOMAIN batch = 1 .. Len(batch) /\ id = batch[1]
      /\ batch' \in Seq(Ids) /\ Len(batch') = Len(batch) - 1 /\ DOMAIN batch' = 1 .. Len(batch) - 1
      /\ \A k \in 1 .. Len(batch) - 1 : batch'[k] = batch[k + 1]
  <2>1. Len(batch) \in Nat /\ DOMAIN batch = 1 .. Len(batch) /\ Len(batch) # 0
    BY <1>1, LenProperties, EmptySeq
  <2>2. /\ Head(batch) = batch[1] /\ Tail(batch) \in Seq(Ids) /\ Len(Tail(batch)) = Len(batch) - 1
        /\ \A k \in 1 .. Len(Tail(batch)) : Tail(batch)[k] = batch[k + 1]
    BY <1>1, <2>1, HeadTailProperties
  <2>3. QED BY <1>1, <2>1, <2>2, LenProperties
<1> HIDE DEF id
<1>3. \A m, n \in DOMAIN batch' : batch'[m] = batch'[n] => m = n
  <2>1. TAKE m, n \in DOMAIN batch'
  <2>2. m \in Nat /\ n \in Nat /\ m + 1 \in DOMAIN batch /\ n + 1 \in DOMAIN batch
    BY <1>2
  <2>3. batch'[m] = batch[m + 1] /\ batch'[n] = batch[n + 1]
    BY <1>2
  <2>4. batch[m + 1] = batch[n + 1] => m + 1 = n + 1
    BY <1>1, <2>2
  <2>5. QED BY <2>2, <2>3, <2>4
<1>4. ToSet(batch') = ToSet(batch) \ {id} /\ id \in ToSet(batch)
  <2>1. \A k \in DOMAIN batch' : k + 1 \in DOMAIN batch /\ k + 1 # 1 /\ batch'[k] = batch[k + 1]
    BY <1>2
  <2>2. \A k \in DOMAIN batch' : batch'[k] \in ToSet(batch) \ {id}
    BY <1>1, <1>2, <2>1 DEF ToSet
  <2>3. \A k \in DOMAIN batch : k # 1 => k - 1 \in DOMAIN batch' /\ batch'[k - 1] = batch[k]
    BY <1>2
  <2>4. \A k \in DOMAIN batch : batch[k] # id => batch[k] \in ToSet(batch')
    BY <1>2, <2>3 DEF ToSet
  <2>5. ToSet(batch') \subseteq ToSet(batch) \ {id}
    BY <2>2 DEF ToSet
  <2>6. ToSet(batch) \ {id} \subseteq ToSet(batch')
    <3>1. ASSUME NEW x \in ToSet(batch), x # id PROVE x \in ToSet(batch')
      <4>1. PICK k \in DOMAIN batch : batch[k] = x
        BY DEF ToSet
      <4>2. QED BY <2>4, <3>1, <4>1
    <3>2. QED BY <3>1
  <2>7. id \in ToSet(batch)
    BY <1>2 DEF ToSet
  <2>8. QED BY <2>5, <2>6, <2>7
<1>5. CASE id \in IdsOf(Live(frames))
  <2>1. place' = "frame" /\ running' = id
    BY <1>1, <1>5
  <2>2. FramesInv'
    BY <1>1, <1>2, <1>3, <1>4, <2>1 DEF FramesInv
  <2>3. id \in Open /\ Open' = Open \ {id}
    BY <1>1, <1>5, <2>1 DEF Open
  <2>4. QED BY <1>4, <2>2, <2>3
<1>6. CASE id \notin IdsOf(Live(frames))
  <2>1. UNCHANGED <<place, running>>
    BY <1>1, <1>6
  <2>2. \A f \in Live(frames) : f.id # id
    BY <1>6 DEF IdsOf
  <2>3. FramesInv'
    BY <1>1, <1>2, <1>3, <1>4, <2>1, <2>2 DEF FramesInv
  <2>4. id \notin Open /\ Open' = Open
    BY <1>1, <1>6, <2>1 DEF Open
  <2>5. QED BY <1>4, <2>3, <2>4
<1>7. QED BY <1>5, <1>6

LEMMA NextFramesInv == FramesInv /\ [CallbackNext]_callbackVars => FramesInv'
<1> SUFFICES ASSUME FramesInv, [CallbackNext]_callbackVars PROVE FramesInv'
  OBVIOUS
<1>1. CASE /\ UNCHANGED <<frames, batch>>
           /\ (place' = place /\ running' = running) \/ {place, place'} \cap {"frames", "frame"} = {}
  BY <1>1 DEF FramesInv
<1>2. CASE (\E delay \in Delays, repeat \in BOOLEAN : AddTimer(delay, repeat))
           \/ \E id \in IdsIn(timers) : ClearTimer(id)
  BY <1>1, <1>2 DEF AddTimer, ClearTimer, pumpVars
<1>3. CASE PumpTimers \/ CallTimer \/ TimerReturns \/ TimersDone
  BY <1>1, <1>3 DEF PumpTimers, CallTimer, TimerReturns, TimersDone
<1>4. CASE UNCHANGED callbackVars
  BY <1>1, <1>4 DEF callbackVars, pumpVars
<1>5. QED BY <1>2, <1>3, <1>4, AnimationAdded, AnimationCancelled, FramesBegin, FrameCalled, FramesReturn,
  FramesAreDone DEF CallbackNext, Script, Pump

-----------------------------------------------------------------------------
(***************************************************************************)
(* Animation callbacks are callbacks of CallbackRounds                     *)
(***************************************************************************)
OneShots(S) == {[id |-> i, repeat |-> FALSE] : i \in S}
OpenAnimations == Animations \ Called
OpenIds == {c.id : c \in Animations \ Called}
AnimationsTurn == ToSet(batch) \cap {c.id : c \in Animations}

LEMMA OneShotsAre ==
  ASSUME NEW S
  PROVE  {c.id : c \in OneShots(S)} = S /\ \A c \in OneShots(S) : ~c.repeat
<1> DEFINE OneShot(i) == [id |-> i, repeat |-> FALSE]
<1>1. \A i : OneShot(i).id = i /\ ~OneShot(i).repeat
  OBVIOUS
<1>2. OneShots(S) = {OneShot(i) : i \in S}
  BY DEF OneShots
<1> HIDE DEF OneShot
<1>3. \A i \in S : \E c \in OneShots(S) : c.id = i
  BY <1>1, <1>2
<1>4. \A c \in OneShots(S) : c.id \in S /\ ~c.repeat
  BY <1>1, <1>2
<1>5. QED BY <1>3, <1>4

LEMMA OneShotsChange ==
  ASSUME NEW S, NEW id
  PROVE  /\ OneShots(S \ {id}) = {c \in OneShots(S) : c.id # id}
         /\ OneShots(S \ {id}) = OneShots(S) \ {c \in OneShots(S) : c.id = id}
         /\ OneShots(S \cup {id}) = OneShots(S) \cup {[id |-> id, repeat |-> FALSE]}
<1> DEFINE OneShot(i) == [id |-> i, repeat |-> FALSE]
<1>1. \A i : OneShot(i).id = i
  OBVIOUS
<1>2. \A T : OneShots(T) = {OneShot(i) : i \in T}
  BY DEF OneShots
<1> HIDE DEF OneShot
<1>3. OneShots(S \ {id}) = {c \in OneShots(S) : c.id # id}
  BY <1>1, <1>2
<1>4. OneShots(S \cup {id}) = OneShots(S) \cup {OneShot(id)}
  BY <1>2
<1>5. QED BY <1>3, <1>4 DEF OneShot

\* The animation callbacks as the rounds see them.
AnimationsView ==
  OpenAnimations = OneShots(Open) /\ OpenIds = Open /\ AnimationsTurn = ToSet(batch) \cap Open

LEMMA AnimationsViewed == FramesInv => AnimationsView
<1> SUFFICES ASSUME FramesInv PROVE AnimationsView
  OBVIOUS
<1> DEFINE l == Live(frames)
<1>1. ToSet(Active(frames)) = l
  BY ActiveIsLive DEF FramesInv
<1>2. Animations = OneShots(IdsOf(l))
  BY <1>1 DEF Animations, OneShots, IdsOf
<1>3. {c.id : c \in Animations} = IdsOf(l)
  BY <1>2, OneShotsAre
<1>4. Animations \ Called = OneShots(Open)
  <2>1. CASE place = "frame"
    <3>1. Animations \ Called = OneShots(IdsOf(l)) \ {c \in OneShots(IdsOf(l)) : c.id = running}
      BY <1>2, <2>1 DEF Called
    <3>2. OneShots(IdsOf(l) \ {running}) = OneShots(IdsOf(l)) \ {c \in OneShots(IdsOf(l)) : c.id = running}
      BY OneShotsChange
    <3>3. QED BY <2>1, <3>1, <3>2 DEF Open
  <2>2. CASE place # "frame"
    BY <1>2, <2>2 DEF Called, Open
  <2>3. QED BY <2>1, <2>2
<1>5. OpenIds = Open
  BY <1>4, OneShotsAre DEF OpenIds
<1>6. AnimationsTurn = ToSet(batch) \cap Open
  BY <1>3 DEF AnimationsTurn, Open, FramesInv
<1>7. QED BY <1>4, <1>5, <1>6 DEF AnimationsView, OpenAnimations

\* One step of the rounds of animation callbacks, or none.
AnimationsStep == AnimationRounds!RoundsNext \/ UNCHANGED <<OpenAnimations, OpenIds, AnimationsTurn>>

LEMMA NextAnimationsStep == FramesInv /\ [CallbackNext]_callbackVars => AnimationsStep
<1> SUFFICES ASSUME FramesInv, [CallbackNext]_callbackVars PROVE AnimationsStep
  OBVIOUS
<1>1. FramesInv'
  BY NextFramesInv
<1>2. AnimationsView /\ AnimationsView'
  <2>1. FramesInv' => AnimationsView'
    BY AnimationsViewed, PTL
  <2>2. QED BY <1>1, <2>1, AnimationsViewed
<1>3. /\ OpenAnimations = OneShots(Open) /\ OpenIds = Open /\ AnimationsTurn = ToSet(batch) \cap Open
      /\ OpenAnimations' = OneShots(Open') /\ OpenIds' = Open' /\ AnimationsTurn' = ToSet(batch') \cap Open'
  BY <1>2 DEF AnimationsView
<1>4. \A c \in OpenAnimations : ~c.repeat
  BY <1>3, OneShotsAre
<1>5. CASE Open' = Open /\ ToSet(batch') \cap Open = ToSet(batch) \cap Open
  BY <1>3, <1>5 DEF AnimationsStep
<1>6. ASSUME NEW id, Open' = Open \ {id}, ToSet(batch') \ {id} = ToSet(batch) \ {id}, id \in Open
      PROVE  /\ OpenAnimations' = OpenAnimations \ {c \in OpenAnimations : c.id = id}
             /\ OpenAnimations' = {c \in OpenAnimations : c.id # id}
             /\ OpenIds' = OpenIds \ {id} /\ AnimationsTurn' = AnimationsTurn \ {id}
             /\ id \in {c.id : c \in OpenAnimations}
  <2>1. /\ OneShots(Open \ {id}) = {c \in OneShots(Open) : c.id # id}
        /\ OneShots(Open \ {id}) = OneShots(Open) \ {c \in OneShots(Open) : c.id = id}
    BY OneShotsChange
  <2>2. {c.id : c \in OpenAnimations} = Open
    BY <1>3, OneShotsAre
  <2>3. AnimationsTurn' = AnimationsTurn \ {id}
    BY <1>3, <1>6
  <2>4. QED BY <1>3, <1>6, <2>1, <2>2, <2>3
<1>7. ASSUME AddAnimationFrameCallback PROVE AnimationsStep
  <2>1. /\ UNCHANGED batch
        /\ Open' = Open \/ \E id \in Ids \ Open : id \notin ToSet(batch) /\ Open' = Open \cup {id}
    BY <1>7, AnimationAdded
  <2>2. ASSUME NEW id \in Ids \ Open, id \notin ToSet(batch), Open' = Open \cup {id} PROVE AnimationsStep
    <3>1. /\ OpenAnimations' = OpenAnimations \cup {[id |-> id, repeat |-> FALSE]}
          /\ OpenIds' = OpenIds \cup {id} /\ AnimationsTurn' = AnimationsTurn
          /\ id \in Ids \ {c.id : c \in OpenAnimations}
      <4>1. OneShots(Open \cup {id}) = OneShots(Open) \cup {[id |-> id, repeat |-> FALSE]}
        BY OneShotsChange
      <4>2. {c.id : c \in OpenAnimations} = Open
        BY <1>3, OneShotsAre
      <4>3. AnimationsTurn' = AnimationsTurn
        BY <1>3, <2>1, <2>2
      <4>4. QED BY <1>3, <2>2, <4>1, <4>2, <4>3
    <3>2. AnimationRounds!Register
      BY <3>1 DEF AnimationRounds!Register, AnimationRounds!Registered, OpenAnimations, OpenIds, AnimationsTurn
    <3>3. QED BY <3>2 DEF AnimationsStep, AnimationRounds!RoundsNext
  <2>3. QED BY <1>5, <2>1, <2>2
<1>8. ASSUME NEW id, CancelAnimationFrameCallback(id) PROVE AnimationsStep
  <2>1. UNCHANGED batch /\ Open' = Open \ {id}
    BY <1>8, AnimationCancelled
  <2>2. CASE id \in Open
    <3>1. AnimationRounds!Cancel
      BY <1>6, <2>1, <2>2 DEF AnimationRounds!Cancel, AnimationRounds!Registered, AnimationRounds!Named,
        OpenAnimations, OpenIds, AnimationsTurn
    <3>2. QED BY <3>1 DEF AnimationsStep, AnimationRounds!RoundsNext
  <2>3. QED BY <1>5, <2>1, <2>2
<1>9. ASSUME PumpAnimationFrame PROVE AnimationsStep
  <2>1. ToSet(batch) = {} /\ Open' = Open
    BY <1>9, FramesBegin
  <2>2. /\ OpenAnimations' = OpenAnimations /\ OpenIds' = OpenIds /\ AnimationsTurn = {}
        /\ AnimationsTurn' \subseteq OpenIds' /\ OpenIds' = {c.id : c \in OpenAnimations}
    BY <1>3, <2>1 DEF OpenIds, OpenAnimations
  <2>3. AnimationRounds!BeginRound
    BY <2>2 DEF AnimationRounds!BeginRound, AnimationRounds!Registered, OpenAnimations, OpenIds, AnimationsTurn
  <2>4. QED BY <2>3 DEF AnimationsStep, AnimationRounds!RoundsNext
<1>10. ASSUME CallFrame PROVE AnimationsStep
  <2>1. PICK id : /\ ToSet(batch') = ToSet(batch) \ {id}
                  /\ \/ id \in Open /\ id \in ToSet(batch) /\ Open' = Open \ {id}
                     \/ id \notin Open /\ Open' = Open
    BY <1>10, FrameCalled
  <2>2. CASE id \in Open /\ id \in ToSet(batch) /\ Open' = Open \ {id}
    <3>1. id \in AnimationsTurn
      BY <1>3, <2>2
    <3>2. OpenAnimations' = {c \in OpenAnimations : c.id # id \/ c.repeat}
      BY <1>4, <1>6, <2>1, <2>2
    <3>3. AnimationRounds!Run
      BY <1>6, <2>1, <2>2, <3>1, <3>2 DEF AnimationRounds!Run, OpenAnimations, OpenIds, AnimationsTurn
    <3>4. QED BY <3>3 DEF AnimationsStep, AnimationRounds!RoundsNext
  <2>3. QED BY <1>5, <2>1, <2>2
<1>11. CASE FrameReturns \/ FramesDone
  BY <1>5, <1>11, FramesReturn, FramesAreDone
<1>12. CASE /\ UNCHANGED <<frames, batch>>
            /\ (place' = place /\ running' = running) \/ {place, place'} \cap {"frames", "frame"} = {}
  BY <1>5, <1>12 DEF Open
<1>13. CASE (\E delay \in Delays, repeat \in BOOLEAN : AddTimer(delay, repeat))
            \/ \E id \in IdsIn(timers) : ClearTimer(id)
  BY <1>12, <1>13 DEF AddTimer, ClearTimer, pumpVars
<1>14. CASE PumpTimers \/ CallTimer \/ TimerReturns \/ TimersDone
  BY <1>12, <1>14 DEF PumpTimers, CallTimer, TimerReturns, TimersDone
<1>15. CASE UNCHANGED callbackVars
  BY <1>12, <1>15 DEF callbackVars, pumpVars
<1>16. QED BY <1>7, <1>8, <1>9, <1>10, <1>11, <1>13, <1>14, <1>15 DEF CallbackNext, Script, Pump

-----------------------------------------------------------------------------
(***************************************************************************)
(* Theorems                                                                *)
(***************************************************************************)
\* Lists, walks and batches stay as the invariant has them, in every state of pump_timers and
\* pump_animation_frame and whatever scripts do between and within.
THEOREM CallbackInvariant == CallbackSpec => []CallbackInv
<1>1. CallbackInit => CallbackInv
  BY InitCallbackInv
<1>2. CallbackInv /\ [CallbackNext]_callbackVars => CallbackInv'
  BY NextTimersInv, NextFramesInv DEF CallbackInv
<1>3. QED BY <1>1, <1>2, PTL DEF CallbackSpec

LEMMA InitRounds == CallbackInit => TimerRounds!RoundsInit /\ AnimationRounds!RoundsInit
<1> SUFFICES ASSUME CallbackInit PROVE TimerRounds!RoundsInit /\ AnimationRounds!RoundsInit
  OBVIOUS
<1>1. timers = <<>> /\ frames = <<>> /\ batch = <<>> /\ place = "idle" /\ ToSet(<<>>) = {}
  BY DEF CallbackInit, ToSet
<1>2. timers \in Seq(TimerEntries) /\ frames \in Seq(FrameEntries)
  BY <1>1
<1>3. ToSet(Active(timers)) = {} /\ ToSet(Active(frames)) = {}
  BY <1>1, <1>2, ActiveIsLive DEF Live
<1>4. Timers = {} /\ Animations = {} /\ DueTimers = {}
  BY <1>1, <1>3 DEF Timers, Animations, DueTimers
<1>5. TimerRounds!RoundsInit
  BY <1>1, <1>4 DEF TimerRounds!RoundsInit, DueTimers
<1>6. AnimationRounds!RoundsInit
  BY <1>1, <1>4 DEF AnimationRounds!RoundsInit
<1>7. QED BY <1>5, <1>6

\* Timers and animation callbacks, registered and cancelled while their lists are being walked, run as
\* scripts may rely on: not after they were cleared, not in the pump in which they were added, a
\* one-shot once, none is lost.
THEOREM CallbacksKeepRounds == CallbackSpec => KeepsRounds
<1>1. CallbackInv /\ [CallbackNext]_callbackVars => [TimerRounds!RoundsNext]_(TimerRounds!roundsVars)
  BY NextTimersStep DEF CallbackInv, TimersStep, TimerRounds!roundsVars, DueTimers, TimersTurn
<1>2. CallbackInv /\ [CallbackNext]_callbackVars => [AnimationRounds!RoundsNext]_(AnimationRounds!roundsVars)
  BY NextAnimationsStep DEF CallbackInv, AnimationsStep, AnimationRounds!roundsVars,
    OpenAnimations, OpenIds, AnimationsTurn
<1>3. QED BY <1>1, <1>2, InitRounds, CallbackInvariant, PTL
  DEF CallbackSpec, KeepsRounds, TimerRounds!RoundsSpec, AnimationRounds!RoundsSpec

=============================================================================
