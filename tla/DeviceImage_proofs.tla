-------------------------- MODULE DeviceImage_proofs --------------------------
(***************************************************************************)
(* Theorems about the image on the device.  The first part is about        *)
(* DeviceInstallTransaction and the image store below it: what power       *)
(* losses and failing flash operations, between any two of them, leave of  *)
(* the library, and what the transaction and the RAM know of it.           *)
(*                                                                         *)
(* The second part is about DeviceImageEndpoint.  Flash may have defects   *)
(* there, so nothing is assumed of what a registry names: what is proved   *)
(* is what the endpoint itself sees to, whatever a boot finds.             *)
(***************************************************************************)
EXTENDS DeviceImageEndpoint, FiniteSetTheorems, TLAPS

-----------------------------------------------------------------------------
(***************************************************************************)
(* The inductive invariant of store and transaction                        *)
(***************************************************************************)
AtMostOne(S) == \A x, y \in S : x = y

Contents == [Chunks -> Bundles \cup {Erased, Torn}]
RamRegistry == [generation : 0 .. MaxGeneration, active : Record, rollback : Record]
Publications == [why : {"boot", "commit", "rollback", "remove"}, previous : Registry,
                 step : {"erase", "write"}]

\* The types, with "at most one" said of the elements and not of the cardinality.
Types ==
  /\ sectors \in [0 .. 1 -> Registry] /\ slots \in [BundleSlots -> Contents]
  /\ damage \in 0 .. MaxDamage
  /\ mode \in {"off", "booting", "on", "dead"}
  /\ registry \in RamRegistry
  /\ AtMostOne(staging) /\ staging \subseteq [slot : BundleSlots, request : InstallRequests]
  /\ AtMostOne(cache) /\ cache \subseteq [slot : BundleSlots, chunks : Contents]
  /\ AtMostOne(publishing) /\ publishing \subseteq Publications
  /\ AtMostOne(transaction)
  /\ transaction \subseteq [request : InstallRequests, received : Nat]
  /\ \A t \in transaction : t.received <= ChunksOf[t.request.bundle]

\* A valid copy lies in the sector its generation selects, so that publishing the next
\* generation erases the other one.
CopiesInPlace ==
  \A i \in 0 .. 1 : \/ sectors[i] = InvalidSector
                    \/ sectors[i].generation \in Nat /\ Target(sectors[i].generation) = i

\* What RAM holds in each mode.  A device that boots to a reset has no valid copy at all.
ModeFollows ==
  /\ mode # "on" => staging = {} /\ registry = EmptyRegistry(0)
  /\ mode = "off" => cache = {}
  /\ mode \in {"off", "dead"} => publishing = {}
  /\ mode = "booting" => Selected = InvalidSector
  /\ mode = "on" => Selected.generation \in Nat
  /\ mode = "on" /\ publishing = {} => registry = Selected

\* What a publication is about to make durable, by the operation that asked for it.
Publishes(why) ==
  CASE why = "commit" ->
         \E g \in staging :
           /\ registry.active = [slot |-> g.slot, bundle |-> g.request.bundle]
           /\ registry.rollback = Selected.active
           /\ Validates(registry.active, slots[g.slot])
           /\ ~ /\ ~g.request.allowDowngrade
                /\ Selected.active # NoRecord
                /\ AppOf[g.request.bundle] = AppOf[Selected.active.bundle]
                /\ VersionOf[g.request.bundle] < VersionOf[Selected.active.bundle]
    [] why = "rollback" ->
         /\ registry.active = Selected.rollback /\ registry.active # NoRecord
         /\ registry.rollback = Selected.active /\ registry.rollback # NoRecord
    [] why = "remove" ->
         /\ registry.active = NoRecord /\ registry.rollback = NoRecord
         /\ Selected.active # NoRecord
    [] OTHER -> FALSE

\* While a publication is under way the registry before it is the durable one.
PublicationFollows ==
  \A p \in publishing :
    \/ mode = "booting" /\ p.why = "boot" /\ p.previous = EmptyRegistry(0)
    \/ /\ mode = "on" /\ p.previous = Selected
       /\ registry.generation = Selected.generation + 1
       /\ Publishes(p.why)

\* Staged bytes lie where no record of the durable registry points.
Isolated == \A g \in staging : g.slot \notin Referenced(Durable)

\* The cache is right about every slot that is, was or will be referred to.
Coherent ==
  \A c \in cache :
    c.slot \in Referenced(Durable) \cup Referenced(registry) => c.chunks = slots[c.slot]

\* Transaction and staging are open together, at any moment.
SameInstall == {g.request : g \in staging} = {t.request : t \in transaction}

StoreInv ==
  /\ Types /\ CopiesInPlace
  /\ ModeFollows /\ PublicationFollows
  /\ DurableIsIntact /\ Isolated /\ Coherent
  /\ SameInstall /\ ReceivedIsStaged

-----------------------------------------------------------------------------
(***************************************************************************)
(* Bundles, contents of slots, and the two sectors                         *)
(***************************************************************************)
\* Every chunk of a bundle is a chunk of a slot, as the longest bundle bounds the chunks.
LEMMA BundleChunks ==
  ASSUME NEW b \in Bundles
  PROVE  ChunksOf[b] \in Nat \ {0} /\ 1 .. ChunksOf[b] \subseteq Chunks
<1> DEFINE S == {ChunksOf[c] : c \in Bundles}
           IsMax(n) == \A c \in Bundles : ChunksOf[c] <= n
<1>1. PICK longest \in Bundles : IsMax(ChunksOf[longest])
  BY ImageAssumption
<1>2. ChunksOf[longest] \in S
  OBVIOUS
<1>3. \A n \in S : n \in Nat \ {0}
  BY ImageAssumption
<1> DEFINE m == CHOOSE n \in S : IsMax(n)
<1>4. m \in S /\ IsMax(m)
  BY <1>1, <1>2
<1>5. Chunks = 1 .. m
  BY DEF Chunks
<1>6. ChunksOf[b] \in Nat \ {0} /\ ChunksOf[b] <= m
  BY <1>4, ImageAssumption
<1>7. m \in Nat
  BY <1>3, <1>4
<1> HIDE DEF m
<1>8. QED BY <1>5, <1>6, <1>7

\* Erasing and programming keep contents contents.
LEMMA ContentsStay ==
  ASSUME NEW chunks \in Contents, NEW b \in Bundles, NEW k \in Chunks, NEW n
  PROVE  /\ ErasedUpTo(chunks, n) \in Contents
         /\ [chunks EXCEPT ![k] = Torn] \in Contents
         /\ \A c \in {b, Torn} : [chunks EXCEPT ![k] = Programmed(@, c)] \in Contents
BY DEF Contents, ErasedUpTo, Programmed

LEMMA TargetAlternates ==
  ASSUME NEW g \in Nat
  PROVE  /\ Target(g) \in 0 .. 1 /\ Target(g + 1) \in 0 .. 1
         /\ Target(g + 1) # Target(g) /\ Target(g + 1) = 1 - Target(g)
BY DEF Target

\* NoRecord names no slot, and is no record of one.
LEMMA RecordSlots ==
  /\ NoRecord.slot \notin BundleSlots
  /\ \A r \in Record : r # NoRecord =>
        r.slot \in BundleSlots /\ r.bundle \in Bundles
BY DEF NoRecord, NoSlot, BundleSlots, Record

\* The copy a boot selects: a valid one wins over an invalid one and over an older one.
LEMMA SelectedCopy ==
  ASSUME Types, CopiesInPlace
  PROVE  /\ Selected \in Registry
         /\ Selected = InvalidSector \/ Selected.generation \in Nat
         /\ Selected.generation \in Nat =>
              /\ Selected = sectors[Target(Selected.generation)]
              /\ sectors[1 - Target(Selected.generation)].generation < Selected.generation
              /\ Durable = Selected
         /\ Selected = InvalidSector =>
              Durable = EmptyRegistry(0) /\ \A i \in 0 .. 1 : sectors[i] = InvalidSector
         /\ Durable \in Registry
<1>1. /\ sectors[0] \in Registry /\ sectors[1] \in Registry
      /\ \A r \in Registry : r.generation \in -1 .. MaxGeneration
  BY DEF Types, Registry
<1>2. InvalidSector.generation = -1 /\ InvalidSector \in Registry /\ EmptyRegistry(0) \in Registry
  BY ImageAssumption DEF InvalidSector, EmptyRegistry, Registry, Record
<1>3. /\ sectors[0] = InvalidSector \/ Target(sectors[0].generation) = 0
      /\ sectors[1] = InvalidSector \/ Target(sectors[1].generation) = 1
      /\ \A i \in 0 .. 1 : sectors[i] = InvalidSector \/ sectors[i].generation \in Nat
  BY DEF CopiesInPlace
<1>4. Selected \in Registry /\ (Selected = InvalidSector \/ Selected.generation \in Nat)
  BY <1>1, <1>3 DEF Selected
<1>5. ASSUME Selected.generation \in Nat
      PROVE  /\ Selected = sectors[Target(Selected.generation)]
             /\ sectors[1 - Target(Selected.generation)].generation < Selected.generation
             /\ Durable = Selected
  <2>1. Durable = Selected
    BY <1>5 DEF Durable
  <2>2. CASE sectors[0].generation >= sectors[1].generation
    <3>1. Selected = sectors[0] /\ Target(Selected.generation) = 0
      BY <2>2, <1>2, <1>3, <1>5 DEF Selected
    <3>2. sectors[1].generation # sectors[0].generation
      BY <3>1, <1>2, <1>3, <1>5
    <3>3. sectors[1].generation < sectors[0].generation
      BY <3>2, <2>2, <1>1
    <3>4. QED BY <3>1, <3>3, <2>1
  <2>3. CASE ~(sectors[0].generation >= sectors[1].generation)
    <3>1. Selected = sectors[1] /\ Target(Selected.generation) = 1
      BY <2>3, <1>2, <1>3, <1>5 DEF Selected
    <3>2. sectors[0].generation < sectors[1].generation
      BY <2>3, <1>1
    <3>3. QED BY <3>1, <3>2, <2>1
  <2>4. QED BY <2>2, <2>3
<1>6. ASSUME Selected = InvalidSector
      PROVE  Durable = EmptyRegistry(0) /\ \A i \in 0 .. 1 : sectors[i] = InvalidSector
  BY <1>1, <1>2, <1>3, <1>6 DEF Selected, Durable
<1>7. Durable \in Registry
  BY <1>2, <1>4 DEF Durable
<1>8. QED BY <1>4, <1>5, <1>6, <1>7

\* Erasing the sector of the next generation leaves the selected copy alone.
LEMMA EraseKeepsSelected ==
  ASSUME Types, CopiesInPlace, Selected.generation \in Nat,
         sectors' = [sectors EXCEPT ![Target(Selected.generation + 1)] = InvalidSector]
  PROVE  Selected' = Selected /\ CopiesInPlace'
<1> DEFINE g == Selected.generation
<1>1. /\ Selected = sectors[Target(g)] /\ sectors[1 - Target(g)].generation < g
      /\ g \in Nat
  BY SelectedCopy
<1>2. /\ Target(g) \in 0 .. 1 /\ Target(g + 1) = 1 - Target(g) /\ Target(g + 1) # Target(g)
  BY <1>1, TargetAlternates
<1>3. /\ sectors'[Target(g)] = Selected /\ sectors'[1 - Target(g)] = InvalidSector
      /\ \A i \in 0 .. 1 : i = Target(g) \/ i = 1 - Target(g)
  BY <1>1, <1>2 DEF Types
<1>4. InvalidSector.generation = -1
  BY DEF InvalidSector, EmptyRegistry
<1>5. Selected' = Selected
  <2>1. CASE Target(g) = 0
    BY <1>1, <1>3, <1>4, <2>1 DEF Selected
  <2>2. CASE Target(g) = 1
    BY <1>1, <1>3, <1>4, <2>2 DEF Selected
  <2>3. QED BY <1>2, <2>1, <2>2
<1>6. CopiesInPlace'
  BY <1>1, <1>3 DEF CopiesInPlace
<1>7. QED BY <1>5, <1>6

\* A registry of the next generation is the one selected as soon as it is written, and so
\* is the empty one that a reset writes.
LEMMA WriteSelects ==
  ASSUME Types, CopiesInPlace,
         \/ Selected.generation \in Nat /\ registry.generation = Selected.generation + 1
         \/ Selected = InvalidSector /\ registry.generation = 0,
         sectors' = [sectors EXCEPT ![Target(registry.generation)] = registry]
  PROVE  Selected' = registry /\ CopiesInPlace'
<1> DEFINE g == registry.generation
<1>1. g \in Nat
  BY DEF Types, RamRegistry
<1>2. Target(g) \in 0 .. 1 /\ Target(g) \in {0, 1}
  BY <1>1, TargetAlternates
<1>3. sectors[1 - Target(g)].generation < g /\ sectors[1 - Target(g)].generation \in Int
  <2>1. CASE Selected.generation \in Nat /\ g = Selected.generation + 1
    <3>1. Target(g) = 1 - Target(Selected.generation) /\ Target(Selected.generation) \in 0 .. 1
      BY <2>1, TargetAlternates
    <3>2. 1 - Target(g) = Target(Selected.generation)
      BY <3>1
    <3>3. Selected = sectors[Target(Selected.generation)]
      BY <2>1, SelectedCopy
    <3>4. QED BY <2>1, <3>2, <3>3
  <2>2. CASE Selected = InvalidSector
    <3>1. sectors[1 - Target(g)] = InvalidSector
      BY <2>2, <1>2, SelectedCopy
    <3>2. QED BY <1>1, <3>1 DEF InvalidSector, EmptyRegistry
  <2>3. QED BY <2>1, <2>2
<1>4. /\ sectors'[Target(g)] = registry /\ sectors'[1 - Target(g)] = sectors[1 - Target(g)]
      /\ \A i \in 0 .. 1 : i = Target(g) \/ i = 1 - Target(g)
  BY <1>2 DEF Types
<1>5. Selected' = registry
  <2>1. CASE Target(g) = 0
    BY <1>1, <1>3, <1>4, <2>1 DEF Selected
  <2>2. CASE Target(g) = 1
    BY <1>1, <1>3, <1>4, <2>2 DEF Selected
  <2>3. QED BY <1>2, <2>1, <2>2
<1>6. CopiesInPlace'
  BY <1>1, <1>2, <1>4 DEF CopiesInPlace
<1>7. QED BY <1>5, <1>6

-----------------------------------------------------------------------------
(***************************************************************************)
(* Calls that touch no registry                                            *)
(***************************************************************************)
\* What is durable stays so, and stays intact, while a call changes a slot that no record
\* of it points to; between calls the registry in RAM is that registry.
LEMMA LibraryUntouched ==
  ASSUME StoreInv, Ready, UNCHANGED <<sectors, mode, registry, publishing>>,
         \A t \in BundleSlots \cap Referenced(Durable) : slots'[t] = slots[t],
         \A g \in staging' : g.slot \notin Referenced(Durable),
         cache' \subseteq [slot : BundleSlots, chunks : Contents],
         \A c \in cache' : c.slot \in Referenced(Durable) => c.chunks = slots[c.slot]
  PROVE  /\ CopiesInPlace' /\ ModeFollows' /\ PublicationFollows'
         /\ DurableIsIntact' /\ Isolated' /\ Coherent'
<1>1. /\ Selected' = Selected /\ Durable' = Durable
      /\ mode' = "on" /\ publishing' = {}
  BY DEF Selected, Durable, Ready
<1>2. registry = Selected /\ Durable = registry /\ Durable \in Registry
  BY SelectedCopy DEF StoreInv, Ready, ModeFollows
<1>3. CopiesInPlace'
  BY DEF StoreInv, CopiesInPlace
<1>4. ModeFollows' /\ PublicationFollows'
  BY <1>1, <1>2 DEF StoreInv, ModeFollows, PublicationFollows, Ready
<1>5. DurableIsIntact'
  <2> SUFFICES ASSUME NEW r \in {Durable.active, Durable.rollback} \ {NoRecord}
               PROVE  Validates(r, slots'[r.slot])
    BY <1>1 DEF DurableIsIntact
  <2>1. r.slot \in BundleSlots /\ r.slot \in Referenced(Durable)
    BY <1>2, RecordSlots DEF Registry, Referenced
  <2>2. Validates(r, slots[r.slot]) /\ slots'[r.slot] = slots[r.slot]
    BY <2>1 DEF StoreInv, DurableIsIntact
  <2>3. QED BY <2>2
<1>6. Isolated'
  BY <1>1 DEF Isolated, Referenced
<1>7. Coherent'
  <2> SUFFICES ASSUME NEW c \in cache', c.slot \in Referenced(Durable) \cup Referenced(registry)
               PROVE  c.chunks = slots'[c.slot]
    BY <1>1 DEF Coherent, Referenced
  <2>1. c.slot \in Referenced(Durable) /\ c.slot \in BundleSlots
    BY <1>2
  <2>2. QED BY <2>1
<1>8. QED BY <1>3, <1>4, <1>5, <1>6, <1>7

\* What abort_staging leaves: contents as before but for the slot of the staging.
LEMMA StagingDropped ==
  ASSUME Types, NEW g \in staging, NEW contents \in [BundleSlots -> Contents],
         \A t \in BundleSlots \ {g.slot} : contents[t] = slots[t],
         DropStaging(contents)
  PROVE  /\ staging' = {} /\ slots' \in [BundleSlots -> Contents]
         /\ \A t \in BundleSlots \ {g.slot} : slots'[t] = slots[t]
<1>1. g.slot \in BundleSlots /\ \A h \in staging : h = g
  BY DEF Types, AtMostOne
<1>2. ErasedUpTo(contents[g.slot], ChunksOf[g.request.bundle]) \in Contents
  BY <1>1 DEF Contents, ErasedUpTo
<1>3. QED BY <1>1, <1>2 DEF DropStaging

\* A call that ends the install in whatever way drops staging and transaction together.
LEMMA InstallDropped ==
  ASSUME StoreInv, Ready, UNCHANGED <<sectors, damage, mode, registry, publishing>>,
         NEW g \in staging, NEW contents \in [BundleSlots -> Contents],
         \A t \in BundleSlots \ {g.slot} : contents[t] = slots[t],
         DropStaging(contents), transaction' = {},
         cache' = cache \/ cache' = Cached(g.slot, slots[g.slot])
  PROVE  StoreInv'
<1>1. /\ staging' = {} /\ slots' \in [BundleSlots -> Contents]
      /\ \A t \in BundleSlots \ {g.slot} : slots'[t] = slots[t]
  BY StagingDropped DEF StoreInv
<1>2. g.slot \in BundleSlots /\ g.slot \notin Referenced(Durable)
  BY DEF StoreInv, Types, Isolated
<1>3. /\ AtMostOne(cache') /\ cache' \subseteq [slot : BundleSlots, chunks : Contents]
      /\ \A c \in cache' : c.slot \in Referenced(Durable) => c.chunks = slots[c.slot]
  <2>1. CASE cache' = cache
    BY <2>1 DEF StoreInv, Types, Coherent
  <2>2. CASE cache' = Cached(g.slot, slots[g.slot])
    <3>1. slots[g.slot] \in Contents
      BY <1>2 DEF StoreInv, Types
    <3>2. cache' = {[slot |-> g.slot, chunks |-> slots[g.slot]]}
      BY <2>2 DEF Cached
    <3>3. AtMostOne(cache')
      BY <3>2 DEF AtMostOne
    <3>4. QED BY <1>2, <3>1, <3>2, <3>3
  <2>3. QED BY <2>1, <2>2
<1>4. /\ CopiesInPlace' /\ ModeFollows' /\ PublicationFollows'
      /\ DurableIsIntact' /\ Isolated' /\ Coherent'
  BY <1>1, <1>2, <1>3, LibraryUntouched
<1>5. Types'
  <2>1. AtMostOne(staging') /\ AtMostOne(transaction')
    BY <1>1 DEF AtMostOne
  <2>2. QED BY <1>1, <1>3, <2>1 DEF StoreInv, Types
<1>6. SameInstall' /\ ReceivedIsStaged'
  BY <1>1 DEF SameInstall, ReceivedIsStaged
<1>7. QED BY <1>4, <1>5, <1>6 DEF StoreInv

\* begin opens a staging in a slot that nothing refers to, and erases it.
LEMMA BeginKeeps ==
  ASSUME StoreInv, NEW request \in InstallRequests, Begin(request)
  PROVE  StoreInv'
<1> DEFINE b == request.bundle
<1>1. /\ Ready /\ staging = {} /\ transaction = {}
      /\ UNCHANGED <<sectors, damage, mode, registry, cache, publishing>>
      /\ transaction' = {[request |-> request, received |-> 0]}
  BY DEF Begin, BeginStaging
<1>2. PICK s \in FreeSlots :
        /\ slots' = [slots EXCEPT ![s] = ErasedUpTo(@, ChunksOf[b])]
        /\ staging' = {[slot |-> s, request |-> request]}
  BY DEF Begin, BeginStaging
<1>3. b \in Bundles
  BY ImageAssumption
<1>4. Durable = registry
  BY <1>1, SelectedCopy DEF StoreInv, Ready, ModeFollows
<1>5. s \in BundleSlots /\ s \notin Referenced(Durable)
  BY <1>4 DEF FreeSlots
<1>6. slots \in [BundleSlots -> Contents]
  BY DEF StoreInv, Types
<1>7. ErasedUpTo(slots[s], ChunksOf[b]) \in Contents
  BY <1>5, <1>6 DEF Contents, ErasedUpTo
<1>8. /\ slots' \in [BundleSlots -> Contents]
      /\ \A t \in BundleSlots \ {s} : slots'[t] = slots[t]
      /\ slots'[s] = ErasedUpTo(slots[s], ChunksOf[b])
  BY <1>2, <1>5, <1>6, <1>7
<1>9. /\ cache' = cache
      /\ \A c \in cache : c.slot \in Referenced(Durable) => c.chunks = slots[c.slot]
  BY <1>1 DEF StoreInv, Coherent
<1>10. /\ CopiesInPlace' /\ ModeFollows' /\ PublicationFollows'
       /\ DurableIsIntact' /\ Isolated' /\ Coherent'
  <2>1. \A g \in staging' : g.slot \notin Referenced(Durable)
    BY <1>2, <1>5
  <2>2. cache' \subseteq [slot : BundleSlots, chunks : Contents]
    BY <1>9 DEF StoreInv, Types
  <2>3. QED BY <1>1, <1>5, <1>8, <1>9, <2>1, <2>2, LibraryUntouched
<1>11. Types'
  <2>1. 0 <= ChunksOf[b] /\ 0 \in Nat
    BY <1>3, BundleChunks
  <2>2. /\ AtMostOne(staging') /\ staging' \subseteq [slot : BundleSlots, request : InstallRequests]
        /\ AtMostOne(transaction')
        /\ transaction' \subseteq [request : InstallRequests, received : Nat]
        /\ \A t \in transaction' : t.received <= ChunksOf[t.request.bundle]
    <3>1. AtMostOne(staging') /\ AtMostOne(transaction')
      BY <1>1, <1>2 DEF AtMostOne
    <3>2. /\ [slot |-> s, request |-> request] \in [slot : BundleSlots, request : InstallRequests]
          /\ [request |-> request, received |-> 0] \in [request : InstallRequests, received : Nat]
      BY <1>5
    <3>3. QED BY <1>1, <1>2, <2>1, <3>1, <3>2
  <2>3. QED BY <1>1, <1>8, <2>2 DEF StoreInv, Types
<1>12. SameInstall'
  BY <1>1, <1>2 DEF SameInstall
<1>13. ReceivedIsStaged'
  <2> SUFFICES ASSUME NEW k \in 1 .. ChunksOf[b]
               PROVE  k <= 0 <=> slots'[s][k] # Erased
    BY <1>1, <1>2 DEF ReceivedIsStaged
  <2>1. k \in Chunks /\ ChunksOf[b] \in Nat
    BY <1>3, BundleChunks
  <2>2. slots'[s][k] = Erased /\ ~(k <= 0)
    BY <1>8, <2>1 DEF ErasedUpTo
  <2>3. QED BY <2>2
<1>14. QED BY <1>10, <1>11, <1>12, <1>13 DEF StoreInv

\* append writes the next chunk of the staging, right or wrong bytes.
LEMMA AppendKeeps ==
  ASSUME StoreInv, NEW tx, NEW k \in Chunks, AppendChunk(tx, k)
  PROVE  StoreInv'
<1>1. PICK t \in transaction :
        /\ InOrder(t, tx, k) /\ transaction' = {[t EXCEPT !.received = @ + 1]}
        /\ WriteStaging(k, t.request.bundle) \/ WriteStaging(k, Torn)
  BY DEF AppendChunk
<1>2. PICK chunk \in {t.request.bundle, Torn} : WriteStaging(k, chunk)
  BY <1>1
<1>3. PICK g \in staging : slots' = [slots EXCEPT ![g.slot][k] = Programmed(@, chunk)]
  BY <1>2 DEF WriteStaging
<1>4. Ready /\ UNCHANGED <<sectors, damage, mode, registry, staging, cache, publishing>>
  BY <1>2 DEF WriteStaging
<1>5. /\ t \in [request : InstallRequests, received : Nat]
      /\ g \in [slot : BundleSlots, request : InstallRequests]
      /\ staging = {g} /\ transaction = {t}
      /\ slots \in [BundleSlots -> Contents]
  BY DEF StoreInv, Types, AtMostOne
<1>6. g.request = t.request
  BY <1>5 DEF StoreInv, SameInstall
<1> DEFINE b == t.request.bundle
<1>7. b \in Bundles /\ ChunksOf[b] \in Nat \ {0} /\ 1 .. ChunksOf[b] \subseteq Chunks
  BY <1>5, BundleChunks, ImageAssumption
<1>8. k = t.received + 1 /\ t.received < ChunksOf[b]
  BY <1>1 DEF InOrder
<1>9. [slots[g.slot] EXCEPT ![k] = Programmed(@, chunk)] \in Contents
  BY <1>5, <1>7, ContentsStay
<1>10. /\ slots' \in [BundleSlots -> Contents]
       /\ \A s \in BundleSlots \ {g.slot} : slots'[s] = slots[s]
       /\ slots'[g.slot] = [slots[g.slot] EXCEPT ![k] = Programmed(@, chunk)]
  BY <1>3, <1>5, <1>9
<1>11. g.slot \notin Referenced(Durable)
  BY DEF StoreInv, Isolated
<1>12. /\ CopiesInPlace' /\ ModeFollows' /\ PublicationFollows'
       /\ DurableIsIntact' /\ Isolated' /\ Coherent'
  <2>1. \A h \in staging' : h.slot \notin Referenced(Durable)
    BY <1>4, <1>5, <1>11
  <2>2. /\ cache' \subseteq [slot : BundleSlots, chunks : Contents]
        /\ \A c \in cache' : c.slot \in Referenced(Durable) => c.chunks = slots[c.slot]
    BY <1>4 DEF StoreInv, Types, Coherent
  <2>3. QED BY <1>4, <1>10, <1>11, <2>1, <2>2, LibraryUntouched
<1>13. Types'
  <2>1. t.received + 1 \in Nat /\ t.received + 1 <= ChunksOf[b]
    BY <1>5, <1>7, <1>8
  <2>2. transaction' = {[request |-> t.request, received |-> t.received + 1]}
    BY <1>1, <1>5
  <2>3. /\ AtMostOne(transaction')
        /\ transaction' \subseteq [request : InstallRequests, received : Nat]
        /\ \A u \in transaction' : u.received <= ChunksOf[u.request.bundle]
    <3>1. AtMostOne(transaction')
      BY <2>2 DEF AtMostOne
    <3>2. [request |-> t.request, received |-> t.received + 1]
            \in [request : InstallRequests, received : Nat]
      BY <1>5, <2>1
    <3>3. QED BY <2>1, <2>2, <3>1, <3>2
  <2>4. QED BY <1>4, <1>10, <2>3 DEF StoreInv, Types
<1>14. SameInstall'
  BY <1>1, <1>4, <1>5, <1>6 DEF SameInstall
<1>15. ReceivedIsStaged'
  <2> SUFFICES ASSUME NEW j \in 1 .. ChunksOf[b]
               PROVE  j <= t.received + 1 <=> slots'[g.slot][j] # Erased
    BY <1>1, <1>4, <1>5 DEF ReceivedIsStaged
  <2>1. j <= t.received <=> slots[g.slot][j] # Erased
    BY <1>5 DEF StoreInv, ReceivedIsStaged
  <2>2. j \in Chunks /\ slots[g.slot] \in Contents /\ j \in Nat /\ t.received \in Nat
    BY <1>5, <1>7
  <2>3. CASE j = k
    <3>1. slots'[g.slot][j] = Programmed(slots[g.slot][j], chunk)
      BY <1>10, <2>2, <2>3 DEF Contents
    <3>2. chunk # Erased /\ Torn # Erased
      BY <1>7, ImageAssumption
    <3>3. slots'[g.slot][j] # Erased
      BY <3>1, <3>2 DEF Programmed
    <3>4. QED BY <3>3, <2>2, <2>3, <1>8
  <2>4. CASE j # k
    <3>1. slots'[g.slot][j] = slots[g.slot][j]
      BY <1>10, <2>2, <2>4 DEF Contents
    <3>2. QED BY <3>1, <2>1, <2>2, <2>4, <1>8
  <2>5. QED BY <2>3, <2>4
<1>16. QED BY <1>12, <1>13, <1>14, <1>15 DEF StoreInv

\* write_staging fails half-way.
LEMMA AppendFailsKeeps ==
  ASSUME StoreInv, NEW tx, NEW k \in Chunks, AppendFails(tx, k)
  PROVE  StoreInv'
<1>1. PICK g \in staging : DropStaging([slots EXCEPT ![g.slot][k] = Torn])
  BY DEF AppendFails, WriteStagingFails
<1>2. /\ Ready /\ UNCHANGED <<sectors, damage, mode, registry, cache, publishing>>
      /\ transaction' = {}
  BY DEF AppendFails, WriteStagingFails
<1>3. slots \in [BundleSlots -> Contents] /\ g.slot \in BundleSlots
  BY DEF StoreInv, Types
<1>4. [slots[g.slot] EXCEPT ![k] = Torn] \in Contents
  BY <1>3 DEF Contents
<1>5. /\ [slots EXCEPT ![g.slot][k] = Torn] \in [BundleSlots -> Contents]
      /\ \A t \in BundleSlots \ {g.slot} : [slots EXCEPT ![g.slot][k] = Torn][t] = slots[t]
  BY <1>3, <1>4
<1>6. QED BY <1>1, <1>2, <1>5, InstallDropped

\* verify_staging refuses what is staged; abort, or the transport breaks off.
LEMMA RejectOrAbortKeeps ==
  ASSUME StoreInv, NEW tx, CommitRejected(tx) \/ Abort(tx)
  PROVE  StoreInv'
<1>1. slots \in [BundleSlots -> Contents]
  BY DEF StoreInv, Types
<1>2. /\ Ready /\ UNCHANGED <<sectors, damage, mode, registry, publishing>>
      /\ transaction' = {} /\ DropStaging(slots)
  BY DEF CommitRejected, VerifyRejects, Abort, AbortStaging
<1>3. PICK g \in staging : cache' = cache \/ cache' = Cached(g.slot, slots[g.slot])
  BY DEF CommitRejected, VerifyRejects, Abort, AbortStaging, ReadStaging
<1>4. QED BY <1>1, <1>2, <1>3, InstallDropped

-----------------------------------------------------------------------------
(***************************************************************************)
(* Calls on the installed App, and the start of a publication              *)
(***************************************************************************)
\* While the device is on, the selected copy is the durable registry, and it is valid.
LEMMA CopyWhileOn ==
  ASSUME StoreInv, mode = "on"
  PROVE  /\ Durable = Selected /\ Selected \in RamRegistry /\ Selected.generation \in Nat
         /\ publishing = {} => registry = Selected
<1>1. Selected.generation \in Nat
  BY DEF StoreInv, ModeFollows
<1>2. Selected \in Registry /\ Durable = Selected
  BY <1>1, SelectedCopy DEF StoreInv
<1>3. Selected \in RamRegistry
  BY <1>1, <1>2, ImageAssumption DEF Registry, RamRegistry
<1>4. QED BY <1>1, <1>2, <1>3 DEF StoreInv, ModeFollows

\* What a call reads of a slot the registry refers to is what flash holds.
LEMMA ReadsAreTrue ==
  ASSUME StoreInv, NEW s \in BundleSlots, s \in Referenced(Durable)
  PROVE  ReadSlot(s) = slots[s] /\ slots[s] \in Contents
<1>1. slots[s] \in Contents
  BY DEF StoreInv, Types
<1>2. \A c \in cache : c.slot = s => c.chunks = slots[s]
  BY DEF StoreInv, Coherent
<1>3. CASE \E c \in cache : c.slot = s
  BY <1>1, <1>2, <1>3 DEF ReadSlot
<1>4. CASE ~ \E c \in cache : c.slot = s
  BY <1>1, <1>4 DEF ReadSlot
<1>5. QED BY <1>3, <1>4

\* A cached slot is a cache.
LEMMA CachedIsCache ==
  ASSUME NEW s \in BundleSlots, NEW chunks \in Contents
  PROVE  /\ AtMostOne(Cached(s, chunks))
         /\ Cached(s, chunks) \subseteq [slot : BundleSlots, chunks : Contents]
         /\ \A c \in Cached(s, chunks) : c.slot = s /\ c.chunks = chunks
<1>1. AtMostOne(Cached(s, chunks))
  BY DEF AtMostOne, Cached
<1>2. [slot |-> s, chunks |-> chunks] \in [slot : BundleSlots, chunks : Contents]
  OBVIOUS
<1>3. QED BY <1>1, <1>2 DEF Cached

\* acquire_installed_bundle moves the cache only.
LEMMA AcquireKeeps ==
  ASSUME StoreInv, NEW app, AcquireInstalledBundle(app), UNCHANGED transaction
  PROVE  StoreInv'
<1>1. /\ Ready /\ Installed(app)
      /\ UNCHANGED <<sectors, slots, damage, mode, registry, staging, publishing>>
      /\ cache' = Cached(registry.active.slot, ReadSlot(registry.active.slot))
  BY DEF AcquireInstalledBundle, Inspect, flashVars
<1>2. registry = Durable /\ registry \in RamRegistry
  BY <1>1, CopyWhileOn DEF Ready
<1> DEFINE s == registry.active.slot
<1>3. s \in BundleSlots /\ s \in Referenced(Durable)
  BY <1>1, <1>2, RecordSlots DEF Installed, Referenced, RamRegistry
<1>4. cache' = Cached(s, slots[s]) /\ slots[s] \in Contents
  BY <1>1, <1>3, ReadsAreTrue
<1>5. /\ AtMostOne(cache') /\ cache' \subseteq [slot : BundleSlots, chunks : Contents]
      /\ \A c \in cache' : c.chunks = slots[c.slot]
  BY <1>3, <1>4, CachedIsCache
<1>6. /\ CopiesInPlace' /\ ModeFollows' /\ PublicationFollows'
      /\ DurableIsIntact' /\ Isolated' /\ Coherent'
  <2>2. \A g \in staging' : g.slot \notin Referenced(Durable)
    BY <1>1 DEF StoreInv, Isolated
  <2>3. QED BY <1>1, <1>5, <2>2, LibraryUntouched
<1>7. Types'
  BY <1>1, <1>5 DEF StoreInv, Types
<1>8. SameInstall' /\ ReceivedIsStaged'
  BY <1>1 DEF StoreInv, SameInstall, ReceivedIsStaged
<1>9. QED BY <1>6, <1>7, <1>8 DEF StoreInv

\* A publication starts with the next generation in RAM and flash as it was.
LEMMA StartKeeps ==
  ASSUME StoreInv, Ready, UNCHANGED <<sectors, slots, damage, mode, staging, transaction>>,
         NEW next, NEW why \in {"commit", "rollback", "remove"}, StartPublish(next, why),
         next.generation = registry.generation + 1,
         next = [generation |-> next.generation, active |-> next.active,
                 rollback |-> next.rollback],
         next.active \in Record, next.rollback \in Record, Publishes(why)',
         AtMostOne(cache'), cache' \subseteq [slot : BundleSlots, chunks : Contents],
         \A c \in cache' : c.slot \in Referenced(Durable) \cup Referenced(next)
                             => c.chunks = slots[c.slot]
  PROVE  StoreInv'
<1>1. mode = "on" /\ publishing = {} /\ mode' = "on"
  BY DEF Ready
<1>2. /\ Selected' = Selected /\ Durable' = Durable
      /\ registry = Selected /\ Durable = Selected /\ Selected \in RamRegistry
      /\ Selected.generation \in Nat
  BY <1>1, CopyWhileOn DEF Selected, Durable
<1>3. /\ registry.generation < MaxGeneration /\ registry' = next
      /\ publishing' = {[why |-> why, previous |-> registry, step |-> "erase"]}
  BY DEF StartPublish
<1>4. next \in RamRegistry
  BY <1>2, <1>3, ImageAssumption DEF RamRegistry
<1>5. Types'
  <2>1. registry \in Registry
    BY <1>2 DEF RamRegistry, Registry
  <2>2. [why |-> why, previous |-> registry, step |-> "erase"] \in Publications
    BY <2>1 DEF Publications
  <2>3. AtMostOne(publishing') /\ publishing' \subseteq Publications
    BY <1>3, <2>2 DEF AtMostOne
  <2>4. QED BY <1>3, <1>4, <2>3 DEF StoreInv, Types
<1>6. CopiesInPlace'
  BY DEF StoreInv, CopiesInPlace
<1>7. ModeFollows'
  BY <1>1, <1>2, <1>3 DEF ModeFollows
<1>8. PublicationFollows'
  BY <1>1, <1>2, <1>3 DEF PublicationFollows
<1>9. DurableIsIntact' /\ Isolated'
  BY <1>2 DEF StoreInv, DurableIsIntact, Isolated, Referenced
<1>10. Coherent'
  BY <1>2, <1>3 DEF Coherent, Referenced
<1>11. SameInstall' /\ ReceivedIsStaged'
  BY DEF StoreInv, SameInstall, ReceivedIsStaged
<1>12. QED BY <1>5, <1>6, <1>7, <1>8, <1>9, <1>10, <1>11 DEF StoreInv

\* rollback publishes the two records the other way round, or finds the retained bundle bad.
LEMMA RollbackKeeps ==
  ASSUME StoreInv, NEW app, Rollback(app), UNCHANGED transaction
  PROVE  StoreInv'
<1> DEFINE s == registry.rollback.slot
           next == [generation |-> registry.generation + 1,
                    active |-> registry.rollback, rollback |-> registry.active]
<1>1. /\ Ready /\ Installed(app) /\ registry.rollback # NoRecord
      /\ UNCHANGED <<sectors, slots, damage, mode, staging>>
      /\ cache' = Cached(s, ReadSlot(s))
      /\ StartPublish(next, "rollback") \/ UNCHANGED <<registry, publishing>>
  BY DEF Rollback, Inspect, flashVars
<1>2. registry = Durable /\ registry = Selected /\ registry \in RamRegistry
  BY <1>1, CopyWhileOn DEF Ready
<1>3. s \in BundleSlots /\ s \in Referenced(Durable)
  BY <1>1, <1>2, RecordSlots DEF Referenced, RamRegistry
<1>4. cache' = Cached(s, slots[s]) /\ slots[s] \in Contents
  BY <1>1, <1>3, ReadsAreTrue
<1>5. /\ AtMostOne(cache') /\ cache' \subseteq [slot : BundleSlots, chunks : Contents]
      /\ \A c \in cache' : c.chunks = slots[c.slot]
  BY <1>3, <1>4, CachedIsCache
<1>6. CASE StartPublish(next, "rollback")
  <2>1. next.active \in Record /\ next.rollback \in Record
    BY <1>2 DEF RamRegistry
  <2>2. registry' = next /\ Selected' = Selected
    BY <1>1, <1>6 DEF StartPublish, Selected
  <2>3. Publishes("rollback")'
    BY <1>1, <1>2, <2>2 DEF Publishes, Installed
  <2>4. QED BY <1>1, <1>5, <1>6, <2>1, <2>3, StartKeeps
<1>7. CASE UNCHANGED <<registry, publishing>>
  <2>2. \A g \in staging' : g.slot \notin Referenced(Durable)
    BY <1>1 DEF StoreInv, Isolated
  <2>3. /\ CopiesInPlace' /\ ModeFollows' /\ PublicationFollows'
        /\ DurableIsIntact' /\ Isolated' /\ Coherent'
    BY <1>1, <1>5, <1>7, <2>2, LibraryUntouched
  <2>4. Types'
    BY <1>1, <1>5, <1>7 DEF StoreInv, Types
  <2>5. SameInstall' /\ ReceivedIsStaged'
    BY <1>1 DEF StoreInv, SameInstall, ReceivedIsStaged
  <2>6. QED BY <2>3, <2>4, <2>5 DEF StoreInv
<1>8. QED BY <1>1, <1>6, <1>7

\* remove publishes an empty registry.
LEMMA RemoveKeeps ==
  ASSUME StoreInv, NEW app, Remove(app), UNCHANGED transaction
  PROVE  StoreInv'
<1> DEFINE next == EmptyRegistry(registry.generation + 1)
<1>1. /\ Ready /\ registry.active # NoRecord /\ StartPublish(next, "remove")
      /\ UNCHANGED <<sectors, slots, damage, mode, staging, cache>>
  BY DEF Remove, Installed, flashVars
<1>2. registry = Durable /\ registry = Selected
  BY <1>1, CopyWhileOn DEF Ready
<1>3. /\ next.generation = registry.generation + 1
      /\ next = [generation |-> next.generation, active |-> next.active,
                 rollback |-> next.rollback]
      /\ next.active = NoRecord /\ next.rollback = NoRecord /\ NoRecord \in Record
  BY DEF EmptyRegistry, Record
<1>4. registry' = next /\ Selected' = Selected
  BY <1>1 DEF StartPublish, Selected
<1>5. Publishes("remove")'
  BY <1>1, <1>2, <1>3, <1>4 DEF Publishes
<1>6. /\ AtMostOne(cache') /\ cache' \subseteq [slot : BundleSlots, chunks : Contents]
      /\ \A c \in cache' : c.slot \in Referenced(Durable) => c.chunks = slots[c.slot]
  BY <1>1 DEF StoreInv, Types, Coherent
<1>7. \A c \in cache' : c.slot \notin Referenced(next)
  BY <1>3, <1>6, RecordSlots DEF Referenced
<1>8. QED BY <1>1, <1>3, <1>5, <1>6, <1>7, StartKeeps

\* commit verifies what is staged and starts to publish it.
LEMMA CommitKeeps ==
  ASSUME StoreInv, NEW tx, Commit(tx)
  PROVE  StoreInv'
<1>1. PICK g \in staging :
        /\ Verifies(g) /\ cache' = Cached(g.slot, slots[g.slot])
        /\ StartPublish(Committed(g), "commit")
  BY DEF Commit, CommitStaging, ReadStaging
<1>2. /\ Ready
      /\ UNCHANGED <<sectors, slots, damage, mode, staging, transaction>>
  BY DEF Commit, CommitStaging, flashVars
<1>3. registry = Durable /\ registry = Selected /\ registry \in RamRegistry
  BY <1>2, CopyWhileOn DEF Ready
<1> DEFINE next == Committed(g)
<1>4. g.slot \in BundleSlots /\ g.request.bundle \in Bundles /\ slots[g.slot] \in Contents
  BY ImageAssumption DEF StoreInv, Types
<1>5. /\ next.generation = registry.generation + 1
      /\ next = [generation |-> next.generation, active |-> next.active,
                 rollback |-> next.rollback]
      /\ next.active = [slot |-> g.slot, bundle |-> g.request.bundle]
      /\ next.rollback = registry.active
  BY DEF Committed
<1>6. next.active \in Record /\ next.rollback \in Record
  BY <1>3, <1>4, <1>5 DEF RamRegistry, Record
<1>7. /\ AtMostOne(cache') /\ cache' \subseteq [slot : BundleSlots, chunks : Contents]
      /\ \A c \in cache' : c.chunks = slots[c.slot]
  BY <1>1, <1>4, CachedIsCache
<1>8. registry' = next /\ Selected' = Selected /\ staging' = staging /\ slots' = slots
  BY <1>1, <1>2 DEF StartPublish, Selected
<1>9. Publishes("commit")'
  <2>1. Validates(next.active, slots[g.slot])
    BY <1>1, <1>5 DEF Verifies, Validates, ReadStaging
  <2>2. ~ /\ ~g.request.allowDowngrade
          /\ Selected.active # NoRecord
          /\ AppOf[g.request.bundle] = AppOf[Selected.active.bundle]
          /\ VersionOf[g.request.bundle] < VersionOf[Selected.active.bundle]
    BY <1>1, <1>3 DEF Verifies, Downgrades
  <2>3. next.rollback = Selected.active
    BY <1>3, <1>5
  <2>4. QED BY <1>5, <1>8, <2>1, <2>2, <2>3 DEF Publishes
<1>10. QED BY <1>1, <1>2, <1>5, <1>6, <1>7, <1>9, StartKeeps

-----------------------------------------------------------------------------
(***************************************************************************)
(* The flash operations of a publication                                   *)
(***************************************************************************)
\* The erase takes the copy that is not selected, and a reset has none to lose.
LEMMA EraseKeepsCopy ==
  ASSUME StoreInv, EraseSector
  PROVE  Selected' = Selected /\ Durable' = Durable /\ CopiesInPlace'
<1>1. PICK p \in publishing :
        sectors' = [sectors EXCEPT ![Target(registry.generation)] = InvalidSector]
  BY DEF EraseSector
<1>2. sectors \in [0 .. 1 -> Registry]
  BY DEF StoreInv, Types
<1>3. Selected' = Selected /\ CopiesInPlace'
  <2>1. CASE mode = "booting" /\ p.why = "boot" /\ p.previous = EmptyRegistry(0)
    <3>1. \A i \in 0 .. 1 : sectors[i] = InvalidSector
      BY <2>1, SelectedCopy DEF StoreInv, ModeFollows
    <3>2. sectors' = sectors
      BY <1>1, <1>2, <3>1
    <3>3. QED BY <3>2 DEF StoreInv, Selected, CopiesInPlace
  <2>2. CASE mode = "on" /\ registry.generation = Selected.generation + 1
    BY <1>1, <2>2, CopyWhileOn, EraseKeepsSelected DEF StoreInv
  <2>3. QED BY <2>1, <2>2 DEF StoreInv, PublicationFollows
<1>4. QED BY <1>3 DEF Durable

LEMMA EraseKeeps ==
  ASSUME StoreInv, EraseSector, UNCHANGED transaction
  PROVE  StoreInv'
<1>1. PICK p \in publishing :
        /\ p.step = "erase" /\ publishing' = {[p EXCEPT !.step = "write"]}
        /\ sectors' = [sectors EXCEPT ![Target(registry.generation)] = InvalidSector]
        /\ UNCHANGED <<slots, damage, mode, registry, staging, cache>>
  BY DEF EraseSector
<1>2. p \in Publications /\ sectors \in [0 .. 1 -> Registry]
  BY DEF StoreInv, Types
<1>3. Selected' = Selected /\ Durable' = Durable /\ CopiesInPlace'
  BY EraseKeepsCopy
<1>4. publishing' = {[why |-> p.why, previous |-> p.previous, step |-> "write"]}
  BY <1>1, <1>2 DEF Publications
<1>5. Types'
  <2>1. InvalidSector \in Registry
    BY ImageAssumption DEF InvalidSector, EmptyRegistry, Registry, Record
  <2>2. sectors' \in [0 .. 1 -> Registry]
    BY <1>1, <1>2, <2>1
  <2>3. AtMostOne(publishing')
    BY <1>4 DEF AtMostOne
  <2>4. publishing' \subseteq Publications
    BY <1>2, <1>4 DEF Publications
  <2>5. QED BY <1>1, <2>2, <2>3, <2>4 DEF StoreInv, Types
<1>6. ModeFollows'
  BY <1>1, <1>3 DEF StoreInv, ModeFollows
<1>7. PublicationFollows'
  <2>1. \/ mode = "booting" /\ p.why = "boot" /\ p.previous = EmptyRegistry(0)
        \/ /\ mode = "on" /\ p.previous = Selected
           /\ registry.generation = Selected.generation + 1
           /\ Publishes(p.why)
    BY DEF StoreInv, PublicationFollows
  <2>2. Publishes(p.why) => Publishes(p.why)'
    BY <1>1, <1>3 DEF Publishes
  <2>3. QED BY <1>1, <1>3, <1>4, <2>1, <2>2 DEF PublicationFollows
<1>8. DurableIsIntact' /\ Isolated' /\ Coherent'
  BY <1>1, <1>3 DEF StoreInv, DurableIsIntact, Isolated, Coherent, Referenced
<1>9. SameInstall' /\ ReceivedIsStaged'
  BY <1>1 DEF StoreInv, SameInstall, ReceivedIsStaged
<1>10. QED BY <1>3, <1>5, <1>6, <1>7, <1>8, <1>9 DEF StoreInv

\* What WriteSector does, whoever asked for it.
WroteSector(p) ==
  /\ sectors' = [sectors EXCEPT ![Target(registry.generation)] = registry]
  /\ publishing' = {} /\ mode' = "on"
  /\ UNCHANGED <<damage, registry, cache>>
  /\ p \in publishing

\* After the write the copy in RAM is the durable one.
LEMMA WrittenIsSelected ==
  ASSUME StoreInv, NEW p, WroteSector(p)
  PROVE  /\ Selected' = registry /\ Durable' = registry /\ registry.generation \in Nat
         /\ sectors' \in [0 .. 1 -> Registry]
         /\ CopiesInPlace' /\ ModeFollows' /\ PublicationFollows'
<1>1. registry \in RamRegistry /\ registry.generation \in Nat /\ registry \in Registry
  BY ImageAssumption DEF StoreInv, Types, RamRegistry, Registry
<1>2. \/ Selected.generation \in Nat /\ registry.generation = Selected.generation + 1
      \/ Selected = InvalidSector /\ registry.generation = 0
  <2>1. CASE mode = "booting"
    BY <2>1 DEF StoreInv, ModeFollows, EmptyRegistry
  <2>2. CASE mode = "on" /\ registry.generation = Selected.generation + 1
    BY <2>2, CopyWhileOn
  <2>3. QED BY <2>1, <2>2 DEF StoreInv, PublicationFollows, WroteSector
<1>3. Selected' = registry /\ CopiesInPlace'
  BY <1>2, WriteSelects DEF StoreInv, WroteSector
<1>4. Durable' = registry
  BY <1>1, <1>3 DEF Durable
<1>5. sectors' \in [0 .. 1 -> Registry]
  BY <1>1 DEF StoreInv, Types, WroteSector
<1>6. ModeFollows' /\ PublicationFollows'
  BY <1>1, <1>3 DEF ModeFollows, PublicationFollows, WroteSector
<1>7. QED BY <1>1, <1>3, <1>4, <1>5, <1>6

\* The end of commit: the staged bundle is the active one, and nothing is staged any more.
LEMMA WriteCommitKeeps ==
  ASSUME StoreInv, NEW p, WroteSector(p), p.why = "commit",
         slots' = slots, staging' = {}, transaction' = {}
  PROVE  StoreInv'
<1>1. /\ Selected' = registry /\ Durable' = registry /\ sectors' \in [0 .. 1 -> Registry]
      /\ CopiesInPlace' /\ ModeFollows' /\ PublicationFollows'
  BY WrittenIsSelected
<1>2. mode = "on" /\ Publishes("commit")
  BY DEF StoreInv, PublicationFollows, WroteSector
<1>3. PICK g \in staging :
        /\ registry.active = [slot |-> g.slot, bundle |-> g.request.bundle]
        /\ registry.rollback = Selected.active
        /\ Validates(registry.active, slots[g.slot])
  BY <1>2 DEF Publishes
<1>4. DurableIsIntact'
  <2>1. registry.active # NoRecord => Validates(registry.active, slots[registry.active.slot])
    BY <1>3
  <2>2. registry.rollback # NoRecord
          => Validates(registry.rollback, slots[registry.rollback.slot])
    BY <1>2, <1>3, CopyWhileOn DEF StoreInv, DurableIsIntact
  <2>3. QED BY <1>1, <2>1, <2>2 DEF DurableIsIntact
<1>5. Types'
  <2>1. AtMostOne({})
    BY DEF AtMostOne
  <2>2. QED BY <1>1, <2>1 DEF StoreInv, Types, WroteSector
<1>6. Isolated' /\ SameInstall' /\ ReceivedIsStaged'
  BY DEF Isolated, SameInstall, ReceivedIsStaged
<1>7. Coherent'
  BY <1>1 DEF StoreInv, Coherent, WroteSector
<1>8. QED BY <1>1, <1>4, <1>5, <1>6, <1>7 DEF StoreInv

\* The end of a rollback or a reset: slots and staging stay.
LEMMA WriteOtherKeeps ==
  ASSUME StoreInv, NEW p, WroteSector(p), p.why \in {"rollback", "boot"},
         UNCHANGED <<slots, staging, transaction>>
  PROVE  StoreInv'
<1>1. /\ Selected' = registry /\ Durable' = registry /\ sectors' \in [0 .. 1 -> Registry]
      /\ CopiesInPlace' /\ ModeFollows' /\ PublicationFollows'
  BY WrittenIsSelected
<1>2. \/ /\ p.why = "boot" /\ staging = {}
         /\ registry.active = NoRecord /\ registry.rollback = NoRecord
      \/ /\ mode = "on" /\ Durable = Selected
         /\ registry.active = Selected.rollback /\ registry.rollback = Selected.active
  <2>1. CASE p.why = "boot"
    <3>1. mode # "on"
      BY <2>1 DEF StoreInv, PublicationFollows, Publishes, WroteSector
    <3>2. QED BY <2>1, <3>1 DEF StoreInv, ModeFollows, EmptyRegistry
  <2>2. CASE p.why = "rollback"
    <3>1. mode = "on" /\ Publishes("rollback")
      BY <2>2 DEF StoreInv, PublicationFollows, WroteSector
    <3>2. QED BY <3>1, CopyWhileOn DEF Publishes
  <2>3. QED BY <2>1, <2>2
<1>3. DurableIsIntact'
  BY <1>1, <1>2 DEF StoreInv, DurableIsIntact
<1>4. Types'
  <2>1. AtMostOne({})
    BY DEF AtMostOne
  <2>2. QED BY <1>1, <2>1 DEF StoreInv, Types, WroteSector
<1>5. Isolated'
  BY <1>1, <1>2 DEF StoreInv, Isolated, Referenced
<1>6. Coherent'
  BY <1>1 DEF StoreInv, Coherent, WroteSector
<1>7. SameInstall' /\ ReceivedIsStaged'
  BY DEF StoreInv, SameInstall, ReceivedIsStaged
<1>8. QED BY <1>1, <1>3, <1>4, <1>5, <1>6, <1>7 DEF StoreInv

\* The end of a remove: the slots that are wiped are not the one of an open staging.
LEMMA WriteRemoveKeeps ==
  ASSUME StoreInv, NEW p, WroteSector(p), p.why = "remove", WipeSlots(p.previous),
         UNCHANGED <<staging, transaction>>
  PROVE  StoreInv'
<1>1. /\ Selected' = registry /\ Durable' = registry /\ sectors' \in [0 .. 1 -> Registry]
      /\ CopiesInPlace' /\ ModeFollows' /\ PublicationFollows'
  BY WrittenIsSelected
<1>2. /\ mode = "on" /\ p.previous = Durable
      /\ registry.active = NoRecord /\ registry.rollback = NoRecord
  <2>1. mode = "on" /\ p.previous = Selected /\ Publishes("remove")
    BY DEF StoreInv, PublicationFollows, WroteSector
  <2>2. QED BY <2>1, CopyWhileOn DEF Publishes
<1>3. PICK wiped \in SUBSET ({p.previous.active.slot, p.previous.rollback.slot} \ {NoSlot}) :
        slots' = [s \in BundleSlots |->
                    IF s \in wiped THEN [k \in Chunks |-> Erased] ELSE slots[s]]
  BY DEF WipeSlots
<1>4. /\ slots' \in [BundleSlots -> Contents]
      /\ \A s \in BundleSlots \ Referenced(Durable) : slots'[s] = slots[s]
  <2>1. [k \in Chunks |-> Erased] \in Contents
    BY DEF Contents
  <2>2. \A s \in BundleSlots : slots[s] \in Contents
    BY DEF StoreInv, Types
  <2>3. wiped \subseteq Referenced(Durable)
    BY <1>2 DEF Referenced
  <2>4. QED BY <1>3, <2>1, <2>2, <2>3
<1>5. Types'
  <2>1. AtMostOne({})
    BY DEF AtMostOne
  <2>2. QED BY <1>1, <1>4, <2>1 DEF StoreInv, Types, WroteSector
<1>6. DurableIsIntact'
  BY <1>1, <1>2 DEF DurableIsIntact
<1>7. /\ \A g \in staging : g.slot \in BundleSlots \ Referenced(Durable)
      /\ \A c \in cache : c.slot \in BundleSlots
  BY DEF StoreInv, Types, Isolated
<1>8. Isolated' /\ Coherent'
  BY <1>1, <1>2, <1>7, RecordSlots DEF Isolated, Coherent, Referenced, WroteSector
<1>9. SameInstall' /\ ReceivedIsStaged'
  <2>1. \A g \in staging : slots'[g.slot] = slots[g.slot]
    BY <1>4, <1>7
  <2>2. SameInstall /\ ReceivedIsStaged
    BY DEF StoreInv
  <2>3. SameInstall'
    BY <2>2 DEF SameInstall
  <2>4. ReceivedIsStaged'
    BY <2>1, <2>2 DEF ReceivedIsStaged
  <2>5. QED BY <2>3, <2>4
<1>10. QED BY <1>1, <1>5, <1>6, <1>8, <1>9 DEF StoreInv

\* The write succeeds.
LEMMA WriteKeeps ==
  ASSUME StoreInv, WriteSector,
         transaction' = IF \E p \in publishing : p.why = "commit" THEN {} ELSE transaction
  PROVE  StoreInv'
<1>1. PICK p \in publishing :
        /\ sectors' = [sectors EXCEPT ![Target(registry.generation)] = registry]
        /\ publishing' = {} /\ mode' = "on"
        /\ UNCHANGED <<damage, registry, cache>>
        /\ IF p.why = "remove" THEN WipeSlots(p.previous) ELSE UNCHANGED slots
        /\ staging' = IF p.why = "commit" THEN {} ELSE staging
  BY DEF WriteSector
<1>2. /\ p.why \in {"boot", "commit", "rollback", "remove"}
      /\ \A q \in publishing : q = p
  BY DEF StoreInv, Types, Publications, AtMostOne
<1>3. WroteSector(p)
  BY <1>1 DEF WroteSector
<1>4. CASE p.why = "commit"
  BY <1>1, <1>3, <1>4, WriteCommitKeeps
<1>5. CASE p.why \in {"rollback", "boot"}
  BY <1>1, <1>2, <1>3, <1>5, WriteOtherKeeps
<1>6. CASE p.why = "remove"
  BY <1>1, <1>2, <1>3, <1>6, WriteRemoveKeeps
<1>7. QED BY <1>2, <1>4, <1>5, <1>6

\* The erase or the write fails: RAM goes back to the registry that is still durable.
LEMMA FailKeeps ==
  ASSUME StoreInv, PublishFails,
         transaction' = IF \E p \in publishing : p.why = "commit" THEN {} ELSE transaction
  PROVE  StoreInv'
<1>1. PICK p \in publishing :
        /\ publishing' = {} /\ registry' = p.previous
        /\ mode' = IF p.why = "boot" THEN "dead" ELSE "on"
        /\ IF p.why = "commit" THEN DropStaging(slots) ELSE UNCHANGED <<slots, staging>>
        /\ UNCHANGED <<sectors, damage, cache>>
  BY DEF PublishFails
<1>2. \A q \in publishing : q = p
  BY DEF StoreInv, Types, AtMostOne
<1>3. Selected' = Selected /\ Durable' = Durable
  BY <1>1 DEF Selected, Durable
<1>4. CopiesInPlace' /\ PublicationFollows'
  BY <1>1 DEF StoreInv, CopiesInPlace, PublicationFollows
<1>5. AtMostOne(publishing') /\ publishing' \subseteq Publications
  BY <1>1 DEF AtMostOne
<1>6. CASE mode = "booting" /\ p.why = "boot" /\ p.previous = EmptyRegistry(0)
  <2>1. /\ registry' = registry /\ mode' = "dead" /\ UNCHANGED <<slots, staging, transaction>>
        /\ staging = {} /\ registry = EmptyRegistry(0)
    BY <1>1, <1>2, <1>6 DEF StoreInv, ModeFollows
  <2>2. Types'
    BY <1>1, <1>5, <2>1 DEF StoreInv, Types
  <2>3. ModeFollows'
    BY <1>1, <2>1 DEF ModeFollows
  <2>4. DurableIsIntact' /\ Isolated' /\ Coherent'
    BY <1>1, <1>3, <2>1 DEF StoreInv, DurableIsIntact, Isolated, Coherent, Referenced
  <2>5. SameInstall' /\ ReceivedIsStaged'
    BY <2>1 DEF StoreInv, SameInstall, ReceivedIsStaged
  <2>6. QED BY <1>4, <2>2, <2>3, <2>4, <2>5 DEF StoreInv
<1>7. CASE mode = "on" /\ p.previous = Selected /\ Publishes(p.why)
  <2>1. /\ Durable = Selected /\ Selected \in RamRegistry /\ Selected.generation \in Nat
        /\ registry' = Selected /\ mode' = "on"
    BY <1>1, <1>7, CopyWhileOn DEF Publishes
  <2>2. ModeFollows'
    BY <1>1, <1>3, <2>1 DEF ModeFollows
  <2>3. /\ slots' \in [BundleSlots -> Contents] /\ staging' \subseteq staging
        /\ \A t \in BundleSlots \cap Referenced(Durable) : slots'[t] = slots[t]
        /\ SameInstall' /\ ReceivedIsStaged'
        /\ transaction' \subseteq transaction
    <3>1. slots \in [BundleSlots -> Contents]
      BY DEF StoreInv, Types
    <3>2. CASE p.why = "commit"
      <4>1. PICK g \in staging : TRUE
        BY <1>7, <3>2 DEF Publishes
      <4>2. g.slot \notin Referenced(Durable)
        BY DEF StoreInv, Isolated
      <4>3. /\ staging' = {} /\ slots' \in [BundleSlots -> Contents]
            /\ \A t \in BundleSlots \ {g.slot} : slots'[t] = slots[t]
        BY <1>1, <3>1, <3>2, StagingDropped DEF StoreInv
      <4>4. transaction' = {}
        BY <3>2
      <4>5. SameInstall' /\ ReceivedIsStaged'
        BY <4>3, <4>4 DEF SameInstall, ReceivedIsStaged
      <4>6. QED BY <4>2, <4>3, <4>4, <4>5
    <3>3. CASE p.why # "commit"
      <4>1. UNCHANGED <<slots, staging, transaction>>
        BY <1>1, <1>2, <3>3
      <4>2. SameInstall' /\ ReceivedIsStaged'
        BY <4>1 DEF StoreInv, SameInstall, ReceivedIsStaged
      <4>3. QED BY <3>1, <4>1, <4>2
    <3>4. QED BY <3>2, <3>3
  <2>4. Types'
    <3>1. AtMostOne(staging') /\ AtMostOne(transaction')
      BY <2>3 DEF StoreInv, Types, AtMostOne
    <3>2. /\ staging' \subseteq [slot : BundleSlots, request : InstallRequests]
          /\ transaction' \subseteq [request : InstallRequests, received : Nat]
          /\ \A t \in transaction' : t.received <= ChunksOf[t.request.bundle]
      BY <2>3 DEF StoreInv, Types
    <3>3. QED BY <1>1, <1>5, <2>1, <2>3, <3>1, <3>2 DEF StoreInv, Types
  <2>5. DurableIsIntact'
    <3> SUFFICES ASSUME NEW r \in {Durable.active, Durable.rollback} \ {NoRecord}
                 PROVE  Validates(r, slots'[r.slot])
      BY <1>3 DEF DurableIsIntact
    <3>1. r.slot \in BundleSlots /\ r.slot \in Referenced(Durable)
      BY <2>1, RecordSlots DEF RamRegistry, Referenced
    <3>2. Validates(r, slots[r.slot]) /\ slots'[r.slot] = slots[r.slot]
      BY <2>3, <3>1 DEF StoreInv, DurableIsIntact
    <3>3. QED BY <3>2
  <2>6. Isolated'
    BY <1>3, <2>3 DEF StoreInv, Isolated, Referenced
  <2>7. Coherent'
    <3> SUFFICES ASSUME NEW c \in cache, c.slot \in Referenced(Durable)
                 PROVE  c.chunks = slots'[c.slot]
      BY <1>1, <1>3, <2>1 DEF Coherent, Referenced
    <3>1. c.slot \in BundleSlots /\ c.chunks = slots[c.slot]
      BY DEF StoreInv, Types, Coherent
    <3>2. QED BY <2>3, <3>1
  <2>8. QED BY <1>4, <2>2, <2>3, <2>4, <2>5, <2>6, <2>7 DEF StoreInv
<1>8. QED BY <1>6, <1>7 DEF StoreInv, PublicationFollows

-----------------------------------------------------------------------------
(***************************************************************************)
(* Boot and power                                                          *)
(***************************************************************************)
\* A valid copy always loads, since what it names is intact; a boot that must reset the
\* library found no valid copy.
LEMMA BootLoads ==
  ASSUME StoreInv
  PROVE  Loads <=> Selected.generation \in Nat
<1>1. Selected \in Registry /\ (Selected = InvalidSector \/ Selected.generation \in Nat)
  BY SelectedCopy DEF StoreInv
<1>2. InvalidSector.generation = -1
  BY DEF InvalidSector, EmptyRegistry
<1>3. ASSUME Selected.generation \in Nat
      PROVE  Selected.active # NoRecord =>
               Validates(Selected.active, slots[Selected.active.slot])
  BY <1>3, SelectedCopy DEF StoreInv, DurableIsIntact
<1>4. QED BY <1>1, <1>2, <1>3 DEF Loads

LEMMA BootKeeps ==
  ASSUME StoreInv, Boot, UNCHANGED transaction
  PROVE  StoreInv'
<1>1. /\ mode = "off" /\ UNCHANGED <<sectors, slots, damage, staging>>
      /\ staging = {} /\ registry = EmptyRegistry(0) /\ publishing = {}
  BY DEF Boot, flashVars, StoreInv, ModeFollows
<1>2. Selected' = Selected /\ Durable' = Durable
  BY <1>1 DEF Selected, Durable
<1>3. /\ Selected \in Registry /\ (Selected = InvalidSector \/ Selected.generation \in Nat)
      /\ EmptyRegistry(0) \in Registry /\ EmptyRegistry(0) \in RamRegistry
  BY SelectedCopy, ImageAssumption
     DEF StoreInv, EmptyRegistry, Registry, RamRegistry, Record
<1>4. \/ cache' = {}
      \/ /\ Selected.active # NoRecord
         /\ cache' = Cached(Selected.active.slot, slots[Selected.active.slot])
  BY DEF Boot
<1>5. /\ AtMostOne(cache') /\ cache' \subseteq [slot : BundleSlots, chunks : Contents]
      /\ \A c \in cache' : c.chunks = slots[c.slot]
  <2>1. CASE cache' = {}
    BY <2>1 DEF AtMostOne
  <2>2. CASE /\ Selected.active # NoRecord
             /\ cache' = Cached(Selected.active.slot, slots[Selected.active.slot])
    <3>1. Selected.active.slot \in BundleSlots
      BY <1>3, <2>2, RecordSlots DEF Registry
    <3>2. slots[Selected.active.slot] \in Contents
      BY <3>1 DEF StoreInv, Types
    <3>3. QED BY <2>2, <3>1, <3>2, CachedIsCache
  <2>3. QED BY <1>4, <2>1, <2>2
<1>6. CopiesInPlace' /\ DurableIsIntact' /\ SameInstall' /\ ReceivedIsStaged'
  BY <1>1, <1>2
     DEF StoreInv, CopiesInPlace, DurableIsIntact, SameInstall, ReceivedIsStaged
<1>7. Isolated' /\ Coherent'
  BY <1>1, <1>5 DEF Isolated, Coherent
<1>8. CASE Selected.generation \in Nat
  <2>1. mode' = "on" /\ registry' = Selected /\ publishing' = {}
    BY <1>1, <1>8, BootLoads DEF Boot
  <2>2. Selected \in RamRegistry
    BY <1>3, <1>8, ImageAssumption DEF Registry, RamRegistry
  <2>3. Types'
    BY <1>1, <1>5, <2>1, <2>2 DEF StoreInv, Types
  <2>4. ModeFollows' /\ PublicationFollows'
    BY <1>1, <1>2, <1>8, <2>1 DEF ModeFollows, PublicationFollows
  <2>5. QED BY <1>6, <1>7, <2>3, <2>4 DEF StoreInv
<1>9. CASE Selected.generation \notin Nat
  <2>1. /\ mode' = "booting" /\ registry' = EmptyRegistry(0)
        /\ publishing' = {[why |-> "boot", previous |-> EmptyRegistry(0), step |-> "erase"]}
    BY <1>9, BootLoads DEF Boot
  <2>2. AtMostOne(publishing')
    BY <2>1 DEF AtMostOne
  <2>3. publishing' \subseteq Publications
    BY <1>3, <2>1 DEF Publications
  <2>4. Types'
    BY <1>1, <1>3, <1>5, <2>1, <2>2, <2>3 DEF StoreInv, Types
  <2>5. ModeFollows'
    BY <1>1, <1>2, <1>3, <1>9, <2>1 DEF ModeFollows
  <2>6. PublicationFollows'
    BY <2>1 DEF PublicationFollows
  <2>7. QED BY <1>6, <1>7, <2>4, <2>5, <2>6 DEF StoreInv
<1>10. QED BY <1>8, <1>9

\* Power is lost at any moment, also between the flash operations of a publication.
LEMMA PowerLossKeeps ==
  ASSUME StoreInv, PowerLoss, transaction' = {}
  PROVE  StoreInv'
<1>1. /\ mode' = "off" /\ registry' = EmptyRegistry(0)
      /\ staging' = {} /\ cache' = {} /\ publishing' = {}
      /\ UNCHANGED <<sectors, slots, damage>>
  BY DEF PowerLoss, RamIsLost, flashVars
<1>2. EmptyRegistry(0) \in RamRegistry
  BY ImageAssumption DEF EmptyRegistry, RamRegistry, Record
<1>3. AtMostOne({})
  BY DEF AtMostOne
<1>4. Types'
  BY <1>1, <1>2, <1>3 DEF StoreInv, Types
<1>5. CopiesInPlace' /\ DurableIsIntact'
  BY <1>1 DEF StoreInv, CopiesInPlace, DurableIsIntact, Durable, Selected
<1>6. ModeFollows' /\ PublicationFollows'
  BY <1>1 DEF ModeFollows, PublicationFollows
<1>7. Isolated' /\ Coherent' /\ SameInstall' /\ ReceivedIsStaged'
  BY <1>1 DEF Isolated, Coherent, SameInstall, ReceivedIsStaged
<1>8. QED BY <1>4, <1>5, <1>6, <1>7 DEF StoreInv

-----------------------------------------------------------------------------
(***************************************************************************)
(* The invariant                                                           *)
(***************************************************************************)
LEMMA InitStoreInv == InstallInit => StoreInv
<1> SUFFICES ASSUME InstallInit PROVE StoreInv
  OBVIOUS
<1>1. /\ sectors = [i \in 0 .. 1 |-> InvalidSector]
      /\ slots = [s \in BundleSlots |-> [k \in Chunks |-> Erased]]
      /\ damage = 0 /\ mode = "off" /\ registry = EmptyRegistry(0)
      /\ staging = {} /\ cache = {} /\ publishing = {} /\ transaction = {}
  BY DEF InstallInit, Init
<1>2. /\ InvalidSector \in Registry /\ EmptyRegistry(0) \in RamRegistry
      /\ InvalidSector.generation = -1
      /\ EmptyRegistry(0).active = NoRecord /\ EmptyRegistry(0).rollback = NoRecord
  BY ImageAssumption DEF InvalidSector, EmptyRegistry, Registry, RamRegistry, Record
<1>3. AtMostOne({})
  BY DEF AtMostOne
<1>4. Types
  <2>1. [k \in Chunks |-> Erased] \in Contents
    BY DEF Contents
  <2>2. slots \in [BundleSlots -> Contents] /\ sectors \in [0 .. 1 -> Registry]
    BY <1>1, <1>2, <2>1
  <2>3. damage \in 0 .. MaxDamage
    BY <1>1, ImageAssumption
  <2>4. QED BY <1>1, <1>2, <1>3, <2>2, <2>3 DEF Types
<1>5. CopiesInPlace
  BY <1>1 DEF CopiesInPlace
<1>6. Selected = InvalidSector
  BY <1>1 DEF Selected
<1>7. DurableIsIntact
  BY <1>2, <1>6 DEF DurableIsIntact, Durable
<1>8. ModeFollows /\ PublicationFollows
  BY <1>1 DEF ModeFollows, PublicationFollows
<1>9. Isolated /\ Coherent /\ SameInstall /\ ReceivedIsStaged
  BY <1>1 DEF Isolated, Coherent, SameInstall, ReceivedIsStaged
<1>10. QED BY <1>4, <1>5, <1>7, <1>8, <1>9 DEF StoreInv

LEMMA NextStoreInv == StoreInv /\ [InstallNext]_installVars => StoreInv'
<1> SUFFICES ASSUME StoreInv, [InstallNext]_installVars PROVE StoreInv'
  OBVIOUS
<1>1. CASE InstallRequested
  <2>1. ASSUME NEW tx, CommitRejected(tx) \/ Abort(tx) PROVE StoreInv'
    BY <2>1, RejectOrAbortKeeps
  <2>2. ASSUME NEW tx, Commit(tx) PROVE StoreInv'
    BY <2>2, CommitKeeps
  <2>3. ASSUME NEW tx, NEW k \in Chunks, AppendChunk(tx, k) \/ AppendFails(tx, k)
        PROVE  StoreInv'
    BY <2>3, AppendKeeps, AppendFailsKeeps
  <2>4. ASSUME NEW request \in InstallRequests, Begin(request) PROVE StoreInv'
    BY <2>4, BeginKeeps
  <2>5. QED BY <1>1, <2>1, <2>2, <2>3, <2>4 DEF InstallRequested, TransportReset
<1>2. CASE LibraryRequested
  <2>1. PICK app \in Apps :
          /\ AcquireInstalledBundle(app) \/ Rollback(app) \/ Remove(app)
          /\ UNCHANGED transaction
    BY <1>2 DEF LibraryRequested
  <2>2. QED BY <2>1, AcquireKeeps, RollbackKeeps, RemoveKeeps
<1>3. CASE Publication
  BY <1>3, EraseKeeps, WriteKeeps, FailKeeps DEF Publication
<1>4. CASE Power
  BY <1>4, BootKeeps, PowerLossKeeps DEF Power
<1>5. CASE UNCHANGED installVars
  <2>1. /\ UNCHANGED <<sectors, slots, damage, mode, registry, staging, cache, publishing>>
        /\ UNCHANGED transaction
    BY <1>5 DEF installVars, storeVars
  <2>2. Selected' = Selected /\ Durable' = Durable
    BY <2>1 DEF Selected, Durable
  <2>3. Types' /\ CopiesInPlace'
    BY <2>1 DEF StoreInv, Types, CopiesInPlace
  <2>4. ModeFollows'
    BY <2>1, <2>2 DEF StoreInv, ModeFollows
  <2>5. PublicationFollows'
    BY <2>1, <2>2 DEF StoreInv, PublicationFollows, Publishes
  <2>6. DurableIsIntact' /\ Isolated' /\ Coherent'
    BY <2>1, <2>2 DEF StoreInv, DurableIsIntact, Isolated, Coherent, Referenced
  <2>7. SameInstall' /\ ReceivedIsStaged'
    BY <2>1 DEF StoreInv, SameInstall, ReceivedIsStaged
  <2>8. QED BY <2>3, <2>4, <2>5, <2>6, <2>7 DEF StoreInv
<1>6. QED BY <1>1, <1>2, <1>3, <1>4, <1>5 DEF InstallNext

\* The inductive invariant holds: after every sequence of calls, failures of flash and
\* power losses.
THEOREM StoreInvariant == InstallSpec => []StoreInv
BY InitStoreInv, NextStoreInv, PTL DEF InstallSpec

\* Sets of at most one element have at most one element.
LEMMA AtMostOneCardinality ==
  ASSUME NEW S, AtMostOne(S)
  PROVE  Cardinality(S) <= 1
<1>1. CASE S = {}
  BY <1>1, FS_EmptySet
<1>2. CASE S # {}
  <2>1. PICK x \in S : S = {x}
    BY <1>2 DEF AtMostOne
  <2>2. Cardinality({x}) = 1
    BY FS_Singleton
  <2>3. QED BY <2>1, <2>2
<1>3. QED BY <1>1, <1>2

-----------------------------------------------------------------------------
(***************************************************************************)
(* Invariants                                                              *)
(***************************************************************************)
\* The variables hold values of their types; there is one staging, one transaction, one
\* cached sector and one publication at most.
THEOREM InstallTypes == InstallSpec => []TypeOK
<1>1. StoreInv => TypeOK
  <2> SUFFICES ASSUME StoreInv PROVE TypeOK
    OBVIOUS
  <2>1. /\ Cardinality(staging) <= 1 /\ Cardinality(cache) <= 1
        /\ Cardinality(publishing) <= 1 /\ Cardinality(transaction) <= 1
    BY AtMostOneCardinality DEF StoreInv, Types
  <2>2. StoreTypeOK
    BY <2>1 DEF StoreInv, Types, StoreTypeOK, Contents, RamRegistry, Publications
  <2>3. QED BY <2>1, <2>2 DEF StoreInv, Types, TypeOK
<1>2. QED BY <1>1, StoreInvariant, PTL

\* Whatever the durable registry names is complete and well formed at every moment, so
\* that power can be lost between any two flash operations.
THEOREM DurableStaysIntact == InstallSpec => []DurableIsIntact
<1>1. StoreInv => DurableIsIntact
  BY DEF StoreInv
<1>2. QED BY <1>1, StoreInvariant, PTL

\* Between calls the registry in RAM is the one the next boot finds, and no cached sector
\* lies about a slot that a record names.
THEOREM MemoryStaysTrue == InstallSpec => []MemoryIsTrue
<1>1. StoreInv => MemoryIsTrue
  <2> SUFFICES ASSUME StoreInv PROVE MemoryIsTrue
    OBVIOUS
  <2>1. RamIsDurable
    BY CopyWhileOn DEF RamIsDurable, Ready
  <2>2. CacheIsCoherent
    BY DEF StoreInv, Coherent, CacheIsCoherent
  <2>3. QED BY <2>1, <2>2 DEF MemoryIsTrue
<1>2. QED BY <1>1, StoreInvariant, PTL

\* An install can be dropped at any moment: no registry refers to the slot it is staged in.
THEOREM StagingStaysIsolated == InstallSpec => []StagingIsIsolated
<1>1. StoreInv => StagingIsIsolated
  <2> SUFFICES ASSUME StoreInv PROVE StagingIsIsolated
    OBVIOUS
  <2>1. Ready => registry = Durable
    BY CopyWhileOn DEF Ready
  <2>2. QED BY <2>1 DEF StoreInv, Isolated, StagingIsIsolated
<1>2. QED BY <1>1, StoreInvariant, PTL

\* No failure path leaves a slot occupied that no transaction can abort, and what was
\* acknowledged as received lies in flash.
THEOREM TransactionStaysStaged == InstallSpec => []TransactionIsStaged
<1>1. StoreInv => TransactionIsStaged
  BY DEF StoreInv, TransactionIsStaged, StagingFollowsTransaction, SameInstall
<1>2. QED BY <1>1, StoreInvariant, PTL

-----------------------------------------------------------------------------
(***************************************************************************)
(* Steps: the library that the next boot finds                             *)
(***************************************************************************)
\* Only the two flash operations of a publication change a copy of the registry.
LEMMA SectorsChange ==
  ASSUME [InstallNext]_installVars, sectors' # sectors
  PROVE  EraseSector \/ WriteSector
<1>1. CASE InstallRequested
  BY <1>1
     DEF InstallRequested, TransportReset, Begin, BeginStaging, AppendChunk, WriteStaging,
         AppendFails, WriteStagingFails, CommitRejected, VerifyRejects, Commit,
         CommitStaging, Abort, AbortStaging, flashVars
<1>2. CASE LibraryRequested
  BY <1>2
     DEF LibraryRequested, AcquireInstalledBundle, Rollback, Remove, flashVars
<1>3. CASE Publication
  BY <1>3 DEF Publication, PublishFails
<1>4. CASE Power
  BY <1>4 DEF Power, Boot, PowerLoss, flashVars
<1>5. CASE UNCHANGED installVars
  BY <1>5 DEF installVars, storeVars
<1>6. QED BY <1>1, <1>2, <1>3, <1>4, <1>5 DEF InstallNext

\* What is durable changes only when the write of a publication succeeds, and then to the
\* registry which that publication was for.
LEMMA DurableChanges ==
  ASSUME StoreInv, [InstallNext]_installVars, Durable' # Durable
  PROVE  /\ mode = "on" /\ Durable = Selected /\ Durable \in RamRegistry
         /\ registry \in RamRegistry /\ Durable' = registry
         /\ registry.generation = Durable.generation + 1
         /\ \E p \in publishing : Publishes(p.why) /\ \A q \in publishing : q = p
<1>1. sectors' # sectors
  BY DEF Durable, Selected
<1>2. EraseSector \/ WriteSector
  BY <1>1, SectorsChange
<1>3. WriteSector
  BY <1>2, EraseKeepsCopy
<1>4. PICK p : WroteSector(p)
  BY <1>3 DEF WriteSector, WroteSector
<1>5. Durable' = registry
  BY <1>4, WrittenIsSelected
<1>6. /\ mode = "on" /\ registry.generation = Selected.generation + 1
      /\ Publishes(p.why) /\ p \in publishing
  <2>1. CASE mode = "booting" /\ p.why = "boot" /\ p.previous = EmptyRegistry(0)
    BY <1>5, <2>1, SelectedCopy DEF StoreInv, ModeFollows
  <2>2. QED BY <1>4, <2>1 DEF StoreInv, PublicationFollows, WroteSector
<1>7. registry \in RamRegistry /\ \A q \in publishing : q = p
  BY <1>6 DEF StoreInv, Types, AtMostOne
<1>8. QED BY <1>5, <1>6, <1>7, CopyWhileOn

\* A commit replaces an App by an older version of it only if its request said so, also
\* when a rollback or a remove came after the request.
THEOREM DowngradesAreAllowed == InstallSpec => NoSilentDowngrade
<1> DEFINE A == \A p \in publishing, g \in staging :
                  p.why = "commit" /\ Durable' # Durable /\ Durable.active # NoRecord
                  /\ AppOf[Durable'.active.bundle] = AppOf[Durable.active.bundle]
                  => \/ g.request.allowDowngrade
                     \/ VersionOf[Durable'.active.bundle] >= VersionOf[Durable.active.bundle]
<1>1. StoreInv /\ [InstallNext]_installVars => [A]_installVars
  <2> SUFFICES ASSUME StoreInv, [InstallNext]_installVars,
                      NEW p \in publishing, NEW g \in staging,
                      p.why = "commit", Durable' # Durable, Durable.active # NoRecord,
                      AppOf[Durable'.active.bundle] = AppOf[Durable.active.bundle],
                      ~g.request.allowDowngrade
               PROVE  VersionOf[Durable'.active.bundle] >= VersionOf[Durable.active.bundle]
    OBVIOUS
  <2>1. /\ Durable = Selected /\ Durable \in RamRegistry /\ Durable' = registry
        /\ registry \in RamRegistry /\ Publishes("commit")
    BY DurableChanges
  <2>2. \A h \in staging : h = g
    BY DEF StoreInv, Types, AtMostOne
  <2>3. /\ registry.active = [slot |-> g.slot, bundle |-> g.request.bundle]
        /\ ~(VersionOf[g.request.bundle] < VersionOf[Durable.active.bundle])
    <3>1. PICK h \in staging :
            /\ registry.active = [slot |-> h.slot, bundle |-> h.request.bundle]
            /\ ~ /\ ~h.request.allowDowngrade
                 /\ Selected.active # NoRecord
                 /\ AppOf[h.request.bundle] = AppOf[Selected.active.bundle]
                 /\ VersionOf[h.request.bundle] < VersionOf[Selected.active.bundle]
      BY <2>1 DEF Publishes
    <3>2. QED BY <2>1, <2>2, <3>1
  <2>4. g.request.bundle \in Bundles /\ Durable.active.bundle \in Bundles
    BY <2>1, RecordSlots, ImageAssumption DEF StoreInv, Types, RamRegistry
  <2>5. VersionOf[g.request.bundle] \in Nat /\ VersionOf[Durable.active.bundle] \in Nat
    BY <2>4, ImageAssumption
  <2>6. QED BY <2>1, <2>3, <2>5
<1>2. QED BY <1>1, StoreInvariant, PTL DEF InstallSpec, NoSilentDowngrade

\* The store implements the abstract library: what the next boot finds changes by one whole
\* install, rollback or remove at a time, and by nothing else.
THEOREM StoreImplementsLibrary == InstallSpec => ImplementsLibrary
<1>1. InstallInit => Library!Init
  <2> SUFFICES ASSUME InstallInit PROVE Library!Init
    OBVIOUS
  <2>1. Selected = InvalidSector
    BY DEF InstallInit, Init, Selected
  <2>2. Durable = EmptyRegistry(0)
    BY <2>1 DEF Durable, InvalidSector, EmptyRegistry
  <2>3. QED BY <2>2 DEF Library!Init, EmptyRegistry, NoRecord
<1>2. StoreInv /\ [InstallNext]_installVars => [Library!Next]_(Library!libraryVars)
  <2> SUFFICES ASSUME StoreInv, [InstallNext]_installVars, Durable' # Durable
               PROVE  Library!Next
    BY DEF Library!libraryVars
  <2>1. /\ Durable = Selected /\ Durable \in RamRegistry /\ Durable' = registry
        /\ registry \in RamRegistry /\ registry.generation = Durable.generation + 1
        /\ \E p \in publishing : Publishes(p.why)
    BY DurableChanges
  <2>2. PICK p \in publishing : Publishes(p.why)
    BY <2>1
  <2>3. \A r \in Record : r # NoRecord => r.bundle \in Bundles /\ r.bundle # NoBundle
    BY RecordSlots, ImageAssumption
  <2>4. CASE p.why = "commit"
    <3>1. PICK g \in staging :
            /\ registry.active = [slot |-> g.slot, bundle |-> g.request.bundle]
            /\ registry.rollback = Durable.active
      BY <2>1, <2>2, <2>4 DEF Publishes
    <3>2. g.request.bundle \in Bundles
      BY ImageAssumption DEF StoreInv, Types
    <3>3. QED BY <2>1, <3>1, <3>2 DEF Library!Next, Library!Install
  <2>5. CASE p.why = "rollback"
    <3>1. /\ registry.active = Durable.rollback /\ Durable.rollback # NoRecord
          /\ registry.rollback = Durable.active /\ Durable.active # NoRecord
      BY <2>1, <2>2, <2>5 DEF Publishes
    <3>2. Durable.active.bundle # NoBundle /\ Durable.rollback.bundle # NoBundle
      BY <2>1, <2>3, <3>1 DEF RamRegistry
    <3>3. QED BY <2>1, <3>1, <3>2 DEF Library!Next, Library!Rollback
  <2>6. CASE p.why = "remove"
    <3>1. /\ registry.active = NoRecord /\ registry.rollback = NoRecord
          /\ Durable.active # NoRecord
      BY <2>1, <2>2, <2>6 DEF Publishes
    <3>2. Durable.active.bundle # NoBundle /\ NoRecord.bundle = NoBundle
      BY <2>1, <2>3, <3>1 DEF RamRegistry, NoRecord
    <3>3. QED BY <2>1, <3>1, <3>2 DEF Library!Next, Library!Remove
  <2>7. QED BY <2>2, <2>4, <2>5, <2>6 DEF Publishes
<1>3. QED BY <1>1, <1>2, StoreInvariant, PTL DEF InstallSpec, ImplementsLibrary, Library!Spec

-----------------------------------------------------------------------------
(***************************************************************************)
(* The older copy of the registry                                          *)
(***************************************************************************)
\* While both copies name an App, that of the older one is the rollback of the newer.
OlderFollows ==
  Selected.active # NoRecord /\ Older.active # NoRecord => Older.active = Selected.rollback

\* The erase of a publication takes the older copy, and the write puts the newer in its
\* place; a copy that names an App keeps the one before it as rollback.
LEMMA NextOlderFollows ==
  ASSUME StoreInv, OlderFollows, [InstallNext]_installVars
  PROVE  OlderFollows'
<1>1. CASE sectors' = sectors
  BY <1>1 DEF OlderFollows, Selected, Older
<1>2. ASSUME EraseSector, sectors' # sectors PROVE OlderFollows'
  <2>1. PICK p \in publishing :
          sectors' = [sectors EXCEPT ![Target(registry.generation)] = InvalidSector]
    BY <1>2 DEF EraseSector
  <2>2. mode = "on" /\ registry.generation = Selected.generation + 1
    <3>1. CASE mode = "booting"
      <4>1. \A i \in 0 .. 1 : sectors[i] = InvalidSector
        BY <3>1, SelectedCopy DEF StoreInv, ModeFollows
      <4>2. sectors' = sectors
        BY <2>1, <4>1 DEF StoreInv, Types
      <4>3. QED BY <1>2, <4>2
    <3>2. QED BY <2>1, <3>1 DEF StoreInv, PublicationFollows
  <2>3. /\ Selected.generation \in Nat /\ Selected' = Selected
        /\ sectors' \in [0 .. 1 -> Registry] /\ CopiesInPlace'
    <3>1. InvalidSector \in Registry
      BY ImageAssumption DEF InvalidSector, EmptyRegistry, Registry, Record
    <3>2. QED BY <1>2, <2>1, <2>2, <3>1, EraseKeepsCopy DEF StoreInv, Types, ModeFollows
  <2> DEFINE g == Selected.generation
  <2>4. /\ Target(g + 1) = 1 - Target(g) /\ 1 - Target(g) \in 0 .. 1
        /\ sectors'[1 - Target(g)] = InvalidSector
        /\ sectors'[Target(g)] = Selected /\ Target(g) \in {0, 1}
    <3>1. /\ Target(g + 1) = 1 - Target(g) /\ Target(g + 1) # Target(g)
          /\ Target(g) \in 0 .. 1 /\ Target(g + 1) \in 0 .. 1
      BY <2>3, TargetAlternates
    <3>2. Selected = sectors[Target(g)]
      BY <2>3, SelectedCopy DEF StoreInv
    <3>3. QED BY <2>1, <2>2, <3>1, <3>2 DEF StoreInv, Types
  <2>5. InvalidSector.generation = -1 /\ InvalidSector.active = NoRecord
    BY DEF InvalidSector, EmptyRegistry
  <2>6. Older' = InvalidSector
    <3>1. CASE Target(g) = 0
      BY <2>3, <2>4, <2>5, <3>1 DEF Older
    <3>2. CASE Target(g) = 1
      BY <2>3, <2>4, <2>5, <3>2 DEF Older
    <3>3. QED BY <2>4, <3>1, <3>2
  <2>7. QED BY <2>5, <2>6 DEF OlderFollows
<1>3. ASSUME WriteSector PROVE OlderFollows'
  <2>1. PICK p : WroteSector(p)
    BY <1>3 DEF WriteSector, WroteSector
  <2>2. Selected' = registry /\ registry.generation \in Nat
    BY <2>1, WrittenIsSelected
  <2>3. CASE registry.active = NoRecord
    BY <2>2, <2>3 DEF OlderFollows
  <2>4. CASE registry.active # NoRecord
    <3>1. mode = "on" /\ registry.generation = Selected.generation + 1 /\ Publishes(p.why)
      BY <2>1, <2>4 DEF StoreInv, PublicationFollows, ModeFollows, EmptyRegistry, WroteSector
    <3>2. registry.rollback = Selected.active
      BY <2>4, <3>1 DEF Publishes
    <3> DEFINE g == Selected.generation
    <3>3. g \in Nat
      BY <3>1 DEF StoreInv, ModeFollows
    <3>4. /\ Target(g + 1) = 1 - Target(g) /\ Target(g + 1) # Target(g)
          /\ Target(g) \in {0, 1} /\ Target(g + 1) \in 0 .. 1
      BY <3>3, TargetAlternates
    <3>5. /\ Selected = sectors[Target(g)] /\ sectors[1 - Target(g)].generation < g
          /\ sectors'[Target(g + 1)] = registry
          /\ sectors'[Target(g)] = Selected
      <4>1. Selected = sectors[Target(g)] /\ sectors[1 - Target(g)].generation < g
        BY <3>3, SelectedCopy DEF StoreInv
      <4>2. QED BY <2>1, <3>1, <3>4, <4>1 DEF StoreInv, Types, WroteSector
    <3>6. Older' = Selected
      <4>1. CASE Target(g) = 0
        BY <3>1, <3>3, <3>4, <3>5, <4>1 DEF Older
      <4>2. CASE Target(g) = 1
        BY <3>1, <3>3, <3>4, <3>5, <4>2 DEF Older
      <4>3. QED BY <3>4, <4>1, <4>2
    <3>7. QED BY <2>2, <3>2, <3>6 DEF OlderFollows
  <2>5. QED BY <2>3, <2>4
<1>4. QED BY <1>1, <1>2, <1>3, SectorsChange

\* Should the newest copy of the registry be lost, the older one still launches the App
\* that it names: no install since has touched the slot.
THEOREM OlderCopyStaysBootable == InstallSpec => []OlderCopyBoots
<1>1. InstallInit => OlderFollows
  <2>1. InvalidSector.active = NoRecord
    BY DEF InvalidSector, EmptyRegistry
  <2>2. QED BY <2>1 DEF InstallInit, Init, Selected, OlderFollows
<1>2. StoreInv /\ OlderFollows /\ [InstallNext]_installVars => OlderFollows'
  BY NextOlderFollows
<1>3. StoreInv /\ OlderFollows => OlderCopyBoots
  <2> SUFFICES ASSUME StoreInv, OlderFollows, Selected.active # NoRecord,
                      Older.active # NoRecord
               PROVE  Validates(Older.active, slots[Older.active.slot])
    BY DEF OlderCopyBoots
  <2>1. Older.active = Selected.rollback
    BY DEF OlderFollows
  <2>2. Durable = Selected
    <3>1. Selected # InvalidSector
      BY DEF InvalidSector, EmptyRegistry
    <3>2. QED BY <3>1, SelectedCopy DEF StoreInv
  <2>3. QED BY <2>1, <2>2 DEF StoreInv, DurableIsIntact
<1>4. QED BY <1>1, <1>2, <1>3, StoreInvariant, PTL DEF InstallSpec

-----------------------------------------------------------------------------
(***************************************************************************)
(* The inductive invariant of the endpoint                                 *)
(***************************************************************************)
\* The types of the store; a publication returns to a registry that a RAM can hold.
StoreTypes ==
  /\ Types
  /\ \A p \in publishing : p.previous \in RamRegistry
  /\ mode = "off" => publishing = {}

AppTypes ==
  /\ AtMostOne(lease) /\ lease \subseteq Record \ {NoRecord}
  /\ AtMostOne(session) /\ session \subseteq Bundles
  /\ fatal \in BOOLEAN
  /\ AtMostOne(activeApp) /\ activeApp \subseteq Apps
  /\ AtMostOne(foreground) /\ foreground \subseteq Apps \cup {"launcher"}

EndpointInv == StoreTypes /\ AppTypes /\ SessionIsAccountedFor /\ StopsBeforeMutation

-----------------------------------------------------------------------------
(***************************************************************************)
(* Types of the store, flash defects included                              *)
(***************************************************************************)
\* Empty registries are registries.
LEMMA EmptyTypes ==
  /\ InvalidSector \in Registry
  /\ \A n \in 0 .. MaxGeneration : EmptyRegistry(n) \in RamRegistry
  /\ RamRegistry \subseteq Registry
  /\ 0 \in 0 .. MaxGeneration
BY ImageAssumption DEF InvalidSector, EmptyRegistry, Registry, RamRegistry, Record

LEMMA EmptyIsAtMostOne == AtMostOne({}) /\ \A x : AtMostOne({x})
BY DEF AtMostOne

\* A call that ends the install.
LEMMA DroppedTypes ==
  ASSUME StoreTypes, UNCHANGED <<sectors, damage, mode, registry, publishing>>,
         NEW g \in staging, NEW contents \in [BundleSlots -> Contents],
         \A t \in BundleSlots \ {g.slot} : contents[t] = slots[t],
         DropStaging(contents), transaction' = {},
         cache' = cache \/ cache' = Cached(g.slot, slots[g.slot])
  PROVE  StoreTypes'
<1>1. staging' = {} /\ slots' \in [BundleSlots -> Contents]
  BY StagingDropped DEF StoreTypes
<1>2. g.slot \in BundleSlots /\ slots[g.slot] \in Contents
  BY DEF StoreTypes, Types
<1>3. AtMostOne(cache') /\ cache' \subseteq [slot : BundleSlots, chunks : Contents]
  <2>1. CASE cache' = cache
    BY <2>1 DEF StoreTypes, Types
  <2>2. CASE cache' = Cached(g.slot, slots[g.slot])
    BY <1>2, <2>2, CachedIsCache
  <2>3. QED BY <2>1, <2>2
<1>4. AtMostOne(staging') /\ AtMostOne(transaction')
  BY <1>1, EmptyIsAtMostOne
<1>5. QED BY <1>1, <1>3, <1>4 DEF StoreTypes, Types

LEMMA BeginTypes ==
  ASSUME StoreTypes, NEW request \in InstallRequests, Begin(request)
  PROVE  StoreTypes'
<1> DEFINE n == ChunksOf[request.bundle]
<1>1. PICK s \in BundleSlots :
        /\ slots' = [slots EXCEPT ![s] = ErasedUpTo(@, n)]
        /\ staging' = {[slot |-> s, request |-> request]}
  BY DEF Begin, BeginStaging, FreeSlots
<1>2. /\ UNCHANGED <<sectors, damage, mode, registry, cache, publishing>>
      /\ transaction' = {[request |-> request, received |-> 0]}
  BY DEF Begin, BeginStaging
<1>3. slots' \in [BundleSlots -> Contents]
  <2>1. slots \in [BundleSlots -> Contents]
    BY DEF StoreTypes, Types
  <2>2. ErasedUpTo(slots[s], n) \in Contents
    BY <2>1 DEF Contents, ErasedUpTo
  <2>3. QED BY <1>1, <2>1, <2>2
<1>4. AtMostOne(staging') /\ AtMostOne(transaction')
  BY <1>1, <1>2 DEF AtMostOne
<1>5. staging' \subseteq [slot : BundleSlots, request : InstallRequests]
  BY <1>1
<1>6. n \in Nat
  BY BundleChunks, ImageAssumption
<1>7. /\ transaction' \subseteq [request : InstallRequests, received : Nat]
      /\ \A t \in transaction' : t.received <= ChunksOf[t.request.bundle]
  BY <1>2, <1>6
<1>8. QED BY <1>2, <1>3, <1>4, <1>5, <1>7 DEF StoreTypes, Types

LEMMA AppendTypes ==
  ASSUME StoreTypes, NEW tx, NEW k \in Chunks, AppendChunk(tx, k)
  PROVE  StoreTypes'
<1>1. PICK t \in transaction :
        /\ InOrder(t, tx, k) /\ transaction' = {[t EXCEPT !.received = @ + 1]}
        /\ WriteStaging(k, t.request.bundle) \/ WriteStaging(k, Torn)
  BY DEF AppendChunk
<1>2. t \in [request : InstallRequests, received : Nat] /\ t.request.bundle \in Bundles
  BY ImageAssumption DEF StoreTypes, Types
<1>3. PICK chunk \in {t.request.bundle, Torn}, g \in staging :
        slots' = [slots EXCEPT ![g.slot][k] = Programmed(@, chunk)]
  BY <1>1 DEF WriteStaging
<1>4. UNCHANGED <<sectors, damage, mode, registry, staging, cache, publishing>>
  BY <1>1 DEF WriteStaging
<1>5. slots' \in [BundleSlots -> Contents]
  <2>1. slots \in [BundleSlots -> Contents] /\ g.slot \in BundleSlots
    BY DEF StoreTypes, Types
  <2>2. [slots[g.slot] EXCEPT ![k] = Programmed(@, chunk)] \in Contents
    BY <1>2, <2>1, ContentsStay
  <2>3. QED BY <1>3, <2>1, <2>2
<1>6. transaction' = {[request |-> t.request, received |-> t.received + 1]}
  BY <1>1, <1>2
<1>7. t.received + 1 <= ChunksOf[t.request.bundle] /\ t.received + 1 \in Nat
  BY <1>1, <1>2, BundleChunks DEF InOrder
<1>8. AtMostOne(transaction')
  BY <1>6, EmptyIsAtMostOne
<1>9. /\ transaction' \subseteq [request : InstallRequests, received : Nat]
      /\ \A u \in transaction' : u.received <= ChunksOf[u.request.bundle]
  <2>1. [request |-> t.request, received |-> t.received + 1]
          \in [request : InstallRequests, received : Nat]
    BY <1>2, <1>7
  <2>2. QED BY <1>6, <1>7, <2>1
<1>10. QED BY <1>4, <1>5, <1>8, <1>9 DEF StoreTypes, Types

LEMMA AppendFailsTypes ==
  ASSUME StoreTypes, NEW tx, NEW k \in Chunks, AppendFails(tx, k)
  PROVE  StoreTypes'
<1>1. PICK g \in staging : DropStaging([slots EXCEPT ![g.slot][k] = Torn])
  BY DEF AppendFails, WriteStagingFails
<1>2. /\ UNCHANGED <<sectors, damage, mode, registry, cache, publishing>>
      /\ transaction' = {}
  BY DEF AppendFails, WriteStagingFails
<1>3. slots \in [BundleSlots -> Contents] /\ g.slot \in BundleSlots
  BY DEF StoreTypes, Types
<1>4. [slots[g.slot] EXCEPT ![k] = Torn] \in Contents
  BY <1>3 DEF Contents
<1>5. /\ [slots EXCEPT ![g.slot][k] = Torn] \in [BundleSlots -> Contents]
      /\ \A t \in BundleSlots \ {g.slot} : [slots EXCEPT ![g.slot][k] = Torn][t] = slots[t]
  BY <1>3, <1>4
<1>6. QED BY <1>1, <1>2, <1>5, DroppedTypes

\* A publication starts.
LEMMA StartTypes ==
  ASSUME StoreTypes, Ready, UNCHANGED <<sectors, slots, damage, mode, staging, transaction>>,
         NEW next, NEW why \in {"commit", "rollback", "remove"}, StartPublish(next, why),
         next = [generation |-> registry.generation + 1, active |-> next.active,
                 rollback |-> next.rollback],
         next.active \in Record, next.rollback \in Record,
         AtMostOne(cache'), cache' \subseteq [slot : BundleSlots, chunks : Contents]
  PROVE  StoreTypes'
<1>1. registry \in RamRegistry /\ registry.generation \in 0 .. MaxGeneration
  BY DEF StoreTypes, Types, RamRegistry
<1>2. /\ registry.generation < MaxGeneration /\ registry' = next
      /\ publishing' = {[why |-> why, previous |-> registry, step |-> "erase"]}
  BY DEF StartPublish
<1>3. registry' \in RamRegistry
  <2>1. registry.generation + 1 \in 0 .. MaxGeneration
    BY <1>1, <1>2, ImageAssumption
  <2>2. QED BY <1>2, <2>1 DEF RamRegistry
<1>4. AtMostOne(publishing')
  BY <1>2, EmptyIsAtMostOne
<1>5. publishing' \subseteq Publications /\ \A p \in publishing' : p.previous \in RamRegistry
  BY <1>1, <1>2, EmptyTypes DEF Publications
<1>6. mode' = "on"
  BY DEF Ready
<1>7. QED BY <1>3, <1>4, <1>5, <1>6 DEF StoreTypes, Types

\* Every request of an install.
LEMMA InstallRequestedTypes ==
  ASSUME StoreTypes, InstallRequested
  PROVE  StoreTypes'
<1>1. slots \in [BundleSlots -> Contents]
  BY DEF StoreTypes, Types
<1>2. ASSUME NEW tx, CommitRejected(tx) \/ Abort(tx) PROVE StoreTypes'
  <2>1. /\ UNCHANGED <<sectors, damage, mode, registry, publishing>>
        /\ transaction' = {} /\ DropStaging(slots)
    BY <1>2 DEF CommitRejected, VerifyRejects, Abort, AbortStaging
  <2>2. PICK g \in staging : cache' = cache \/ cache' = Cached(g.slot, slots[g.slot])
    BY <1>2 DEF CommitRejected, VerifyRejects, Abort, AbortStaging, ReadStaging
  <2>3. QED BY <1>1, <2>1, <2>2, DroppedTypes
<1>3. ASSUME NEW tx, Commit(tx) PROVE StoreTypes'
  <2>1. PICK g \in staging :
          cache' = Cached(g.slot, slots[g.slot]) /\ StartPublish(Committed(g), "commit")
    BY <1>3 DEF Commit, CommitStaging, ReadStaging
  <2>2. /\ Ready
        /\ UNCHANGED <<sectors, slots, damage, mode, staging, transaction>>
    BY <1>3 DEF Commit, CommitStaging, flashVars
  <2>3. /\ g.slot \in BundleSlots /\ g.request.bundle \in Bundles /\ slots[g.slot] \in Contents
        /\ registry.active \in Record
    BY ImageAssumption DEF StoreTypes, Types, RamRegistry
  <2>4. AtMostOne(cache') /\ cache' \subseteq [slot : BundleSlots, chunks : Contents]
    BY <2>1, <2>3, CachedIsCache
  <2>5. [slot |-> g.slot, bundle |-> g.request.bundle] \in Record
    BY <2>3 DEF Record
  <2>6. QED BY <2>1, <2>2, <2>3, <2>4, <2>5, StartTypes DEF Committed
<1>4. ASSUME NEW tx, NEW k \in Chunks, AppendChunk(tx, k) \/ AppendFails(tx, k)
      PROVE  StoreTypes'
  BY <1>4, AppendTypes, AppendFailsTypes
<1>5. ASSUME NEW request \in InstallRequests, Begin(request) PROVE StoreTypes'
  BY <1>5, BeginTypes
<1>6. QED BY <1>2, <1>3, <1>4, <1>5 DEF InstallRequested, TransportReset

\* acquire_installed_bundle, rollback and remove.
LEMMA LibraryTypes ==
  ASSUME StoreTypes, NEW app, UNCHANGED transaction,
         AcquireInstalledBundle(app) \/ Rollback(app) \/ Remove(app)
  PROVE  StoreTypes'
<1>1. registry \in RamRegistry
  BY DEF StoreTypes, Types
<1>2. ASSUME NEW record \in Record, record # NoRecord, Inspect(record)
      PROVE  AtMostOne(cache') /\ cache' \subseteq [slot : BundleSlots, chunks : Contents]
  <2>1. record.slot \in BundleSlots
    BY <1>2, RecordSlots
  <2>2. ReadSlot(record.slot) \in Contents
    <3>1. slots[record.slot] \in Contents /\ \A c \in cache : c.chunks \in Contents
      BY <2>1 DEF StoreTypes, Types
    <3>2. CASE \E c \in cache : c.slot = record.slot
      BY <3>1, <3>2 DEF ReadSlot
    <3>3. CASE ~ \E c \in cache : c.slot = record.slot
      BY <3>1, <3>3 DEF ReadSlot
    <3>4. QED BY <3>2, <3>3
  <2>3. QED BY <1>2, <2>1, <2>2, CachedIsCache DEF Inspect
<1>3. CASE AcquireInstalledBundle(app)
  <2>1. /\ UNCHANGED <<sectors, slots, damage, mode, registry, staging, publishing>>
        /\ registry.active # NoRecord /\ Inspect(registry.active)
    BY <1>3 DEF AcquireInstalledBundle, Installed, flashVars
  <2>2. AtMostOne(cache') /\ cache' \subseteq [slot : BundleSlots, chunks : Contents]
    BY <1>1, <1>2, <2>1 DEF RamRegistry
  <2>3. QED BY <2>1, <2>2 DEF StoreTypes, Types
<1>4. CASE Rollback(app)
  <2> DEFINE next == [generation |-> registry.generation + 1,
                      active |-> registry.rollback, rollback |-> registry.active]
  <2>1. /\ Ready /\ registry.rollback # NoRecord /\ Inspect(registry.rollback)
        /\ UNCHANGED <<sectors, slots, damage, mode, staging>>
        /\ StartPublish(next, "rollback") \/ UNCHANGED <<registry, publishing>>
    BY <1>4 DEF Rollback, flashVars
  <2>2. AtMostOne(cache') /\ cache' \subseteq [slot : BundleSlots, chunks : Contents]
    BY <1>1, <1>2, <2>1 DEF RamRegistry
  <2>3. CASE StartPublish(next, "rollback")
    <3>1. next.active \in Record /\ next.rollback \in Record
      BY <1>1 DEF RamRegistry
    <3>2. QED BY <2>1, <2>2, <2>3, <3>1, StartTypes
  <2>4. CASE UNCHANGED <<registry, publishing>>
    BY <2>1, <2>2, <2>4 DEF StoreTypes, Types
  <2>5. QED BY <2>1, <2>3, <2>4
<1>5. CASE Remove(app)
  <2>1. /\ Ready /\ StartPublish(EmptyRegistry(registry.generation + 1), "remove")
        /\ UNCHANGED <<sectors, slots, damage, mode, staging, cache>>
    BY <1>5 DEF Remove, flashVars
  <2>2. AtMostOne(cache') /\ cache' \subseteq [slot : BundleSlots, chunks : Contents]
    BY <2>1 DEF StoreTypes, Types
  <2>3. NoRecord \in Record
    BY DEF Record
  <2>4. QED BY <2>1, <2>2, <2>3, StartTypes DEF EmptyRegistry
<1>6. QED BY <1>3, <1>4, <1>5

\* The flash operations of a publication, and their failures.
LEMMA PublicationTypes ==
  ASSUME StoreTypes, Publication
  PROVE  StoreTypes'
<1>1. /\ sectors \in [0 .. 1 -> Registry] /\ slots \in [BundleSlots -> Contents]
      /\ publishing \subseteq Publications /\ registry \in RamRegistry
      /\ \A p \in publishing : p.previous \in RamRegistry
  BY DEF StoreTypes, Types
<1>2. CASE EraseSector /\ UNCHANGED transaction
  <2>1. PICK p \in publishing :
          /\ publishing' = {[p EXCEPT !.step = "write"]}
          /\ sectors' = [sectors EXCEPT ![Target(registry.generation)] = InvalidSector]
          /\ UNCHANGED <<slots, damage, mode, registry, staging, cache>>
    BY <1>2 DEF EraseSector
  <2>2. publishing' = {[why |-> p.why, previous |-> p.previous, step |-> "write"]}
    BY <1>1, <2>1 DEF Publications
  <2>3. AtMostOne(publishing')
    BY <2>2, EmptyIsAtMostOne
  <2>4. publishing' \subseteq Publications /\ \A q \in publishing' : q.previous \in RamRegistry
    BY <1>1, <2>2 DEF Publications
  <2>5. sectors' \in [0 .. 1 -> Registry]
    BY <1>1, <2>1, EmptyTypes
  <2>6. mode' # "off"
    BY <2>1 DEF StoreTypes
  <2>7. QED BY <1>2, <2>1, <2>3, <2>4, <2>5, <2>6 DEF StoreTypes, Types
<1>3. CASE /\ WriteSector \/ PublishFails
           /\ transaction' = IF \E p \in publishing : p.why = "commit"
                             THEN {} ELSE transaction
  <2>1. transaction' \subseteq transaction
    BY <1>3
  <2>2. PICK p \in publishing :
          /\ publishing' = {} /\ UNCHANGED <<damage, cache>>
          /\ mode' \in {"on", "dead"}
          /\ \/ /\ sectors' = [sectors EXCEPT ![Target(registry.generation)] = registry]
                /\ registry' = registry
                /\ slots' = slots \/ WipeSlots(p.previous)
                /\ staging' \subseteq staging
             \/ /\ sectors' = sectors /\ registry' = p.previous
                /\ DropStaging(slots) \/ UNCHANGED <<slots, staging>>
    BY <1>3 DEF WriteSector, PublishFails
  <2>3. sectors' \in [0 .. 1 -> Registry] /\ registry' \in RamRegistry
    BY <1>1, <2>2, EmptyTypes
  <2>4. slots' \in [BundleSlots -> Contents] /\ staging' \subseteq staging
    <3>1. CASE WipeSlots(p.previous) /\ staging' \subseteq staging
      <4>1. [k \in Chunks |-> Erased] \in Contents
        BY DEF Contents
      <4>2. QED BY <1>1, <3>1, <4>1 DEF WipeSlots
    <3>2. CASE DropStaging(slots)
      <4>1. PICK g \in staging : TRUE
        BY <3>2 DEF DropStaging
      <4>2. QED BY <1>1, <3>2, StagingDropped DEF StoreTypes
    <3>3. CASE slots' = slots /\ staging' \subseteq staging
      BY <1>1, <3>3
    <3>4. QED BY <2>2, <3>1, <3>2, <3>3
  <2>5. AtMostOne(staging') /\ AtMostOne(transaction') /\ AtMostOne(publishing')
    BY <2>1, <2>2, <2>4 DEF StoreTypes, Types, AtMostOne
  <2>6. /\ staging' \subseteq [slot : BundleSlots, request : InstallRequests]
        /\ transaction' \subseteq [request : InstallRequests, received : Nat]
        /\ \A t \in transaction' : t.received <= ChunksOf[t.request.bundle]
    BY <2>1, <2>4 DEF StoreTypes, Types
  <2>7. QED BY <2>2, <2>3, <2>4, <2>5, <2>6 DEF StoreTypes, Types
<1>4. QED BY <1>2, <1>3 DEF Publication

\* Boot, a loss of power, and a defect of flash.
LEMMA PowerTypes ==
  ASSUME StoreTypes, EndpointPower
  PROVE  StoreTypes'
<1>1. /\ sectors \in [0 .. 1 -> Registry] /\ slots \in [BundleSlots -> Contents]
      /\ damage \in 0 .. MaxDamage
  BY DEF StoreTypes, Types
<1>2. EmptyRegistry(0) \in RamRegistry /\ InvalidSector \in Registry
  BY EmptyTypes
<1>3. CASE PowerLoss /\ transaction' = {}
  <2>1. /\ registry' = EmptyRegistry(0) /\ staging' = {} /\ cache' = {} /\ publishing' = {}
        /\ mode' = "off" /\ UNCHANGED <<sectors, slots, damage>>
    BY <1>3 DEF PowerLoss, RamIsLost, flashVars
  <2>2. QED BY <1>2, <1>3, <2>1, EmptyIsAtMostOne DEF StoreTypes, Types
<1>4. CASE Boot /\ UNCHANGED transaction
  <2>1. Selected \in Registry
    BY <1>1 DEF Selected
  <2>2. UNCHANGED <<sectors, slots, damage, staging>>
    BY <1>4 DEF Boot, flashVars
  <2>3. AtMostOne(cache') /\ cache' \subseteq [slot : BundleSlots, chunks : Contents]
    <3>1. CASE cache' = {}
      BY <3>1, EmptyIsAtMostOne
    <3>2. CASE /\ Selected.active # NoRecord
               /\ cache' = Cached(Selected.active.slot, slots[Selected.active.slot])
      <4>1. Selected.active.slot \in BundleSlots
        BY <2>1, <3>2, RecordSlots DEF Registry
      <4>2. QED BY <1>1, <3>2, <4>1, CachedIsCache
    <3>3. QED BY <1>4, <3>1, <3>2 DEF Boot
  <2>4. CASE Loads
    <3>1. mode' = "on" /\ registry' = Selected /\ publishing' = publishing
      BY <1>4, <2>4 DEF Boot
    <3>2. registry' \in RamRegistry
      BY <2>1, <2>4, <3>1, ImageAssumption DEF Loads, Registry, RamRegistry
    <3>3. QED BY <1>4, <2>2, <2>3, <3>1, <3>2 DEF StoreTypes, Types
  <2>5. CASE ~Loads
    <3>1. /\ mode' = "booting" /\ registry' = EmptyRegistry(0)
          /\ publishing' =
               {[why |-> "boot", previous |-> EmptyRegistry(0), step |-> "erase"]}
      BY <1>4, <2>5 DEF Boot
    <3>2. AtMostOne(publishing')
      BY <3>1, EmptyIsAtMostOne
    <3>3. publishing' \subseteq Publications /\ \A p \in publishing' : p.previous \in RamRegistry
      BY <1>2, <3>1, EmptyTypes DEF Publications
    <3>4. QED BY <1>2, <1>4, <2>2, <2>3, <3>1, <3>2, <3>3 DEF StoreTypes, Types
  <2>6. QED BY <2>4, <2>5
<1>5. CASE Damage /\ UNCHANGED transaction
  <2>1. /\ damage < MaxDamage /\ damage' = damage + 1
        /\ UNCHANGED <<mode, registry, staging, cache, publishing>>
    BY <1>5 DEF Damage
  <2>2. damage' \in 0 .. MaxDamage
    BY <1>1, <2>1, ImageAssumption
  <2>3. sectors' \in [0 .. 1 -> Registry] /\ slots' \in [BundleSlots -> Contents]
    <3>1. CASE /\ \E i \in 0 .. 1 : sectors' = [sectors EXCEPT ![i] = InvalidSector]
               /\ UNCHANGED slots
      BY <1>1, <1>2, <3>1
    <3>2. CASE /\ \E s \in BundleSlots, k \in Chunks : slots' = [slots EXCEPT ![s][k] = Torn]
               /\ UNCHANGED sectors
      <4>1. PICK s \in BundleSlots, k \in Chunks : slots' = [slots EXCEPT ![s][k] = Torn]
        BY <3>2
      <4>2. [slots[s] EXCEPT ![k] = Torn] \in Contents
        BY <1>1 DEF Contents
      <4>3. QED BY <1>1, <3>2, <4>1, <4>2
    <3>3. QED BY <1>5, <3>1, <3>2 DEF Damage
  <2>4. QED BY <1>5, <2>1, <2>2, <2>3 DEF StoreTypes, Types
<1>6. QED BY <1>3, <1>4, <1>5 DEF EndpointPower

LEMMA InitTypes == EndpointInit => EndpointInv
<1> SUFFICES ASSUME EndpointInit PROVE EndpointInv
  OBVIOUS
<1>1. /\ sectors = [i \in 0 .. 1 |-> InvalidSector]
      /\ slots = [s \in BundleSlots |-> [k \in Chunks |-> Erased]]
      /\ damage = 0 /\ mode = "off" /\ registry = EmptyRegistry(0)
      /\ staging = {} /\ cache = {} /\ publishing = {} /\ transaction = {}
  BY DEF EndpointInit, InstallInit, Init
<1>2. /\ sectors \in [0 .. 1 -> Registry] /\ registry \in RamRegistry
      /\ damage \in 0 .. MaxDamage
  BY <1>1, EmptyTypes, ImageAssumption
<1>3. slots \in [BundleSlots -> Contents]
  BY <1>1 DEF Contents
<1>4. StoreTypes
  BY <1>1, <1>2, <1>3, EmptyIsAtMostOne DEF StoreTypes, Types
<1>5. AppTypes
  BY EmptyIsAtMostOne DEF EndpointInit, AppTypes
<1>6. QED BY <1>1, <1>4, <1>5
          DEF EndpointInv, EndpointInit, SessionIsAccountedFor, StopsBeforeMutation

-----------------------------------------------------------------------------
(***************************************************************************)
(* The App and its tasks                                                   *)
(***************************************************************************)
\* Ending the App leaves nothing to account for.
LEMMA EndedIsAccounted ==
  ASSUME NEW next, Ended(next), AtMostOne(next), next \subseteq Apps \cup {"launcher"}
  PROVE  AppTypes' /\ SessionIsAccountedFor' /\ StopsBeforeMutation'
BY EmptyIsAtMostOne DEF Ended, AppTypes, SessionIsAccountedFor, StopsBeforeMutation

\* No publication but a remove or a rollback concerns the App that runs.
LEMMA AppUnchanged ==
  ASSUME EndpointInv, UNCHANGED appVars,
         \A p \in publishing' :
           \/ p.why \in {"boot", "commit"}
           \/ \E q \in publishing : q.why = p.why /\ q.previous = p.previous
  PROVE  AppTypes' /\ SessionIsAccountedFor' /\ StopsBeforeMutation'
<1>1. UNCHANGED <<lease, session, fatal, activeApp, foreground>>
  BY DEF appVars
<1>2. AppTypes' /\ SessionIsAccountedFor'
  BY <1>1 DEF EndpointInv, AppTypes, SessionIsAccountedFor
<1>3. StopsBeforeMutation'
  BY <1>1 DEF EndpointInv, StopsBeforeMutation
<1>4. QED BY <1>2, <1>3

\* The App that is removed or rolled back is not the one that runs on.
LEMMA MutationAfterStop ==
  ASSUME EndpointInv, NEW app \in Apps, StopIfRunning(app),
         \A p \in publishing' :
           \/ AppOf[p.previous.active.bundle] = app
           \/ p \in publishing
  PROVE  AppTypes' /\ SessionIsAccountedFor' /\ StopsBeforeMutation'
<1>1. CASE Runs(app)
  BY <1>1, EndedIsAccounted, EmptyIsAtMostOne DEF StopIfRunning
<1>2. CASE ~Runs(app)
  <2>1. UNCHANGED <<lease, session, fatal, activeApp, foreground>>
    BY <1>2 DEF StopIfRunning, appVars
  <2>2. AppTypes' /\ SessionIsAccountedFor'
    BY <2>1 DEF EndpointInv, AppTypes, SessionIsAccountedFor
  <2>3. \A b \in session : AppOf[b] # app
    BY <1>2 DEF EndpointInv, SessionIsAccountedFor, Runs
  <2>4. StopsBeforeMutation'
    BY <2>1, <2>3 DEF EndpointInv, StopsBeforeMutation
  <2>5. QED BY <2>2, <2>4
<1>3. QED BY <1>1, <1>2

LEMMA NextEndpointInv == EndpointInv /\ [EndpointNext]_endpointVars => EndpointInv'
<1> SUFFICES ASSUME EndpointInv, [EndpointNext]_endpointVars PROVE EndpointInv'
  OBVIOUS
<1>1. StoreTypes
  BY DEF EndpointInv
<1>2. ASSUME UNCHANGED installVars PROVE StoreTypes'
  <2>1. UNCHANGED <<sectors, slots, damage, mode, registry, staging, cache, publishing,
                    transaction>>
    BY <1>2 DEF installVars, storeVars
  <2>2. QED BY <1>1, <2>1 DEF StoreTypes, Types
<1>3. CASE InstallRequested /\ UNCHANGED appVars
  <2>1. \A p \in publishing' : p.why = "commit" \/ p \in publishing
    BY <1>3
       DEF InstallRequested, TransportReset, Begin, BeginStaging, AppendChunk, WriteStaging,
           AppendFails, WriteStagingFails, CommitRejected, VerifyRejects, Commit,
           CommitStaging, StartPublish, Abort, AbortStaging
  <2>2. AppTypes' /\ SessionIsAccountedFor' /\ StopsBeforeMutation'
    BY <1>3, <2>1, AppUnchanged
  <2>3. QED BY <1>1, <1>3, <2>2, InstallRequestedTypes DEF EndpointInv
<1>4. CASE Publication /\ UNCHANGED appVars
  <2>1. \A p \in publishing' :
          \E q \in publishing : q.why = p.why /\ q.previous = p.previous
    <3>1. CASE EraseSector
      <4>1. PICK q \in publishing : publishing' = {[q EXCEPT !.step = "write"]}
        BY <3>1 DEF EraseSector
      <4>2. q \in Publications
        BY <1>1 DEF StoreTypes, Types
      <4>3. QED BY <4>1, <4>2 DEF Publications
    <3>2. CASE WriteSector \/ PublishFails
      BY <3>2 DEF WriteSector, PublishFails
    <3>3. QED BY <1>4, <3>1, <3>2 DEF Publication
  <2>2. AppTypes' /\ SessionIsAccountedFor' /\ StopsBeforeMutation'
    BY <1>4, <2>1, AppUnchanged
  <2>3. QED BY <1>1, <1>4, <2>2, PublicationTypes DEF EndpointInv
<1>5. CASE \E app \in Apps : LaunchStarts(app)
  <2>1. PICK app \in Apps : LaunchStarts(app)
    BY <1>5
  <2>2. /\ Ready /\ registry.active # NoRecord /\ AppOf[registry.active.bundle] = app
        /\ UNCHANGED publishing
        /\ lease' = {registry.active} /\ session' = {registry.active.bundle}
        /\ fatal' = FALSE /\ activeApp' = {app} /\ foreground' = {app}
    BY <2>1 DEF LaunchStarts, AcquireInstalledBundle, Installed
  <2>3. registry.active \in Record /\ registry.active.bundle \in Bundles
    BY <1>1, <2>2, RecordSlots DEF StoreTypes, Types, RamRegistry
  <2>4. AppTypes'
    BY <2>2, <2>3, EmptyIsAtMostOne DEF AppTypes
  <2>5. SessionIsAccountedFor' /\ StopsBeforeMutation'
    BY <2>2 DEF SessionIsAccountedFor, StopsBeforeMutation, Ready
  <2>6. StoreTypes'
    BY <1>1, <2>1, LibraryTypes DEF LaunchStarts
  <2>7. QED BY <2>4, <2>5, <2>6 DEF EndpointInv
<1>6. CASE \E app \in Apps : LaunchFails(app)
  <2>1. PICK app \in Apps : LaunchFails(app)
    BY <1>6
  <2>2. AppTypes' /\ SessionIsAccountedFor' /\ StopsBeforeMutation'
    BY <2>1, EndedIsAccounted, EmptyIsAtMostOne DEF LaunchFails, Recovered
  <2>3. StoreTypes'
    <3>1. CASE AcquireInstalledBundle(app)
      BY <1>1, <2>1, <3>1, LibraryTypes DEF LaunchFails
    <3>2. CASE UNCHANGED storeVars
      BY <1>2, <2>1, <3>2 DEF LaunchFails, installVars
    <3>3. QED BY <2>1, <3>1, <3>2 DEF LaunchFails
  <2>4. QED BY <2>2, <2>3 DEF EndpointInv
<1>7. CASE \E app \in Apps : HandleStop(app)
  <2>1. Ended({}) /\ UNCHANGED installVars
    BY <1>7 DEF HandleStop
  <2>2. QED BY <1>2, <2>1, EndedIsAccounted, EmptyIsAtMostOne DEF EndpointInv
<1>8. CASE \E app \in Apps : HandleRemove(app) \/ HandleRollback(app)
  <2>1. PICK app \in Apps : HandleRemove(app) \/ HandleRollback(app)
    BY <1>8
  <2>2. StopIfRunning(app) /\ UNCHANGED transaction
    BY <2>1 DEF HandleRemove, HandleRollback
  <2>3. CASE Remove(app) \/ Rollback(app)
    <3>1. \A p \in publishing' :
            AppOf[p.previous.active.bundle] = app \/ p \in publishing
      BY <2>3 DEF Remove, Rollback, Installed, StartPublish
    <3>2. QED BY <1>1, <2>2, <2>3, <3>1, MutationAfterStop, LibraryTypes DEF EndpointInv
  <2>4. CASE UNCHANGED storeVars
    <3>1. publishing' = publishing /\ UNCHANGED installVars
      BY <2>2, <2>4 DEF storeVars, installVars
    <3>2. QED BY <1>2, <2>2, <3>1, MutationAfterStop DEF EndpointInv
  <2>5. QED BY <2>1, <2>3, <2>4 DEF HandleRemove, HandleRollback
<1>9. CASE SessionFails
  <2>1. UNCHANGED installVars /\ UNCHANGED <<lease, session, activeApp, foreground>>
        /\ fatal' = TRUE /\ publishing' = publishing
    BY <1>9 DEF SessionFails, installVars, storeVars
  <2>2. AppTypes' /\ SessionIsAccountedFor' /\ StopsBeforeMutation'
    BY <2>1 DEF EndpointInv, AppTypes, SessionIsAccountedFor, StopsBeforeMutation
  <2>3. QED BY <1>2, <2>1, <2>2 DEF EndpointInv
<1>10. CASE PollActiveSession
  <2>1. Ended({"launcher"}) /\ UNCHANGED installVars
    BY <1>10 DEF PollActiveSession, Recovered
  <2>2. QED BY <1>2, <2>1, EndedIsAccounted, EmptyIsAtMostOne DEF EndpointInv
<1>11. CASE EndpointPower
  <2>1. AppTypes' /\ SessionIsAccountedFor' /\ StopsBeforeMutation'
    <3>1. CASE PowerLoss /\ Ended({})
      BY <3>1, EndedIsAccounted, EmptyIsAtMostOne
    <3>2. CASE (Boot \/ Damage) /\ UNCHANGED appVars
      <4>1. \A p \in publishing' : p.why = "boot" \/ p \in publishing
        BY <3>2 DEF Boot, Damage
      <4>2. QED BY <3>2, <4>1, AppUnchanged
    <3>3. QED BY <1>11, <3>1, <3>2 DEF EndpointPower
  <2>2. QED BY <1>1, <1>11, <2>1, PowerTypes DEF EndpointInv
<1>12. CASE UNCHANGED endpointVars
  <2>1. UNCHANGED installVars /\ UNCHANGED appVars /\ publishing' = publishing
    BY <1>12 DEF endpointVars, installVars, storeVars
  <2>2. QED BY <1>2, <2>1, AppUnchanged DEF EndpointInv
<1>13. QED BY <1>3, <1>4, <1>5, <1>6, <1>7, <1>8, <1>9, <1>10, <1>11, <1>12
           DEF EndpointNext

\* The inductive invariant holds, whatever defects flash has.
THEOREM EndpointInvariant == EndpointSpec => []EndpointInv
BY InitTypes, NextEndpointInv, PTL DEF EndpointSpec

-----------------------------------------------------------------------------
(***************************************************************************)
(* Theorems                                                                *)
(***************************************************************************)
\* The variables hold values of their types; one session runs at most, with one lease.
THEOREM EndpointTypes == EndpointSpec => []EndpointTypeOK
<1>1. EndpointInv => EndpointTypeOK
  <2> SUFFICES ASSUME EndpointInv PROVE EndpointTypeOK
    OBVIOUS
  <2>1. /\ Cardinality(staging) <= 1 /\ Cardinality(cache) <= 1
        /\ Cardinality(publishing) <= 1 /\ Cardinality(transaction) <= 1
    BY AtMostOneCardinality DEF EndpointInv, StoreTypes, Types
  <2>2. /\ Cardinality(lease) <= 1 /\ Cardinality(session) <= 1
        /\ Cardinality(activeApp) <= 1 /\ Cardinality(foreground) <= 1
    BY AtMostOneCardinality DEF EndpointInv, AppTypes
  <2>3. StoreTypeOK
    BY <2>1
       DEF EndpointInv, StoreTypes, Types, StoreTypeOK, Contents, RamRegistry, Publications
  <2>4. TypeOK
    BY <2>1, <2>3 DEF EndpointInv, StoreTypes, Types, TypeOK
  <2>5. QED BY <2>2, <2>4 DEF EndpointInv, AppTypes, EndpointTypeOK
<1>2. QED BY <1>1, EndpointInvariant, PTL

\* Tasks run only for the App whose bundle is leased, that is active and that the host has
\* in front, so that a request naming that App finds and stops them.
THEOREM SessionsAreAccountedFor == EndpointSpec => []SessionIsAccountedFor
<1>1. EndpointInv => SessionIsAccountedFor
  BY DEF EndpointInv
<1>2. QED BY <1>1, EndpointInvariant, PTL

\* While an App that is the installed one runs, neither a remove nor a rollback of it is
\* published.
THEOREM MutationsFollowStops == EndpointSpec => []StopsBeforeMutation
<1>1. EndpointInv => StopsBeforeMutation
  BY DEF EndpointInv
<1>2. QED BY <1>1, EndpointInvariant, PTL
=============================================================================
