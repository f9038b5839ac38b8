--------------------------- MODULE DeviceImageStore ---------------------------
(***************************************************************************)
(* DeviceImageStore of jellyframe_esp32s3_device_image_store.{h,cpp}: the  *)
(* raw flash partition that holds the installed App.  Two sectors hold     *)
(* copies of the registry, three slots hold bundles; a registry is         *)
(* published by erasing and then writing the sector its generation         *)
(* selects, so the other sector keeps the registry before it.              *)
(*                                                                         *)
(* The endpoint task makes all calls one after the other.  A call is one   *)
(* action, except that a publication takes one action per flash operation: *)
(* power can be lost between any two of them, and each of them can fail.   *)
(* The calls are made by DeviceInstallTransaction, which extends this      *)
(* module; on their own they are not safe in every order (write_staging    *)
(* would accept a chunk behind verify_staging).                            *)
(*                                                                         *)
(* A bundle is a value with an app, a version and a number of chunks.      *)
(* bundle_bytes together with bundle_crc32 stand for one bundle: the CRC   *)
(* is taken to tell all bundles apart.                                     *)
(***************************************************************************)
EXTENDS Integers, FiniteSets

CONSTANTS
  Apps,
  Bundles,
  NoBundle, Erased, Torn,   \* no bundle at all; the two other contents of flash
  AppOf, VersionOf,         \* the summary of a bundle
  ChunksOf,                 \* its length
  WellFormed,               \* the bundles inspect_device_bundle accepts
  InstallRequests,          \* the install requests a host makes
  MaxGeneration,            \* at most this many publications (state bound)
  MaxDamage                 \* at most this many flash defects (state bound)

ASSUME ImageAssumption ==
  /\ NoBundle \notin Bundles /\ Erased \notin Bundles /\ Torn \notin Bundles
  /\ Erased # Torn
  /\ AppOf \in [Bundles -> Apps] /\ VersionOf \in [Bundles -> Nat]
  /\ ChunksOf \in [Bundles -> Nat \ {0}]
  /\ \E longest \in Bundles : \A b \in Bundles : ChunksOf[b] <= ChunksOf[longest]
  /\ WellFormed \subseteq Bundles
  /\ InstallRequests \subseteq [tx : Nat \ {0}, app : Apps, bundle : Bundles,
                                allowDowngrade : BOOLEAN]
  /\ MaxGeneration \in Nat /\ MaxDamage \in Nat

BundleSlots == 0 .. 2
NoSlot == 255

NoRecord == [slot |-> NoSlot, bundle |-> NoBundle]
Record == [slot : BundleSlots, bundle : Bundles] \cup {NoRecord}

\* A sector that fails the magic, version, size or CRC check is read as generation -1.
Registry == [generation : -1 .. MaxGeneration, active : Record, rollback : Record]
EmptyRegistry(generation) ==
  [generation |-> generation, active |-> NoRecord, rollback |-> NoRecord]
InvalidSector == EmptyRegistry(-1)

TxIds == {request.tx : request \in InstallRequests}

VARIABLES
  sectors,     \* the two registry copies
  slots,       \* the chunks of each bundle slot
  damage,      \* how many flash defects there were
  mode,        \* "off", "booting", "on", or "dead": initialize returned false
  registry,    \* registry_: the copy in RAM
  staging,     \* the set of at most one open staging: its slot and request
  cache,       \* reader_cache_ and its slot: the set of at most one sector
  publishing   \* the set of at most one publication: who asked, what was before, next step

flashVars == <<sectors, slots, damage>>
storeVars == <<sectors, slots, damage, mode, registry, staging, cache, publishing>>

Chunks == 1 .. CHOOSE n \in {ChunksOf[b] : b \in Bundles} : \A b \in Bundles : ChunksOf[b] <= n

RamIsLost == registry' = EmptyRegistry(0) /\ staging' = {} /\ cache' = {} /\ publishing' = {}

\* A factory-fresh partition.
Init ==
  /\ sectors = [i \in 0 .. 1 |-> InvalidSector]
  /\ slots = [s \in BundleSlots |-> [k \in Chunks |-> Erased]]
  /\ damage = 0 /\ mode = "off"
  /\ registry = EmptyRegistry(0) /\ staging = {} /\ cache = {} /\ publishing = {}

-----------------------------------------------------------------------------
(***************************************************************************)
(* Reading: validate_record and the sector cache                           *)
(***************************************************************************)
Holds(chunks, bundle) == \A k \in 1 .. ChunksOf[bundle] : chunks[k] = bundle

\* read_slot_cached serves the slot it holds from RAM.  The cache is taken to hold the
\* whole slot, the worst case of one sector.
ReadSlot(s) ==
  IF \E c \in cache : c.slot = s THEN (CHOOSE c \in cache : c.slot = s).chunks ELSE slots[s]

Cached(s, chunks) == {[slot |-> s, chunks |-> chunks]}

\* inspect_device_bundle accepts what the slot holds and it is the recorded bundle.
Validates(record, chunks) ==
  /\ record.bundle \in WellFormed
  /\ Holds(chunks, record.bundle)

-----------------------------------------------------------------------------
(***************************************************************************)
(* Publishing a registry                                                   *)
(***************************************************************************)
Ready == mode = "on" /\ publishing = {}

Target(generation) == generation % 2

\* The registry in RAM is replaced first; publish_registry then makes it durable.
StartPublish(next, why) ==
  /\ registry.generation < MaxGeneration
  /\ registry' = next
  /\ publishing' = {[why |-> why, previous |-> registry, step |-> "erase"]}

\* Mutant of EraseSector: the sector of the previous generation is the one erased.
EraseOtherSector ==
  \E p \in publishing :
    /\ p.step = "erase"
    /\ sectors' = [sectors EXCEPT ![Target(registry.generation + 1)] = InvalidSector]
    /\ publishing' = {[p EXCEPT !.step = "write"]}
    /\ UNCHANGED <<slots, damage, mode, registry, staging, cache>>

EraseSector ==
  \E p \in publishing :
    /\ p.step = "erase"
    /\ sectors' = [sectors EXCEPT ![Target(registry.generation)] = InvalidSector]
    /\ publishing' = {[p EXCEPT !.step = "write"]}
    /\ UNCHANGED <<slots, damage, mode, registry, staging, cache>>

\* erase_slot_range: what lies behind the first n chunks stays.
ErasedUpTo(chunks, n) == [k \in Chunks |-> IF k <= n THEN Erased ELSE chunks[k]]

\* abort_staging: the slot is erased if flash lets it, and the staging is forgotten.
DropStaging(contents) ==
  /\ \E g \in staging :
       slots' \in {contents,
                  [contents EXCEPT ![g.slot] = ErasedUpTo(@, ChunksOf[g.request.bundle])]}
  /\ staging' = {}

\* remove erases the slots of the previous registry, each if flash lets it.
WipeSlots(previous) ==
  \E wiped \in SUBSET ({previous.active.slot, previous.rollback.slot} \ {NoSlot}) :
    slots' = [s \in BundleSlots |-> IF s \in wiped THEN [k \in Chunks |-> Erased] ELSE slots[s]]

\* The write succeeded: the operation that asked for it goes on.
WriteSector ==
  \E p \in publishing :
    /\ p.step = "write"
    /\ sectors' = [sectors EXCEPT ![Target(registry.generation)] = registry]
    /\ publishing' = {}
    /\ mode' = "on"
    /\ IF p.why = "remove" THEN WipeSlots(p.previous) ELSE UNCHANGED slots
    /\ staging' = IF p.why = "commit" THEN {} ELSE staging
    /\ UNCHANGED <<damage, registry, cache>>

\* The erase or the write failed (a sector half written fails its CRC): the registry in
\* RAM is restored.  A failed commit is followed by abort_staging; a boot that cannot
\* publish gives up.
PublishFails ==
  \E p \in publishing :
    /\ publishing' = {}
    /\ registry' = p.previous
    /\ mode' = IF p.why = "boot" THEN "dead" ELSE "on"
    /\ IF p.why = "commit" THEN DropStaging(slots) ELSE UNCHANGED <<slots, staging>>
    /\ UNCHANGED <<sectors, damage, cache>>

-----------------------------------------------------------------------------
(***************************************************************************)
(* Boot                                                                    *)
(***************************************************************************)
\* The copy load_registry selects; on equal generations that of the first sector.
Selected ==
  IF sectors[0].generation >= sectors[1].generation THEN sectors[0] ELSE sectors[1]

Loads ==
  /\ Selected.generation >= 0
  /\ Selected.active # NoRecord =>
       Validates(Selected.active, slots[Selected.active.slot])

Boot ==
  /\ mode = "off"
  /\ IF Loads
     THEN /\ mode' = "on" /\ registry' = Selected /\ UNCHANGED publishing
          /\ cache' = IF Selected.active = NoRecord THEN {}
                      ELSE Cached(Selected.active.slot, slots[Selected.active.slot])
     ELSE /\ mode' = "booting" /\ registry' = EmptyRegistry(0)
          /\ publishing' = {[why |-> "boot", previous |-> EmptyRegistry(0), step |-> "erase"]}
          /\ cache' = IF Selected.active = NoRecord THEN {}
                      ELSE Cached(Selected.active.slot, slots[Selected.active.slot])
  /\ UNCHANGED <<flashVars, staging>>

PowerLoss ==
  /\ mode # "off" /\ mode' = "off"
  /\ RamIsLost
  /\ UNCHANGED flashVars

\* A defect of flash that a later boot finds: a registry copy or a chunk is unreadable.
Damage ==
  /\ mode = "off" /\ damage < MaxDamage
  /\ damage' = damage + 1
  /\ \/ /\ \E i \in 0 .. 1 : sectors' = [sectors EXCEPT ![i] = InvalidSector]
        /\ UNCHANGED slots
     \/ /\ \E s \in BundleSlots, k \in Chunks : slots' = [slots EXCEPT ![s][k] = Torn]
        /\ UNCHANGED sectors
  /\ UNCHANGED <<mode, registry, staging, cache, publishing>>

-----------------------------------------------------------------------------
(***************************************************************************)
(* Staging and committing                                                  *)
(***************************************************************************)
Referenced(reg) == {reg.active.slot, reg.rollback.slot}

\* Mutant of FreeSlots: only the active slot is spared.
FreeButRollback == BundleSlots \ {registry.active.slot}

FreeSlots == BundleSlots \ Referenced(registry)

\* The first free slot; bytes beyond the incoming bundle are left as they are.
BeginStaging(request) ==
  /\ Ready /\ staging = {}
  /\ \E s \in FreeSlots :
       /\ \A t \in FreeSlots : s <= t
       /\ slots' = [slots EXCEPT ![s] = ErasedUpTo(@, ChunksOf[request.bundle])]
       /\ staging' = {[slot |-> s, request |-> request]}
  /\ UNCHANGED <<sectors, damage, mode, registry, cache, publishing>>

\* Programming cannot undo an earlier program.
Programmed(old, chunk) == IF old \in {Erased, chunk} THEN chunk ELSE Torn

WriteStaging(k, chunk) ==
  /\ Ready
  /\ \E g \in staging :
       slots' = [slots EXCEPT ![g.slot][k] = Programmed(@, chunk)]
  /\ UNCHANGED <<sectors, damage, mode, registry, staging, cache, publishing>>

\* The write fails half-way, and the caller answers with abort_staging.
WriteStagingFails(k) ==
  /\ Ready
  /\ \E g \in staging : DropStaging([slots EXCEPT ![g.slot][k] = Torn])
  /\ UNCHANGED <<sectors, damage, mode, registry, cache, publishing>>

\* Mutant of Downgrades: the version is never compared.
NeverDowngrades(request) == FALSE

Downgrades(request) ==
  /\ ~request.allowDowngrade
  /\ registry.active # NoRecord
  /\ AppOf[request.bundle] = AppOf[registry.active.bundle]
  /\ VersionOf[request.bundle] < VersionOf[registry.active.bundle]

\* Mutant of ReadStaging: verify_staging does not drop the cached sector.
ReadStagingCached(s) == ReadSlot(s)

\* verify_staging drops the cached sector before it reads.
ReadStaging(s) == slots[s]

\* verify_staging answers true: CRC, structure, app id and version are right.
Verifies(g) ==
  /\ Holds(ReadStaging(g.slot), g.request.bundle)
  /\ g.request.bundle \in WellFormed
  /\ AppOf[g.request.bundle] = g.request.app
  /\ ~Downgrades(g.request)

VerifyRejects ==
  /\ Ready
  /\ \E g \in staging : ~Verifies(g) /\ cache' = Cached(g.slot, ReadStaging(g.slot))
  /\ DropStaging(slots)
  /\ UNCHANGED <<sectors, damage, mode, registry, publishing>>

\* Mutant of Committed: the App before the one that is replaced stays the rollback.
CommittedKeepsRollback(g) ==
  [generation |-> registry.generation + 1,
   active |-> [slot |-> g.slot, bundle |-> g.request.bundle],
   rollback |-> registry.rollback]

\* The registry a commit publishes.
Committed(g) ==
  [generation |-> registry.generation + 1,
   active |-> [slot |-> g.slot, bundle |-> g.request.bundle],
   rollback |-> registry.active]

\* Mutant of CommitStaging: staging_verified_ is not required.
CommitUnverified ==
  /\ Ready
  /\ \E g \in staging :
       StartPublish(Committed(g), "commit") /\ cache' = Cached(g.slot, ReadStaging(g.slot))
  /\ UNCHANGED <<flashVars, mode, staging>>

\* verify_staging accepts and commit_staging goes on to publish.
CommitStaging ==
  /\ Ready
  /\ \E g \in staging :
       /\ Verifies(g) /\ cache' = Cached(g.slot, ReadStaging(g.slot))
       /\ StartPublish(Committed(g), "commit")
  /\ UNCHANGED <<flashVars, mode, staging>>

AbortStaging(tx) ==
  /\ Ready
  /\ \E g \in staging : g.request.tx = tx
  /\ DropStaging(slots)
  /\ UNCHANGED <<sectors, damage, mode, registry, cache, publishing>>

-----------------------------------------------------------------------------
(***************************************************************************)
(* The installed App                                                       *)
(***************************************************************************)
Installed(app) == registry.active # NoRecord /\ AppOf[registry.active.bundle] = app

\* acquire_installed_bundle and rollback validate a record: the slot is now cached.
Inspect(record) == cache' = Cached(record.slot, ReadSlot(record.slot))

AcquireInstalledBundle(app) ==
  /\ Ready /\ Installed(app)
  /\ Inspect(registry.active)
  /\ UNCHANGED <<flashVars, mode, registry, staging, publishing>>

Rollback(app) ==
  /\ Ready /\ Installed(app) /\ registry.rollback # NoRecord
  /\ Inspect(registry.rollback)
  /\ IF Validates(registry.rollback, ReadSlot(registry.rollback.slot))
     THEN StartPublish([generation |-> registry.generation + 1,
                        active |-> registry.rollback, rollback |-> registry.active],
                       "rollback")
     ELSE UNCHANGED <<registry, publishing>>
  /\ UNCHANGED <<flashVars, mode, staging>>

Remove(app) ==
  /\ Ready /\ Installed(app)
  /\ StartPublish(EmptyRegistry(registry.generation + 1), "remove")
  /\ UNCHANGED <<flashVars, mode, staging, cache>>

-----------------------------------------------------------------------------
(***************************************************************************)
(* Properties                                                              *)
(***************************************************************************)
\* Every variable of the store holds a value of its type; staging, cache and publication
\* are single.
StoreTypeOK ==
  /\ sectors \in [0 .. 1 -> Registry]
  /\ slots \in [BundleSlots -> [Chunks -> Bundles \cup {Erased, Torn}]]
  /\ damage \in 0 .. MaxDamage
  /\ mode \in {"off", "booting", "on", "dead"}
  /\ registry \in [generation : 0 .. MaxGeneration, active : Record, rollback : Record]
  /\ Cardinality(staging) <= 1
  /\ staging \subseteq [slot : BundleSlots, request : InstallRequests]
  /\ Cardinality(cache) <= 1
  /\ cache \subseteq [slot : BundleSlots,
                      chunks : [Chunks -> Bundles \cup {Erased, Torn}]]
  /\ Cardinality(publishing) <= 1
  /\ publishing \subseteq [why : {"boot", "commit", "rollback", "remove"},
                           previous : Registry, step : {"erase", "write"}]

\* What a boot at this moment would find.
Durable == IF Selected.generation < 0 THEN EmptyRegistry(0) ELSE Selected

\* Whatever a record of the durable registry names is a complete, well-formed bundle at
\* every moment, so a power loss between any two flash operations leaves a library that
\* launches ("No registry entry references incomplete staging bytes").
DurableIsIntact ==
  \A record \in {Durable.active, Durable.rollback} \ {NoRecord} :
    Validates(record, slots[record.slot])

\* Between calls the registry in RAM is the one the next boot finds: an operation that
\* failed left both alone, one that succeeded changed both.
RamIsDurable == Ready => registry = Durable

\* Staged bytes lie in a slot that neither the registry in RAM, nor the one before it, nor
\* the one the next boot finds refers to: an install can be dropped at any moment.
StagingIsIsolated ==
  \A g \in staging :
    /\ g.slot \notin Referenced(Durable)
    /\ Ready => g.slot \notin Referenced(registry)

\* A slot a record names is never served from a cached sector that flash no longer holds.
CacheIsCoherent ==
  \A c \in cache :
    mode = "on" /\ c.slot \in Referenced(registry) => c.chunks = slots[c.slot]

\* What the store remembers of flash is what flash holds.
MemoryIsTrue == RamIsDurable /\ CacheIsCoherent

\* The copy a boot falls back on should the newest be lost.
Older ==
  IF sectors[0].generation >= sectors[1].generation THEN sectors[1] ELSE sectors[0]

\* Should the newest copy of the registry be lost at any moment while an App is installed,
\* an older one that names an App still launches it: installs that came since have left
\* its slot alone.  (A remove wipes the slots the older copy names.)
OlderCopyBoots ==
  Selected.active # NoRecord /\ Older.active # NoRecord =>
    Validates(Older.active, slots[Older.active.slot])

\* "Publish an empty generation so the next boot has a bounded trusted record": after a
\* boot that reset the library, the next boot loads the empty registry or none.
ResetIsTrusted == Ready /\ registry = EmptyRegistry(0) /\ Loads => Selected = registry

Library == INSTANCE AppLibrary WITH
  generation <- Durable.generation,
  active <- Durable.active.bundle,
  retained <- Durable.rollback.bundle

\* What the next boot finds changes by one whole install, rollback or remove at a time.
ImplementsLibrary == Library!Spec
=============================================================================
