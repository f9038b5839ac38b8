--------------------------- MODULE LeaseRegistry ---------------------------
(***************************************************************************)
(* The sealed-payload registry of script_task_contract.cpp                 *)
(* (ScriptTaskFrameLeaseRegistry), used twice by the supervisor: once for  *)
(* UI frames and once for service result payloads.  A registry is the      *)
(* function from slot index to slot; used_bytes_ is kept beside it by the  *)
(* module that owns the registry.  Every operator says what the locked     *)
(* method of the same name makes of the slots it is given.                 *)
(*                                                                         *)
(* A payload is its size: the registry never looks at the bytes, and two   *)
(* payloads of different sizes are enough to notice a holder that reads    *)
(* somebody else's.                                                        *)
(***************************************************************************)
EXTENDS Integers, FiniteSetsExt

CONSTANTS
  MaxLeaseGeneration  \* 2^48 - 1 in the code: kLeaseGenerationMask

ASSUME LeaseGenerationAssumption == MaxLeaseGeneration \in Nat \ {0}

\* The low 16 bits of a lease id hold the slot index plus one.
LeaseIndexBase == 65536

\* ScriptAppSession{}: what a slot or the supervisor holds when it has none.
NoSession == [app |-> 0, generation |-> 0]

FreeSlot(generation) ==
  [active |-> FALSE, session |-> NoSession, generation |-> generation, size |-> 0]

NewRegistry(capacity) == [i \in 1 .. capacity |-> FreeSlot(1)]

\* Mutant of NextLeaseGeneration: a released slot keeps its generation.
SameLeaseGeneration(g) == g

NextLeaseGeneration(g) == IF g = MaxLeaseGeneration THEN 1 ELSE g + 1

\* make_lease_id: the generation in the high 48 bits, the index in the low 16.
LeaseId(i, g) == g * LeaseIndexBase + i

\* slot_for_lease_id: the active slots a lease id names (none or one).
SlotsNamed(reg, id) ==
  {i \in DOMAIN reg : /\ i = id % LeaseIndexBase
                      /\ reg[i].active
                      /\ reg[i].generation = id \div LeaseIndexBase}

\* The slots copy_sealed(session, id) and release(session, id) accept: a stale
\* id names no slot, and a slot of another session is refused.
SlotsHeld(reg, session, id) ==
  {i \in SlotsNamed(reg, id) : reg[i].session = session}

\* std::find_if over the slots: the first inactive one.
IsFirstFree(reg, i) ==
  /\ i \in DOMAIN reg
  /\ ~reg[i].active
  /\ \A j \in DOMAIN reg : ~reg[j].active => i <= j

Publish(reg, i, session, size) ==
  [reg EXCEPT ![i] = [active |-> TRUE, session |-> session,
                      generation |-> @.generation, size |-> size]]

\* release_slot: the generation moves on, so the released id goes stale.
ReleaseSlot(reg, i) ==
  [reg EXCEPT ![i] = FreeSlot(NextLeaseGeneration(@.generation))]

ActiveSlots(reg) == {i \in DOMAIN reg : reg[i].active}
SlotsOf(reg, session) == {i \in ActiveSlots(reg) : reg[i].session = session}

\* release_session: every active slot of the session goes through release_slot.
ReleaseSession(reg, session) ==
  [i \in DOMAIN reg |-> IF i \in SlotsOf(reg, session)
                        THEN FreeSlot(NextLeaseGeneration(reg[i].generation))
                        ELSE reg[i]]

IdsOf(reg, session) == {LeaseId(i, reg[i].generation) : i \in SlotsOf(reg, session)}

-----------------------------------------------------------------------------
(***************************************************************************)
(* used_bytes_: the size checks of publish, in front of the search for a   *)
(* slot, and the clamped subtraction of release_slot.                      *)
(***************************************************************************)
\* Mutant of FitsBudget: only the lease itself is checked.
FitsLease(used, size, maxLease, maxTotal) == size <= maxLease

FitsBudget(used, size, maxLease, maxTotal) ==
  /\ size <= maxLease
  /\ size <= maxTotal - (IF used < maxTotal THEN used ELSE maxTotal)

BytesOf(reg, slots) == MapThenSumSet(LAMBDA i : reg[i].size, slots)

UsedAfterRelease(used, released) == IF used < released THEN 0 ELSE used - released

-----------------------------------------------------------------------------
\* The registries of a given capacity, for type invariants.
Registries(capacity, Sessions) ==
  [1 .. capacity -> [active : BOOLEAN, session : Sessions \cup {NoSession},
                     generation : 1 .. MaxLeaseGeneration, size : Nat]]
=============================================================================
