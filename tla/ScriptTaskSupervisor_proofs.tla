-------------------- MODULE ScriptTaskSupervisor_proofs --------------------
(***************************************************************************)
(* Theorems of ScriptTaskSupervisor, for every value of its constants and  *)
(* every caller.                                                           *)
(***************************************************************************)
EXTENDS ScriptTaskSupervisor, SetSums_proofs, SequenceTheorems, FiniteSetTheorems, TLAPS

\* ScriptAppSession{} is no session of an App: app instance ids are non-zero.
LEMMA NoSessionIsNoSession == NoSession \notin Sessions
BY SupervisorAssumption DEF NoSession, Sessions

\* What pop_for leaves in a mailbox is a part of what was there.
LEMMA AfterPopIsPart ==
  ASSUME NEW S, NEW box \in Seq(S), NEW session, NEW rest \in AfterPop(box, session)
  PROVE  /\ rest \in Seq(S) /\ Len(rest) <= Len(box)
         /\ \A k \in DOMAIN rest : \E j \in DOMAIN box : rest[k] = box[j]
<1>1. CASE rest = <<>>
  BY <1>1
<1>2. CASE rest # <<>>
  <2>1. PICK k \in 1 .. Len(box) : rest = SubSeq(box, k + 1, Len(box))
    <3>1. rest \in {SubSeq(box, k + 1, Len(box)) : k \in FirstOf(box, session)}
      BY <1>2 DEF AfterPop
    <3>2. FirstOf(box, session) \subseteq 1 .. Len(box)
      BY DEF FirstOf
    <3>3. QED BY <3>1, <3>2
  <2>2. /\ rest \in Seq(S) /\ Len(rest) = Len(box) - k
        /\ \A n \in 1 .. Len(box) - k : rest[n] = box[k + n]
    BY <2>1
  <2>3. ASSUME NEW n \in DOMAIN rest
        PROVE  \E j \in DOMAIN box : rest[n] = box[j]
    <3>1. k + n \in DOMAIN box /\ rest[n] = box[k + n]
      BY <2>2
    <3>2. QED BY <3>1
  <2>4. QED BY <2>2, <2>3
<1>3. QED BY <1>1, <1>2

\* The registry operators keep a registry a registry.
LEMMA RegistryTypes ==
  ASSUME NEW n \in Nat, NEW reg \in Registries(n, Sessions), NEW i \in 1 .. n,
         NEW session \in Sessions, NEW size \in Nat
  PROVE  /\ Publish(reg, i, session, size) \in Registries(n, Sessions)
         /\ ReleaseSlot(reg, i) \in Registries(n, Sessions)
<1> USE LeaseGenerationAssumption DEF Registries
<1>1. ASSUME NEW g \in 1 .. MaxLeaseGeneration
      PROVE  NextLeaseGeneration(g) \in 1 .. MaxLeaseGeneration
  BY DEF NextLeaseGeneration
<1>2. Publish(reg, i, session, size) \in Registries(n, Sessions)
  BY DEF Publish
<1>3. ReleaseSlot(reg, i) \in Registries(n, Sessions)
  BY <1>1 DEF ReleaseSlot, FreeSlot
<1>4. QED BY <1>2, <1>3

LEMMA ReleaseSessionType ==
  ASSUME NEW n \in Nat, NEW reg \in Registries(n, Sessions), NEW session \in Sessions
  PROVE  ReleaseSession(reg, session) \in Registries(n, Sessions)
<1>1. ASSUME NEW g \in 1 .. MaxLeaseGeneration
      PROVE  NextLeaseGeneration(g) \in 1 .. MaxLeaseGeneration
  BY LeaseGenerationAssumption DEF NextLeaseGeneration
<1>2. QED BY <1>1 DEF ReleaseSession, FreeSlot, Registries

\* A bounded set stays bounded when it shrinks, and grows only below its capacity.
LEMMA WithinCapacity ==
  ASSUME NEW S, IsFiniteSet(S), NEW n \in Nat, Cardinality(S) <= n
  PROVE  /\ \A T \in SUBSET S : IsFiniteSet(T) /\ Cardinality(T) <= n
         /\ \A x : Cardinality(S) < n =>
                    IsFiniteSet(S \cup {x}) /\ Cardinality(S \cup {x}) <= n
<1>1. Cardinality(S) \in Nat
  BY FS_CardinalityType
<1>2. ASSUME NEW T \in SUBSET S
      PROVE  IsFiniteSet(T) /\ Cardinality(T) <= n
  <2>1. IsFiniteSet(T) /\ Cardinality(T) <= Cardinality(S)
    BY FS_Subset
  <2>2. Cardinality(T) \in Nat
    BY <2>1, FS_CardinalityType
  <2>3. QED BY <1>1, <2>1, <2>2
<1>3. ASSUME NEW x, Cardinality(S) < n
      PROVE  IsFiniteSet(S \cup {x}) /\ Cardinality(S \cup {x}) <= n
  <2>1. /\ IsFiniteSet(S \cup {x})
        /\ Cardinality(S \cup {x}) = IF x \in S THEN Cardinality(S) ELSE Cardinality(S) + 1
    BY FS_AddElement
  <2>2. QED BY <1>1, <1>3, <2>1
<1>4. QED BY <1>2, <1>3

LEMMA InitTypeOK == Init => TypeOK
BY SupervisorAssumption, LeaseGenerationAssumption, FS_EmptySet
   DEF Init, TypeOK, NewRegistry, FreeSlot, Registries

\* Any call of any caller keeps every variable in its type.
LEMMA NextTypeOK == TypeOK /\ [Next]_supervisorVars => TypeOK'
<1> SUFFICES ASSUME TypeOK, [Next]_supervisorVars PROVE TypeOK'
  OBVIOUS
<1> USE SupervisorAssumption, LeaseGenerationAssumption DEF TypeOK, HasRoom
<1> USE DEF sessionVars, boxVars, frameVars, payloadVars, serviceVars
<1> HIDE DEF Registries
<1>0. CASE UNCHANGED supervisorVars
  BY <1>0 DEF supervisorVars
<1>1. ASSUME NEW p \in Packet, PostToInbox(p) PROVE TypeOK'
  BY <1>1 DEF PostToInbox
<1>2. ASSUME NEW p \in Packet, PostServiceRequest(p) PROVE TypeOK'
  BY <1>2 DEF PostServiceRequest
<1>3. ASSUME NEW p \in Packet, PostFatal(p) PROVE TypeOK'
  BY <1>3 DEF PostFatal
<1>4. ASSUME NEW s \in Sessions, TakeWorkerPacket(s) PROVE TypeOK'
  <2>1. inbox' \in Seq(Packet) /\ Len(inbox') <= Len(inbox)
    BY <1>4, AfterPopIsPart DEF TakeWorkerPacket
  <2>2. QED BY <1>4, <2>1 DEF TakeWorkerPacket
<1>5. ASSUME NEW s \in Sessions, TakeFramePacket(s) PROVE TypeOK'
  <2>1. frameBox' \in Seq(FramePacket) /\ Len(frameBox') <= Len(frameBox)
    BY <1>5, AfterPopIsPart DEF TakeFramePacket
  <2>2. QED BY <1>5, <2>1 DEF TakeFramePacket
<1>6. CASE TakeServiceRequest
  <2>1. requestBox' \in Seq(Packet) /\ Len(requestBox') <= Len(requestBox)
    BY <1>6, AfterPopIsPart DEF TakeServiceRequest
  <2>2. QED BY <1>6, <2>1 DEF TakeServiceRequest
<1>7. CASE TakeFatal
  <2>1. fatalBox' \in Seq(Packet) /\ Len(fatalBox') <= Len(fatalBox)
    BY <1>7, AfterPopIsPart DEF TakeFatal
  <2>2. QED BY <1>7, <2>1 DEF TakeFatal
<1>8. ASSUME NEW s \in Sessions, NEW size \in Sizes, NEW i \in 1 .. FrameLeases,
             PublishFrame(s, size, i)
      PROVE  TypeOK'
  <2>1. Publish(frames, i, s, size) \in Registries(FrameLeases, Sessions)
    BY RegistryTypes
  <2>2. LeaseId(i, frames[i].generation) \in Nat
    <3>1. frames[i].generation \in 1 .. MaxLeaseGeneration
      BY DEF Registries
    <3>2. ASSUME NEW g \in 1 .. MaxLeaseGeneration
          PROVE  LeaseId(i, g) \in Nat
      <4> HIDE DEF TypeOK, HasRoom
      <4>1. QED BY DEF LeaseId, LeaseIndexBase
    <3>3. QED BY <3>1, <3>2
  <2>3. [session |-> s, sequence |-> nextFrameSequence,
         lease |-> LeaseId(i, frames[i].generation)] \in FramePacket
    BY <2>2 DEF FramePacket
  <2>4. NextNonzero(nextFrameSequence) \in 1 .. MaxU32
    BY DEF NextNonzero
  <2>5. frameBox' \in Seq(FramePacket) /\ Len(frameBox') <= FrameBoxSlots
    <3>1. frameBox' = Append(frameBox, [session |-> s, sequence |-> nextFrameSequence,
                                        lease |-> LeaseId(i, frames[i].generation)])
      BY <1>8 DEF PublishFrame
    <3>2. Len(frameBox) < FrameBoxSlots /\ FrameBoxSlots \in Nat
      BY <1>8 DEF PublishFrame
    <3>3. frameBox \in Seq(FramePacket)
      OBVIOUS
    <3> HIDE DEF TypeOK
    <3>4. QED BY <2>3, <3>1, <3>2, <3>3
  <2>6. QED BY <1>8, <2>1, <2>4, <2>5 DEF PublishFrame
<1>9. ASSUME NEW s \in Sessions, NEW size \in Sizes, NEW i \in 1 .. FrameLeases,
             PublishFrameRefused(s, size, i)
      PROVE  TypeOK'
  <2>1. Publish(frames, i, s, size) \in Registries(FrameLeases, Sessions)
    BY RegistryTypes
  <2>2. ReleaseSlot(Publish(frames, i, s, size), i) \in Registries(FrameLeases, Sessions)
    BY <2>1, RegistryTypes
  <2>3. QED BY <1>9, <2>2 DEF PublishFrameRefused
<1>10. ASSUME NEW s \in Sessions, NEW id \in IdsUpTo(FrameLeases), ReleaseFrame(s, id)
       PROVE  TypeOK'
  <2>1. PICK i \in SlotsHeld(frames, s, id) : frames' = ReleaseSlot(frames, i)
    BY <1>10 DEF ReleaseFrame
  <2>2. i \in 1 .. FrameLeases
    BY <2>1 DEF SlotsHeld, SlotsNamed, Registries
  <2>3. frames' \in Registries(FrameLeases, Sessions)
    BY <2>1, <2>2, RegistryTypes, 0 \in Nat
  <2>4. QED BY <1>10, <2>3 DEF ReleaseFrame
<1>11. ASSUME NEW s \in Sessions, NEW size \in Sizes, NEW i \in 1 .. PayloadLeases,
              PublishServicePayload(s, size, i)
       PROVE  TypeOK'
  <2>1. Publish(payloads, i, s, size) \in Registries(PayloadLeases, Sessions)
    BY RegistryTypes
  <2>2. QED BY <1>11, <2>1 DEF PublishServicePayload
<1>12. ASSUME NEW s \in Sessions, NEW id \in IdsUpTo(PayloadLeases),
              ReleaseServicePayload(s, id)
       PROVE  TypeOK'
  <2>1. PICK i \in SlotsHeld(payloads, s, id) : payloads' = ReleaseSlot(payloads, i)
    BY <1>12 DEF ReleaseServicePayload
  <2>2. i \in 1 .. PayloadLeases
    BY <2>1 DEF SlotsHeld, SlotsNamed, Registries
  <2>3. payloads' \in Registries(PayloadLeases, Sessions)
    BY <2>1, <2>2, RegistryTypes, 0 \in Nat
  <2>4. QED BY <1>12, <2>3 DEF ReleaseServicePayload
<1>13. ASSUME NEW t \in Token, TrackService(t) PROVE TypeOK'
  <2>1. IsFiniteSet(tombstones') /\ Cardinality(tombstones') <= MaxTombstones
    BY <1>13, WithinCapacity DEF TrackService
  <2>2. QED BY <1>13, <2>1 DEF TrackService
<1>14. ASSUME NEW t \in Token, CancelService(t) PROVE TypeOK'
  BY <1>14 DEF CancelService
<1>15. ASSUME NEW t \in Token, EraseTombstone(t) PROVE TypeOK'
  <2>1. IsFiniteSet(tombstones') /\ Cardinality(tombstones') <= MaxTombstones
    BY <1>15, WithinCapacity DEF EraseTombstone
  <2>2. QED BY <1>15, <2>1 DEF EraseTombstone
<1>16. ASSUME NEW app \in Apps, Begin(app) PROVE TypeOK'
  <2>1. current' \in Sessions
    BY <1>16 DEF Begin, Sessions
  <2>2. nextGeneration' \in 1 .. MaxU32
    BY <1>16 DEF Begin, NextNonzero
  <2>3. nextFrameSequence' \in 1 .. MaxU32
    BY <1>16 DEF Begin
  <2>4. QED BY <1>16, <2>1, <2>2, <2>3 DEF Begin
<1>17. ASSUME NEW s \in Sessions, BeginTeardown(s) PROVE TypeOK'
  BY <1>17 DEF BeginTeardown
<1>18. ASSUME NEW s \in Sessions, CompleteTeardown(s) PROVE TypeOK'
  <2>1. /\ frames' \in Registries(FrameLeases, Sessions)
        /\ payloads' \in Registries(PayloadLeases, Sessions)
    <3>1. /\ frames' = ReleaseSession(frames, s)
          /\ payloads' = ReleaseSession(payloads, s)
      BY <1>18 DEF CompleteTeardown
    <3>2. QED BY <3>1, ReleaseSessionType
  <2>2. IsFiniteSet(tombstones') /\ Cardinality(tombstones') <= MaxTombstones
    <3>1. tombstones' \subseteq tombstones
      BY <1>18 DEF CompleteTeardown
    <3>2. QED BY <3>1, WithinCapacity
  <2>3. IsFiniteSet(intents') /\ Cardinality(intents') <= MaxIntents
    <3>1. intents' \subseteq intents
      BY <1>18 DEF CompleteTeardown
    <3>2. QED BY <3>1, WithinCapacity
  <2>4. QED BY <1>18, <2>1, <2>2, <2>3 DEF CompleteTeardown
<1>19. ASSUME NEW intent \in Intent, PostNativeReleaseIntent(intent) PROVE TypeOK'
  <2>1. IsFiniteSet(intents') /\ Cardinality(intents') <= MaxIntents
    BY <1>19, WithinCapacity DEF PostNativeReleaseIntent
  <2>2. QED BY <1>19, <2>1 DEF PostNativeReleaseIntent
<1>20. CASE TakeNativeReleaseIntent
  <2>1. PICK intent \in intents : intents' = intents \ {intent}
    BY <1>20 DEF TakeNativeReleaseIntent
  <2>2. IsFiniteSet(intents') /\ Cardinality(intents') <= MaxIntents
    BY <2>1, WithinCapacity
  <2>3. QED BY <1>20, <2>1, <2>2 DEF TakeNativeReleaseIntent
<1>21. QED
  BY <1>0, <1>1, <1>2, <1>3, <1>4, <1>5, <1>6, <1>7, <1>8, <1>9, <1>10, <1>11, <1>12,
     <1>13, <1>14, <1>15, <1>16, <1>17, <1>18, <1>19, <1>20
  DEF Next, MailboxCall, FrameCall, ServiceCall, TeardownCall, RetireService,
      ConsumeServiceCompletion

\* Type correctness: every reachable state is well typed and within its capacities.
THEOREM TypeCorrect == Spec => []TypeOK
<1>1. QED BY InitTypeOK, NextTypeOK, PTL DEF Spec

\* A lease id gives back the index of its slot and the generation it was made with.
LEMMA LeaseIdParts ==
  ASSUME NEW i \in Nat, 1 <= i, i < LeaseIndexBase, NEW g \in Nat
  PROVE  /\ LeaseId(i, g) % LeaseIndexBase = i /\ LeaseId(i, g) \div LeaseIndexBase = g
         /\ LeaseId(i, g) # 0 /\ LeaseId(i, g) \in Nat
<1>1. i \in Nat /\ 1 <= i /\ i < 65536
  BY DEF LeaseIndexBase
<1> DEFINE x == 65536 * g + i
<1>2. x \in Nat /\ x # 0 /\ x = 65536 * g + i
  BY <1>1
<1>3. x \div 65536 = g
  BY <1>1, Z3
<1>4. LeaseId(i, g) = x
  <2>1. g * 65536 = 65536 * g
    BY Z3
  <2>2. QED BY <2>1 DEF LeaseId, LeaseIndexBase
<1> HIDE DEF x
<1>5. x % 65536 = i
  <2>1. x = 65536 * (x \div 65536) + (x % 65536)
    BY <1>2, Z3
  <2>2. x % 65536 \in Int
    BY <1>2, Z3
  <2>3. x = 65536 * g + (x % 65536)
    BY <1>3, <2>1
  <2>4. QED BY <1>1, <1>2, <2>2, <2>3
<1>6. LeaseIndexBase = 65536
  BY DEF LeaseIndexBase
<1>7. QED BY <1>2, <1>3, <1>4, <1>5, <1>6

-----------------------------------------------------------------------------
(***************************************************************************)
(* Sessions do not mix.                                                    *)
(***************************************************************************)

\* What the registry operators do to the active slots.
LEMMA ActiveAfter ==
  ASSUME NEW n \in Nat, NEW reg \in Registries(n, Sessions), NEW i \in 1 .. n,
         NEW session \in Sessions, NEW size \in Nat
  PROVE  /\ \A j \in ActiveSlots(Publish(reg, i, session, size)) :
              \/ j = i /\ Publish(reg, i, session, size)[j].session = session
              \/ j \in ActiveSlots(reg) /\ Publish(reg, i, session, size)[j] = reg[j]
         /\ \A j \in ActiveSlots(ReleaseSlot(reg, i)) :
              j \in ActiveSlots(reg) /\ ReleaseSlot(reg, i)[j] = reg[j]
         /\ \A j \in ActiveSlots(ReleaseSession(reg, session)) :
              /\ j \in ActiveSlots(reg) /\ ReleaseSession(reg, session)[j] = reg[j]
              /\ reg[j].session # session
<1> USE DEF Registries, ActiveSlots, FreeSlot
<1>1. ASSUME NEW j \in ActiveSlots(Publish(reg, i, session, size))
      PROVE  \/ j = i /\ Publish(reg, i, session, size)[j].session = session
             \/ j \in ActiveSlots(reg) /\ Publish(reg, i, session, size)[j] = reg[j]
  BY <1>1 DEF Publish
<1>2. ASSUME NEW j \in ActiveSlots(ReleaseSlot(reg, i))
      PROVE  j \in ActiveSlots(reg) /\ ReleaseSlot(reg, i)[j] = reg[j]
  BY <1>2 DEF ReleaseSlot
<1>3. ASSUME NEW j \in ActiveSlots(ReleaseSession(reg, session))
      PROVE  /\ j \in ActiveSlots(reg) /\ ReleaseSession(reg, session)[j] = reg[j]
             /\ reg[j].session # session
  BY <1>3 DEF ReleaseSession, SlotsOf
<1>4. QED BY <1>1, <1>2, <1>3

SessionInv ==
  /\ TypeOK
  /\ OneSessionAtATime
  /\ MailboxesCurrent
  /\ NothingSurvivesTeardown
  /\ RetiringIsCancelled

LEMMA InitSessionInv == Init => SessionInv
<1> SUFFICES ASSUME Init PROVE SessionInv
  OBVIOUS
<1>1. TypeOK
  BY InitTypeOK
<1>2. OneSessionAtATime /\ MailboxesCurrent /\ RetiringIsCancelled
  BY DEF Init, OneSessionAtATime, MailboxesCurrent, HoldsOnly, RetiringIsCancelled
<1>3. ActiveSlots(frames) = {} /\ ActiveSlots(payloads) = {}
  BY DEF Init, ActiveSlots, NewRegistry, FreeSlot
<1>4. NothingSurvivesTeardown
  BY <1>3 DEF Init, NothingSurvivesTeardown
<1>5. QED BY <1>1, <1>2, <1>4 DEF SessionInv

\* No call of any caller mixes two sessions.
LEMMA NextSessionInv == SessionInv /\ [Next]_supervisorVars => SessionInv'
<1> SUFFICES ASSUME SessionInv, [Next]_supervisorVars PROVE SessionInv'
  OBVIOUS
<1>t. TypeOK /\ TypeOK'
  BY NextTypeOK DEF SessionInv
<1> DEFINE Others == OneSessionAtATime /\ MailboxesCurrent /\ NothingSurvivesTeardown
                     /\ RetiringIsCancelled
<1>o. Others
  BY DEF SessionInv
<1> USE DEF sessionVars, boxVars, frameVars, payloadVars, serviceVars
<1> USE DEF OneSessionAtATime, MailboxesCurrent, HoldsOnly, NothingSurvivesTeardown,
            RetiringIsCancelled, IsOpen
<1>0. ASSUME UNCHANGED supervisorVars PROVE Others'
  BY <1>0, <1>o DEF supervisorVars
<1>1. ASSUME NEW p \in Packet, PostToInbox(p) PROVE Others'
  <2>1. HoldsOnly(inbox', current)
    BY <1>1, <1>t, <1>o DEF PostToInbox, Accepts, TypeOK
  <2>2. QED BY <1>1, <1>o, <2>1 DEF PostToInbox
<1>2. ASSUME NEW p \in Packet, PostServiceRequest(p) PROVE Others'
  <2>1. HoldsOnly(requestBox', current)
    BY <1>2, <1>t, <1>o DEF PostServiceRequest, Accepts, TypeOK
  <2>2. QED BY <1>2, <1>o, <2>1 DEF PostServiceRequest
<1>3. ASSUME NEW p \in Packet, PostFatal(p) PROVE Others'
  <2>1. HoldsOnly(fatalBox', current)
    BY <1>3, <1>t, <1>o DEF PostFatal, Accepts, TypeOK
  <2>2. QED BY <1>3, <1>o, <2>1 DEF PostFatal
<1>4. ASSUME NEW s \in Sessions, TakeWorkerPacket(s) PROVE Others'
  <2>1. HoldsOnly(inbox', current)
    BY <1>4, <1>t, <1>o, AfterPopIsPart DEF TakeWorkerPacket, TypeOK
  <2>2. QED BY <1>4, <1>o, <2>1 DEF TakeWorkerPacket
<1>5. ASSUME NEW s \in Sessions, TakeFramePacket(s) PROVE Others'
  <2>1. HoldsOnly(frameBox', current)
    BY <1>5, <1>t, <1>o, AfterPopIsPart DEF TakeFramePacket, TypeOK
  <2>2. QED BY <1>5, <1>o, <2>1 DEF TakeFramePacket
<1>6. ASSUME TakeServiceRequest PROVE Others'
  <2>1. HoldsOnly(requestBox', current)
    BY <1>6, <1>t, <1>o, AfterPopIsPart DEF TakeServiceRequest, TypeOK
  <2>2. QED BY <1>6, <1>o, <2>1 DEF TakeServiceRequest
<1>7. ASSUME TakeFatal PROVE Others'
  <2>1. HoldsOnly(fatalBox', current)
    BY <1>7, <1>t, <1>o, AfterPopIsPart DEF TakeFatal, TypeOK
  <2>2. QED BY <1>7, <1>o, <2>1 DEF TakeFatal
<1>8. ASSUME NEW s \in Sessions, NEW size \in Sizes, NEW i \in 1 .. FrameLeases,
             PublishFrame(s, size, i)
      PROVE  Others'
  <2>1. s = current /\ current # NoSession
    BY <1>8 DEF PublishFrame, FramePublishable, Accepts
  <2>2. \A j \in ActiveSlots(frames') : IsOpen(frames'[j].session)
    <3>1. frames' = Publish(frames, i, s, size)
      BY <1>8 DEF PublishFrame
    <3>2. FrameLeases \in Nat /\ size \in Nat /\ frames \in Registries(FrameLeases, Sessions)
      BY <1>t, SupervisorAssumption DEF TypeOK
    <3>3. QED BY <1>o, <2>1, <3>1, <3>2, ActiveAfter
  <2>3. HoldsOnly(frameBox', current)
    BY <1>8, <1>t, <1>o, <2>1 DEF PublishFrame, TypeOK
  <2>4. QED BY <1>8, <1>o, <2>2, <2>3 DEF PublishFrame
<1>9. ASSUME NEW s \in Sessions, NEW size \in Sizes, NEW i \in 1 .. FrameLeases,
             PublishFrameRefused(s, size, i)
      PROVE  Others'
  <2>1. s = current /\ current # NoSession
    BY <1>9 DEF PublishFrameRefused, FramePublishable, Accepts
  <2>2. \A j \in ActiveSlots(frames') : IsOpen(frames'[j].session)
    <3>1. frames' = ReleaseSlot(Publish(frames, i, s, size), i)
      BY <1>9 DEF PublishFrameRefused
    <3>2. FrameLeases \in Nat /\ size \in Nat /\ frames \in Registries(FrameLeases, Sessions)
      BY <1>t, SupervisorAssumption DEF TypeOK
    <3>3. Publish(frames, i, s, size) \in Registries(FrameLeases, Sessions)
      BY <3>2, RegistryTypes
    <3>4. QED BY <1>o, <2>1, <3>1, <3>2, <3>3, ActiveAfter
  <2>3. QED BY <1>9, <1>o, <2>2 DEF PublishFrameRefused
<1>10. ASSUME NEW s \in Sessions, NEW id \in IdsUpTo(FrameLeases), ReleaseFrame(s, id)
       PROVE  Others'
  <2>1. PICK i \in SlotsHeld(frames, s, id) : frames' = ReleaseSlot(frames, i)
    BY <1>10 DEF ReleaseFrame
  <2>2. FrameLeases \in Nat /\ frames \in Registries(FrameLeases, Sessions)
    BY <1>t, SupervisorAssumption DEF TypeOK
  <2>3. i \in 1 .. FrameLeases
    BY <2>1, <2>2 DEF SlotsHeld, SlotsNamed, Registries
  <2>4. \A j \in ActiveSlots(frames') : IsOpen(frames'[j].session)
    BY <1>o, <2>1, <2>2, <2>3, ActiveAfter, 0 \in Nat
  <2>5. QED BY <1>10, <1>o, <2>4 DEF ReleaseFrame
<1>11. ASSUME NEW s \in Sessions, NEW size \in Sizes, NEW i \in 1 .. PayloadLeases,
              PublishServicePayload(s, size, i)
       PROVE  Others'
  <2>1. s = current /\ current # NoSession
    BY <1>11 DEF PublishServicePayload, Accepts
  <2>2. \A j \in ActiveSlots(payloads') : IsOpen(payloads'[j].session)
    <3>1. payloads' = Publish(payloads, i, s, size)
      BY <1>11 DEF PublishServicePayload
    <3>2. PayloadLeases \in Nat /\ size \in Nat
          /\ payloads \in Registries(PayloadLeases, Sessions)
      BY <1>t, SupervisorAssumption DEF TypeOK
    <3>3. QED BY <1>o, <2>1, <3>1, <3>2, ActiveAfter
  <2>3. QED BY <1>11, <1>o, <2>2 DEF PublishServicePayload
<1>12. ASSUME NEW s \in Sessions, NEW id \in IdsUpTo(PayloadLeases),
              ReleaseServicePayload(s, id)
       PROVE  Others'
  <2>1. PICK i \in SlotsHeld(payloads, s, id) : payloads' = ReleaseSlot(payloads, i)
    BY <1>12 DEF ReleaseServicePayload
  <2>2. PayloadLeases \in Nat /\ payloads \in Registries(PayloadLeases, Sessions)
    BY <1>t, SupervisorAssumption DEF TypeOK
  <2>3. i \in 1 .. PayloadLeases
    BY <2>1, <2>2 DEF SlotsHeld, SlotsNamed, Registries
  <2>4. \A j \in ActiveSlots(payloads') : IsOpen(payloads'[j].session)
    BY <1>o, <2>1, <2>2, <2>3, ActiveAfter, 0 \in Nat
  <2>5. QED BY <1>12, <1>o, <2>4 DEF ReleaseServicePayload
<1>13. ASSUME NEW t \in Token, TrackService(t) PROVE Others'
  <2>1. t.session # NoSession /\ t.session = current /\ retiring = NoSession
    BY <1>13, <1>o DEF TrackService, Accepts
  <2>2. QED BY <1>13, <1>o, <2>1 DEF TrackService
<1>14. ASSUME NEW t \in Token, CancelService(t) PROVE Others'
  BY <1>14, <1>o DEF CancelService
<1>15. ASSUME NEW t \in Token, EraseTombstone(t) PROVE Others'
  BY <1>15, <1>o DEF EraseTombstone
<1>16. ASSUME NEW app \in Apps, Begin(app) PROVE Others'
  <2>1. current = NoSession /\ retiring = NoSession /\ retiring' = NoSession
    BY <1>16 DEF Begin
  <2>2. inbox = <<>> /\ frameBox = <<>> /\ requestBox = <<>> /\ fatalBox = <<>>
    <3>1. ASSUME NEW P, NEW box \in Seq(P), \A p \in P : p.session \in Sessions,
                 HoldsOnly(box, NoSession)
          PROVE  box = <<>>
      BY <3>1, NoSessionIsNoSession DEF HoldsOnly
    <3>2. (\A p \in Packet : p.session \in Sessions)
          /\ (\A p \in FramePacket : p.session \in Sessions)
      BY DEF Packet, FramePacket
    <3>3. /\ inbox \in Seq(Packet) /\ requestBox \in Seq(Packet) /\ fatalBox \in Seq(Packet)
          /\ frameBox \in Seq(FramePacket)
      BY <1>t DEF TypeOK
    <3>4. /\ HoldsOnly(inbox, NoSession) /\ HoldsOnly(frameBox, NoSession)
          /\ HoldsOnly(requestBox, NoSession) /\ HoldsOnly(fatalBox, NoSession)
      BY <1>o, <2>1
    <3> HIDE DEF HoldsOnly
    <3>5. QED BY <3>1, <3>2, <3>3, <3>4
  <2>3. MailboxesCurrent'
    BY <1>16, <2>2 DEF Begin
  <2>4. tombstones = {} /\ intents = {} /\ ActiveSlots(frames) = {}
        /\ ActiveSlots(payloads) = {}
    BY <1>o, <2>1
  <2>5. NothingSurvivesTeardown' /\ RetiringIsCancelled'
    BY <1>16, <2>4 DEF Begin
  <2>6. QED BY <2>1, <2>3, <2>5
<1>17. ASSUME NEW s \in Sessions, BeginTeardown(s) PROVE Others'
  <2>1. current' = NoSession /\ retiring' = current /\ current # NoSession
    BY <1>17 DEF BeginTeardown, Accepts
  <2>2. MailboxesCurrent'
    BY <1>17 DEF BeginTeardown
  <2>3. \A x : IsOpen(x) => IsOpen(x)'
    BY <1>o, <2>1
  <2>4. NothingSurvivesTeardown'
    BY <1>17, <1>o, <2>3 DEF BeginTeardown
  <2>5. RetiringIsCancelled'
    BY <1>17 DEF BeginTeardown
  <2>6. QED BY <2>1, <2>2, <2>4, <2>5
<1>18. ASSUME NEW s \in Sessions, CompleteTeardown(s) PROVE Others'
  <2>1. current' = NoSession /\ retiring' = NoSession /\ retiring = s /\ current = NoSession
    BY <1>18 DEF CompleteTeardown
  <2>2. MailboxesCurrent'
    BY <1>18, <1>o DEF CompleteTeardown
  <2>3. ActiveSlots(frames') = {} /\ ActiveSlots(payloads') = {}
    <3>1. ASSUME NEW n \in Nat, NEW reg \in Registries(n, Sessions),
                 \A i \in ActiveSlots(reg) : reg[i].session = s
          PROVE  ActiveSlots(ReleaseSession(reg, s)) = {}
      BY <3>1 DEF ReleaseSession, ActiveSlots, SlotsOf, FreeSlot, Registries
    <3>2. /\ FrameLeases \in Nat /\ frames \in Registries(FrameLeases, Sessions)
          /\ PayloadLeases \in Nat /\ payloads \in Registries(PayloadLeases, Sessions)
      BY <1>t, SupervisorAssumption DEF TypeOK
    <3>3. /\ \A i \in ActiveSlots(frames) : frames[i].session = s
          /\ \A i \in ActiveSlots(payloads) : payloads[i].session = s
      BY <1>o, <2>1
    <3>4. frames' = ReleaseSession(frames, s) /\ payloads' = ReleaseSession(payloads, s)
      BY <1>18 DEF CompleteTeardown
    <3>5. QED BY <3>1, <3>2, <3>3, <3>4
  <2>4. tombstones' = {} /\ intents' = {}
    BY <1>18, <1>o, <2>1 DEF CompleteTeardown
  <2>5. QED BY <2>1, <2>2, <2>3, <2>4
<1>19. ASSUME NEW intent \in Intent, PostNativeReleaseIntent(intent) PROVE Others'
  <2>1. intent.session \in Sessions
    BY DEF Intent
  <2>2. IsOpen(intent.session)
    BY <1>19, <2>1, NoSessionIsNoSession DEF PostNativeReleaseIntent, Accepts
  <2>3. QED BY <1>19, <1>o, <2>2 DEF PostNativeReleaseIntent
<1>20. ASSUME TakeNativeReleaseIntent PROVE Others'
  BY <1>20, <1>o DEF TakeNativeReleaseIntent
<1>21. Others'
  BY <1>0, <1>1, <1>2, <1>3, <1>4, <1>5, <1>6, <1>7, <1>8, <1>9, <1>10, <1>11, <1>12,
     <1>13, <1>14, <1>15, <1>16, <1>17, <1>18, <1>19, <1>20
  DEF Next, MailboxCall, FrameCall, ServiceCall, TeardownCall, RetireService,
      ConsumeServiceCompletion
<1>22. QED BY <1>t, <1>21 DEF SessionInv

LEMMA SessionInvariant == Spec => []SessionInv
BY InitSessionInv, NextSessionInv, PTL DEF Spec

\* Whoever calls, a mailbox holds packets of the current session only.
THEOREM MailboxIsolation == Spec => []MailboxesCurrent
<1>1. SessionInv => MailboxesCurrent
  BY DEF SessionInv
<1>2. QED BY <1>1, SessionInvariant, PTL

\* Whoever calls, nothing a session acquired outlives its teardown.
THEOREM TeardownIsComplete == Spec => []NothingSurvivesTeardown
<1>1. SessionInv => NothingSurvivesTeardown
  BY DEF SessionInv
<1>2. QED BY <1>1, SessionInvariant, PTL

\* No request of a retiring session can be answered as accepted any more.
THEOREM RetiringRequestsAreCancelled == Spec => []RetiringIsCancelled
<1>1. SessionInv => RetiringIsCancelled
  BY DEF SessionInv
<1>2. QED BY <1>1, SessionInvariant, PTL

\* Nothing of one session reaches another or outlives its own, for all capacities and any
\* caller.
THEOREM NothingOutlives == Spec => []NothingOutlivesItsSession
<1>1. SessionInv => NothingOutlivesItsSession
  BY DEF SessionInv, NothingOutlivesItsSession
<1>2. QED
  BY <1>1, SessionInvariant, PTL

-----------------------------------------------------------------------------
(***************************************************************************)
(* Sealed leases.  The generation of a slot in use is far from its wrap,   *)
(* so a release always moves it to a larger one.                           *)
(***************************************************************************)
GenerationsBounded(reg) ==
  \A i \in ActiveSlots(reg) : reg[i].generation <= LeaseGenerationBound

SealInv ==
  /\ SessionInv
  /\ GenerationsBounded(frames)
  /\ GenerationsBounded(payloads)

\* How two registries may follow each other: Sealed is the relation SealedIn speaks of.
Sealed(reg, next) ==
  \A i \in DOMAIN reg : reg[i].active =>
    \/ next[i] = reg[i]
    \/ ~next[i].active /\ next[i].generation > reg[i].generation

LEMMA SealedPublish ==
  ASSUME NEW n \in Nat, NEW reg \in Registries(n, Sessions), NEW i \in 1 .. n,
         NEW session \in Sessions, NEW size \in Nat,
         IsFirstFree(reg, i), reg[i].generation <= LeaseGenerationBound,
         GenerationsBounded(reg)
  PROVE  /\ Sealed(reg, Publish(reg, i, session, size))
         /\ GenerationsBounded(Publish(reg, i, session, size))
         /\ Sealed(reg, ReleaseSlot(Publish(reg, i, session, size), i))
         /\ GenerationsBounded(ReleaseSlot(Publish(reg, i, session, size), i))
<1> USE DEF Registries, IsFirstFree, GenerationsBounded, ActiveSlots, Sealed
<1>1. Sealed(reg, Publish(reg, i, session, size))
  BY DEF Publish
<1>2. GenerationsBounded(Publish(reg, i, session, size))
  BY DEF Publish
<1>3. Sealed(reg, ReleaseSlot(Publish(reg, i, session, size), i))
  BY DEF Publish, ReleaseSlot
<1>4. GenerationsBounded(ReleaseSlot(Publish(reg, i, session, size), i))
  BY DEF Publish, ReleaseSlot, FreeSlot
<1>5. QED BY <1>1, <1>2, <1>3, <1>4

LEMMA SealedRelease ==
  ASSUME NEW n \in Nat, NEW reg \in Registries(n, Sessions), GenerationsBounded(reg)
  PROVE  /\ \A i \in 1 .. n : /\ Sealed(reg, ReleaseSlot(reg, i))
                              /\ GenerationsBounded(ReleaseSlot(reg, i))
         /\ \A session : /\ Sealed(reg, ReleaseSession(reg, session))
                         /\ GenerationsBounded(ReleaseSession(reg, session))
<1> USE DEF Registries, GenerationsBounded, ActiveSlots, Sealed, FreeSlot
<1>1. ASSUME NEW g \in 1 .. LeaseGenerationBound
      PROVE  NextLeaseGeneration(g) > g
  BY SupervisorAssumption, LeaseGenerationAssumption DEF NextLeaseGeneration
<1>2. ASSUME NEW j \in ActiveSlots(reg)
      PROVE  reg[j].generation \in 1 .. LeaseGenerationBound
  <2>1. reg[j].generation \in 1 .. MaxLeaseGeneration
    BY <1>2
  <2>2. reg[j].generation <= LeaseGenerationBound
    BY <1>2
  <2> HIDE DEF Registries, GenerationsBounded, ActiveSlots, Sealed, FreeSlot
  <2>3. LeaseGenerationBound \in Nat /\ MaxLeaseGeneration \in Nat
    BY SupervisorAssumption, LeaseGenerationAssumption
  <2>4. QED BY <2>1, <2>2, <2>3
<1>3. ASSUME NEW i \in 1 .. n
      PROVE  Sealed(reg, ReleaseSlot(reg, i)) /\ GenerationsBounded(ReleaseSlot(reg, i))
  <2>1. Sealed(reg, ReleaseSlot(reg, i))
    BY <1>1, <1>2 DEF ReleaseSlot
  <2>2. GenerationsBounded(ReleaseSlot(reg, i))
    BY DEF ReleaseSlot
  <2>3. QED BY <2>1, <2>2
<1>4. ASSUME NEW session
      PROVE  /\ Sealed(reg, ReleaseSession(reg, session))
             /\ GenerationsBounded(ReleaseSession(reg, session))
  <2>1. Sealed(reg, ReleaseSession(reg, session))
    BY <1>1, <1>2 DEF ReleaseSession, SlotsOf
  <2>2. GenerationsBounded(ReleaseSession(reg, session))
    BY DEF ReleaseSession, SlotsOf
  <2>3. QED BY <2>1, <2>2
<1>5. QED BY <1>3, <1>4

LEMMA InitSealInv == Init => SealInv
<1>1. Init => SessionInv
  BY InitSessionInv
<1>2. Init => ActiveSlots(frames) = {} /\ ActiveSlots(payloads) = {}
  BY DEF Init, ActiveSlots, NewRegistry, FreeSlot
<1>3. QED BY <1>1, <1>2 DEF SealInv, GenerationsBounded

\* One call leaves sealed leases sealed and keeps generations bounded.
LEMMA NextSealed ==
  SealInv /\ [Next]_supervisorVars =>
    /\ Sealed(frames, frames') /\ GenerationsBounded(frames')
    /\ Sealed(payloads, payloads') /\ GenerationsBounded(payloads')
<1> SUFFICES ASSUME SealInv, [Next]_supervisorVars
             PROVE  /\ Sealed(frames, frames') /\ GenerationsBounded(frames')
                    /\ Sealed(payloads, payloads') /\ GenerationsBounded(payloads')
  OBVIOUS
<1>t. /\ FrameLeases \in Nat /\ frames \in Registries(FrameLeases, Sessions)
      /\ PayloadLeases \in Nat /\ payloads \in Registries(PayloadLeases, Sessions)
      /\ GenerationsBounded(frames) /\ GenerationsBounded(payloads)
      /\ Sizes \subseteq Nat
  BY SupervisorAssumption DEF SealInv, SessionInv, TypeOK
<1>u. Sealed(frames, frames) /\ Sealed(payloads, payloads)
  BY DEF Sealed
<1> DEFINE FramesGood == Sealed(frames, frames') /\ GenerationsBounded(frames')
           PayloadsGood == Sealed(payloads, payloads') /\ GenerationsBounded(payloads')
<1>1. ASSUME UNCHANGED frames PROVE FramesGood
  BY <1>1, <1>t, <1>u
<1>2. ASSUME UNCHANGED payloads PROVE PayloadsGood
  BY <1>2, <1>t, <1>u
<1>3. ASSUME NEW s \in Sessions, NEW size \in Sizes, NEW i \in 1 .. FrameLeases,
             PublishFrame(s, size, i) \/ PublishFrameRefused(s, size, i)
      PROVE  FramesGood /\ UNCHANGED payloads
  BY <1>3, <1>t, SealedPublish
     DEF PublishFrame, PublishFrameRefused, FramePublishable, payloadVars
<1>4. ASSUME NEW s \in Sessions, NEW id \in IdsUpTo(FrameLeases), ReleaseFrame(s, id)
      PROVE  FramesGood /\ UNCHANGED payloads
  <2>1. PICK i \in SlotsHeld(frames, s, id) : frames' = ReleaseSlot(frames, i)
    BY <1>4 DEF ReleaseFrame
  <2>2. i \in 1 .. FrameLeases
    BY <2>1, <1>t DEF SlotsHeld, SlotsNamed, Registries
  <2>3. QED BY <1>4, <2>1, <2>2, <1>t, SealedRelease DEF ReleaseFrame, payloadVars
<1>5. ASSUME NEW s \in Sessions, NEW size \in Sizes, NEW i \in 1 .. PayloadLeases,
             PublishServicePayload(s, size, i)
      PROVE  PayloadsGood /\ UNCHANGED frames
  BY <1>5, <1>t, SealedPublish DEF PublishServicePayload, frameVars
<1>6. ASSUME NEW s \in Sessions, NEW id \in IdsUpTo(PayloadLeases),
             ReleaseServicePayload(s, id)
      PROVE  PayloadsGood /\ UNCHANGED frames
  <2>1. PICK i \in SlotsHeld(payloads, s, id) : payloads' = ReleaseSlot(payloads, i)
    BY <1>6 DEF ReleaseServicePayload
  <2>2. i \in 1 .. PayloadLeases
    BY <2>1, <1>t DEF SlotsHeld, SlotsNamed, Registries
  <2>3. QED BY <1>6, <2>1, <2>2, <1>t, SealedRelease DEF ReleaseServicePayload, frameVars
<1>7. ASSUME NEW s \in Sessions, CompleteTeardown(s) PROVE FramesGood /\ PayloadsGood
  <2>1. frames' = ReleaseSession(frames, s) /\ payloads' = ReleaseSession(payloads, s)
    BY <1>7 DEF CompleteTeardown
  <2>2. QED BY <2>1, <1>t, SealedRelease
<1>8. ASSUME \/ UNCHANGED supervisorVars \/ MailboxCall
             \/ \E t \in Token : TrackService(t) \/ CancelService(t) \/ EraseTombstone(t)
             \/ \E app \in Apps : Begin(app)
             \/ \E s \in Sessions : BeginTeardown(s)
             \/ \E intent \in Intent : PostNativeReleaseIntent(intent)
             \/ TakeNativeReleaseIntent
      PROVE  UNCHANGED frames /\ UNCHANGED payloads
  BY <1>8
     DEF supervisorVars, frameVars, payloadVars, MailboxCall, PostToInbox,
         PostServiceRequest, PostFatal, TakeWorkerPacket, TakeFramePacket,
         TakeServiceRequest, TakeFatal, TrackService, CancelService, EraseTombstone, Begin,
         BeginTeardown, PostNativeReleaseIntent, TakeNativeReleaseIntent
<1>9. QED
  BY <1>1, <1>2, <1>3, <1>4, <1>5, <1>6, <1>7, <1>8
  DEF Next, FrameCall, ServiceCall, TeardownCall, RetireService, ConsumeServiceCompletion

LEMMA SealInvariant == Spec => []SealInv
<1>1. SealInv /\ [Next]_supervisorVars => SealInv'
  BY NextSessionInv, NextSealed DEF SealInv, GenerationsBounded
<1>2. QED BY InitSealInv, <1>1, PTL DEF Spec

\* A frame that a call leaves sealed has its packet in the mailbox.
LEMMA NextPosted == TypeOK /\ [Next]_supervisorVars => SealedIsPosted
<1> SUFFICES ASSUME TypeOK, [Next]_supervisorVars PROVE SealedIsPosted
  OBVIOUS
<1>t. /\ DOMAIN frames = 1 .. FrameLeases
      /\ \A i \in 1 .. FrameLeases : frames[i] \in [active : BOOLEAN, session : Sessions \cup {NoSession},
                                               generation : 1 .. MaxLeaseGeneration, size : Nat]
      /\ frameBox \in Seq(FramePacket)
  BY DEF TypeOK, Registries
<1>1. ASSUME \A i \in DOMAIN frames : frames'[i].active => frames[i].active
      PROVE  SealedIsPosted
  BY <1>1 DEF SealedIsPosted
<1>2. ASSUME NEW s \in Sessions, NEW size \in Sizes, NEW i \in 1 .. FrameLeases,
             PublishFrame(s, size, i)
      PROVE  SealedIsPosted
  <2>1. /\ frames' = Publish(frames, i, s, size)
        /\ frameBox' = Append(frameBox, [session |-> s, sequence |-> nextFrameSequence,
                                         lease |-> LeaseId(i, frames[i].generation)])
    BY <1>2 DEF PublishFrame
  <2>2. /\ frames'[i].generation = frames[i].generation
        /\ \A j \in DOMAIN frames : j # i => frames'[j] = frames[j]
    BY <1>t, <2>1 DEF Publish
  <2>3. /\ Len(frameBox) + 1 \in DOMAIN frameBox'
        /\ frameBox'[Len(frameBox) + 1].lease = LeaseId(i, frames'[i].generation)
    BY <1>t, <2>1, <2>2
  <2>4. QED BY <2>2, <2>3 DEF SealedIsPosted
<1>3. ASSUME NEW s \in Sessions, NEW size \in Sizes, NEW i \in 1 .. FrameLeases,
             PublishFrameRefused(s, size, i)
      PROVE  SealedIsPosted
  BY <1>1, <1>3, <1>t DEF PublishFrameRefused, ReleaseSlot, Publish, FreeSlot
<1>4. ASSUME NEW s \in Sessions, NEW id \in IdsUpTo(FrameLeases), ReleaseFrame(s, id)
      PROVE  SealedIsPosted
  BY <1>1, <1>4, <1>t DEF ReleaseFrame, ReleaseSlot, FreeSlot
<1>5. ASSUME NEW s \in Sessions, CompleteTeardown(s)
      PROVE  SealedIsPosted
  BY <1>1, <1>5, <1>t DEF CompleteTeardown, ReleaseSession, FreeSlot
<1>6. ASSUME UNCHANGED frames
      PROVE  SealedIsPosted
  BY <1>1, <1>6
<1>7. ASSUME \/ UNCHANGED supervisorVars \/ MailboxCall \/ ServiceCall
             \/ \E app \in Apps : Begin(app)
             \/ \E s \in Sessions : BeginTeardown(s)
             \/ \E intent \in Intent : PostNativeReleaseIntent(intent)
             \/ TakeNativeReleaseIntent
      PROVE  UNCHANGED frames
  BY <1>7
     DEF supervisorVars, frameVars, MailboxCall, PostToInbox, PostServiceRequest, PostFatal,
         TakeWorkerPacket, TakeFramePacket, TakeServiceRequest, TakeFatal, ServiceCall,
         PublishServicePayload, ReleaseServicePayload, TrackService, CancelService,
         RetireService, ConsumeServiceCompletion, EraseTombstone, Begin, BeginTeardown,
         PostNativeReleaseIntent, TakeNativeReleaseIntent
<1>8. QED BY <1>2, <1>3, <1>4, <1>5, <1>6, <1>7 DEF Next, FrameCall, TeardownCall

\* A lease that is in use keeps its session and bytes until it is released, and its id
\* is stale from then on, for any number of leases and any caller; and each call that seals
\* a frame leaves its packet in the mailbox.
THEOREM LeasesAreSealed == Spec => SealedUntilReleased
<1>1. SealInv /\ [Next]_supervisorVars =>
        [SealedIn(frames) /\ SealedIn(payloads) /\ SealedIsPosted]_supervisorVars
  BY NextSealed, NextPosted DEF SealedIn, Sealed, SealInv, SessionInv
<1>2. QED BY <1>1, SealInvariant, PTL DEF Spec, SealedUntilReleased

-----------------------------------------------------------------------------
(***************************************************************************)
(* The byte accounts.  BytesOf is a sum over the active slots, so that the *)
(* account of a registry has to follow every way in which that set or its  *)
(* bytes change (SetSums_proofs); the clamp of release_slot never bites,   *)
(* as an account is never less than what a part of the slots holds.        *)
(***************************************************************************)
\* The bytes in the slots of a registry.
SizesOf(reg, S) == [i \in S |-> reg[i].size]

\* BytesOf is such a sum.
LEMMA BytesAreSums ==
  ASSUME NEW reg, NEW S, IsFiniteSet(S)
  PROVE  \E g : Sums(g, SizesOf(reg, S), S) /\ BytesOf(reg, S) = g[S]
<1> DEFINE P(f) == f = [s \in SUBSET S |-> IF s = {} THEN 0
                                           ELSE reg[Any(s)].size + f[s \ {Any(s)}]]
<1>1. ASSUME NEW f PROVE P(f) <=> Sums(f, SizesOf(reg, S), S)
  <2>1. \A s \in SUBSET S : s # {} => SizesOf(reg, S)[Any(s)] = reg[Any(s)].size
    BY DEF SizesOf, Any
  <2>2. [s \in SUBSET S |-> IF s = {} THEN 0 ELSE reg[Any(s)].size + f[s \ {Any(s)}]]
        = [s \in SUBSET S |-> IF s = {} THEN 0
                              ELSE SizesOf(reg, S)[Any(s)] + f[s \ {Any(s)}]]
    BY <2>1
  <2>3. QED BY <2>2, Zenon DEF Sums
<1>2. \E f : P(f)
  BY <1>1, SumsExist
<1>3. P(CHOOSE f : P(f))
  <2> HIDE DEF P
  <2>1. QED BY <1>2
<1>4. BytesOf(reg, S) = (CHOOSE f : P(f))[S]
  BY DEF BytesOf, MapThenSumSet, MapThenFoldSet, Any
<1> HIDE DEF P
<1>5. QED BY <1>1, <1>3, <1>4

LEMMA BytesNat ==
  ASSUME NEW reg, NEW S, IsFiniteSet(S), \A i \in S : reg[i].size \in Nat
  PROVE  BytesOf(reg, S) \in Nat
<1>1. \A i \in S : SizesOf(reg, S)[i] \in Nat
  BY DEF SizesOf
<1>2. QED BY <1>1, BytesAreSums, SumsAreNat

LEMMA BytesAgree ==
  ASSUME NEW reg, NEW next, NEW S, IsFiniteSet(S), \A i \in S : reg[i].size = next[i].size
  PROVE  BytesOf(reg, S) = BytesOf(next, S)
<1>1. \A i \in S : SizesOf(reg, S)[i] = SizesOf(next, S)[i]
  BY DEF SizesOf
<1>2. PICK g : Sums(g, SizesOf(reg, S), S) /\ BytesOf(reg, S) = g[S]
  BY BytesAreSums
<1>3. PICK k : Sums(k, SizesOf(next, S), S) /\ BytesOf(next, S) = k[S]
  BY BytesAreSums
<1>4. g[S] = k[S]
  BY <1>1, <1>2, <1>3, SumsAgree
<1>5. QED BY <1>2, <1>3, <1>4

LEMMA BytesSplit ==
  ASSUME NEW reg, NEW S, IsFiniteSet(S), \A i \in S : reg[i].size \in Nat, NEW T \in SUBSET S
  PROVE  BytesOf(reg, S) = BytesOf(reg, T) + BytesOf(reg, S \ T)
<1>1. PICK g : Sums(g, SizesOf(reg, S), S) /\ BytesOf(reg, S) = g[S]
  BY BytesAreSums
<1>2. ASSUME NEW R \in SUBSET S PROVE BytesOf(reg, R) = g[R]
  <2>1. IsFiniteSet(R)
    BY FS_Subset
  <2>2. PICK k : Sums(k, SizesOf(reg, R), R) /\ BytesOf(reg, R) = k[R]
    BY <2>1, BytesAreSums
  <2>3. \A i \in R : SizesOf(reg, S)[i] = SizesOf(reg, R)[i]
    BY DEF SizesOf
  <2>4. g[R] = k[R]
    BY <1>1, <2>2, <2>3, SumsAgree
  <2>5. QED BY <2>2, <2>4
<1>3. g[S] = g[T] + g[S \ T]
  <2>1. \A i \in S : SizesOf(reg, S)[i] \in Nat
    BY DEF SizesOf
  <2>2. QED BY <1>1, <2>1, SumsSplit
<1>4. BytesOf(reg, T) = g[T] /\ BytesOf(reg, S \ T) = g[S \ T]
  BY <1>2
<1>5. QED BY <1>1, <1>3, <1>4

LEMMA BytesOfOne ==
  ASSUME NEW reg, NEW i, reg[i].size \in Nat
  PROVE  BytesOf(reg, {i}) = reg[i].size
<1>1. IsFiniteSet({i})
  BY FS_Singleton
<1>2. PICK g : Sums(g, SizesOf(reg, {i}), {i}) /\ BytesOf(reg, {i}) = g[{i}]
  BY <1>1, BytesAreSums
<1>3. SizesOf(reg, {i})[i] = reg[i].size
  BY DEF SizesOf
<1>4. g[{i}] = g[{i} \ {i}] + reg[i].size
  BY <1>1, <1>2, <1>3, SumsRemove
<1>5. g[{i} \ {i}] = 0
  BY <1>2, SumsStep
<1>6. QED BY <1>2, <1>4, <1>5

\* The account of a registry says what its active slots hold, and is within its budget.
Accounted(reg, bytes, total) == bytes = BytesOf(reg, ActiveSlots(reg)) /\ bytes <= total

LEMMA ActiveIsFinite ==
  ASSUME NEW n \in Nat, NEW reg \in Registries(n, Sessions), NEW S \in SUBSET ActiveSlots(reg)
  PROVE  IsFiniteSet(S) /\ BytesOf(reg, S) \in Nat
<1>1. S \subseteq 1 .. n /\ \A i \in S : reg[i].size \in Nat
  BY DEF ActiveSlots, Registries
<1>2. IsFiniteSet(1 .. n)
  BY FS_Interval
<1>3. IsFiniteSet(S)
  BY <1>1, <1>2, FS_Subset
<1>4. QED BY <1>1, <1>3, BytesNat

\* Releasing some slots gives back exactly their bytes: the subtraction is never clamped.
LEMMA AccountedRelease ==
  ASSUME NEW n \in Nat, NEW total \in Nat, NEW bytes,
         NEW reg \in Registries(n, Sessions), NEW next \in Registries(n, Sessions),
         Accounted(reg, bytes, total), NEW T \in SUBSET ActiveSlots(reg),
         ActiveSlots(next) = ActiveSlots(reg) \ T,
         \A i \in ActiveSlots(next) : next[i].size = reg[i].size
  PROVE  /\ BytesOf(reg, T) <= bytes
         /\ Accounted(next, UsedAfterRelease(bytes, BytesOf(reg, T)), total)
<1> DEFINE A == ActiveSlots(reg)
<1>1. /\ IsFiniteSet(A) /\ \A i \in A : reg[i].size \in Nat
      /\ BytesOf(reg, A) \in Nat /\ BytesOf(reg, T) \in Nat /\ BytesOf(reg, A \ T) \in Nat
  BY ActiveIsFinite DEF ActiveSlots, Registries
<1>2. BytesOf(reg, A) = BytesOf(reg, T) + BytesOf(reg, A \ T)
  BY <1>1, BytesSplit
<1>3. BytesOf(reg, A \ T) = BytesOf(next, A \ T)
  <2>1. IsFiniteSet(A \ T)
    BY ActiveIsFinite
  <2>2. \A i \in A \ T : reg[i].size = next[i].size
    OBVIOUS
  <2>3. QED BY <2>1, <2>2, BytesAgree
<1>4. BytesOf(next, A \ T) = BytesOf(next, ActiveSlots(next))
  BY Zenon
<1>5. bytes = BytesOf(reg, A) /\ bytes <= total
  BY DEF Accounted
<1> HIDE DEF A
<1>6. /\ UsedAfterRelease(bytes, BytesOf(reg, T)) = BytesOf(reg, A \ T)
      /\ BytesOf(reg, T) <= bytes /\ BytesOf(reg, A \ T) <= total
  BY <1>1, <1>2, <1>5 DEF UsedAfterRelease
<1>7. QED BY <1>3, <1>4, <1>6 DEF Accounted

\* A lease that fits the budget is charged; if the mailbox refuses its packet, it is given
\* back in full.
LEMMA AccountedPublish ==
  ASSUME NEW n \in Nat, NEW maxLease \in Nat, NEW total \in Nat, NEW bytes,
         NEW reg \in Registries(n, Sessions), Accounted(reg, bytes, total),
         NEW i \in 1 .. n, NEW session \in Sessions, NEW size \in Nat, IsFirstFree(reg, i),
         FitsBudget(bytes, size, maxLease, total)
  PROVE  /\ Accounted(Publish(reg, i, session, size), bytes + size, total)
         /\ Accounted(ReleaseSlot(Publish(reg, i, session, size), i),
                      UsedAfterRelease(bytes + size, size), total)
<1> DEFINE next == Publish(reg, i, session, size)
           back == ReleaseSlot(next, i)
           A == ActiveSlots(reg)
<1>1. next \in Registries(n, Sessions) /\ back \in Registries(n, Sessions)
  <2>1. next \in Registries(n, Sessions)
    BY RegistryTypes
  <2> HIDE DEF next
  <2>2. QED BY <2>1, RegistryTypes
<1>2. /\ next[i].size = size /\ next[i].active
      /\ \A j \in 1 .. n : j # i => next[j] = reg[j]
      /\ ~back[i].active /\ \A j \in 1 .. n : j # i => back[j] = next[j]
  BY DEF Publish, ReleaseSlot, FreeSlot, Registries
<1>3. i \notin A /\ ActiveSlots(next) = A \cup {i} /\ ActiveSlots(back) = A
  <2>1. DOMAIN reg = 1 .. n /\ DOMAIN next = 1 .. n /\ DOMAIN back = 1 .. n /\ ~reg[i].active
    BY <1>1 DEF Registries, IsFirstFree
  <2> HIDE DEF next, back
  <2>2. QED BY <1>2, <2>1 DEF ActiveSlots
<1> HIDE DEF next, back
<1>4. /\ IsFiniteSet(A) /\ BytesOf(reg, A) \in Nat /\ A \subseteq 1 .. n
  BY ActiveIsFinite DEF ActiveSlots, Registries
<1>5. BytesOf(next, A) = BytesOf(reg, A)
  <2>1. \A j \in A : next[j].size = reg[j].size
    BY <1>2, <1>3, <1>4
  <2> HIDE DEF A
  <2>2. QED BY <1>4, <2>1, BytesAgree
<1>6. BytesOf(next, {i}) = size
  BY <1>2, BytesOfOne
<1>7. BytesOf(next, A \cup {i}) = BytesOf(next, {i}) + BytesOf(next, A)
  <2>1. IsFiniteSet(A \cup {i})
    BY <1>4, FS_AddElement
  <2>2. \A j \in A \cup {i} : next[j].size \in Nat
    BY <1>1, <1>4 DEF Registries
  <2>3. BytesOf(next, A \cup {i}) = BytesOf(next, {i}) + BytesOf(next, (A \cup {i}) \ {i})
    BY <2>1, <2>2, BytesSplit
  <2>4. (A \cup {i}) \ {i} = A
    BY <1>3
  <2>5. BytesOf(next, (A \cup {i}) \ {i}) = BytesOf(next, A)
    BY <2>4, Zenon
  <2>6. QED BY <2>3, <2>5
<1>8. BytesOf(next, ActiveSlots(next)) = BytesOf(next, A \cup {i})
  BY <1>3, Zenon
<1>9. bytes = BytesOf(reg, A) /\ bytes \in Nat /\ bytes + size <= total
  <2>1. bytes = BytesOf(reg, A) /\ bytes <= total
    BY DEF Accounted
  <2>2. size <= total - bytes
    BY <1>4, <2>1 DEF FitsBudget
  <2>3. QED BY <1>4, <2>1, <2>2
<1>10. Accounted(next, bytes + size, total)
  BY <1>4, <1>5, <1>6, <1>7, <1>8, <1>9 DEF Accounted
<1>11. Accounted(back, UsedAfterRelease(bytes + size, BytesOf(next, {i})), total)
  <2>1. {i} \in SUBSET ActiveSlots(next) /\ ActiveSlots(back) = ActiveSlots(next) \ {i}
    BY <1>3
  <2>2. \A j \in ActiveSlots(back) : back[j].size = next[j].size
    BY <1>2, <1>3, <1>4
  <2>3. QED BY <1>1, <1>10, <2>1, <2>2, AccountedRelease
<1>12. QED BY <1>6, <1>10, <1>11 DEF next, back

LEMMA AccountedReleaseSlot ==
  ASSUME NEW n \in Nat, NEW total \in Nat, NEW bytes, NEW reg \in Registries(n, Sessions),
         Accounted(reg, bytes, total), NEW i \in ActiveSlots(reg)
  PROVE  Accounted(ReleaseSlot(reg, i), UsedAfterRelease(bytes, reg[i].size), total)
<1> DEFINE next == ReleaseSlot(reg, i)
<1>1. i \in 1 .. n /\ reg[i].size \in Nat /\ DOMAIN reg = 1 .. n
  BY DEF ActiveSlots, Registries
<1>2. next \in Registries(n, Sessions)
  <2>1. PICK session \in Sessions \cup {NoSession} : session = reg[i].session
    BY <1>1 DEF Registries
  <2>2. \A g \in 1 .. MaxLeaseGeneration : NextLeaseGeneration(g) \in 1 .. MaxLeaseGeneration
    BY LeaseGenerationAssumption DEF NextLeaseGeneration
  <2>3. FreeSlot(NextLeaseGeneration(reg[i].generation)) \in
          [active : BOOLEAN, session : Sessions \cup {NoSession},
           generation : 1 .. MaxLeaseGeneration, size : Nat]
    BY <1>1, <2>2 DEF FreeSlot, Registries
  <2>4. QED BY <1>1, <2>3 DEF ReleaseSlot, Registries
<1>3. ~next[i].active /\ \A j \in 1 .. n : j # i => next[j] = reg[j]
  BY <1>1 DEF ReleaseSlot, FreeSlot, Registries
<1>4. DOMAIN next = 1 .. n
  BY <1>2 DEF Registries
<1> HIDE DEF next
<1>5. /\ {i} \in SUBSET ActiveSlots(reg) /\ ActiveSlots(next) = ActiveSlots(reg) \ {i}
      /\ \A j \in ActiveSlots(next) : next[j].size = reg[j].size
  BY <1>1, <1>3, <1>4 DEF ActiveSlots
<1>6. Accounted(next, UsedAfterRelease(bytes, BytesOf(reg, {i})), total)
  BY <1>2, <1>5, AccountedRelease
<1>7. BytesOf(reg, {i}) = reg[i].size
  BY <1>1, BytesOfOne
<1>8. QED BY <1>6, <1>7 DEF next

LEMMA AccountedReleaseSession ==
  ASSUME NEW n \in Nat, NEW total \in Nat, NEW bytes, NEW reg \in Registries(n, Sessions),
         Accounted(reg, bytes, total), NEW session \in Sessions
  PROVE  Accounted(ReleaseSession(reg, session),
                   UsedAfterRelease(bytes, BytesOf(reg, SlotsOf(reg, session))), total)
<1> DEFINE next == ReleaseSession(reg, session)
<1>1. next \in Registries(n, Sessions)
  BY ReleaseSessionType
<1>2. /\ SlotsOf(reg, session) \in SUBSET ActiveSlots(reg)
      /\ ActiveSlots(next) = ActiveSlots(reg) \ SlotsOf(reg, session)
      /\ \A j \in ActiveSlots(next) : next[j].size = reg[j].size
  BY DEF ReleaseSession, FreeSlot, ActiveSlots, SlotsOf
<1> HIDE DEF next
<1>3. Accounted(next, UsedAfterRelease(bytes, BytesOf(reg, SlotsOf(reg, session))), total)
  BY <1>1, <1>2, AccountedRelease
<1>4. QED BY <1>3 DEF next

BytesInv ==
  /\ Accounted(frames, frameBytes, MaxTotalFrameBytes)
  /\ Accounted(payloads, payloadBytes, MaxTotalPayloadBytes)

LEMMA InitBytesInv == Init => BytesInv
<1> SUFFICES ASSUME Init PROVE BytesInv
  OBVIOUS
<1>1. MaxTotalFrameBytes \in Nat /\ MaxTotalPayloadBytes \in Nat
  BY SupervisorAssumption
<1>2. ActiveSlots(frames) = {} /\ ActiveSlots(payloads) = {}
  BY DEF Init, ActiveSlots, NewRegistry, FreeSlot
<1>3. ASSUME NEW reg, ActiveSlots(reg) = {} PROVE BytesOf(reg, ActiveSlots(reg)) = 0
  <2>1. BytesOf(reg, {}) = 0
    <3>1. PICK g : Sums(g, SizesOf(reg, {}), {}) /\ BytesOf(reg, {}) = g[{}]
      BY FS_EmptySet, BytesAreSums
    <3>2. QED BY <3>1, SumsStep
  <2>2. QED BY <1>3, <2>1, Zenon
<1>4. BytesOf(frames, ActiveSlots(frames)) = 0 /\ BytesOf(payloads, ActiveSlots(payloads)) = 0
  BY <1>2, <1>3
<1>5. QED BY <1>1, <1>4 DEF Init, BytesInv, Accounted

LEMMA NextBytesInv == TypeOK /\ BytesInv /\ [Next]_supervisorVars => BytesInv'
<1> SUFFICES ASSUME TypeOK, BytesInv, [Next]_supervisorVars PROVE BytesInv'
  OBVIOUS
<1>t. /\ FrameLeases \in Nat /\ frames \in Registries(FrameLeases, Sessions)
      /\ PayloadLeases \in Nat /\ payloads \in Registries(PayloadLeases, Sessions)
      /\ MaxFrameBytes \in Nat /\ MaxTotalFrameBytes \in Nat
      /\ MaxPayloadBytes \in Nat /\ MaxTotalPayloadBytes \in Nat
      /\ Sizes \subseteq Nat
  BY SupervisorAssumption DEF TypeOK
<1>b. /\ Accounted(frames, frameBytes, MaxTotalFrameBytes)
      /\ Accounted(payloads, payloadBytes, MaxTotalPayloadBytes)
  BY DEF BytesInv
<1> DEFINE FramesGood == Accounted(frames', frameBytes', MaxTotalFrameBytes)
           PayloadsGood == Accounted(payloads', payloadBytes', MaxTotalPayloadBytes)
<1>1. ASSUME frames' = frames, frameBytes' = frameBytes PROVE FramesGood
  BY <1>1, <1>b, Zenon
<1>2. ASSUME payloads' = payloads, payloadBytes' = payloadBytes PROVE PayloadsGood
  BY <1>2, <1>b, Zenon
<1>3. ASSUME NEW s \in Sessions, NEW size \in Sizes, NEW i \in 1 .. FrameLeases,
             PublishFrame(s, size, i) \/ PublishFrameRefused(s, size, i)
      PROVE  FramesGood /\ UNCHANGED payloadVars
  <2>1. /\ FitsBudget(frameBytes, size, MaxFrameBytes, MaxTotalFrameBytes)
        /\ IsFirstFree(frames, i) /\ size \in Nat
    BY <1>3, <1>t DEF PublishFrame, PublishFrameRefused, FramePublishable
  <2>2. /\ Accounted(Publish(frames, i, s, size), frameBytes + size, MaxTotalFrameBytes)
        /\ Accounted(ReleaseSlot(Publish(frames, i, s, size), i),
                     UsedAfterRelease(frameBytes + size, size), MaxTotalFrameBytes)
    BY <1>t, <1>b, <2>1, AccountedPublish
  <2>3. QED BY <1>3, <2>2 DEF PublishFrame, PublishFrameRefused
<1>4. ASSUME NEW s \in Sessions, NEW id \in IdsUpTo(FrameLeases), ReleaseFrame(s, id)
      PROVE  FramesGood /\ UNCHANGED payloadVars
  <2>1. PICK i \in SlotsHeld(frames, s, id) :
          /\ frames' = ReleaseSlot(frames, i)
          /\ frameBytes' = UsedAfterRelease(frameBytes, frames[i].size)
    BY <1>4 DEF ReleaseFrame
  <2>2. i \in ActiveSlots(frames)
    BY DEF SlotsHeld, SlotsNamed, ActiveSlots
  <2>3. Accounted(ReleaseSlot(frames, i), UsedAfterRelease(frameBytes, frames[i].size),
                  MaxTotalFrameBytes)
    BY <1>t, <1>b, <2>2, AccountedReleaseSlot
  <2>4. QED BY <1>4, <2>1, <2>3 DEF ReleaseFrame
<1>5. ASSUME NEW s \in Sessions, NEW size \in Sizes, NEW i \in 1 .. PayloadLeases,
             PublishServicePayload(s, size, i)
      PROVE  PayloadsGood /\ UNCHANGED <<frames, frameBytes>>
  <2>1. /\ FitsBudget(payloadBytes, size, MaxPayloadBytes, MaxTotalPayloadBytes)
        /\ IsFirstFree(payloads, i) /\ size \in Nat
    BY <1>5, <1>t DEF PublishServicePayload
  <2>2. Accounted(Publish(payloads, i, s, size), payloadBytes + size, MaxTotalPayloadBytes)
    BY <1>t, <1>b, <2>1, AccountedPublish
  <2>3. QED BY <1>5, <2>2 DEF PublishServicePayload, frameVars
<1>6. ASSUME NEW s \in Sessions, NEW id \in IdsUpTo(PayloadLeases),
             ReleaseServicePayload(s, id)
      PROVE  PayloadsGood /\ UNCHANGED <<frames, frameBytes>>
  <2>1. PICK i \in SlotsHeld(payloads, s, id) :
          /\ payloads' = ReleaseSlot(payloads, i)
          /\ payloadBytes' = UsedAfterRelease(payloadBytes, payloads[i].size)
    BY <1>6 DEF ReleaseServicePayload
  <2>2. i \in ActiveSlots(payloads)
    BY DEF SlotsHeld, SlotsNamed, ActiveSlots
  <2>3. Accounted(ReleaseSlot(payloads, i), UsedAfterRelease(payloadBytes, payloads[i].size),
                  MaxTotalPayloadBytes)
    BY <1>t, <1>b, <2>2, AccountedReleaseSlot
  <2>4. QED BY <1>6, <2>1, <2>3 DEF ReleaseServicePayload, frameVars
<1>7. ASSUME NEW s \in Sessions, CompleteTeardown(s) PROVE FramesGood /\ PayloadsGood
  <2>1. /\ Accounted(ReleaseSession(frames, s),
                     UsedAfterRelease(frameBytes, BytesOf(frames, SlotsOf(frames, s))),
                     MaxTotalFrameBytes)
        /\ Accounted(ReleaseSession(payloads, s),
                     UsedAfterRelease(payloadBytes, BytesOf(payloads, SlotsOf(payloads, s))),
                     MaxTotalPayloadBytes)
    BY <1>t, <1>b, AccountedReleaseSession
  <2>2. QED BY <1>7, <2>1 DEF CompleteTeardown
<1>8. ASSUME \/ UNCHANGED supervisorVars \/ MailboxCall
             \/ \E t \in Token : TrackService(t) \/ CancelService(t) \/ EraseTombstone(t)
             \/ \E app \in Apps : Begin(app)
             \/ \E s \in Sessions : BeginTeardown(s)
             \/ \E intent \in Intent : PostNativeReleaseIntent(intent)
             \/ TakeNativeReleaseIntent
      PROVE  UNCHANGED <<frames, frameBytes, payloads, payloadBytes>>
  BY <1>8
     DEF supervisorVars, frameVars, payloadVars, MailboxCall, PostToInbox,
         PostServiceRequest, PostFatal, TakeWorkerPacket, TakeFramePacket,
         TakeServiceRequest, TakeFatal, TrackService, CancelService, EraseTombstone, Begin,
         BeginTeardown, PostNativeReleaseIntent, TakeNativeReleaseIntent
<1>9. FramesGood /\ PayloadsGood
  <2>1. ASSUME UNCHANGED payloadVars PROVE PayloadsGood
    BY <1>2, <2>1 DEF payloadVars
  <2> HIDE DEF FramesGood, PayloadsGood
  <2>2. QED
    BY <1>1, <1>3, <1>4, <1>5, <1>6, <1>7, <1>8, <1>2, <2>1
    DEF Next, FrameCall, ServiceCall, TeardownCall, RetireService, ConsumeServiceCompletion
<1>10. QED BY <1>9 DEF BytesInv

\* The accounts of frame and payload bytes are exact and within the budgets, whatever is
\* published, refused, released twice or by a holder that retired: no byte is lost to a
\* refused packet or to the clamp, so the budgets never shrink.
THEOREM BytesStayAccounted == Spec => []BytesAccounted
<1>1. Spec => []BytesInv
  BY InitBytesInv, NextBytesInv, TypeCorrect, PTL DEF Spec
<1>2. BytesInv => BytesAccounted
  BY DEF BytesInv, Accounted, BytesAccounted
<1>3. QED BY <1>1, <1>2, PTL

-----------------------------------------------------------------------------
(***************************************************************************)
(* The supervisor implements SessionLifecycle.  The session of everything  *)
(* queued or owned is the open one (SessionInv), so which lifecycle step a *)
(* call is depends only on what it does to current and retiring.           *)
(***************************************************************************)

\* What is queued or owned belongs to the open session.
OwnedIsOpen ==
  /\ \A r \in Owned : IsOpen(r.session)
  /\ \A s \in Queued : s = current
  /\ current = NoSession => Queued = {}

LEMMA OwnedByOpen == SessionInv => OwnedIsOpen
<1> SUFFICES ASSUME SessionInv PROVE OwnedIsOpen
  OBVIOUS
<1>1. \A r \in Owned : IsOpen(r.session)
  BY DEF SessionInv, NothingSurvivesTeardown, Owned
<1>2. \A s \in Queued : s = current /\ s \in Sessions
  <2>1. /\ inbox \in Seq(Packet) /\ requestBox \in Seq(Packet) /\ fatalBox \in Seq(Packet)
        /\ frameBox \in Seq(FramePacket)
    BY DEF SessionInv, TypeOK
  <2>2. ASSUME NEW box \in {inbox, frameBox, requestBox, fatalBox}, NEW k \in DOMAIN box
        PROVE  box[k].session = current /\ box[k].session \in Sessions
    <3>1. box[k].session = current
      BY DEF SessionInv, MailboxesCurrent, HoldsOnly
    <3>2. box[k] \in Packet \cup FramePacket
      BY <2>1
    <3>3. QED BY <3>1, <3>2 DEF Packet, FramePacket
  <2>3. QED BY <2>2 DEF Queued, QueuedIn
<1>3. QED BY <1>1, <1>2, NoSessionIsNoSession DEF OwnedIsOpen

LEMMA OwnedByOpenNext == SessionInv' => OwnedIsOpen'
<1>1. QED BY OwnedByOpen, PTL

LEMMA LifecycleInit == Init => Lifecycle!Init
<1> SUFFICES ASSUME Init PROVE Lifecycle!Init
  OBVIOUS
<1>1. ActiveSlots(frames) = {} /\ ActiveSlots(payloads) = {}
  BY DEF Init, ActiveSlots, NewRegistry, FreeSlot
<1>2. Owned = {} /\ Queued = {}
  BY <1>1 DEF Init, Owned, Queued, QueuedIn
<1>3. QED BY <1>2 DEF Init, Lifecycle!Init

\* While a session retires (or none is open), a call can only add release intents.
LEMMA OnlyIntentsGrow ==
  ASSUME SessionInv, [Next]_supervisorVars, current = NoSession, current' = NoSession
  PROVE  \A r \in Owned' : r \in Owned \/ r.kind = "intent"
<1> USE DEF sessionVars, boxVars, frameVars, payloadVars, serviceVars
<1>t. /\ FrameLeases \in Nat /\ frames \in Registries(FrameLeases, Sessions)
      /\ PayloadLeases \in Nat /\ payloads \in Registries(PayloadLeases, Sessions)
  BY SupervisorAssumption DEF SessionInv, TypeOK
<1> DEFINE Shrinks(reg, next) ==
      \A j \in ActiveSlots(next) : j \in ActiveSlots(reg) /\ next[j] = reg[j]
           Good == /\ Shrinks(frames, frames') /\ Shrinks(payloads, payloads')
                   /\ tombstones' \subseteq tombstones
<1>u. Shrinks(frames, frames) /\ Shrinks(payloads, payloads)
  OBVIOUS
<1>1. ASSUME UNCHANGED supervisorVars PROVE Good
  BY <1>1, <1>u DEF supervisorVars
<1>2. ASSUME NEW s \in Sessions, NEW id \in IdsUpTo(FrameLeases), ReleaseFrame(s, id)
      PROVE  Good
  <2>1. PICK i \in SlotsHeld(frames, s, id) : frames' = ReleaseSlot(frames, i)
    BY <1>2 DEF ReleaseFrame
  <2>2. Shrinks(frames, frames')
    BY <2>1 DEF ReleaseSlot, ActiveSlots, FreeSlot, SlotsHeld, SlotsNamed
  <2>3. QED BY <1>2, <1>u, <2>2 DEF ReleaseFrame
<1>3. ASSUME NEW s \in Sessions, NEW id \in IdsUpTo(PayloadLeases),
             ReleaseServicePayload(s, id)
      PROVE  Good
  <2>1. PICK i \in SlotsHeld(payloads, s, id) : payloads' = ReleaseSlot(payloads, i)
    BY <1>3 DEF ReleaseServicePayload
  <2>2. Shrinks(payloads, payloads')
    BY <2>1 DEF ReleaseSlot, ActiveSlots, FreeSlot, SlotsHeld, SlotsNamed
  <2>3. QED BY <1>3, <1>u, <2>2 DEF ReleaseServicePayload
<1>4. ASSUME NEW t \in Token, EraseTombstone(t) PROVE Good
  BY <1>4, <1>u DEF EraseTombstone
<1>5. ASSUME \/ \E intent \in Intent : PostNativeReleaseIntent(intent)
             \/ TakeNativeReleaseIntent
      PROVE  Good
  BY <1>5, <1>u DEF PostNativeReleaseIntent, TakeNativeReleaseIntent
<1>6. ASSUME NEW s \in Sessions, CompleteTeardown(s) PROVE Good
  <2>1. frames' = ReleaseSession(frames, s) /\ payloads' = ReleaseSession(payloads, s)
    BY <1>6 DEF CompleteTeardown
  <2>2. Shrinks(frames, frames') /\ Shrinks(payloads, payloads')
    BY <2>1 DEF ReleaseSession, ActiveSlots, FreeSlot
  <2>3. QED BY <1>6, <2>2 DEF CompleteTeardown
<1>7. ASSUME MailboxCall PROVE Good
  BY <1>7, <1>u
     DEF MailboxCall, PostToInbox, PostServiceRequest, PostFatal, TakeWorkerPacket,
         TakeFramePacket, TakeServiceRequest, TakeFatal
<1>8. ASSUME \/ \E s \in Sessions, size \in Sizes, i \in 1 .. FrameLeases :
                  PublishFrame(s, size, i) \/ PublishFrameRefused(s, size, i)
             \/ \E s \in Sessions, size \in Sizes, i \in 1 .. PayloadLeases :
                  PublishServicePayload(s, size, i)
             \/ \E t \in Token : TrackService(t) \/ CancelService(t)
             \/ \E app \in Apps : Begin(app)
             \/ \E s \in Sessions : BeginTeardown(s)
      PROVE  FALSE
  <2>1. ASSUME NEW app \in Apps, Begin(app) PROVE FALSE
    BY <2>1, SupervisorAssumption DEF Begin, NoSession
  <2>2. QED
    BY <1>8, <2>1 DEF PublishFrame, PublishFrameRefused, FramePublishable,
       PublishServicePayload, TrackService, CancelService, BeginTeardown, Accepts
<1>9. Good
  BY <1>1, <1>2, <1>3, <1>4, <1>5, <1>6, <1>7, <1>8
  DEF Next, FrameCall, ServiceCall, TeardownCall, RetireService, ConsumeServiceCompletion
<1>10. QED BY <1>9 DEF Owned

\* Every call is a step of the lifecycle, or leaves the lifecycle as it is.
LEMMA LifecycleStep ==
  SessionInv /\ [Next]_supervisorVars => [Lifecycle!Next]_(Lifecycle!lifecycleVars)
<1> SUFFICES ASSUME SessionInv, [Next]_supervisorVars
             PROVE  [Lifecycle!Next]_(Lifecycle!lifecycleVars)
  OBVIOUS
<1>i. SessionInv'
  BY NextSessionInv
<1>o. /\ \A r \in Owned : IsOpen(r.session)
      /\ \A s \in Queued : s = current
      /\ current = NoSession => Queued = {}
  BY OwnedByOpen DEF OwnedIsOpen
<1>p. /\ \A r \in Owned' : IsOpen(r.session)'
      /\ \A s \in Queued' : s = current'
      /\ current' = NoSession => Queued' = {}
  BY <1>i, OwnedByOpenNext DEF OwnedIsOpen
<1>q. OneSessionAtATime /\ OneSessionAtATime'
  BY <1>i DEF SessionInv
<1> USE DEF OneSessionAtATime, IsOpen
<1>k. \/ UNCHANGED <<current, retiring>>
      \/ \E app \in Apps : Begin(app)
      \/ \E s \in Sessions : BeginTeardown(s)
      \/ \E s \in Sessions : CompleteTeardown(s)
  BY DEF supervisorVars, sessionVars, Next, MailboxCall, FrameCall, ServiceCall,
     TeardownCall, PostToInbox, PostServiceRequest, PostFatal, TakeWorkerPacket,
     TakeFramePacket, TakeServiceRequest, TakeFatal, PublishFrame, PublishFrameRefused,
     ReleaseFrame, PublishServicePayload, ReleaseServicePayload, TrackService,
     CancelService, RetireService, ConsumeServiceCompletion, EraseTombstone,
     PostNativeReleaseIntent, TakeNativeReleaseIntent
<1>1. ASSUME NEW app \in Apps, Begin(app) PROVE Lifecycle!Open
  <2>1. /\ current = NoSession /\ retiring = NoSession /\ retiring' = NoSession
        /\ current' = [app |-> app, generation |-> nextGeneration]
    BY <1>1 DEF Begin
  <2>2. current' \in Sessions /\ current' # NoSession
    BY <2>1, NoSessionIsNoSession DEF SessionInv, TypeOK, Sessions
  <2>3. Owned = {} /\ Queued = {}
    BY <1>o, <2>1
  <2>4. Owned' = Owned /\ Queued' = Queued
    BY <1>1 DEF Begin, Owned, Queued, payloadVars, serviceVars, boxVars
  <2>5. QED BY <2>1, <2>2, <2>3, <2>4 DEF Lifecycle!Open
<1>2. ASSUME NEW s \in Sessions, BeginTeardown(s) PROVE Lifecycle!Close
  <2>1. current # NoSession /\ current' = NoSession /\ retiring' = current
    BY <1>2 DEF BeginTeardown, Accepts
  <2>2. Owned' = Owned
    BY <1>2 DEF BeginTeardown, Owned, frameVars, payloadVars
  <2>3. Queued' = {}
    BY <1>p, <2>1
  <2>4. QED BY <2>1, <2>2, <2>3 DEF Lifecycle!Close
<1>3. ASSUME NEW s \in Sessions, CompleteTeardown(s) PROVE Lifecycle!Finish
  <2>1. /\ current = NoSession /\ current' = NoSession
        /\ retiring # NoSession /\ retiring' = NoSession
    BY <1>3 DEF CompleteTeardown
  <2>2. Owned' = {} /\ Queued' = {}
    BY <1>p, <2>1
  <2>3. QED BY <2>1, <2>2 DEF Lifecycle!Finish
<1>4. CASE UNCHANGED <<current, retiring>> /\ current # NoSession
  <2>1. Queued' \subseteq {current} /\ \A r \in Owned' : r.session = current
    BY <1>4, <1>p, <1>q
  <2>2. Lifecycle!Work
    BY <1>4, <2>1 DEF Lifecycle!Work
  <2>3. QED BY <2>2 DEF Lifecycle!Next
<1>5. CASE UNCHANGED <<current, retiring>> /\ current = NoSession /\ retiring # NoSession
  <2>1. Queued = {} /\ Queued' = {}
    BY <1>5, <1>o, <1>p
  <2>2. \A r \in Owned' : r.session = retiring /\ (r \in Owned \/ r.kind = "intent")
    BY <1>5, <1>p, OnlyIntentsGrow
  <2>3. Lifecycle!Drain
    BY <1>5, <2>1, <2>2 DEF Lifecycle!Drain
  <2>4. QED BY <2>3 DEF Lifecycle!Next
<1>6. CASE UNCHANGED <<current, retiring>> /\ current = NoSession /\ retiring = NoSession
  <2>1. Queued = {} /\ Queued' = {} /\ Owned = {} /\ Owned' = {}
    BY <1>6, <1>o, <1>p
  <2>2. QED BY <1>6, <2>1 DEF Lifecycle!lifecycleVars
<1>7. QED BY <1>k, <1>1, <1>2, <1>3, <1>4, <1>5, <1>6 DEF Lifecycle!Next

\* The supervisor keeps the promise of SessionLifecycle, for any caller.
THEOREM SupervisorImplementsLifecycle == Spec => ImplementsLifecycle
<1>1. QED
  BY LifecycleInit, LifecycleStep, SessionInvariant, PTL
  DEF Spec, ImplementsLifecycle, Lifecycle!Spec
=============================================================================
