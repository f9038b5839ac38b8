------------------------ MODULE ScriptTaskSupervisor ------------------------
(***************************************************************************)
(* ScriptTaskSupervisor of script_task_contract.{h,cpp}: the values that   *)
(* a script worker task, the UI task and the supervisor task of one App    *)
(* exchange, and the two-stage teardown that separates one App session     *)
(* from the next.  Every public method takes state_mutex_, so one method   *)
(* call is one action.                                                     *)
(*                                                                         *)
(* This module lets ANY caller make ANY call at any moment with the        *)
(* session and lease id of its choice: a worker of a session that ended, a *)
(* UI task that still holds an old lease id.  ScriptServiceSession makes   *)
(* the calls that the program's own tasks make for service requests.       *)
(*                                                                         *)
(* A call that is refused changes nothing but statistics and is a          *)
(* stuttering step, so an action's guard is the condition under which the  *)
(* call is accepted; the two calls that change state although they fail    *)
(* (publish_frame on a full mailbox, pop_for that finds nothing) are       *)
(* modelled with that change.                                              *)
(***************************************************************************)
EXTENDS LeaseRegistry, Sequences, FiniteSets

CONSTANTS
  Apps,             \* app instance ids (non-zero)
  MaxU32,           \* where a 32-bit counter wraps to 1
  Bodies,           \* packet payloads that fit max_payload_bytes
  Sizes,            \* payload sizes a caller may try to publish
  RequestIds,       \* (request_id, client_token) pairs of a service token
  NativeLeases,     \* native_lease_id values of release intents
  InboxSlots, FrameBoxSlots, RequestBoxSlots, FatalBoxSlots,
  FrameLeases, MaxFrameBytes, MaxTotalFrameBytes,
  PayloadLeases, MaxPayloadBytes, MaxTotalPayloadBytes,
  MaxTombstones, MaxIntents,
  LeaseGenerationBound  \* a slot is published at most this often (state bound)

ASSUME SupervisorAssumption ==
  /\ Apps \subseteq Nat \ {0}
  /\ MaxU32 \in Nat \ {0}
  /\ Sizes \subseteq Nat
  /\ \A n \in {InboxSlots, FrameBoxSlots, RequestBoxSlots, FatalBoxSlots,
               FrameLeases, PayloadLeases, MaxTombstones, MaxIntents,
               MaxFrameBytes, MaxTotalFrameBytes,
               MaxPayloadBytes, MaxTotalPayloadBytes} : n \in Nat
  /\ FrameLeases < LeaseIndexBase /\ PayloadLeases < LeaseIndexBase
  /\ LeaseGenerationBound \in Nat /\ LeaseGenerationBound < MaxLeaseGeneration

(***************************************************************************)
(* worker_epoch starts and advances together with generation (begin is the *)
(* only place that touches either), so one number stands for both.         *)
(***************************************************************************)
Sessions == [app : Apps, generation : 1 .. MaxU32]
NextNonzero(v) == IF v = MaxU32 THEN 1 ELSE v + 1

Token == [session : Sessions, request : RequestIds]
Intent == [session : Sessions, lease : NativeLeases]
Packet == [kind : {"Input", "ServiceCompletion", "ServiceRequest", "ServiceCancel",
                   "FatalRecord"},
           session : Sessions, body : Bodies]
FramePacket == [session : Sessions, sequence : 1 .. MaxU32, lease : Nat]

VARIABLES
  current,           \* ScriptAppSessionController::current_
  retiring,          \* retiring_session_
  nextGeneration,    \* next_generation_ and next_worker_epoch_
  inbox,             \* worker_inbox_
  frameBox,          \* frame_mailbox_
  requestBox,        \* service_request_mailbox_
  fatalBox,          \* fatal_mailbox_
  frames,            \* frame_leases_
  frameBytes,        \* frame_leases_.used_bytes_
  payloads,          \* service_payload_leases_
  payloadBytes,      \* service_payload_leases_.used_bytes_
  nextFrameSequence, \* next_frame_sequence_
  tombstones,        \* services_: the tracked tokens ...
  cancelled,         \* ... and those of them marked cancelled
  intents            \* release_intents_: a set, as a duplicate is refused and
                     \* nobody looks at the order in which intents are taken

sessionVars == <<current, retiring, nextGeneration>>
boxVars == <<inbox, frameBox, requestBox, fatalBox>>
frameVars == <<frames, frameBytes, nextFrameSequence>>
payloadVars == <<payloads, payloadBytes>>
serviceVars == <<tombstones, cancelled>>
supervisorVars ==
  <<sessionVars, boxVars, frameVars, payloadVars, serviceVars, intents>>

Init ==
  /\ current = NoSession /\ retiring = NoSession /\ nextGeneration = 1
  /\ inbox = <<>> /\ frameBox = <<>> /\ requestBox = <<>> /\ fatalBox = <<>>
  /\ frames = NewRegistry(FrameLeases) /\ frameBytes = 0
  /\ payloads = NewRegistry(PayloadLeases) /\ payloadBytes = 0
  /\ nextFrameSequence = 1
  /\ tombstones = {} /\ cancelled = {}
  /\ intents = {}

-----------------------------------------------------------------------------
(***************************************************************************)
(* Sessions and the fixed-slot mailbox                                     *)
(***************************************************************************)
Accepts(session) == current # NoSession /\ session = current

Begin(app) ==
  /\ current = NoSession /\ retiring = NoSession
  /\ nextFrameSequence' = 1
  /\ current' = [app |-> app, generation |-> nextGeneration]
  /\ nextGeneration' = NextNonzero(nextGeneration)
  /\ UNCHANGED <<retiring, boxVars, frames, frameBytes, payloadVars, serviceVars, intents>>

\* post: a packet is refused when every slot is taken; a mailbox may have no slot at all.
HasRoom(box, capacity) == Len(box) < capacity

\* pop_for returns the first packet of the session and discards what is in front of it.
FirstOf(box, session) ==
  {k \in DOMAIN box : /\ box[k].session = session
                      /\ \A j \in 1 .. k - 1 : box[j].session # session}

\* What pop_for leaves behind: everything behind the match, or nothing.
AfterPop(box, session) ==
  IF FirstOf(box, session) = {} THEN {<<>>}
  ELSE {SubSeq(box, k + 1, Len(box)) : k \in FirstOf(box, session)}

-----------------------------------------------------------------------------
(***************************************************************************)
(* The worker inbox, the service request mailbox and the fatal mailbox     *)
(***************************************************************************)
PostToInbox(packet) ==
  /\ packet.kind \in {"Input", "ServiceCompletion"}
  /\ Accepts(packet.session)
  /\ HasRoom(inbox, InboxSlots)
  /\ inbox' = Append(inbox, packet)
  /\ UNCHANGED <<sessionVars, frameBox, requestBox, fatalBox, frameVars, payloadVars,
                 serviceVars, intents>>

TakeWorkerPacket(session) ==
  /\ Accepts(session)
  /\ inbox' \in AfterPop(inbox, session)
  /\ UNCHANGED <<sessionVars, frameBox, requestBox, fatalBox, frameVars, payloadVars,
                 serviceVars, intents>>

PostServiceRequest(packet) ==
  /\ packet.kind \in {"ServiceRequest", "ServiceCancel"}
  /\ Accepts(packet.session)
  /\ HasRoom(requestBox, RequestBoxSlots)
  /\ requestBox' = Append(requestBox, packet)
  /\ UNCHANGED <<sessionVars, inbox, frameBox, fatalBox, frameVars, payloadVars,
                 serviceVars, intents>>

TakeServiceRequest ==
  /\ current # NoSession
  /\ requestBox' \in AfterPop(requestBox, current)
  /\ UNCHANGED <<sessionVars, inbox, frameBox, fatalBox, frameVars, payloadVars,
                 serviceVars, intents>>

\* Mutant of PostFatal: size is compared with > instead of ==.
PostFatalOffByOne(packet) ==
  /\ packet.kind = "FatalRecord"
  /\ Accepts(packet.session)
  /\ Len(fatalBox) <= FatalBoxSlots
  /\ fatalBox' = Append(fatalBox, packet)
  /\ UNCHANGED <<sessionVars, inbox, frameBox, requestBox, frameVars, payloadVars,
                 serviceVars, intents>>

PostFatal(packet) ==
  /\ packet.kind = "FatalRecord"
  /\ Accepts(packet.session)
  /\ HasRoom(fatalBox, FatalBoxSlots)
  /\ fatalBox' = Append(fatalBox, packet)
  /\ UNCHANGED <<sessionVars, inbox, frameBox, requestBox, frameVars, payloadVars,
                 serviceVars, intents>>

TakeFatal ==
  /\ current # NoSession
  /\ fatalBox' \in AfterPop(fatalBox, current)
  /\ UNCHANGED <<sessionVars, inbox, frameBox, requestBox, frameVars, payloadVars,
                 serviceVars, intents>>

-----------------------------------------------------------------------------
(***************************************************************************)
(* UI frames: sealed bytes in the registry, their lease id in the mailbox  *)
(***************************************************************************)
FramePublishable(session, size, i) ==
  /\ Accepts(session)
  /\ FitsBudget(frameBytes, size, MaxFrameBytes, MaxTotalFrameBytes)
  /\ IsFirstFree(frames, i)
  /\ frames[i].generation <= LeaseGenerationBound

PublishFrame(session, size, i) ==
  /\ FramePublishable(session, size, i)
  /\ HasRoom(frameBox, FrameBoxSlots)
  /\ frames' = Publish(frames, i, session, size)
  /\ frameBytes' = frameBytes + size
  /\ frameBox' = Append(frameBox, [session |-> session, sequence |-> nextFrameSequence,
                                   lease |-> LeaseId(i, frames[i].generation)])
  /\ nextFrameSequence' = NextNonzero(nextFrameSequence)
  /\ UNCHANGED <<sessionVars, inbox, requestBox, fatalBox, payloadVars, serviceVars, intents>>

\* The mailbox refuses the packet: the lease just sealed is released again, which
\* leaves the slot at its next generation; the sequence number is not used up.
PublishFrameRefused(session, size, i) ==
  /\ FramePublishable(session, size, i)
  /\ ~HasRoom(frameBox, FrameBoxSlots)
  /\ frames' = ReleaseSlot(Publish(frames, i, session, size), i)
  /\ frameBytes' = UsedAfterRelease(frameBytes + size, size)
  /\ UNCHANGED <<sessionVars, boxVars, nextFrameSequence, payloadVars, serviceVars, intents>>

TakeFramePacket(session) ==
  /\ Accepts(session)
  /\ frameBox' \in AfterPop(frameBox, session)
  /\ UNCHANGED <<sessionVars, inbox, requestBox, fatalBox, frameVars, payloadVars,
                 serviceVars, intents>>

\* copy_frame reads; what it may read is the size sealed in the slot.
CopyableFrames(session, id) ==
  {i \in SlotsHeld(frames, session, id) : Accepts(session)}

\* No check of the current session: a retired holder may still release.
ReleaseFrame(session, id) ==
  /\ \E i \in SlotsHeld(frames, session, id) :
       /\ frames' = ReleaseSlot(frames, i)
       /\ frameBytes' = UsedAfterRelease(frameBytes, frames[i].size)
  /\ UNCHANGED <<sessionVars, boxVars, nextFrameSequence, payloadVars, serviceVars, intents>>

-----------------------------------------------------------------------------
(***************************************************************************)
(* Service result payloads and the ledger of service requests              *)
(***************************************************************************)
PublishServicePayload(session, size, i) ==
  /\ Accepts(session)
  /\ FitsBudget(payloadBytes, size, MaxPayloadBytes, MaxTotalPayloadBytes)
  /\ IsFirstFree(payloads, i)
  /\ payloads[i].generation <= LeaseGenerationBound
  /\ payloads' = Publish(payloads, i, session, size)
  /\ payloadBytes' = payloadBytes + size
  /\ UNCHANGED <<sessionVars, boxVars, frameVars, serviceVars, intents>>

CopyablePayloads(session, id) ==
  {i \in SlotsHeld(payloads, session, id) : Accepts(session)}

ReleaseServicePayload(session, id) ==
  /\ \E i \in SlotsHeld(payloads, session, id) :
       /\ payloads' = ReleaseSlot(payloads, i)
       /\ payloadBytes' = UsedAfterRelease(payloadBytes, payloads[i].size)
  /\ UNCHANGED <<sessionVars, boxVars, frameVars, serviceVars, intents>>

\* Mutant of TrackService: the session of the token is not checked.
TrackServiceOfAnySession(token) ==
  /\ token \notin tombstones
  /\ Cardinality(tombstones) < MaxTombstones
  /\ tombstones' = tombstones \cup {token}
  /\ UNCHANGED <<sessionVars, boxVars, frameVars, payloadVars, cancelled, intents>>

TrackService(token) ==
  /\ Accepts(token.session)
  /\ token \notin tombstones
  /\ Cardinality(tombstones) < MaxTombstones
  /\ tombstones' = tombstones \cup {token}
  /\ UNCHANGED <<sessionVars, boxVars, frameVars, payloadVars, cancelled, intents>>

CancelService(token) ==
  /\ Accepts(token.session)
  /\ token \in tombstones \ cancelled
  /\ cancelled' = cancelled \cup {token}
  /\ UNCHANGED <<sessionVars, boxVars, frameVars, payloadVars, tombstones, intents>>

\* Erases a record of the ledger whatever its mark.
EraseTombstone(token) ==
  /\ token \in tombstones
  /\ tombstones' = tombstones \ {token}
  /\ cancelled' = cancelled \ {token}
  /\ UNCHANGED <<sessionVars, boxVars, frameVars, payloadVars, intents>>

\* The retiring session may be NoSession here; no token has that session.
RetireService(token) ==
  /\ Accepts(token.session) \/ token.session = retiring
  /\ EraseTombstone(token)

\* consume_completion: the answer the bridge gets for a late or current completion.
Disposition(token) ==
  IF token \notin tombstones THEN "Stale"
  ELSE IF token \in cancelled THEN "Cancelled"
  ELSE IF ~Accepts(token.session) THEN "Stale"
  ELSE "Accepted"

\* Whatever the answer, a record that was found is gone.
ConsumeServiceCompletion(token) == EraseTombstone(token)

-----------------------------------------------------------------------------
(***************************************************************************)
(* Native release intents and the two stages of teardown                   *)
(***************************************************************************)
PostNativeReleaseIntent(intent) ==
  /\ intent.session = retiring \/ Accepts(intent.session)
  /\ intent \notin intents
  /\ Cardinality(intents) < MaxIntents
  /\ intents' = intents \cup {intent}
  /\ UNCHANGED <<sessionVars, boxVars, frameVars, payloadVars, serviceVars>>

TakeNativeReleaseIntent ==
  /\ \E intent \in intents : intents' = intents \ {intent}
  /\ UNCHANGED <<sessionVars, boxVars, frameVars, payloadVars, serviceVars>>

\* Mutant of BeginTeardown: the mailboxes are left as they are.
BeginTeardownKeepsPackets(session) ==
  /\ Accepts(session)
  /\ current' = NoSession
  /\ retiring' = session
  /\ cancelled' = cancelled \cup {t \in tombstones : t.session = session}
  /\ UNCHANGED <<boxVars, nextGeneration, frameVars, payloadVars, tombstones, intents>>

BeginTeardown(session) ==
  /\ Accepts(session)
  /\ current' = NoSession
  /\ retiring' = session
  /\ inbox' = <<>> /\ frameBox' = <<>> /\ requestBox' = <<>> /\ fatalBox' = <<>>
  /\ cancelled' = cancelled \cup {t \in tombstones : t.session = session}
  /\ UNCHANGED <<nextGeneration, frameVars, payloadVars, tombstones, intents>>

CompleteTeardown(session) ==
  /\ session # NoSession /\ session = retiring /\ current = NoSession
  /\ frames' = ReleaseSession(frames, session)
  /\ frameBytes' = UsedAfterRelease(frameBytes, BytesOf(frames, SlotsOf(frames, session)))
  /\ payloads' = ReleaseSession(payloads, session)
  /\ payloadBytes' = UsedAfterRelease(payloadBytes,
                                      BytesOf(payloads, SlotsOf(payloads, session)))
  /\ intents' = {intent \in intents : intent.session # session}
  /\ tombstones' = {t \in tombstones : t.session # session}
  /\ cancelled' = {t \in cancelled : t.session # session}
  /\ retiring' = NoSession
  /\ UNCHANGED <<current, nextGeneration, boxVars, nextFrameSequence>>
-----------------------------------------------------------------------------
(***************************************************************************)
(* Any caller, any session, any lease id ever handed out                   *)
(***************************************************************************)
PacketOf(kind) == {p \in Packet : p.kind = kind}
IdsUpTo(capacity) == {LeaseId(i, g) : i \in 1 .. capacity, g \in 1 .. LeaseGenerationBound + 1}

MailboxCall ==
  \/ \E p \in Packet : PostToInbox(p) \/ PostServiceRequest(p) \/ PostFatal(p)
  \/ \E s \in Sessions : TakeWorkerPacket(s) \/ TakeFramePacket(s)
  \/ TakeServiceRequest
  \/ TakeFatal

FrameCall ==
  \/ \E s \in Sessions, size \in Sizes, i \in 1 .. FrameLeases :
       PublishFrame(s, size, i) \/ PublishFrameRefused(s, size, i)
  \/ \E s \in Sessions, id \in IdsUpTo(FrameLeases) : ReleaseFrame(s, id)

ServiceCall ==
  \/ \E s \in Sessions, size \in Sizes, i \in 1 .. PayloadLeases :
       PublishServicePayload(s, size, i)
  \/ \E s \in Sessions, id \in IdsUpTo(PayloadLeases) : ReleaseServicePayload(s, id)
  \/ \E t \in Token : \/ TrackService(t) \/ CancelService(t) \/ RetireService(t)
                      \/ ConsumeServiceCompletion(t)

TeardownCall ==
  \/ \E app \in Apps : Begin(app)
  \/ \E s \in Sessions : BeginTeardown(s) \/ CompleteTeardown(s)
  \/ \E intent \in Intent : PostNativeReleaseIntent(intent)
  \/ TakeNativeReleaseIntent

Next == MailboxCall \/ FrameCall \/ ServiceCall \/ TeardownCall

Spec == Init /\ [][Next]_supervisorVars

-----------------------------------------------------------------------------
(***************************************************************************)
(* Properties                                                              *)
(***************************************************************************)
\* Every variable holds a value of its type, and no mailbox, ledger or intent queue
\* outgrows the capacity it was built with.
TypeOK ==
  /\ current \in Sessions \cup {NoSession} /\ retiring \in Sessions \cup {NoSession}
  /\ nextGeneration \in 1 .. MaxU32 /\ nextFrameSequence \in 1 .. MaxU32
  /\ inbox \in Seq(Packet) /\ Len(inbox) <= InboxSlots
  /\ frameBox \in Seq(FramePacket) /\ Len(frameBox) <= FrameBoxSlots
  /\ requestBox \in Seq(Packet) /\ Len(requestBox) <= RequestBoxSlots
  /\ fatalBox \in Seq(Packet) /\ Len(fatalBox) <= FatalBoxSlots
  /\ frames \in Registries(FrameLeases, Sessions)
  /\ payloads \in Registries(PayloadLeases, Sessions)
  /\ tombstones \subseteq Token /\ cancelled \subseteq tombstones
  /\ intents \subseteq Intent
  /\ IsFiniteSet(tombstones) /\ Cardinality(tombstones) <= MaxTombstones
  /\ IsFiniteSet(intents) /\ Cardinality(intents) <= MaxIntents

\* A session begins only when the one before it is over: begin refuses while a session
\* is current or still retiring.
OneSessionAtATime == current = NoSession \/ retiring = NoSession

HoldsOnly(box, session) == \A k \in DOMAIN box : box[k].session = session

\* Whoever posts, no mailbox ever holds a packet of a session other than the current one,
\* so a worker or UI task can never receive a value of another App's lifetime, and
\* nothing is queued once begin_teardown has returned (no packet names NoSession).
MailboxesCurrent ==
  /\ HoldsOnly(inbox, current) /\ HoldsOnly(frameBox, current)
  /\ HoldsOnly(requestBox, current) /\ HoldsOnly(fatalBox, current)

IsOpen(session) == session # NoSession /\ session \in {current, retiring}

\* Sealed frames, sealed payloads, cancellation tombstones and release intents belong to
\* the session that is current or retiring; complete_teardown leaves none behind.
NothingSurvivesTeardown ==
  /\ \A i \in ActiveSlots(frames) : IsOpen(frames[i].session)
  /\ \A i \in ActiveSlots(payloads) : IsOpen(payloads[i].session)
  /\ \A t \in tombstones : IsOpen(t.session)
  /\ \A intent \in intents : IsOpen(intent.session)

\* Once teardown has begun, every request of the session still tracked is cancelled: its
\* late completion can be classified as cancelled, never as accepted.
RetiringIsCancelled == \A t \in tombstones : t.session = retiring => t \in cancelled

\* Nothing of one session reaches another or outlives its own: no packet, no lease, no
\* request, no accepted completion, and no intent to release.
NothingOutlivesItsSession ==
  MailboxesCurrent /\ NothingSurvivesTeardown /\ RetiringIsCancelled

\* used_bytes_ is the sum of what the active slots hold, in spite of the clamped
\* subtraction of release_slot, and stays within the configured budget.
BytesAccounted ==
  /\ frameBytes = BytesOf(frames, ActiveSlots(frames))
  /\ frameBytes <= MaxTotalFrameBytes
  /\ payloadBytes = BytesOf(payloads, ActiveSlots(payloads))
  /\ payloadBytes <= MaxTotalPayloadBytes

\* Sealed bytes never change under a holder: an active slot keeps its session, bytes and
\* generation until it is released, and a release moves the generation on, so the lease
\* id of a released slot names no later content of that slot.  A frame is sealed only for
\* its packet: one that the mailbox refuses leaves no lease behind.
SealedIn(reg) ==
  \A i \in DOMAIN reg : reg[i].active =>
    \/ reg'[i] = reg[i]
    \/ ~reg'[i].active /\ reg'[i].generation > reg[i].generation

SealedIsPosted ==
  \A i \in DOMAIN frames : ~frames[i].active /\ frames'[i].active =>
    \E k \in DOMAIN frameBox' : frameBox'[k].lease = LeaseId(i, frames'[i].generation)

SealedUntilReleased ==
  [][SealedIn(frames) /\ SealedIn(payloads) /\ SealedIsPosted]_supervisorVars

\* The abstract lifecycle of a session, and the supervisor as an implementation of it.
Owned ==
  {[session |-> frames[i].session, kind |-> "frame", id |-> i] : i \in ActiveSlots(frames)}
  \cup {[session |-> payloads[i].session, kind |-> "payload", id |-> i]
         : i \in ActiveSlots(payloads)}
  \cup {[session |-> t.session, kind |-> "tombstone", id |-> t.request] : t \in tombstones}
  \cup {[session |-> n.session, kind |-> "intent", id |-> n.lease] : n \in intents}

QueuedIn(box) == {box[k].session : k \in DOMAIN box}

Queued == QueuedIn(inbox) \cup QueuedIn(frameBox) \cup QueuedIn(requestBox)
          \cup QueuedIn(fatalBox)

Lifecycle == INSTANCE SessionLifecycle WITH
  Sessions <- Sessions,
  NoSession <- NoSession,
  phase <- IF current # NoSession THEN "active"
           ELSE IF retiring # NoSession THEN "retiring" ELSE "idle",
  session <- IF current # NoSession THEN current ELSE retiring,
  queued <- Queued,
  owned <- Owned

\* Every step of the supervisor is a step of the session lifecycle or a stutter: what a
\* session acquires it acquires while active, and it owns nothing when it is over.
ImplementsLifecycle == Lifecycle!Spec
=============================================================================
