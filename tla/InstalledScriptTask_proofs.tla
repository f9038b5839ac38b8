---------------------- MODULE InstalledScriptTask_proofs ----------------------
(***************************************************************************)
(* Theorems of InstalledScriptTask: the tasks of a session end in an order *)
(* in which none calls a protocol object that is gone, a failure is seen,  *)
(* and all they do to the protocol is among what the theorems of           *)
(* ScriptTaskSupervisor_proofs allow any caller.                           *)
(***************************************************************************)
EXTENDS InstalledScriptTask, ScriptTaskSupervisor_proofs

-----------------------------------------------------------------------------
(***************************************************************************)
(* The end of a session                                                    *)
(***************************************************************************)
\* The flags and program counters, as far as the order of a shutdown depends on them.
ControlTypeOK ==
  /\ stop \in BOOLEAN /\ fatalSeen \in BOOLEAN /\ workerDone \in BOOLEAN /\ uiDone \in BOOLEAN
  /\ asked \in BOOLEAN /\ failed \in BOOLEAN
  /\ supervisor \in {"start", "worker", "ui", "missing", "loop", "pump", "teardown", "join",
                     "over"}
  /\ worker \in {"off", "init", "eval", "first", "loop", "process", "draw", "callbacks",
                 "redraw", "announce", "leave", "repeat", "end", "done"}
  /\ ui \in {"off", "init", "giveUp", "loop", "take", "copy", "release", "present", "input",
             "end", "done"}

\* A task that is done, or does not exist, stays so; the supervisor waits for both.
DoneIsDone ==
  /\ workerDone => worker \in {"off", "done"}
  /\ uiDone => ui \in {"off", "done"}
  /\ supervisor \in {"start", "worker"} => worker = "off" /\ ~workerDone
  /\ supervisor \in {"start", "worker", "ui"} => ui = "off" /\ ~uiDone
  /\ supervisor = "over" => workerDone /\ uiDone

\* A session stops because it was asked to or because of a failure that is recorded.
StopHasReason ==
  /\ stop => asked \/ fatalSeen
  /\ supervisor \in {"teardown", "join", "over"} => stop
  /\ worker \in {"leave", "repeat", "end", "done"} => failed \/ stop
  /\ ui = "giveUp" => fatalSeen
  /\ workerDone /\ worker = "off" => fatalSeen

\* A failed worker is on its way out, and records the failure before it repeats it.
FailureIsRecorded ==
  /\ failed => worker \in {"announce", "leave", "repeat", "end", "done"}
  /\ failed /\ worker \in {"repeat", "end", "done"} => fatalSeen
  /\ worker = "announce" => failed

ControlInv == ControlTypeOK /\ DoneIsDone /\ StopHasReason /\ FailureIsRecorded

LEMMA InitControl == TaskInit => ControlInv
BY DEF TaskInit, ControlInv, ControlTypeOK, DoneIsDone, StopHasReason, FailureIsRecorded

\* Every step of the three tasks, and the request to stop, keep the order.
LEMMA NextControl == ControlInv /\ [TaskNext]_taskVars => ControlInv'
<1> SUFFICES ASSUME ControlInv, [TaskNext]_taskVars PROVE ControlInv'
  OBVIOUS
<1> USE DEF ControlInv, ControlTypeOK, DoneIsDone, StopHasReason, FailureIsRecorded
<1> USE DEF flags, workerVars, uiVars
<1>1. CASE SupervisorStep
  <2>1. CASE BeginSession
    BY <2>1 DEF BeginSession
  <2>2. CASE CreateWorker
    BY <2>2 DEF CreateWorker
  <2>3. CASE CreateUi
    BY <2>3 DEF CreateUi
  <2>4. CASE TasksMissing
    BY <2>4 DEF TasksMissing
  <2>5. CASE LoopHead
    <3>1. CASE stop \/ workerDone
      BY <2>5, <3>1 DEF LoopHead
    <3>2. CASE ~(stop \/ workerDone)
      BY <2>5, <3>2 DEF LoopHead
    <3>3. QED BY <3>1, <3>2
  <2>6. CASE PollFatal
    <3>1. /\ supervisor = "pump" /\ supervisor' = "loop"
          /\ UNCHANGED <<workerDone, uiDone, asked, worker, document, failed, announced, ui, hand, screen>>
      BY <2>6 DEF PollFatal
    <3>2. CASE fatalSeen' = TRUE /\ stop' = TRUE
      BY <3>1, <3>2
    <3>3. CASE UNCHANGED <<fatalSeen, stop>>
      BY <3>1, <3>3
    <3>4. QED BY <2>6, <3>2, <3>3 DEF PollFatal
  <2>7. CASE Teardown
    BY <2>7 DEF Teardown
  <2>8. CASE Join
    BY <2>8 DEF Join
  <2>9. QED BY <1>1, <2>1, <2>2, <2>3, <2>4, <2>5, <2>6, <2>7, <2>8 DEF SupervisorStep
<1>2. CASE WorkerStep
  <2> USE DEF WorkerGoes
  <2>1. CASE Initialize
    <3>1. CASE worker' = "eval"
      BY <2>1, <3>1 DEF Initialize
    <3>2. CASE worker' = "announce"
      BY <2>1, <3>2 DEF Initialize
    <3>3. QED BY <2>1, <3>1, <3>2 DEF Initialize
  <2>2. CASE EvalScript
    <3>1. CASE worker' = "eval"
      BY <2>2, <3>1 DEF EvalScript
    <3>2. CASE worker' = "announce"
      BY <2>2, <3>2 DEF EvalScript
    <3>3. QED BY <2>2, <3>1, <3>2 DEF EvalScript
  <2>3. CASE EvalDone
    BY <2>3 DEF EvalDone
  <2>4. CASE FirstFrame \/ DrawAfterPacket \/ DrawAfterCallbacks
    BY <2>4 DEF FirstFrame, DrawAfterPacket, DrawAfterCallbacks
  <2>5. CASE WorkerLoopHead
    BY <2>5 DEF WorkerLoopHead
  <2>6. CASE ProcessPacket
    <3>1. CASE worker' \in {"draw", "callbacks"}
      BY <2>6, <3>1 DEF ProcessPacket
    <3>2. CASE worker' = "announce"
      BY <2>6, <3>2 DEF ProcessPacket
    <3>3. QED BY <2>6, <3>1, <3>2 DEF ProcessPacket
  <2>7. CASE NothingToProcess
    BY <2>7 DEF NothingToProcess
  <2>8. CASE PumpCallbacks
    <3>1. CASE worker' \in {"redraw", "loop"}
      BY <2>8, <3>1 DEF PumpCallbacks
    <3>2. CASE worker' = "announce"
      BY <2>8, <3>2 DEF PumpCallbacks
    <3>3. QED BY <2>8, <3>1, <3>2 DEF PumpCallbacks
  <2>9. CASE AnnounceFailure \/ AnnounceAgain
    BY <2>9 DEF AnnounceFailure, AnnounceAgain
  <2>10. CASE LeaveLoop
    BY <2>10 DEF LeaveLoop
  <2>11. CASE WorkerEnds
    BY <2>11 DEF WorkerEnds
  <2>12. QED BY <1>2, <2>1, <2>2, <2>3, <2>4, <2>5, <2>6, <2>7, <2>8, <2>9, <2>10, <2>11
             DEF WorkerStep
<1>3. CASE UiStep
  <2> USE DEF UiGoes
  <2>1. CASE UiStarts
    <3>1. CASE ui' = "loop"
      BY <2>1, <3>1 DEF UiStarts
    <3>2. CASE ui' = "giveUp"
      BY <2>1, <3>2 DEF UiStarts
    <3>3. QED BY <2>1, <3>1, <3>2 DEF UiStarts
  <2>2. CASE UiGivesUp
    BY <2>2 DEF UiGivesUp
  <2>3. CASE UiLoopHead
    BY <2>3 DEF UiLoopHead
  <2>4. CASE TakeFrame \/ NoFrame
    BY <2>4 DEF TakeFrame, NoFrame
  <2>5. CASE CopyFrame \/ GiveLeaseBack \/ PresentFrame
    BY <2>5 DEF CopyFrame, GiveLeaseBack, PresentFrame
  <2>6. CASE PostInput \/ InputDone
    BY <2>6 DEF PostInput, InputDone
  <2>7. CASE UiEnds
    BY <2>7 DEF UiEnds
  <2>8. QED BY <1>3, <2>1, <2>2, <2>3, <2>4, <2>5, <2>6, <2>7 DEF UiStep
<1>4. CASE AskToStop
  BY <1>4 DEF AskToStop
<1>5. CASE UNCHANGED taskVars
  BY <1>5 DEF taskVars
<1>6. QED BY <1>1, <1>2, <1>3, <1>4, <1>5 DEF TaskNext

LEMMA ControlInvariant == TaskSpec => []ControlInv
BY InitControl, NextControl, PTL DEF TaskSpec

\* No task calls into the protocol object when the supervisor task has given it up.
THEOREM ProtocolIsThere == TaskSpec => []ProtocolOutlivesTasks
<1>1. ControlInv => ProtocolOutlivesTasks
  BY DEF ControlInv, DoneIsDone, ProtocolOutlivesTasks
<1>2. QED BY <1>1, ControlInvariant, PTL

\* A session that failed, or ended unasked, is over only with fatal_seen set.
THEOREM NoFailureIsLost == TaskSpec => []FailureIsSeen
<1>1. ControlInv => FailureIsSeen
  BY DEF ControlInv, ControlTypeOK, DoneIsDone, StopHasReason, FailureIsRecorded, FailureIsSeen
<1>2. QED BY <1>1, ControlInvariant, PTL

-----------------------------------------------------------------------------
(***************************************************************************)
(* The tasks as callers of the supervisor                                  *)
(***************************************************************************)
\* What the tasks pass to the protocol: versions of a document, and leases they took.
Documents == [version : 1 .. MaxVersion, dirty : BOOLEAN, fits : BOOLEAN]
ArgumentsOK == document \in Documents /\ hand \in [lease : Nat, size : Nat]

CallerInv == SealInv /\ ArgumentsOK

\* A session that is accepted is a session of an App.
LEMMA AcceptedIsSession == TypeOK /\ Accepts(Session) => Session \in Sessions
BY NoSessionIsNoSession DEF TypeOK, Accepts, Session

\* The session and the lease id a slot answers to are a session of an App and an id that
\* has been given out.
LEMMA HeldIsNamed ==
  ASSUME SealInv, NEW session, NEW id \in Nat, NEW i \in SlotsHeld(frames, session, id)
  PROVE  session \in Sessions /\ id \in IdsUpTo(FrameLeases)
<1>1. /\ i \in 1 .. FrameLeases /\ i \in ActiveSlots(frames)
      /\ i = id % LeaseIndexBase /\ frames[i].generation = id \div LeaseIndexBase
      /\ frames[i].session = session
  BY DEF SlotsHeld, SlotsNamed, ActiveSlots, SealInv, SessionInv, TypeOK, Registries
<1>2. /\ frames[i].generation \in 1 .. LeaseGenerationBound + 1
      /\ frames[i].session \in Sessions \cup {NoSession}
  <2>1. /\ frames[i].generation \in 1 .. MaxLeaseGeneration
        /\ frames[i].session \in Sessions \cup {NoSession}
    BY <1>1 DEF SealInv, SessionInv, TypeOK, Registries
  <2>2. frames[i].generation <= LeaseGenerationBound
    BY <1>1 DEF SealInv, GenerationsBounded
  <2>3. LeaseGenerationBound \in Nat /\ MaxLeaseGeneration \in Nat
    BY SupervisorAssumption, LeaseGenerationAssumption
  <2>4. QED BY <2>1, <2>2, <2>3
<1>3. session # NoSession
  BY <1>1 DEF SealInv, SessionInv, NothingSurvivesTeardown, IsOpen
<1>4. id = LeaseId(i, frames[i].generation)
  <2>1. id = 65536 * (id \div 65536) + (id % 65536)
    BY Z3
  <2>2. QED BY <1>1, <1>2, <2>1 DEF LeaseId, LeaseIndexBase
<1>5. QED BY <1>1, <1>2, <1>3, <1>4 DEF IdsUpTo

\* What publish_frame does to the protocol is a call anybody may make, or nothing.
LEMMA PublishingIsACall ==
  ASSUME CallerInv, PublishesFrame
  PROVE  [Next]_supervisorVars /\ document' \in Documents
<1>1. document' \in Documents
  BY DEF PublishesFrame, CallerInv, ArgumentsOK, Documents
<1>2. CASE UNCHANGED supervisorVars
  BY <1>1, <1>2
<1>3. ASSUME NEW i \in 1 .. FrameLeases, PublishFrame(Session, document.version, i)
      PROVE  [Next]_supervisorVars
  <2>1. Session \in Sessions
    BY <1>3, AcceptedIsSession
       DEF PublishFrame, FramePublishable, CallerInv, SealInv, SessionInv
  <2>2. document.version \in Sizes
    BY TaskAssumption DEF CallerInv, ArgumentsOK, Documents
  <2>3. QED BY <1>3, <2>1, <2>2 DEF Next, FrameCall
<1>4. QED BY <1>1, <1>2, <1>3 DEF PublishesFrame

\* What publish_fatal does to the protocol is a call anybody may make, or nothing.
LEMMA AnnouncingIsACall ==
  ASSUME TypeOK, Announces
  PROVE  [Next]_supervisorVars
<1>1. CASE UNCHANGED supervisorVars
  BY <1>1
<1>2. CASE Accepts(Session) /\ PostFatal(FatalRecord)
  <2>1. FatalRecord \in Packet
    BY <1>2, AcceptedIsSession, TaskAssumption DEF FatalRecord, Packet
  <2>2. QED BY <1>2, <2>1 DEF Next, MailboxCall
<1>3. QED BY <1>1, <1>2 DEF Announces

\* Each step of a task leaves the protocol alone or is a call of it.
LEMMA TaskStepIsACall ==
  CallerInv /\ [TaskNext]_taskVars => [Next]_supervisorVars /\ ArgumentsOK'
<1> SUFFICES ASSUME CallerInv, [TaskNext]_taskVars
             PROVE  [Next]_supervisorVars /\ ArgumentsOK'
  OBVIOUS
<1>t. TypeOK
  BY DEF CallerInv, SealInv, SessionInv
<1>a. document \in Documents /\ hand \in [lease : Nat, size : Nat]
  BY DEF CallerInv, ArgumentsOK
<1> USE DEF ArgumentsOK, flags, workerVars, uiVars
<1>1. CASE SupervisorStep
  <2>a. ArgumentsOK'
    BY <1>1, <1>a DEF SupervisorStep, BeginSession, CreateWorker, CreateUi, TasksMissing,
                      LoopHead, PollFatal, Teardown, Join
  <2>1. CASE BeginSession
    BY <2>1, <2>a DEF BeginSession, Next, TeardownCall
  <2>2. CASE CreateWorker \/ CreateUi \/ TasksMissing \/ LoopHead
    BY <2>2, <2>a DEF CreateWorker, CreateUi, TasksMissing, LoopHead
  <2>3. CASE PollFatal
    BY <2>3, <2>a DEF PollFatal, Next, MailboxCall
  <2>4. CASE Teardown
    <3>1. BeginTeardown(current) /\ current \in Sessions
      BY <2>4, <1>t DEF Teardown, BeginTeardown, Accepts, TypeOK
    <3>2. QED BY <3>1, <2>a DEF Next, TeardownCall
  <2>5. CASE Join
    <3>1. CompleteTeardown(retiring) /\ retiring \in Sessions
      BY <2>5, <1>t DEF Join, CompleteTeardown, TypeOK
    <3>2. QED BY <3>1, <2>a DEF Next, TeardownCall
  <2>6. QED BY <1>1, <2>1, <2>2, <2>3, <2>4, <2>5 DEF SupervisorStep
<1>2. CASE WorkerStep
  <2> USE DEF WorkerGoes
  <2>h. hand' = hand
    BY <1>2 DEF WorkerStep, Initialize, EvalScript, EvalDone, FirstFrame, WorkerLoopHead,
                ProcessPacket, NothingToProcess, DrawAfterPacket, PumpCallbacks,
                DrawAfterCallbacks, AnnounceFailure, LeaveLoop, AnnounceAgain, WorkerEnds
  <2>r. ScriptRuns => document' \in Documents
    <3>1. MaxVersion \in Nat
      BY TaskAssumption
    <3>2. ASSUME document.version < MaxVersion
          PROVE  document.version + 1 \in 1 .. MaxVersion
      BY <1>a, <3>1, <3>2 DEF Documents
    <3>3. ASSUME document.version < MaxVersion,
                 document' \in [version : {document.version + 1}, dirty : {TRUE},
                               fits : BOOLEAN]
          PROVE  document' \in Documents
      BY <3>2, <3>3 DEF Documents
    <3>4. QED BY <1>a, <3>3 DEF ScriptRuns
  <2>1. CASE Initialize \/ EvalDone \/ WorkerLoopHead \/ NothingToProcess \/ LeaveLoop
             \/ WorkerEnds
    BY <2>1, <2>h, <1>a DEF Initialize, EvalDone, WorkerLoopHead, NothingToProcess,
                            LeaveLoop, WorkerEnds
  <2>2. CASE EvalScript \/ PumpCallbacks
    BY <2>2, <2>h, <2>r, <1>a DEF EvalScript, PumpCallbacks
  <2>3. CASE FirstFrame \/ DrawAfterPacket \/ DrawAfterCallbacks
    <3>1. PublishesFrame
      BY <2>3 DEF FirstFrame, DrawAfterPacket, DrawAfterCallbacks
    <3>2. QED BY <3>1, <2>h, <1>a, PublishingIsACall
  <2>4. CASE ProcessPacket
    <3>1. TakeWorkerPacket(Session) /\ document' \in Documents
      BY <2>4, <2>r, <1>a DEF ProcessPacket
    <3>2. Session \in Sessions
      BY <3>1, <1>t, AcceptedIsSession DEF TakeWorkerPacket
    <3>3. QED BY <3>1, <3>2, <2>h, <1>a DEF Next, MailboxCall
  <2>5. CASE AnnounceFailure \/ AnnounceAgain
    <3>1. Announces /\ document' = document
      BY <2>5 DEF AnnounceFailure, AnnounceAgain
    <3>2. QED BY <3>1, <2>h, <1>a, <1>t, AnnouncingIsACall
  <2>6. QED BY <1>2, <2>1, <2>2, <2>3, <2>4, <2>5 DEF WorkerStep
<1>3. CASE UiStep
  <2> USE DEF UiGoes
  <2>d. document' = document
    BY <1>3 DEF UiStep, UiStarts, UiGivesUp, UiLoopHead, TakeFrame, NoFrame, CopyFrame,
                GiveLeaseBack, PresentFrame, PostInput, InputDone, UiEnds
  <2>1. CASE UiStarts \/ UiGivesUp \/ UiLoopHead \/ NoFrame \/ InputDone \/ UiEnds
    BY <2>1, <2>d, <1>a DEF UiStarts, UiGivesUp, UiLoopHead, NoFrame, InputDone, UiEnds
  <2>2. CASE TakeFrame
    <3>1. PICK k \in FirstOf(frameBox, Session) :
            /\ TakeFramePacket(Session)
            /\ hand' = [lease |-> frameBox[k].lease, size |-> 0]
      BY <2>2 DEF TakeFrame
    <3>2. Session \in Sessions
      BY <3>1, <1>t, AcceptedIsSession DEF TakeFramePacket
    <3>3. frameBox[k].lease \in Nat
      <4>1. frameBox \in Seq(FramePacket) /\ k \in DOMAIN frameBox
        BY <3>1, <1>t DEF FirstOf, TypeOK
      <4>2. frameBox[k] \in FramePacket
        BY <4>1
      <4>3. QED BY <4>2 DEF FramePacket
    <3>4. QED BY <3>1, <3>2, <3>3, <2>d, <1>a DEF Next, MailboxCall
  <2>3. CASE CopyFrame
    <3>1. \A i \in CopyableFrames(Session, hand.lease) : frames[i].size \in Nat
      BY <1>t DEF CopyableFrames, SlotsHeld, SlotsNamed, TypeOK, Registries
    <3>2. hand' \in [lease : Nat, size : Nat] /\ UNCHANGED supervisorVars
      BY <2>3, <3>1, <1>a DEF CopyFrame, EmptyHand
    <3>3. QED BY <3>2, <2>d, <1>a
  <2>4. CASE GiveLeaseBack
    <3>1. PICK i \in SlotsHeld(frames, Session, hand.lease) : ReleaseFrame(Session, hand.lease)
      BY <2>4 DEF GiveLeaseBack, ReleaseFrame
    <3>2. hand.lease \in Nat
      BY <1>a
    <3>3. Session \in Sessions /\ hand.lease \in IdsUpTo(FrameLeases)
      BY <3>1, <3>2, HeldIsNamed DEF CallerInv
    <3>4. [Next]_supervisorVars
      BY <3>1, <3>3 DEF Next, FrameCall
    <3>5. hand' \in [lease : Nat, size : Nat]
      BY <2>4, <1>a DEF GiveLeaseBack
    <3>6. QED BY <3>4, <3>5, <2>d, <1>a
  <2>5. CASE PresentFrame
    BY <2>5, <2>d, <1>a DEF PresentFrame, EmptyHand
  <2>6. CASE PostInput
    <3>1. PICK b \in Bodies :
            PostToInbox([kind |-> "Input", session |-> Session, body |-> b])
      BY <2>6 DEF PostInput
    <3>2. [kind |-> "Input", session |-> Session, body |-> b] \in Packet
      BY <3>1, <1>t, AcceptedIsSession DEF PostToInbox, Packet
    <3>3. QED BY <2>6, <3>1, <3>2, <2>d, <1>a DEF PostInput, Next, MailboxCall
  <2>7. QED BY <1>3, <2>1, <2>2, <2>3, <2>4, <2>5, <2>6 DEF UiStep
<1>4. CASE AskToStop
  BY <1>4, <1>a DEF AskToStop
<1>5. CASE UNCHANGED taskVars
  BY <1>5, <1>a DEF taskVars
<1>6. QED BY <1>1, <1>2, <1>3, <1>4, <1>5 DEF TaskNext

\* The first document is one, and the UI task begins with empty hands.
LEMMA InitArguments == TaskInit => ArgumentsOK
<1>1. 1 \in 1 .. MaxVersion
  BY TaskAssumption
<1>2. [version : {1}, dirty : {FALSE}, fits : BOOLEAN] \subseteq Documents
  BY <1>1 DEF Documents
<1>3. EmptyHand \in [lease : Nat, size : Nat]
  BY DEF EmptyHand
<1>4. QED BY <1>2, <1>3 DEF TaskInit, ArgumentsOK

LEMMA CallerInvariant == TaskSpec => []CallerInv
<1>1. TaskInit => CallerInv
  BY InitSealInv, InitArguments DEF TaskInit, CallerInv
<1>2. SealInv /\ [Next]_supervisorVars => SealInv'
  BY NextSessionInv, NextSealed DEF SealInv, GenerationsBounded
<1>3. CallerInv /\ [TaskNext]_taskVars => CallerInv'
  BY <1>2, TaskStepIsACall DEF CallerInv
<1>4. QED BY <1>1, <1>3, PTL DEF TaskSpec

\* The tasks of a device use the protocol as one of the callers it is specified for, so
\* what the supervisor promises any caller holds for an installed App.
THEOREM TasksAreCallers == TaskSpec => Spec
<1>1. TaskInit => Init
  BY DEF TaskInit
<1>2. QED BY <1>1, TaskStepIsACall, CallerInvariant, PTL DEF TaskSpec, Spec

\* No packet, lease or intent of an installed App reaches another session or outlives its own.
THEOREM AppsAreIsolated == TaskSpec => []NothingOutlivesItsSession
BY TasksAreCallers, NothingOutlives, PTL

\* The frame the UI task copies is the one the worker task sealed.
THEOREM FramesAreSealed == TaskSpec => SealedUntilReleased
BY TasksAreCallers, LeasesAreSealed, PTL

-----------------------------------------------------------------------------
(***************************************************************************)
(* Frames between the tasks.  While the session runs, the lease of each    *)
(* sealed frame is in one packet of the mailbox or in the UI task's hand,  *)
(* and the UI task has one in its hand only from taking the packet to      *)
(* giving the lease back.                                                  *)
(***************************************************************************)
InBox(id) == \E k \in DOMAIN frameBox : frameBox[k].lease = id

LeasesPlaced ==
  /\ \A j, k \in DOMAIN frameBox : frameBox[j].lease = frameBox[k].lease => j = k
  /\ \A k \in DOMAIN frameBox : frameBox[k].lease \in IdsOf(frames, current)
  /\ hand.lease # 0 => hand.lease \in IdsOf(frames, current) /\ ~InBox(hand.lease)
  /\ \A id \in IdsOf(frames, current) : hand.lease = id \/ InBox(id)

HandInv == hand.lease # 0 <=> ui \in {"copy", "release"}

\* What is sealed, copied and drawn are versions of the document.
Drawable ==
  /\ \A i \in ActiveSlots(frames) : frames[i].size \in 1 .. MaxVersion
  /\ hand.size \in 0 .. MaxVersion
  /\ screen \in [drawn : 0 .. MaxVersion, missed : 0 .. MaxVersion]

\* The fatal record is published once.
FatalOnce ==
  announced \in BOOLEAN /\ Len(fatalBox) <= 1 /\ (Len(fatalBox) = 1 => announced)

FramesInv ==
  /\ CallerInv /\ ControlInv
  /\ HandInv /\ Drawable /\ FatalOnce
  /\ current # NoSession => LeasesPlaced

\* A lease id can be taken apart again.
LEMMA LeaseIds ==
  ASSUME NEW i \in 1 .. FrameLeases, NEW g \in Nat
  PROVE  /\ LeaseId(i, g) % LeaseIndexBase = i /\ LeaseId(i, g) \div LeaseIndexBase = g
         /\ LeaseId(i, g) # 0 /\ LeaseId(i, g) \in Nat
<1>1. i \in Nat /\ 1 <= i /\ i < LeaseIndexBase
  <2>1. FrameLeases \in Nat /\ FrameLeases < LeaseIndexBase
    BY SupervisorAssumption
  <2>2. QED BY <2>1 DEF LeaseIndexBase
<1>2. QED BY <1>1, LeaseIdParts

\* The ids of a session's leases, and the slots they name.
LEMMA IdsAndSlots ==
  ASSUME TypeOK, NEW session
  PROVE  /\ \A i \in SlotsOf(frames, session) :
              /\ i \in 1 .. FrameLeases
              /\ LeaseId(i, frames[i].generation) \in IdsOf(frames, session)
              /\ SlotsHeld(frames, session, LeaseId(i, frames[i].generation)) = {i}
         /\ \A id \in IdsOf(frames, session) :
              /\ id # 0
              /\ \E i \in SlotsHeld(frames, session, id) :
                   i \in SlotsOf(frames, session) /\ id = LeaseId(i, frames[i].generation)
<1>1. DOMAIN frames = 1 .. FrameLeases
      /\ \A i \in 1 .. FrameLeases : frames[i].generation \in Nat
  BY DEF TypeOK, Registries
<1>2. ASSUME NEW i \in SlotsOf(frames, session)
      PROVE  /\ i \in 1 .. FrameLeases /\ LeaseId(i, frames[i].generation) # 0
             /\ SlotsHeld(frames, session, LeaseId(i, frames[i].generation)) = {i}
  <2>1. i \in 1 .. FrameLeases /\ frames[i].active /\ frames[i].session = session
    BY <1>1 DEF SlotsOf, ActiveSlots
  <2>2. QED BY <1>1, <2>1, LeaseIds DEF SlotsHeld, SlotsNamed
<1>3. QED BY <1>2 DEF IdsOf

\* Sealing a frame adds its id, and giving the lease back takes it away.
LEMMA IdsAfterPublish ==
  ASSUME TypeOK, NEW session \in Sessions, NEW size, NEW i \in 1 .. FrameLeases,
         ~frames[i].active, frames' = Publish(frames, i, session, size)
  PROVE  /\ LeaseId(i, frames[i].generation) \notin IdsOf(frames, session)
         /\ IdsOf(frames', session) =
              IdsOf(frames, session) \cup {LeaseId(i, frames[i].generation)}
<1>1. DOMAIN frames = 1 .. FrameLeases
      /\ \A j \in 1 .. FrameLeases : frames[j].generation \in Nat
  BY DEF TypeOK, Registries
<1>2. /\ DOMAIN frames' = 1 .. FrameLeases
      /\ frames'[i].generation = frames[i].generation /\ frames'[i].active
      /\ frames'[i].session = session
      /\ \A j \in 1 .. FrameLeases : j # i => frames'[j] = frames[j]
  BY <1>1 DEF Publish
<1>3. SlotsOf(frames', session) = SlotsOf(frames, session) \cup {i} /\ i \notin SlotsOf(frames, session)
  BY <1>1, <1>2 DEF SlotsOf, ActiveSlots
<1>4. \A j \in SlotsOf(frames, session) :
        j \in 1 .. FrameLeases /\ frames'[j].generation = frames[j].generation
  BY <1>1, <1>2, <1>3 DEF SlotsOf, ActiveSlots
<1>5. LeaseId(i, frames[i].generation) \notin IdsOf(frames, session)
  <2>1. ASSUME NEW j \in SlotsOf(frames, session),
               LeaseId(i, frames[i].generation) = LeaseId(j, frames[j].generation)
        PROVE  FALSE
    <3>1. j \in 1 .. FrameLeases /\ j # i
      BY <1>3, <1>4
    <3>2. LeaseId(i, frames[i].generation) % LeaseIndexBase = i
      BY <1>1, LeaseIds
    <3>3. LeaseId(j, frames[j].generation) % LeaseIndexBase = j
      BY <1>1, <3>1, LeaseIds
    <3>4. QED BY <2>1, <3>1, <3>2, <3>3
  <2>2. QED BY <2>1 DEF IdsOf
<1>6. IdsOf(frames', session) = IdsOf(frames, session) \cup {LeaseId(i, frames[i].generation)}
  BY <1>2, <1>3, <1>4 DEF IdsOf
<1>7. QED BY <1>5, <1>6

LEMMA IdsAfterRelease ==
  ASSUME TypeOK, NEW session, NEW i \in SlotsOf(frames, session),
         frames' = ReleaseSlot(frames, i)
  PROVE  IdsOf(frames', session) =
           IdsOf(frames, session) \ {LeaseId(i, frames[i].generation)}
<1>1. /\ DOMAIN frames = 1 .. FrameLeases /\ i \in 1 .. FrameLeases
      /\ \A j \in 1 .. FrameLeases : frames[j].generation \in Nat
  BY DEF TypeOK, Registries, SlotsOf, ActiveSlots
<1>2. /\ DOMAIN frames' = 1 .. FrameLeases /\ ~frames'[i].active
      /\ \A j \in 1 .. FrameLeases : j # i => frames'[j] = frames[j]
  BY <1>1 DEF ReleaseSlot, FreeSlot
<1>3. SlotsOf(frames', session) = SlotsOf(frames, session) \ {i}
  BY <1>1, <1>2 DEF SlotsOf, ActiveSlots
<1>4. \A j \in SlotsOf(frames, session) :
        /\ j \in 1 .. FrameLeases
        /\ j # i => frames'[j].generation = frames[j].generation
        /\ LeaseId(j, frames[j].generation) = LeaseId(i, frames[i].generation) => j = i
  <2>1. ASSUME NEW j \in SlotsOf(frames, session)
        PROVE  /\ j \in 1 .. FrameLeases
               /\ j # i => frames'[j].generation = frames[j].generation
    BY <1>1, <1>2 DEF SlotsOf, ActiveSlots
  <2>2. ASSUME NEW j \in SlotsOf(frames, session),
               LeaseId(j, frames[j].generation) = LeaseId(i, frames[i].generation)
        PROVE  j = i
    <3>1. LeaseId(i, frames[i].generation) % LeaseIndexBase = i
      BY <1>1, LeaseIds
    <3>2. LeaseId(j, frames[j].generation) % LeaseIndexBase = j
      BY <1>1, <2>1, LeaseIds
    <3>3. QED BY <2>2, <3>1, <3>2
  <2>3. QED BY <2>1, <2>2
<1>5. QED BY <1>3, <1>4 DEF IdsOf

\* The steps that frames and the fatal record are about, and all others.
OtherStep ==
  /\ UNCHANGED <<current, retiring, frames, frameBox, fatalBox, hand, screen, announced>>
  /\ ui' \in {"copy", "release"} <=> ui \in {"copy", "release"}

LEMMA StepKinds ==
  ASSUME ControlInv, [TaskNext]_taskVars
  PROVE  \/ BeginSession \/ PollFatal \/ Teardown \/ Join
         \/ PublishesFrame /\ UNCHANGED <<ui, hand, screen, announced>>
         \/ Announces /\ UNCHANGED <<ui, hand, screen>>
         \/ TakeFrame \/ CopyFrame \/ GiveLeaseBack \/ PresentFrame
         \/ OtherStep
<1> USE DEF OtherStep, supervisorVars, sessionVars, boxVars, frameVars, flags, workerVars, uiVars
<1>1. CASE SupervisorStep
  <2>1. CASE CreateWorker \/ TasksMissing \/ LoopHead
    BY <2>1 DEF CreateWorker, TasksMissing, LoopHead
  <2>2. CASE CreateUi
    <3>1. ui = "off" /\ ui' \in {"off", "init"}
      BY <2>2 DEF CreateUi, ControlInv, DoneIsDone
    <3>2. QED BY <2>2, <3>1 DEF CreateUi
  <2>3. QED BY <1>1, <2>1, <2>2 DEF SupervisorStep
<1>2. CASE WorkerStep
  <2> USE DEF WorkerGoes
  <2>1. CASE Initialize \/ EvalScript \/ EvalDone \/ WorkerLoopHead \/ NothingToProcess
    BY <2>1 DEF Initialize, EvalScript, EvalDone, WorkerLoopHead, NothingToProcess
  <2>2. CASE PumpCallbacks \/ LeaveLoop \/ WorkerEnds
    BY <2>2 DEF PumpCallbacks, LeaveLoop, WorkerEnds
  <2>3. CASE ProcessPacket
    BY <2>3 DEF ProcessPacket, TakeWorkerPacket
  <2>4. CASE FirstFrame \/ DrawAfterPacket \/ DrawAfterCallbacks
    BY <2>4 DEF FirstFrame, DrawAfterPacket, DrawAfterCallbacks
  <2>5. CASE AnnounceFailure \/ AnnounceAgain
    BY <2>5 DEF AnnounceFailure, AnnounceAgain
  <2>6. QED BY <1>2, <2>1, <2>2, <2>3, <2>4, <2>5 DEF WorkerStep
<1>3. CASE UiStep
  <2> USE DEF UiGoes
  <2>1. CASE UiStarts \/ UiGivesUp \/ UiLoopHead \/ NoFrame \/ InputDone \/ UiEnds
    BY <2>1 DEF UiStarts, UiGivesUp, UiLoopHead, NoFrame, InputDone, UiEnds
  <2>2. CASE PostInput
    BY <2>2 DEF PostInput, PostToInbox
  <2>3. QED BY <1>3, <2>1, <2>2 DEF UiStep
<1>4. CASE AskToStop
  BY <1>4 DEF AskToStop
<1>5. CASE UNCHANGED taskVars
  BY <1>5 DEF taskVars
<1>6. QED BY <1>1, <1>2, <1>3, <1>4, <1>5 DEF TaskNext

LEMMA NextFatalOnce == TypeOK /\ ControlInv /\ FatalOnce /\ [TaskNext]_taskVars => FatalOnce'
<1> SUFFICES ASSUME TypeOK, ControlInv, FatalOnce, [TaskNext]_taskVars PROVE FatalOnce'
  OBVIOUS
<1>1. fatalBox \in Seq(Packet) /\ Len(fatalBox) \in Nat
  BY DEF TypeOK
<1>2. ASSUME UNCHANGED <<fatalBox, announced>> PROVE FatalOnce'
  BY <1>2 DEF FatalOnce
<1>3. CASE PollFatal
  <2>1. fatalBox' \in AfterPop(fatalBox, current) /\ announced' = announced
    BY <1>3 DEF PollFatal, TakeFatal, workerVars
  <2>2. Len(fatalBox') <= Len(fatalBox) /\ Len(fatalBox') \in Nat
    <3>1. fatalBox' \in Seq(Packet) /\ Len(fatalBox') <= Len(fatalBox)
      BY <1>1, <2>1, AfterPopIsPart
    <3>2. QED BY <3>1
  <2>3. QED BY <1>1, <2>1, <2>2 DEF FatalOnce
<1>4. CASE Teardown
  BY <1>4 DEF Teardown, BeginTeardown, FatalOnce, workerVars
<1>5. CASE Announces
  <2>1. CASE UNCHANGED <<supervisorVars, announced>>
    BY <1>2, <2>1 DEF supervisorVars, boxVars
  <2>2. CASE ~announced /\ PostFatal(FatalRecord) /\ announced' = TRUE
    <3>1. Len(fatalBox) = 0 /\ fatalBox' = Append(fatalBox, FatalRecord)
      <4>1. Len(fatalBox) <= 1 /\ Len(fatalBox) # 1
        BY <2>2, Zenon DEF FatalOnce
      <4>2. fatalBox' = Append(fatalBox, FatalRecord)
        BY <2>2 DEF PostFatal
      <4>3. Len(fatalBox) = 0
        <5>1. \A n \in Nat : n <= 1 /\ n # 1 => n = 0
          OBVIOUS
        <5>2. QED BY <1>1, <4>1, <5>1
      <4>4. QED BY <4>2, <4>3
    <3>2. Len(fatalBox') = 1
      BY <1>1, <3>1
    <3>3. QED BY <2>2, <3>2 DEF FatalOnce
  <2>3. QED BY <1>5, <2>1, <2>2 DEF Announces
<1>6. CASE BeginSession \/ Join
  BY <1>2, <1>6 DEF BeginSession, Begin, Join, CompleteTeardown, boxVars, workerVars
<1>7. CASE PublishesFrame /\ UNCHANGED <<ui, hand, screen, announced>>
  BY <1>2, <1>7 DEF PublishesFrame, PublishFrame, supervisorVars, boxVars
<1>8. CASE TakeFrame \/ CopyFrame \/ GiveLeaseBack \/ PresentFrame
  BY <1>2, <1>8 DEF TakeFrame, TakeFramePacket, CopyFrame, GiveLeaseBack, ReleaseFrame,
                    PresentFrame, UiGoes, supervisorVars, boxVars, workerVars
<1>9. CASE OtherStep
  BY <1>2, <1>9 DEF OtherStep
<1>10. QED BY <1>3, <1>4, <1>5, <1>6, <1>7, <1>8, <1>9, StepKinds

\* Frames are sealed with the version of the document, and copied and drawn as they are.
LEMMA NextDrawable == CallerInv /\ ControlInv /\ Drawable /\ [TaskNext]_taskVars => Drawable'
<1> SUFFICES ASSUME CallerInv, ControlInv, Drawable, [TaskNext]_taskVars PROVE Drawable'
  OBVIOUS
<1>1. /\ FrameLeases \in Nat /\ frames \in Registries(FrameLeases, Sessions) /\ TypeOK
      /\ MaxVersion \in Nat
  BY SupervisorAssumption, TaskAssumption DEF CallerInv, SealInv, SessionInv, TypeOK
<1>2. ASSUME UNCHANGED <<frames, hand, screen>> PROVE Drawable'
  BY <1>2 DEF Drawable
<1>3. CASE BeginSession \/ PollFatal \/ Teardown
  BY <1>2, <1>3 DEF BeginSession, Begin, PollFatal, TakeFatal, Teardown, BeginTeardown,
                    frameVars, uiVars
<1>4. CASE Join
  <2>1. frames' = ReleaseSession(frames, retiring) /\ retiring \in Sessions
    BY <1>1, <1>4 DEF Join, CompleteTeardown, TypeOK
  <2>2. \A j \in ActiveSlots(frames') : j \in ActiveSlots(frames) /\ frames'[j] = frames[j]
    BY <2>1 DEF ReleaseSession, FreeSlot, ActiveSlots, SlotsOf
  <2>3. QED BY <1>4, <2>2 DEF Join, Drawable, uiVars
<1>5. ASSUME NEW i \in 1 .. FrameLeases, PublishFrame(Session, document.version, i),
             UNCHANGED <<hand, screen>>
      PROVE  Drawable'
  <2>1. frames' = Publish(frames, i, Session, document.version)
    BY <1>5 DEF PublishFrame
  <2>2. document.version \in 1 .. MaxVersion
    BY DEF CallerInv, ArgumentsOK, Documents
  <2>3. \A j \in ActiveSlots(frames') :
          \/ frames'[j].size = document.version
          \/ j \in ActiveSlots(frames) /\ frames'[j] = frames[j]
    BY <1>1, <2>1 DEF Publish, ActiveSlots, Registries
  <2>4. QED BY <1>5, <2>2, <2>3 DEF Drawable
<1>6. CASE PublishesFrame /\ UNCHANGED <<ui, hand, screen, announced>>
  BY <1>2, <1>5, <1>6 DEF PublishesFrame, supervisorVars, frameVars
<1>7. CASE Announces /\ UNCHANGED <<ui, hand, screen>>
  BY <1>2, <1>7 DEF Announces, PostFatal, supervisorVars, frameVars
<1>8. CASE TakeFrame
  <2>1. hand'.size = 0 /\ UNCHANGED <<frames, screen>>
    BY <1>8 DEF TakeFrame, TakeFramePacket, frameVars
  <2>2. QED BY <1>1, <2>1 DEF Drawable
<1>9. CASE CopyFrame
  <2>1. UNCHANGED <<frames, screen>>
    BY <1>9 DEF CopyFrame, supervisorVars, frameVars
  <2>2. hand'.size \in 0 .. MaxVersion
    <3>1. \A i \in CopyableFrames(Session, hand.lease) : frames[i].size \in 1 .. MaxVersion
      BY DEF CopyableFrames, SlotsHeld, SlotsNamed, ActiveSlots, Drawable
    <3>2. \A i \in CopyableFrames(Session, hand.lease) :
            [hand EXCEPT !.size = frames[i].size].size = frames[i].size
      BY DEF CallerInv, ArgumentsOK
    <3>3. CASE hand' = EmptyHand
      BY <1>1, <3>3 DEF EmptyHand
    <3>4. CASE \E i \in CopyableFrames(Session, hand.lease) :
                 hand' = [hand EXCEPT !.size = frames[i].size]
      <4>1. PICK i \in CopyableFrames(Session, hand.lease) :
              hand' = [hand EXCEPT !.size = frames[i].size]
        BY <3>4
      <4>2. hand'.size = frames[i].size
        BY <3>2, <4>1
      <4>3. QED BY <1>1, <3>1, <4>2
    <3>5. QED BY <1>9, <3>3, <3>4 DEF CopyFrame
  <2>3. QED BY <2>1, <2>2 DEF Drawable
<1>10. CASE GiveLeaseBack
  <2>1. PICK i \in SlotsHeld(frames, Session, hand.lease) : frames' = ReleaseSlot(frames, i)
    BY <1>10 DEF GiveLeaseBack, ReleaseFrame
  <2>2. \A j \in ActiveSlots(frames') : j \in ActiveSlots(frames) /\ frames'[j] = frames[j]
    BY <2>1 DEF ReleaseSlot, FreeSlot, ActiveSlots, SlotsHeld, SlotsNamed
  <2>3. hand'.size = hand.size /\ screen' = screen
    BY <1>10 DEF GiveLeaseBack, CallerInv, ArgumentsOK
  <2>4. QED BY <2>2, <2>3 DEF Drawable
<1>11. CASE PresentFrame
  BY <1>1, <1>11 DEF PresentFrame, EmptyHand, Drawable, supervisorVars, frameVars
<1>12. CASE OtherStep
  BY <1>2, <1>12 DEF OtherStep
<1>13. QED BY <1>3, <1>4, <1>6, <1>7, <1>8, <1>9, <1>10, <1>11, <1>12, StepKinds

\* While the session runs, the mailbox holds frames of it only, so that its first packet is
\* the one a task takes.
LEMMA FirstFrameIsTaken ==
  ASSUME CallerInv, current # NoSession, NEW k \in FirstOf(frameBox, Session),
         TakeFramePacket(Session)
  PROVE  /\ k = 1 /\ Len(frameBox) > 0 /\ frameBox' = SubSeq(frameBox, 2, Len(frameBox))
<1>1. /\ frameBox \in Seq(FramePacket) /\ \A j \in DOMAIN frameBox : frameBox[j].session = Session
      /\ DOMAIN frameBox = 1 .. Len(frameBox) /\ Len(frameBox) \in Nat
  BY DEF CallerInv, SealInv, SessionInv, TypeOK, MailboxesCurrent, HoldsOnly, Session
<1>2. \A j \in FirstOf(frameBox, Session) : j = 1 /\ Len(frameBox) > 0
  <2>1. ASSUME NEW j \in FirstOf(frameBox, Session), j # 1 PROVE FALSE
    <3>1. j \in 1 .. Len(frameBox) /\ \A l \in 1 .. j - 1 : frameBox[l].session # Session
      BY <1>1 DEF FirstOf
    <3>2. 1 \in 1 .. j - 1 /\ 1 \in DOMAIN frameBox
      BY <1>1, <2>1, <3>1
    <3>3. QED BY <1>1, <3>1, <3>2
  <2>2. \A j \in FirstOf(frameBox, Session) : j \in 1 .. Len(frameBox)
    BY <1>1 DEF FirstOf
  <2>3. QED BY <1>1, <2>1, <2>2
<1>3. PICK j \in FirstOf(frameBox, Session) : frameBox' = SubSeq(frameBox, j + 1, Len(frameBox))
  BY DEF TakeFramePacket, AfterPop
<1>4. j + 1 = 2
  BY <1>2
<1>5. QED BY <1>2, <1>3, <1>4

LEMMA NextHandInv ==
  CallerInv /\ ControlInv /\ HandInv /\ (current # NoSession => LeasesPlaced)
  /\ [TaskNext]_taskVars => HandInv'
<1> SUFFICES ASSUME CallerInv, ControlInv, HandInv, current # NoSession => LeasesPlaced,
                    [TaskNext]_taskVars
             PROVE  HandInv'
  OBVIOUS
<1>1. TypeOK
  BY DEF CallerInv, SealInv, SessionInv
<1>2. ASSUME UNCHANGED <<hand, ui>> PROVE HandInv'
  BY <1>2 DEF HandInv
<1>3. CASE BeginSession \/ PollFatal \/ Teardown \/ Join
  BY <1>2, <1>3 DEF BeginSession, PollFatal, Teardown, Join, uiVars
<1>4. CASE (PublishesFrame \/ Announces) /\ UNCHANGED <<ui, hand, screen>>
  BY <1>2, <1>4
<1>5. CASE TakeFrame
  <2>1. PICK k \in FirstOf(frameBox, Session) :
          TakeFramePacket(Session) /\ hand' = [lease |-> frameBox[k].lease, size |-> 0]
    BY <1>5 DEF TakeFrame
  <2>2. current # NoSession
    BY <2>1 DEF TakeFramePacket, Accepts
  <2>3. frameBox[k].lease # 0
    <3>1. frameBox[k].lease \in IdsOf(frames, current)
      BY <2>2 DEF LeasesPlaced, FirstOf
    <3>2. QED BY <1>1, <3>1, IdsAndSlots
  <2>4. ui' = "copy" /\ hand'.lease # 0
    BY <1>5, <2>1, <2>3 DEF TakeFrame, UiGoes
  <2>5. QED BY <2>4 DEF HandInv
<1>6. CASE CopyFrame
  <2>1. hand.lease # 0 /\ hand \in [lease : Nat, size : Nat]
    BY <1>6 DEF CopyFrame, UiGoes, HandInv, CallerInv, ArgumentsOK
  <2>2. \/ ui' = "release" /\ hand'.lease = hand.lease
        \/ ui' = "input" /\ hand'.lease = 0
    BY <1>6, <2>1 DEF CopyFrame, UiGoes, EmptyHand
  <2>3. QED BY <2>1, <2>2 DEF HandInv
<1>7. CASE GiveLeaseBack \/ PresentFrame
  <2>1. hand'.lease = 0 /\ ui' \in {"present", "input"}
    BY <1>7 DEF GiveLeaseBack, PresentFrame, UiGoes, EmptyHand, CallerInv, ArgumentsOK
  <2>2. QED BY <2>1 DEF HandInv
<1>8. CASE OtherStep
  BY <1>8 DEF OtherStep, HandInv
<1>9. QED BY <1>3, <1>4, <1>5, <1>6, <1>7, <1>8, StepKinds

LEMMA NextLeasesPlaced ==
  FramesInv /\ [TaskNext]_taskVars /\ current' # NoSession => LeasesPlaced'
<1> SUFFICES ASSUME FramesInv, [TaskNext]_taskVars, current' # NoSession
             PROVE  LeasesPlaced'
  OBVIOUS
<1>0. /\ CallerInv /\ ControlInv /\ HandInv /\ (current # NoSession => LeasesPlaced)
      /\ SessionInv /\ TypeOK
  BY DEF FramesInv, CallerInv, SealInv, SessionInv
<1>1. frameBox \in Seq(FramePacket) /\ Len(frameBox) \in Nat /\ DOMAIN frameBox = 1 .. Len(frameBox)
  BY <1>0 DEF TypeOK
<1>2. ASSUME UNCHANGED <<current, frames, frameBox>>, hand'.lease = hand.lease
      PROVE  LeasesPlaced'
  <2>1. LeasesPlaced
    BY <1>0, <1>2
  <2>2. QED BY <1>2, <2>1 DEF LeasesPlaced, InBox
<1>3. CASE BeginSession
  <2>1. PICK app \in Apps : Begin(app)
    BY <1>3 DEF BeginSession
  <2>2. /\ current = NoSession /\ retiring = NoSession /\ UNCHANGED <<frames, frameBox>>
    BY <2>1 DEF Begin, boxVars
  <2>3. ActiveSlots(frames) = {}
    BY <1>0, <2>2 DEF SessionInv, NothingSurvivesTeardown, IsOpen
  <2>4. frameBox = <<>>
    <3>1. \A k \in DOMAIN frameBox : frameBox[k].session \in Sessions /\ frameBox[k].session = NoSession
      <4>1. \A k \in DOMAIN frameBox : frameBox[k] \in FramePacket
        BY <1>1
      <4>2. QED BY <1>0, <2>2, <4>1 DEF SessionInv, MailboxesCurrent, HoldsOnly, FramePacket
    <3>2. DOMAIN frameBox = {}
      BY <3>1, NoSessionIsNoSession
    <3>3. Len(frameBox) = 0
      BY <1>1, <3>2
    <3>4. QED BY <1>1, <3>3
  <2>5. hand.lease = 0 /\ hand' = hand
    BY <1>0, <1>3 DEF BeginSession, uiVars, ControlInv, DoneIsDone, HandInv
  <2>6. IdsOf(frames', current') = {}
    BY <2>2, <2>3 DEF IdsOf, SlotsOf
  <2>7. QED BY <2>2, <2>4, <2>5, <2>6 DEF LeasesPlaced, InBox
<1>4. CASE PollFatal
  BY <1>2, <1>4 DEF PollFatal, TakeFatal, sessionVars, frameVars, uiVars
<1>5. CASE Teardown \/ Join
  BY <1>5 DEF Teardown, BeginTeardown, Join, CompleteTeardown
<1>6. ASSUME NEW i \in 1 .. FrameLeases, PublishFrame(Session, document.version, i),
             hand' = hand
      PROVE  LeasesPlaced'
  <2> DEFINE id == LeaseId(i, frames[i].generation)
             packet == [session |-> Session, sequence |-> nextFrameSequence, lease |-> id]
  <2>1. /\ current # NoSession /\ Session = current /\ current' = current /\ current \in Sessions
        /\ frames' = Publish(frames, i, current, document.version)
        /\ frameBox' = Append(frameBox, packet) /\ ~frames[i].active
    BY <1>0, <1>6
       DEF PublishFrame, FramePublishable, Accepts, IsFirstFree, sessionVars, Session, TypeOK
  <2>2. LeasesPlaced
    BY <1>0, <2>1
  <2>3. /\ id \notin IdsOf(frames, current)
        /\ IdsOf(frames', current) = IdsOf(frames, current) \cup {id}
    BY <1>0, <2>1, IdsAfterPublish
  <2>4. /\ DOMAIN frameBox' = 1 .. Len(frameBox) + 1
        /\ \A k \in 1 .. Len(frameBox) : frameBox'[k] = frameBox[k]
        /\ frameBox'[Len(frameBox) + 1].lease = id
    BY <1>1, <2>1
  <2>5. id # 0
    <3>1. IdsOf(frames', current) = IdsOf(frames', current') /\ TypeOK
      BY <1>0, <2>1
    <3>2. frames[i].generation \in Nat
      BY <1>0 DEF TypeOK, Registries
    <3>3. QED BY <3>2, LeaseIds
  <2> HIDE DEF id, packet
  <2>6. \A k \in DOMAIN frameBox : frameBox[k].lease \in IdsOf(frames, current) /\ frameBox[k].lease # id
    BY <2>2, <2>3 DEF LeasesPlaced
  <2>7. \A n : InBox(n)' <=> InBox(n) \/ n = id
    BY <1>1, <2>4 DEF InBox
  <2>8. \A j, k \in DOMAIN frameBox' : frameBox'[j].lease = frameBox'[k].lease => j = k
    <3>1. \A k \in DOMAIN frameBox' : k \in 1 .. Len(frameBox) \/ k = Len(frameBox) + 1
      BY <1>1, <2>4
    <3>2. QED BY <1>1, <2>2, <2>4, <2>6, <3>1 DEF LeasesPlaced
  <2>9. \A k \in DOMAIN frameBox' : frameBox'[k].lease \in IdsOf(frames', current)
    <3>1. \A k \in DOMAIN frameBox' : k \in 1 .. Len(frameBox) \/ k = Len(frameBox) + 1
      BY <1>1, <2>4
    <3>2. QED BY <1>1, <2>3, <2>4, <2>6, <3>1
  <2>10. hand.lease # 0 => hand.lease \in IdsOf(frames', current) /\ ~InBox(hand.lease)'
    BY <1>6, <2>2, <2>3, <2>7 DEF LeasesPlaced
  <2>11. \A n \in IdsOf(frames', current) : hand.lease = n \/ InBox(n)'
    BY <2>2, <2>3, <2>7 DEF LeasesPlaced
  <2>12. QED BY <1>6, <2>1, <2>8, <2>9, <2>10, <2>11 DEF LeasesPlaced
<1>7. CASE PublishesFrame /\ UNCHANGED <<ui, hand, screen, announced>>
  <2>1. CASE UNCHANGED supervisorVars
    BY <1>2, <1>7, <2>1 DEF supervisorVars, sessionVars, boxVars, frameVars
  <2>2. QED BY <1>6, <1>7, <2>1 DEF PublishesFrame
<1>8. CASE Announces /\ UNCHANGED <<ui, hand, screen>>
  BY <1>2, <1>8 DEF Announces, PostFatal, supervisorVars, sessionVars, boxVars, frameVars
<1>9. CASE TakeFrame
  <2>1. PICK k \in FirstOf(frameBox, Session) :
          TakeFramePacket(Session) /\ hand' = [lease |-> frameBox[k].lease, size |-> 0]
    BY <1>9 DEF TakeFrame
  <2>2. current # NoSession /\ UNCHANGED <<current, frames>>
    BY <2>1 DEF TakeFramePacket, Accepts, sessionVars, frameVars
  <2>3. k = 1 /\ Len(frameBox) > 0 /\ frameBox' = SubSeq(frameBox, 2, Len(frameBox))
    BY <1>0, <2>1, <2>2, FirstFrameIsTaken
  <2>4. LeasesPlaced /\ hand.lease = 0
    BY <1>0, <1>9, <2>2 DEF TakeFrame, UiGoes, HandInv
  <2>5. /\ DOMAIN frameBox' = 1 .. Len(frameBox) - 1
        /\ \A j \in 1 .. Len(frameBox) - 1 : frameBox'[j] = frameBox[j + 1] /\ j + 1 \in DOMAIN frameBox
        /\ 1 \in DOMAIN frameBox
    BY <1>1, <2>3
  <2>6. hand'.lease = frameBox[1].lease
    BY <2>1, <2>3
  <2>7. \A n : InBox(n) <=> InBox(n)' \/ n = frameBox[1].lease
    <3>1. \A j \in DOMAIN frameBox : j = 1 \/ (j - 1 \in DOMAIN frameBox' /\ frameBox'[j - 1] = frameBox[j])
      BY <1>1, <2>5
    <3>2. QED BY <2>5, <3>1 DEF InBox
  <2>d. \A j, l \in DOMAIN frameBox : frameBox[j].lease = frameBox[l].lease => j = l
    BY <2>4 DEF LeasesPlaced
  <2>8. ASSUME NEW j \in DOMAIN frameBox', NEW l \in DOMAIN frameBox',
               frameBox'[j].lease = frameBox'[l].lease
        PROVE  j = l
    <3>1. j \in Int /\ l \in Int
      BY <2>5
    <3>2. frameBox[j + 1].lease = frameBox[l + 1].lease
      BY <2>5, <2>8
    <3>3. j + 1 \in DOMAIN frameBox /\ l + 1 \in DOMAIN frameBox
      BY <2>5
    <3>4. j + 1 = l + 1
      BY <2>d, <3>2, <3>3
    <3>5. QED BY <3>1, <3>4
  <2>9. ASSUME NEW j \in DOMAIN frameBox', frameBox'[j].lease = frameBox[1].lease
        PROVE  FALSE
    <3>1. j \in 1 .. Len(frameBox) - 1
      BY <2>5
    <3>2. frameBox[j + 1].lease = frameBox[1].lease
      BY <2>5, <2>9
    <3>3. j + 1 = 1
      BY <2>5, <2>d, <3>2
    <3>4. QED BY <1>1, <3>1, <3>3
  <2>n. \A j \in DOMAIN frameBox' : frameBox'[j].lease # hand'.lease
    BY <2>6, <2>9
  <2>i. \A j \in DOMAIN frameBox' : frameBox'[j].lease \in IdsOf(frames, current)
    BY <2>4, <2>5 DEF LeasesPlaced
  <2>o. frameBox[1].lease \in IdsOf(frames, current)
    BY <2>4, <2>5 DEF LeasesPlaced
  <2>a. \A n \in IdsOf(frames, current) : hand'.lease = n \/ InBox(n)'
    <3>1. \A n \in IdsOf(frames, current) : hand.lease = n \/ InBox(n)
      BY <2>4 DEF LeasesPlaced
    <3>2. \A n \in IdsOf(frames, current) : n # 0
      BY <1>0, IdsAndSlots
    <3>3. QED BY <2>4, <2>6, <2>7, <3>1, <3>2
  <2>10. QED BY <2>2, <2>6, <2>8, <2>n, <2>i, <2>o, <2>a DEF LeasesPlaced, InBox
<1>10. CASE CopyFrame
  <2>1. UNCHANGED <<current, frames, frameBox>>
    BY <1>10 DEF CopyFrame, supervisorVars, sessionVars, boxVars, frameVars
  <2>2. hand.lease \in IdsOf(frames, current) /\ Session = current
    BY <1>0, <1>10, <2>1 DEF CopyFrame, UiGoes, HandInv, LeasesPlaced, Session
  <2>3. CopyableFrames(Session, hand.lease) # {}
    BY <1>0, <2>1, <2>2, IdsAndSlots DEF CopyableFrames, Accepts
  <2>4. hand'.lease = hand.lease
    BY <1>0, <1>10, <2>3 DEF CopyFrame, CallerInv, ArgumentsOK
  <2>5. QED BY <1>2, <2>1, <2>4
<1>11. CASE GiveLeaseBack
  <2>1. PICK i \in SlotsHeld(frames, Session, hand.lease) : frames' = ReleaseSlot(frames, i)
    BY <1>11 DEF GiveLeaseBack, ReleaseFrame
  <2>2. UNCHANGED <<current, frameBox>> /\ hand'.lease = 0 /\ hand.lease # 0
    BY <1>0, <1>11 DEF GiveLeaseBack, UiGoes, ReleaseFrame, sessionVars, boxVars, HandInv,
                       CallerInv, ArgumentsOK
  <2>3. LeasesPlaced /\ Session = current
    BY <1>0, <2>2 DEF Session
  <2>4. i \in SlotsOf(frames, current) /\ hand.lease = LeaseId(i, frames[i].generation)
    <3>1. PICK j \in SlotsHeld(frames, current, hand.lease) :
            j \in SlotsOf(frames, current) /\ hand.lease = LeaseId(j, frames[j].generation)
      BY <1>0, <2>2, <2>3, IdsAndSlots DEF LeasesPlaced
    <3>2. i = j
      BY <2>1, <2>3, <3>1 DEF SlotsHeld, SlotsNamed
    <3>3. QED BY <3>1, <3>2
  <2>5. IdsOf(frames', current) = IdsOf(frames, current) \ {hand.lease}
    BY <1>0, <2>1, <2>4, IdsAfterRelease
  <2>6. \A n : InBox(n)' <=> InBox(n)
    BY <2>2 DEF InBox
  <2>7. \A k \in DOMAIN frameBox : frameBox[k].lease # hand.lease
    BY <2>2, <2>3 DEF LeasesPlaced, InBox
  <2>8. QED BY <2>2, <2>3, <2>5, <2>6, <2>7 DEF LeasesPlaced
<1>12. CASE PresentFrame
  <2>1. UNCHANGED <<current, frames, frameBox>>
    BY <1>12 DEF PresentFrame, supervisorVars, sessionVars, boxVars, frameVars
  <2>2. hand.lease = 0 /\ hand'.lease = 0
    BY <1>0, <1>12 DEF PresentFrame, UiGoes, HandInv, EmptyHand
  <2>3. QED BY <1>2, <2>1, <2>2
<1>13. CASE OtherStep
  BY <1>2, <1>13 DEF OtherStep
<1>14. QED BY <1>0, <1>3, <1>4, <1>5, <1>7, <1>8, <1>9, <1>10, <1>11, <1>12, <1>13, StepKinds

LEMMA InitFramesInv == TaskInit => FramesInv
<1> SUFFICES ASSUME TaskInit PROVE FramesInv
  OBVIOUS
<1>1. Init /\ SealInv
  BY InitSealInv DEF TaskInit
<1>2. CallerInv
  BY <1>1, InitArguments DEF CallerInv
<1>3. current = NoSession /\ fatalBox = <<>> /\ ActiveSlots(frames) = {}
  BY <1>1 DEF Init, NewRegistry, FreeSlot, ActiveSlots
<1>4. HandInv /\ FatalOnce
  <2>1. HandInv
    BY DEF TaskInit, HandInv, EmptyHand
  <2>2. Len(fatalBox) = 0
    BY <1>3
  <2>3. announced \in BOOLEAN
    BY DEF TaskInit
  <2>4. QED BY <2>1, <2>2, <2>3 DEF FatalOnce
<1>5. Drawable
  <2>1. MaxVersion \in Nat
    BY TaskAssumption
  <2>2. QED BY <1>3, <2>1 DEF TaskInit, Drawable, EmptyHand
<1>6. QED BY <1>2, <1>3, <1>4, <1>5, InitControl DEF FramesInv

LEMMA FramesInvariant == TaskSpec => []FramesInv
<1>1. FramesInv /\ [TaskNext]_taskVars => FramesInv'
  <2> SUFFICES ASSUME FramesInv, [TaskNext]_taskVars PROVE FramesInv'
    OBVIOUS
  <2>1. CallerInv /\ SealInv /\ TypeOK /\ ControlInv
    BY DEF FramesInv, CallerInv, SealInv, SessionInv
  <2>2. CallerInv'
    <3>1. SealInv /\ [Next]_supervisorVars => SealInv'
      BY NextSessionInv, NextSealed DEF SealInv, GenerationsBounded
    <3>2. QED BY <2>1, <3>1, TaskStepIsACall DEF CallerInv
  <2>3. ControlInv' /\ HandInv' /\ Drawable' /\ FatalOnce'
    BY <2>1, NextControl, NextHandInv, NextDrawable, NextFatalOnce DEF FramesInv
  <2>4. QED BY <2>2, <2>3, NextLeasesPlaced DEF FramesInv
<1>2. QED BY <1>1, InitFramesInv, PTL DEF TaskSpec

\* The flags, the program counters and the document of the tasks hold values of their types,
\* only versions the script has made are drawn, and of a failure, which the code announces in
\* two places, the supervisor's mailbox receives one record.
THEOREM TaskTypes == TaskSpec => []TaskTypeOK
<1>1. FramesInv => TaskTypeOK
  <2> SUFFICES ASSUME FramesInv PROVE TaskTypeOK
    OBVIOUS
  <2>1. TypeOK /\ document \in Documents
    BY DEF FramesInv, CallerInv, SealInv, SessionInv, ArgumentsOK
  <2>2. {stop, fatalSeen, workerDone, uiDone, asked, failed, announced} \subseteq BOOLEAN
    BY Zenon DEF FramesInv, ControlInv, ControlTypeOK, FatalOnce
  <2>3. QED
    BY <2>1, <2>2
       DEF FramesInv, ControlInv, ControlTypeOK, Drawable, FatalOnce, Documents, TaskTypeOK
<1>2. QED BY <1>1, FramesInvariant, PTL

\* No frame lease leaks between the worker task and the UI task while the session runs: a
\* sealed frame is named by exactly one packet of the mailbox or is in the UI task's hand.
THEOREM NoLeaseLeaks == TaskSpec => []FramesAreAccounted
<1>1. FramesInv => FramesAreAccounted
  <2> SUFFICES ASSUME FramesInv, current # NoSession, NEW id \in IdsUpTo(FrameLeases)
               PROVE  Cardinality({k \in DOMAIN frameBox : frameBox[k].lease = id})
                      + (IF hand.lease = id THEN 1 ELSE 0)
                      = (IF id \in IdsOf(frames, current) THEN 1 ELSE 0)
    BY DEF FramesAreAccounted
  <2> DEFINE named == {k \in DOMAIN frameBox : frameBox[k].lease = id}
  <2>1. LeasesPlaced
    BY DEF FramesInv
  <2>2. id # 0
    <3>1. PICK i \in 1 .. FrameLeases, g \in 1 .. LeaseGenerationBound + 1 : id = LeaseId(i, g)
      BY DEF IdsUpTo
    <3>2. g \in Nat
      BY SupervisorAssumption
    <3>3. QED BY <3>1, <3>2, LeaseIds
  <2>3. CASE InBox(id)
    <3>1. PICK k \in DOMAIN frameBox : frameBox[k].lease = id
      BY <2>3 DEF InBox
    <3>2. named = {k}
      BY <2>1, <3>1 DEF LeasesPlaced
    <3>3. Cardinality(named) = 1
      BY <3>2, FS_Singleton
    <3>4. hand.lease # id
      BY <2>1, <2>2, <2>3 DEF LeasesPlaced
    <3>5. id \in IdsOf(frames, current)
      BY <2>1, <3>1 DEF LeasesPlaced
    <3>6. QED BY <3>3, <3>4, <3>5
  <2>4. CASE ~InBox(id)
    <3>1. Cardinality(named) = 0
      <4>1. named = {}
        BY <2>4 DEF InBox
      <4>2. QED BY <4>1, FS_EmptySet
    <3>2. id \in IdsOf(frames, current) <=> hand.lease = id
      BY <2>1, <2>2, <2>4 DEF LeasesPlaced
    <3>3. QED BY <3>1, <3>2
  <2>5. QED BY <2>3, <2>4
<1>2. QED BY <1>1, FramesInvariant, PTL
=============================================================================
