------------------------- MODULE InstalledScriptTask -------------------------
(***************************************************************************)
(* The three tasks that run an installed App on the device                 *)
(* (jellyframe_esp32s3_installed_script_task.cpp): the supervisor task     *)
(* owns a ScriptTaskSupervisor and creates the other two; the worker task  *)
(* owns the script and its document (ScriptTaskWorkerRuntime) and          *)
(* publishes frames of it; the UI task takes the frames, draws them and    *)
(* posts input.  Beside the protocol they share the atomic flags of        *)
(* InstalledBundleScriptSession, which the device endpoint also reads and  *)
(* sets.  Each session has a protocol object of its own, so there is one   *)
(* session here, from the creation of the supervisor task to its end.      *)
(*                                                                         *)
(* One step is one call into the protocol or one access to a flag,         *)
(* together with what the task does to data of its own up to the next.     *)
(* The document is its version, whether it is dirty, and whether it fits   *)
(* the frame format; the encoded frame of version v has v bytes, so frames *)
(* differ in what they take from the byte budget and the bytes in a lease  *)
(* say what was drawn.  Service requests are ScriptServiceSession's; a     *)
(* completion reaches the document the way input does.                     *)
(***************************************************************************)
EXTENDS ScriptTaskSupervisor

CONSTANTS
  MaxVersion  \* the script changes the document at most this often (state bound)

\* Every version fits one lease, the mailbox holds a packet for every lease, and what the
\* tasks post is among what any caller may post.
ASSUME TaskAssumption ==
  /\ MaxVersion \in Nat \ {0} /\ MaxVersion <= MaxFrameBytes
  /\ 1 .. MaxVersion \subseteq Sizes /\ Bodies # {}
  /\ MaxFrameBytes <= MaxTotalFrameBytes
  /\ 0 < FrameLeases /\ FrameLeases <= FrameBoxSlots

VARIABLES
  stop, fatalSeen, workerDone, uiDone,  \* the flags of the same names
  asked,       \* the endpoint has called stop_installed_bundle_script_task
  supervisor,  \* where the supervisor task is
  worker,      \* where the worker task is; "off" if it does not exist
  ui,          \* where the UI task is; "off" if it does not exist
  document,    \* the worker's document: its version, whether it is dirty, and whether it fits
  failed,      \* fatal(): the worker runtime has met a fatal error
  announced,   \* fatal_published_
  hand,        \* the UI task's frame: the lease it took and the bytes it copied
  screen       \* the versions the UI task drew last and, history, failed to draw last

flags == <<stop, fatalSeen, workerDone, uiDone>>
workerVars == <<worker, document, failed, announced>>
uiVars == <<ui, hand, screen>>
taskVars == <<supervisorVars, flags, asked, supervisor, workerVars, uiVars>>

EmptyHand == [lease |-> 0, size |-> 0]

TaskInit ==
  /\ Init
  /\ stop = FALSE /\ fatalSeen = FALSE /\ workerDone = FALSE /\ uiDone = FALSE
  /\ asked = FALSE /\ supervisor = "start"
  /\ worker = "off" /\ document \in [version : {1}, dirty : {FALSE}, fits : BOOLEAN]
  /\ failed = FALSE /\ announced = FALSE
  /\ ui = "off" /\ hand = EmptyHand /\ screen = [drawn |-> 0, missed |-> 0]

\* script_session: the tasks that use it exist only between begin and complete_teardown.
Session == IF current # NoSession THEN current ELSE retiring

-----------------------------------------------------------------------------
(***************************************************************************)
(* The supervisor task                                                     *)
(***************************************************************************)
\* If stop is set already, no task is created.
BeginSession ==
  /\ supervisor = "start"
  /\ \E app \in Apps : Begin(app)
  /\ supervisor' = IF stop THEN "missing" ELSE "worker"
  /\ UNCHANGED <<flags, asked, workerVars, uiVars>>

\* The creation of a task can fail.
CreateWorker ==
  /\ supervisor = "worker" /\ supervisor' = "ui"
  /\ worker' \in {"off", "init"}
  /\ UNCHANGED <<supervisorVars, flags, asked, document, failed, announced, uiVars>>

CreateUi ==
  /\ supervisor = "ui"
  /\ ui' \in {"off", "init"}
  /\ supervisor' = IF "off" \in {worker, ui'} THEN "missing" ELSE "loop"
  /\ UNCHANGED <<supervisorVars, flags, asked, workerVars, hand, screen>>

\* A task that does not exist counts as done.
TasksMissing ==
  /\ supervisor = "missing" /\ supervisor' = "loop"
  /\ fatalSeen' = TRUE /\ stop' = TRUE
  /\ workerDone' = (workerDone \/ worker = "off")
  /\ uiDone' = (uiDone \/ ui = "off")
  /\ UNCHANGED <<supervisorVars, asked, workerVars, uiVars>>

LoopHead ==
  /\ supervisor = "loop"
  /\ IF stop \/ workerDone THEN stop' = TRUE /\ supervisor' = "teardown"
                           ELSE supervisor' = "pump" /\ UNCHANGED stop
  /\ UNCHANGED <<supervisorVars, fatalSeen, workerDone, uiDone, asked, workerVars, uiVars>>

\* pump_service_requests and pump of the bridge come before; they touch no frame.
PollFatal ==
  /\ supervisor = "pump" /\ supervisor' = "loop"
  /\ TakeFatal
  /\ IF FirstOf(fatalBox, current) # {} THEN fatalSeen' = TRUE /\ stop' = TRUE
                                        ELSE UNCHANGED <<fatalSeen, stop>>
  /\ UNCHANGED <<workerDone, uiDone, asked, workerVars, uiVars>>

Teardown ==
  /\ supervisor = "teardown" /\ supervisor' = "join"
  /\ BeginTeardown(current)
  /\ UNCHANGED <<flags, asked, workerVars, uiVars>>

\* Mutant of Join: it waits for the worker only.
JoinWorkerOnly ==
  /\ supervisor = "join" /\ workerDone
  /\ CompleteTeardown(retiring)
  /\ supervisor' = "over"
  /\ UNCHANGED <<flags, asked, workerVars, uiVars>>

\* When both tasks are done they are deleted, and after the teardown the protocol is, too.
Join ==
  /\ supervisor = "join" /\ workerDone /\ uiDone
  /\ CompleteTeardown(retiring)
  /\ supervisor' = "over"
  /\ UNCHANGED <<flags, asked, workerVars, uiVars>>

SupervisorStep ==
  BeginSession \/ CreateWorker \/ CreateUi \/ TasksMissing \/ LoopHead \/ PollFatal
  \/ Teardown \/ Join

\* stop_installed_bundle_script_task, called for whatever reason the endpoint has.
AskToStop ==
  /\ ~asked /\ asked' = TRUE /\ stop' = TRUE
  /\ UNCHANGED <<supervisorVars, fatalSeen, workerDone, uiDone, supervisor, workerVars, uiVars>>

-----------------------------------------------------------------------------
(***************************************************************************)
(* The worker task                                                         *)
(***************************************************************************)
WorkerGoes(from, to) ==
  /\ worker = from /\ worker' = to
  /\ UNCHANGED <<asked, supervisor, uiVars>>

\* What a script, a callback or a handler does to the document; a change marks it dirty
\* and the pipeline is rebuilt before the call returns.  It may then have more of something
\* than a frame can carry.
ScriptRuns ==
  \/ UNCHANGED document
  \/ /\ document.version < MaxVersion
     /\ document' \in [version : {document.version + 1}, dirty : {TRUE}, fits : BOOLEAN]

\* It cannot be encoded, or the protocol has no free lease or no bytes left for it, or the
\* session is over.
Unpublishable ==
  ~document.fits \/ \A i \in 1 .. FrameLeases : ~FramePublishable(Session, document.version, i)

\* Mutant of PublishesFrame: the document counts as published whatever the answer was.
PublishesAndForgets ==
  /\ \/ /\ document.fits
        /\ \E i \in 1 .. FrameLeases : PublishFrame(Session, document.version, i)
     \/ Unpublishable /\ UNCHANGED supervisorVars
  /\ document' = [document EXCEPT !.dirty = FALSE]

\* publish_frame: the document stays as dirty as it is if there is no frame of it.
PublishesFrame ==
  \/ /\ document.fits
     /\ \E i \in 1 .. FrameLeases : PublishFrame(Session, document.version, i)
     /\ document' = [document EXCEPT !.dirty = FALSE]
  \/ Unpublishable /\ UNCHANGED <<supervisorVars, document>>

\* A document that is rejected: the flag is set before the record is published.
Initialize ==
  \/ /\ WorkerGoes("init", "eval")
     /\ UNCHANGED <<supervisorVars, flags, document, failed, announced>>
  \/ /\ WorkerGoes("init", "announce")
     /\ failed' = TRUE /\ fatalSeen' = TRUE
     /\ UNCHANGED <<supervisorVars, stop, workerDone, uiDone, document, announced>>

\* One script of the App, unless stop is set.
EvalScript ==
  /\ ~stop
  /\ \/ WorkerGoes("eval", "eval") /\ ScriptRuns /\ UNCHANGED failed
     \/ WorkerGoes("eval", "announce") /\ failed' = TRUE /\ UNCHANGED document
  /\ UNCHANGED <<supervisorVars, flags, announced>>

EvalDone ==
  /\ WorkerGoes("eval", IF stop THEN "loop" ELSE "first")
  /\ UNCHANGED <<supervisorVars, flags, document, failed, announced>>

FirstFrame ==
  /\ WorkerGoes("first", "loop")
  /\ PublishesFrame
  /\ UNCHANGED <<flags, failed, announced>>

WorkerLoopHead ==
  /\ WorkerGoes("loop", IF stop THEN "leave" ELSE "process")
  /\ UNCHANGED <<supervisorVars, flags, document, failed, announced>>

\* process_one: take a packet, dispatch it; without one there may be an older state of the
\* document to publish.
ProcessPacket ==
  /\ FirstOf(inbox, Session) # {} /\ TakeWorkerPacket(Session)
  /\ \/ /\ ScriptRuns /\ UNCHANGED failed
        /\ WorkerGoes("process", IF document'.dirty THEN "draw" ELSE "callbacks")
     \/ WorkerGoes("process", "announce") /\ failed' = TRUE /\ UNCHANGED document
  /\ UNCHANGED <<flags, announced>>

NothingToProcess ==
  /\ FirstOf(inbox, Session) = {}
  /\ WorkerGoes("process", IF document.dirty THEN "draw" ELSE "callbacks")
  /\ UNCHANGED <<supervisorVars, flags, document, failed, announced>>

DrawAfterPacket ==
  /\ WorkerGoes("draw", "callbacks")
  /\ PublishesFrame
  /\ UNCHANGED <<flags, failed, announced>>

\* pump_callbacks: timers and animation callbacks.
PumpCallbacks ==
  /\ \/ /\ ScriptRuns /\ UNCHANGED failed
        /\ WorkerGoes("callbacks", IF document'.dirty THEN "redraw" ELSE "loop")
     \/ WorkerGoes("callbacks", "announce") /\ failed' = TRUE /\ UNCHANGED document
  /\ UNCHANGED <<supervisorVars, flags, announced>>

DrawAfterCallbacks ==
  /\ WorkerGoes("redraw", "loop")
  /\ PublishesFrame
  /\ UNCHANGED <<flags, failed, announced>>

FatalRecord == [kind |-> "FatalRecord", session |-> Session, body |-> CHOOSE b \in Bodies : TRUE]

\* Mutant of Announces: a record already published is published again.
AnnouncesAgain ==
  IF Accepts(Session) /\ HasRoom(fatalBox, FatalBoxSlots)
  THEN PostFatal(FatalRecord) /\ announced' = TRUE
  ELSE UNCHANGED <<supervisorVars, announced>>

\* publish_fatal: once, tried again where the code calls it again.
Announces ==
  IF ~announced /\ Accepts(Session) /\ HasRoom(fatalBox, FatalBoxSlots)
  THEN PostFatal(FatalRecord) /\ announced' = TRUE
  ELSE UNCHANGED <<supervisorVars, announced>>

\* In the call that failed (and in pump_callbacks when it was process_one).
AnnounceFailure ==
  /\ WorkerGoes("announce", "leave")
  /\ Announces
  /\ UNCHANGED <<flags, document, failed>>

\* Mutant of LeaveLoop: the supervisor task is left to find the record.
LeaveLoopQuietly ==
  /\ WorkerGoes("leave", IF failed THEN "repeat" ELSE "end")
  /\ UNCHANGED <<supervisorVars, flags, document, failed, announced>>

LeaveLoop ==
  /\ WorkerGoes("leave", IF failed THEN "repeat" ELSE "end")
  /\ fatalSeen' = (fatalSeen \/ failed)
  /\ UNCHANGED <<supervisorVars, stop, workerDone, uiDone, document, failed, announced>>

AnnounceAgain ==
  /\ WorkerGoes("repeat", "end")
  /\ Announces
  /\ UNCHANGED <<flags, document, failed>>

WorkerEnds ==
  /\ WorkerGoes("end", "done")
  /\ workerDone' = TRUE
  /\ UNCHANGED <<supervisorVars, stop, fatalSeen, uiDone, document, failed, announced>>

WorkerStep ==
  \/ Initialize \/ EvalScript \/ EvalDone \/ FirstFrame
  \/ WorkerLoopHead \/ ProcessPacket \/ NothingToProcess \/ DrawAfterPacket
  \/ PumpCallbacks \/ DrawAfterCallbacks
  \/ AnnounceFailure \/ LeaveLoop \/ AnnounceAgain \/ WorkerEnds

-----------------------------------------------------------------------------
(***************************************************************************)
(* The UI task                                                             *)
(***************************************************************************)
UiGoes(from, to) ==
  /\ ui = from /\ ui' = to
  /\ UNCHANGED <<asked, supervisor, workerVars>>

\* The board does not have the viewport, or a buffer cannot be allocated.
UiStarts ==
  \/ UiGoes("init", "loop") /\ UNCHANGED <<supervisorVars, flags, hand, screen>>
  \/ /\ UiGoes("init", "giveUp")
     /\ fatalSeen' = TRUE
     /\ UNCHANGED <<supervisorVars, stop, workerDone, uiDone, hand, screen>>

UiGivesUp ==
  /\ UiGoes("giveUp", "end")
  /\ stop' = TRUE
  /\ UNCHANGED <<supervisorVars, fatalSeen, workerDone, uiDone, hand, screen>>

UiLoopHead ==
  /\ UiGoes("loop", IF stop THEN "end" ELSE "take")
  /\ UNCHANGED <<supervisorVars, flags, hand, screen>>

TakeFrame ==
  /\ UiGoes("take", "copy")
  /\ \E k \in FirstOf(frameBox, Session) :
       /\ TakeFramePacket(Session)
       /\ hand' = [lease |-> frameBox[k].lease, size |-> 0]
  /\ UNCHANGED <<flags, screen>>

NoFrame ==
  /\ UiGoes("take", "input")
  /\ FirstOf(frameBox, Session) = {}
  /\ UNCHANGED <<supervisorVars, flags, hand, screen>>

\* LeaseRejected: the session has ended since, and teardown releases the lease.
CopyFrame ==
  /\ \/ /\ UiGoes("copy", "release")
        /\ \E i \in CopyableFrames(Session, hand.lease) :
             hand' = [hand EXCEPT !.size = frames[i].size]
     \/ /\ UiGoes("copy", "input")
        /\ CopyableFrames(Session, hand.lease) = {}
        /\ hand' = EmptyHand
  /\ UNCHANGED <<supervisorVars, flags, screen>>

\* Mutant of GiveLeaseBack: the lease is left to the teardown.
KeepLease ==
  /\ UiGoes("release", "present")
  /\ hand' = [hand EXCEPT !.lease = 0]
  /\ UNCHANGED <<supervisorVars, flags, screen>>

GiveLeaseBack ==
  /\ UiGoes("release", "present")
  /\ ReleaseFrame(Session, hand.lease)
  /\ hand' = [hand EXCEPT !.lease = 0]
  /\ UNCHANGED <<flags, screen>>

\* The copy is decoded, rendered and presented, each of which can fail: then the frame is
\* gone, and nobody asks for it again before the document changes.
PresentFrame ==
  /\ UiGoes("present", "input")
  /\ \/ screen' = [screen EXCEPT !.drawn = hand.size]
     \/ screen' = [screen EXCEPT !.missed = hand.size]
  /\ hand' = EmptyHand
  /\ UNCHANGED <<supervisorVars, flags>>

\* Up to eight events per round: each may be refused, none is waited for.
PostInput ==
  /\ UiGoes("input", "input") /\ ~stop
  /\ \E b \in Bodies : PostToInbox([kind |-> "Input", session |-> Session, body |-> b])
  /\ UNCHANGED <<flags, hand, screen>>

InputDone ==
  /\ UiGoes("input", "loop")
  /\ UNCHANGED <<supervisorVars, flags, hand, screen>>

\* Mutant of UiEnds: the task that gave up does not report that it is done.
UiEndsSilently ==
  /\ UiGoes("end", "done")
  /\ uiDone' = ~fatalSeen
  /\ UNCHANGED <<supervisorVars, stop, fatalSeen, workerDone, hand, screen>>

UiEnds ==
  /\ UiGoes("end", "done")
  /\ uiDone' = TRUE
  /\ UNCHANGED <<supervisorVars, stop, fatalSeen, workerDone, hand, screen>>

UiStep ==
  \/ UiStarts \/ UiGivesUp \/ UiLoopHead \/ TakeFrame \/ NoFrame \/ CopyFrame
  \/ GiveLeaseBack \/ PresentFrame \/ PostInput \/ InputDone \/ UiEnds

-----------------------------------------------------------------------------
TaskNext == SupervisorStep \/ WorkerStep \/ UiStep \/ AskToStop

\* Each task sleeps for a few milliseconds per round and is scheduled again; a script ends
\* because the watchdog bounds it, a UI round posts a bounded number of events.
TaskSpec ==
  /\ TaskInit /\ [][TaskNext]_taskVars
  /\ WF_taskVars(SupervisorStep)
  /\ WF_taskVars(WorkerStep) /\ WF_taskVars(EvalDone)
  /\ WF_taskVars(UiStep) /\ WF_taskVars(InputDone)

-----------------------------------------------------------------------------
(***************************************************************************)
(* Properties                                                              *)
(***************************************************************************)
\* The variables hold values of their types, and a failure is announced once at most.
TaskTypeOK ==
  /\ TypeOK
  /\ {stop, fatalSeen, workerDone, uiDone, asked, failed, announced} \subseteq BOOLEAN
  /\ supervisor \in {"start", "worker", "ui", "missing", "loop", "pump", "teardown", "join",
                     "over"}
  /\ worker \in {"off", "init", "eval", "first", "loop", "process", "draw", "callbacks",
                 "redraw", "announce", "leave", "repeat", "end", "done"}
  /\ ui \in {"off", "init", "giveUp", "loop", "take", "copy", "release", "present", "input",
             "end", "done"}
  /\ document \in [version : 1 .. MaxVersion, dirty : BOOLEAN, fits : BOOLEAN]
  /\ screen \in [drawn : 0 .. MaxVersion, missed : 0 .. MaxVersion]
  /\ Len(fatalBox) <= 1 /\ (Len(fatalBox) = 1 => announced)

\* The protocol object lives on the stack of the supervisor task: neither the worker nor
\* the UI task still runs, and can call into it, when that task has torn it down.
ProtocolOutlivesTasks ==
  supervisor \in {"start", "over"} => worker \in {"off", "done"} /\ ui \in {"off", "done"}

\* No frame lease leaks while the session runs: each sealed frame is either named by
\* exactly one packet of the mailbox or in the hand of the UI task.
FramesAreAccounted ==
  current # NoSession =>
    \A id \in IdsUpTo(FrameLeases) :
      Cardinality({k \in DOMAIN frameBox : frameBox[k].lease = id})
      + (IF hand.lease = id THEN 1 ELSE 0)
      = (IF id \in IdsOf(frames, current) THEN 1 ELSE 0)

\* A session whose worker failed, or that ended without being asked to, is over only with
\* fatal_seen set, which is all the endpoint looks at; the fatal record itself may be lost,
\* as the supervisor task leaves its loop when the worker is done.
FailureIsSeen ==
  supervisor = "over" /\ (failed \/ ~asked) => fatalSeen

\* What the script last made of its document reaches the UI task in the end, however often
\* the supervisor refuses a frame of it ("a temporary backlog may be recorded, but it must
\* not stall for good"): it is drawn, or was tried and could not be, unless the session ends
\* or what the script has made of the document since cannot be encoded.
LatestFrameIsTried ==
  \A v \in 1 .. MaxVersion :
    worker = "loop" /\ document.version = v
    ~> screen.drawn >= v \/ screen.missed >= v \/ ~document.fits \/ stop \/ failed

\* A session that is told to stop, or that fails, ends: nobody waits for a task that waits.
SessionEnds == stop \/ failed ~> supervisor = "over"
=============================================================================
