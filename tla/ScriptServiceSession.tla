------------------------ MODULE ScriptServiceSession ------------------------
(***************************************************************************)
(* A service request of a script, from services.request() in the worker to *)
(* its callback: ScriptTaskServiceBridge (script_task_service_bridge.cpp)  *)
(* between ScriptTaskSupervisor and AppRuntimeHost, the worker's side of   *)
(* it, and the shutdown of the session.                                    *)
(*                                                                         *)
(* Three kinds of task take steps: the supervisor task, which owns the     *)
(* bridge; the script worker task; the service workers of HostServices.    *)
(* An action of the supervisor task that makes several locked calls is one *)
(* step here: all but one of the calls touch what no other task uses (the  *)
(* bridge's records, the ledger), or commute with what other tasks may do  *)
(* between them.  Delivery is not: the worker may empty its inbox while    *)
(* pump goes through the records, so each delivery is a step of its own.   *)
(*                                                                         *)
(* Packets reach the mailboxes decoded.  Status and error codes are left   *)
(* out; what a completion carries is its payload lease, or none.           *)
(***************************************************************************)
EXTENDS ScriptTaskSupervisor, HostServices

CONSTANTS
  MaxRequests  \* max_requests of the bridge

\* Sessions are named by App instances, service tokens by the ids the script counts up.
ASSUME SessionAssumption ==
  /\ Instances \subseteq Apps /\ RequestIds = Clients
  /\ MaxRequests \in Nat

VARIABLES
  records,    \* records_ of the bridge
  toDeliver,  \* tokens of the ready records that pump has still to visit
  phase,      \* where the supervisor task is: "idle", "run", then through teardown
              \* "begun", "bridged", "retired" and "ended"
  worker,     \* the script worker task: "off", "run", "done" or taking a completion
  callbacks,  \* service_callbacks_: the requests a JavaScript callback waits for
  asked,      \* request ids used in this session (next_service_request_id_ counts up)
  turnedAway  \* history: the requests of this session that the bridge did not let in

scriptVars == <<worker, callbacks, asked, turnedAway>>
bridgeVars == <<records, toDeliver, phase>>
otherVars == <<frameBox, fatalBox, frameVars, intents>>
allVars == <<supervisorVars, hostVars, bridgeVars, scriptVars>>

NoJob == [job |-> 0]
NoPacket == [request |-> 0]
Off == [step |-> "off", body |-> NoPacket]
Running == [step |-> "run", body |-> NoPacket]
Done == [step |-> "done", body |-> NoPacket]

SessionInit ==
  /\ Init /\ HostInit
  /\ records = {} /\ toDeliver = {} /\ phase = "idle"
  /\ worker = Off /\ callbacks = {} /\ asked = {} /\ turnedAway = {}

\* script_session of the session's tasks.
Session == IF current # NoSession THEN current ELSE retiring
TokenOf(q) == [session |-> Session, request |-> q]

Tokens(rs) == {r.token : r \in rs}
Ready == {r \in records : r.ready}
RecordOf(token) == {r \in records : r.token = token}

\* The ledger without a token, whatever its mark; several payload leases released.
Erased(tokens) == tombstones' = tombstones \ tokens /\ cancelled' = cancelled \ tokens
LeaseSlots(rs) == UNION {SlotsHeld(payloads, r.token.session, r.lease) : r \in rs}
PayloadsBecome(reg) == payloads' = reg /\ payloadBytes' = BytesOf(reg, ActiveSlots(reg))
Released(slots) ==
  PayloadsBecome([i \in DOMAIN payloads |->
                    IF i \in slots THEN ReleaseSlot(payloads, i)[i] ELSE payloads[i]])

-----------------------------------------------------------------------------
(***************************************************************************)
(* The worker task: services.request, services.cancel, process_one         *)
(***************************************************************************)
PostedByScript(kind, q) ==
  /\ worker = Running /\ current # NoSession
  /\ HasRoom(requestBox, RequestBoxSlots)
  /\ requestBox' = Append(requestBox, [kind |-> kind, session |-> Session,
                                       body |-> [request |-> q, lease |-> 0]])
  /\ UNCHANGED <<sessionVars, inbox, otherVars, payloadVars, serviceVars, hostVars,
                 bridgeVars, worker, turnedAway>>

\* The callback is kept if the packet is accepted.
Ask(q) ==
  /\ q \notin asked
  /\ PostedByScript("ServiceRequest", q)
  /\ callbacks' = callbacks \cup {q} /\ asked' = asked \cup {q}

\* The callback is dropped if the packet is accepted.
CancelAsked(q) ==
  /\ q \in callbacks
  /\ PostedByScript("ServiceCancel", q)
  /\ callbacks' = callbacks \ {q} /\ UNCHANGED asked

TakeCompletion ==
  /\ worker = Running /\ current # NoSession /\ inbox # <<>>
  /\ inbox' = Tail(inbox)
  /\ worker' = [step |-> "take", body |-> Head(inbox).body]
  /\ UNCHANGED <<sessionVars, requestBox, otherVars, payloadVars, serviceVars, hostVars,
                 bridgeVars, callbacks, asked, turnedAway>>

\* Mutant of Dispatch: the lease is released only if the callback is still there.
DispatchToCallback ==
  LET body == worker.body IN
  /\ worker.step = "take"
  /\ Released(IF body.request \in callbacks THEN SlotsHeld(payloads, Session, body.lease)
              ELSE {})
  /\ callbacks' = callbacks \ {body.request}
  /\ worker' = Running
  /\ UNCHANGED <<sessionVars, boxVars, frameVars, intents, serviceVars, hostVars, bridgeVars,
                 asked, turnedAway>>

\* take_script_task_service_payload copies and releases the lease, if the session has not
\* ended with a failure status; then the callback runs if there still is one.
Dispatch ==
  LET body == worker.body IN
  /\ worker.step = "take"
  /\ Released(SlotsHeld(payloads, Session, body.lease))
  /\ callbacks' = callbacks \ {body.request}
  /\ worker' = Running
  /\ UNCHANGED <<sessionVars, boxVars, frameVars, intents, serviceVars, hostVars, bridgeVars,
                 asked, turnedAway>>

\* The worker ends between two steps, when told to or after a fatal error of the script.
StopWorker ==
  /\ worker = Running
  /\ worker' = Done /\ callbacks' = {}
  /\ UNCHANGED <<supervisorVars, hostVars, bridgeVars, asked, turnedAway>>

-----------------------------------------------------------------------------
(***************************************************************************)
(* The supervisor task: pump_service_requests                              *)
(***************************************************************************)
Loops == phase = "run" /\ toDeliver = {}

NewRecord(token, job) ==
  [token |-> token, job |-> job, ready |-> job = NoJob, cancelled |-> FALSE, lease |-> 0]

\* A request the host rejects gets a terminal completion.
RejectedByHost(token) ==
  /\ ~HasCapacity
  /\ tombstones' = tombstones \cup {token}
  /\ records' = records \cup {NewRecord(token, NoJob)}
  /\ UNCHANGED <<nextJob, pending>>

AcceptedByHost(token) ==
  /\ Submitted(token.request)
  /\ tombstones' = tombstones \cup {token}
  /\ records' = records \cup {NewRecord(token, NewRequest(token.request))}

\* submit returns without a record, so that nobody is ever told.  What a request asks for
\* can be reason enough (a service that is not for scripts, an input handle that is not
\* live or not its client's, an answer above the byte limit of the inbox), hence any can
\* be turned away.
TurnAway(token) ==
  /\ turnedAway' = turnedAway \cup {token.request}
  /\ UNCHANGED <<records, tombstones, nextJob, pending>>

\* A token that is known, or no room in the bridge or the ledger.
NoPlaceFor(token) ==
  \/ token \in Tokens(records) \cup tombstones
  \/ Cardinality(records) >= MaxRequests
  \/ Cardinality(tombstones) >= MaxTombstones

LetIn(token) ==
  /\ ~NoPlaceFor(token)
  /\ AcceptedByHost(token) \/ RejectedByHost(token)
  /\ UNCHANGED turnedAway

SubmitRequest(token) ==
  /\ TurnAway(token) \/ LetIn(token)
  /\ UNCHANGED <<cancelled, payloadVars>>

\* A record that is ready or whose job still waits goes at once; a job in flight keeps
\* its record, as a tombstone.
CancelRequest(token) ==
  LET inWork == {r \in RecordOf(token) : ~r.ready /\ r.job \notin pending}
      gone == RecordOf(token) \ inWork IN
  /\ records' = (records \ RecordOf(token)) \cup {[r EXCEPT !.cancelled = TRUE] : r \in inWork}
  /\ pending' = pending \ {r.job : r \in gone}
  /\ tombstones' = tombstones \ Tokens(gone)
  /\ cancelled' = (cancelled \cup Tokens(inWork)) \ Tokens(gone)
  /\ Released(LeaseSlots(gone))
  /\ UNCHANGED <<nextJob, turnedAway>>

PumpRequest ==
  /\ Loops /\ requestBox # <<>>
  /\ requestBox' = Tail(requestBox)
  /\ LET token == TokenOf(Head(requestBox).body.request) IN
       IF Head(requestBox).kind = "ServiceCancel" THEN CancelRequest(token)
       ELSE SubmitRequest(token)
  /\ UNCHANGED <<sessionVars, inbox, otherVars, appVars, inFlight, staged, completions,
                 handles, service, delivered, toDeliver, phase, worker, callbacks, asked>>

-----------------------------------------------------------------------------
(***************************************************************************)
(* The supervisor task: pump                                               *)
(***************************************************************************)
\* completion_result_handle_is_owned: the slot has to carry the client's own token.
OwnedSlots(c) == {i \in OwnSlot(c) : handles[i].client = c.request.client}

Filed(r, lease) == [r EXCEPT !.ready = TRUE, !.lease = lease]
FiledAs(r, lease) == records' = (records \ {r}) \cup {Filed(r, lease)}

\* publish_service_payload copies into a lease; it is refused once teardown has begun.
PublishedFor(r, i) ==
  /\ Accepts(r.token.session) /\ IsFirstFree(payloads, i)
  /\ payloads[i].generation <= LeaseGenerationBound
  /\ PayloadsBecome(Publish(payloads, i, r.token.session, 1))
  /\ FiledAs(r, LeaseId(i, payloads[i].generation))

\* A completion of the current App is filed in the record of its job: with a lease, or
\* without if it has no result, is cancelled, or its result is not its own, does not fit
\* or cannot be copied.
FileCompletion(c) ==
  LET open == {r \in records : ~r.ready /\ r.job = c.request} IN
  IF ~IsCurrent(c) \/ open = {} THEN UNCHANGED <<records, payloadVars>>
  ELSE \E r \in open :
         \/ FiledAs(r, 0) /\ UNCHANGED payloadVars
         \/ /\ ~r.cancelled /\ OwnedSlots(c) # {}
            /\ \E i \in 1 .. PayloadLeases : PublishedFor(r, i)

\* Mutant of VisitReady: pump visits every record.
VisitAll == toDeliver' = Tokens(records')

\* Then every record that is ready is visited, in any order, as erase_record moves the
\* last one to the front.
VisitReady == toDeliver' = {r.token : r \in {x \in records' : x.ready}}

\* The bridge may go on pumping until its records are retired.
MayPump == toDeliver = {} /\ phase \in {"run", "bridged"}

PumpCompletion(c) ==
  /\ MayPump
  /\ PumpFrame(c, OwnedSlots(c)) /\ FileCompletion(c) /\ VisitReady
  /\ UNCHANGED <<sessionVars, boxVars, frameVars, intents, serviceVars, delivered, phase,
                 scriptVars>>

\* A pump that finds no completion still tries what it could not deliver before.
PumpNothing ==
  /\ MayPump /\ completions = {} /\ staged = {} /\ Ready # {}
  /\ UNCHANGED records /\ VisitReady
  /\ UNCHANGED <<supervisorVars, hostVars, phase, scriptVars>>

CompletionPacket(r) ==
  [kind |-> "ServiceCompletion", session |-> r.token.session,
   body |-> [request |-> r.token.request, lease |-> r.lease]]

\* Mutants of Deliver: the record is given up although the inbox is full; the token is not
\* tracked again.
DeliverOrDrop(r) ==
  /\ inbox' = IF HasRoom(inbox, InboxSlots) THEN Append(inbox, CompletionPacket(r)) ELSE inbox
  /\ records' = records \ {r} /\ Erased({r.token})
DeliverForgetsToken(r) ==
  /\ Erased({r.token})
  /\ IF HasRoom(inbox, InboxSlots)
     THEN inbox' = Append(inbox, CompletionPacket(r)) /\ records' = records \ {r}
     ELSE UNCHANGED <<inbox, records>>

\* consume_completion erases the token from the ledger; if the inbox is full it is tracked
\* again and the record stays.
Deliver(r) ==
  IF HasRoom(inbox, InboxSlots)
  THEN /\ inbox' = Append(inbox, CompletionPacket(r))
       /\ records' = records \ {r} /\ Erased({r.token})
  ELSE UNCHANGED <<inbox, records, serviceVars>>

DiscardRecord(r) ==
  /\ Released(LeaseSlots({r}))
  /\ records' = records \ {r} /\ Erased({r.token})

DeliverNext(token) ==
  /\ token \in toDeliver
  /\ \E r \in RecordOf(token) :
       \/ /\ Disposition(token) = "Accepted"
          /\ Deliver(r) /\ UNCHANGED payloadVars
       \/ /\ Disposition(token) # "Accepted"
          /\ DiscardRecord(r) /\ UNCHANGED inbox
  /\ toDeliver' = toDeliver \ {token}
  /\ UNCHANGED <<sessionVars, requestBox, otherVars, hostVars, phase, scriptVars>>

-----------------------------------------------------------------------------
(***************************************************************************)
(* The supervisor task: the session begins and ends                        *)
(***************************************************************************)
LaunchApp ==
  /\ phase = "idle" /\ Launch
  /\ UNCHANGED <<supervisorVars, bridgeVars, scriptVars>>

BeginSession ==
  /\ phase = "idle" /\ instance # 0 /\ Begin(instance)
  /\ phase' = "run" /\ worker' = Running
  /\ callbacks' = {} /\ asked' = {} /\ turnedAway' = {}
  /\ UNCHANGED <<hostVars, records, toDeliver>>

BeginShutdown ==
  /\ Loops /\ BeginTeardown(Session)
  /\ phase' = "begun"
  /\ UNCHANGED <<hostVars, records, toDeliver, scriptVars>>

\* Jobs that wait are cancelled; those in flight keep their record until they complete.
BridgeBeginTeardown ==
  LET inWork == {r \in records : ~r.ready /\ r.job \notin pending}
      gone == records \ inWork IN
  /\ phase = "begun" /\ phase' = "bridged"
  /\ records' = {[r EXCEPT !.cancelled = TRUE] : r \in inWork}
  /\ pending' = pending \ {r.job : r \in gone}
  /\ Erased(Tokens(gone)) /\ Released(LeaseSlots(gone))
  /\ UNCHANGED <<sessionVars, boxVars, frameVars, intents, appVars, nextJob, inFlight, staged,
                 completions, handles, service, delivered, toDeliver, scriptVars>>

\* Mutant of Joined: the worker is not waited for.
NotJoined == TRUE

\* The supervisor task waits for worker_done.
Joined == worker = Done

\* terminate_current of the host, with no other App in its place: between the two teardown
\* calls of the bridge, as documented, or after the session, as the ESP32-S3 port does.
TerminateApp ==
  /\ phase \in {"bridged", "ended"} /\ Joined /\ toDeliver = {}
  /\ \/ (CancelRequests \/ DiscardCompletions \/ ReleaseHandles) /\ UNCHANGED phase
     \/ /\ FinishTermination /\ instance' = 0
        /\ phase' = IF phase = "ended" THEN "idle" ELSE phase
  /\ UNCHANGED <<supervisorVars, records, toDeliver, scriptVars>>

\* complete_teardown of the bridge retires what is left, but only if the App is gone.
Retirable == IF instance = Session.app THEN {} ELSE records

BridgeCompleteTeardown ==
  /\ phase = "bridged" /\ phase' = "retired"
  /\ Joined /\ toDeliver = {} /\ HostIdle
  /\ records' = records \ Retirable
  /\ Erased(Tokens(Retirable)) /\ Released(LeaseSlots(Retirable))
  /\ UNCHANGED <<sessionVars, boxVars, frameVars, intents, hostVars, toDeliver, scriptVars>>

\* complete_teardown of the supervisor; the bridge is destroyed with the session.
EndSession ==
  /\ phase = "retired" /\ CompleteTeardown(Session)
  /\ phase' = IF instance = 0 THEN "idle" ELSE "ended"
  /\ records' = {}
  /\ UNCHANGED <<hostVars, toDeliver, scriptVars>>

-----------------------------------------------------------------------------
Work(w) == ServiceStep(w) /\ UNCHANGED <<supervisorVars, bridgeVars, scriptVars>>

Pump ==
  \/ \E c \in completions \cup staged : PumpCompletion(c)
  \/ PumpNothing
  \/ \E token \in toDeliver : DeliverNext(token)

Shutdown == BridgeBeginTeardown \/ TerminateApp \/ BridgeCompleteTeardown \/ EndSession

SessionNext ==
  \/ LaunchApp \/ BeginSession \/ BeginShutdown \/ Shutdown
  \/ PumpRequest \/ Pump
  \/ \E q \in RequestIds : Ask(q) \/ CancelAsked(q)
  \/ TakeCompletion \/ Dispatch \/ StopWorker
  \/ \E w \in ServiceWorkers : Work(w)

\* Every task is scheduled: the supervisor loops over both pumps, a shutdown once begun
\* runs to its end, the worker takes what is in its inbox and stops when told to.
SessionSpec ==
  /\ SessionInit /\ [][SessionNext]_allVars
  /\ WF_allVars(PumpRequest) /\ WF_allVars(Pump) /\ WF_allVars(Shutdown)
  /\ WF_allVars(TakeCompletion \/ Dispatch)
  /\ WF_allVars(StopWorker /\ phase # "run")
  /\ \A w \in ServiceWorkers : WF_allVars(Work(w))

-----------------------------------------------------------------------------
(***************************************************************************)
(* Properties                                                              *)
(***************************************************************************)
LeaseIds == {0} \cup IdsUpTo(PayloadLeases)
Body == [request : RequestIds, lease : LeaseIds]
Record == [token : Token, job : Request \cup {NoJob}, ready : BOOLEAN, cancelled : BOOLEAN,
           lease : LeaseIds]

\* The variables hold values of their types, those of the host too; pump visits ready
\* records only, and the bridge keeps to its capacity.
SessionTypeOK ==
  /\ HostTypeOK
  /\ records \subseteq Record /\ Cardinality(records) <= MaxRequests
  /\ toDeliver \subseteq Tokens(Ready)
  /\ phase \in {"idle", "run", "begun", "bridged", "retired", "ended"}
  /\ worker \in {Off, Running, Done} \cup [step : {"take"}, body : Body]
  /\ callbacks \cup turnedAway \subseteq asked /\ asked \subseteq RequestIds

\* The ledger of the supervisor and the records of the bridge, kept under two locks, name
\* the same requests, and the same of them as cancelled.
LedgerFollowsRecords ==
  /\ Tokens(records) = tombstones
  /\ phase # "begun" => cancelled = Tokens({r \in records : r.cancelled})
  /\ \A r, s \in records : r.token = s.token => r = s

\* While the session runs, a sealed payload is in one pair of hands: a record that is not
\* delivered yet, a packet in the inbox, the worker.  None is lost and none is named twice.
Holders(id) ==
  Cardinality({r \in records : r.lease = id})
  + Cardinality({k \in DOMAIN inbox : inbox[k].body.lease = id})
  + (IF worker.step = "take" /\ worker.body.lease = id THEN 1 ELSE 0)

PayloadsHeld ==
  current # NoSession =>
    /\ \A id \in IdsOf(payloads, current) : Holders(id) = 1
    /\ \A id \in LeaseIds \ ({0} \cup IdsOf(payloads, current)) : Holders(id) = 0

\* Where the answer to a request is: its packet, its record, the packet back, the worker.
Places(q) ==
  Cardinality({k \in DOMAIN requestBox : /\ requestBox[k].kind = "ServiceRequest"
                                         /\ requestBox[k].body.request = q})
  + Cardinality(RecordOf(TokenOf(q)))
  + Cardinality({k \in DOMAIN inbox : inbox[k].body.request = q})
  + (IF worker.step = "take" /\ worker.body.request = q THEN 1 ELSE 0)

\* No request is ever on its way twice, a callback that waits has exactly one answer on its
\* way unless the bridge has turned its request away, and then none: what the bridge has let
\* in is lost nowhere between submit and the callback.
AwaitedIsSomewhere ==
  current # NoSession =>
    \A q \in RequestIds :
      /\ Places(q) <= 1
      /\ q \in callbacks => Places(q) = IF q \in turnedAway THEN 0 ELSE 1

\* Answers, payloads and the handles of results are neither lost nor doubled between provider
\* and script.
AnswersAreHeld == PayloadsHeld /\ AwaitedIsSomewhere /\ HandlesAreHeld

\* The worker stops before anything of its App is taken away, and when session and App are
\* over, no request of theirs is left for a service worker to begin with, in the ledger, or
\* with a payload that nobody will take.
NothingWaitsForNobody ==
  /\ termination # "none" \/ phase \in {"retired", "ended"} => worker = Done
  /\ phase = "idle" /\ instance = 0 =>
       /\ pending = {} /\ tombstones = {} /\ ActiveSlots(payloads) = {}

\* Whoever waits for a callback gets it, or its session ends, or the bridge has turned the
\* request away: once it is let in, it is answered.  (Requests are alike: what holds of one
\* of them holds of all.)
CallbacksAreServed ==
  LET q == CHOOSE any \in RequestIds : TRUE IN
    q \in callbacks ~> q \notin callbacks \/ q \in turnedAway
=============================================================================
