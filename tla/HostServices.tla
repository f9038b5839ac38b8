----------------------------- MODULE HostServices -----------------------------
(***************************************************************************)
(* AppRuntimeHost of app_host.cpp with its request queue, completion queue *)
(* and handle table (host_services.cpp) and the App lifecycle.  The host   *)
(* task launches and terminates Apps, submits requests and pumps           *)
(* completions; service workers pop requests, allocate result handles and  *)
(* push completions, each on a task of its own.                            *)
(*                                                                         *)
(* Each queue and the table has a mutex of its own and no lock spans two   *)
(* of them, so terminate_current and push_completion are several actions.  *)
(* Whatever a worker may do between them, it does here.                    *)
(*                                                                         *)
(* Kind and priority only decide which pending request a worker gets: any  *)
(* of them here.  The queues are sets, as a job id occurs once: which of   *)
(* several completions is popped first is left open.  A pump takes one     *)
(* completion; one that takes several is as many pumps in a row.           *)
(***************************************************************************)
EXTENDS Integers, FiniteSets

CONSTANTS
  Clients,             \* client tokens (non-zero in the code)
  AppScoped,           \* client token 0: a handle that belongs to the App as a whole
  HandleScopes,        \* what providers put on a handle: "client" or "app"
  ServiceWorkers,
  InFlightCapacity,    \* max_in_flight_jobs
  CompletionCapacity,  \* at least InFlightCapacity
  HandleSlots,
  MaxHandleGeneration, \* 65535 in the code
  MaxInstances,        \* at most this many launches (state bound)
  MaxJobs              \* at most this many jobs (state bound)

ASSUME HostAssumption ==
  /\ AppScoped \notin Clients /\ HandleScopes \subseteq {"client", "app"}
  /\ \A n \in {InFlightCapacity, CompletionCapacity, HandleSlots, MaxInstances, MaxJobs} :
       n \in Nat
  /\ InFlightCapacity <= CompletionCapacity
  /\ MaxHandleGeneration \in Nat \ {0}

Instances == 1 .. MaxInstances
Request == [job : 1 .. MaxJobs, app : Instances, client : Clients]

NoHandle == [slot |-> 0, generation |-> 0]
Handle == [slot : 1 .. HandleSlots, generation : 1 .. MaxHandleGeneration]
Completion == [request : Request, handle : Handle \cup {NoHandle}]

VARIABLES
  instance,      \* the current App instance, 0 when none: lifecycle_ and its atomic copy
  nextInstance,  \* next_instance_id_
  termination,   \* how far terminate_current is: "none", "cancelled", "discarded", "released"
  nextJob,       \* next_job_id_
  pending,       \* requests_
  inFlight,      \* in_progress_ ...
  staged,        \* ... and the completions staged in it
  completions,   \* the completion queue
  handles,       \* the handle table
  service,       \* what each service worker is doing
  delivered      \* completions a consumer took over and whose handle it still holds

queueVars == <<nextJob, pending, inFlight, staged, completions>>
appVars == <<instance, nextInstance, termination>>
hostVars == <<appVars, queueVars, handles, service, delivered>>

IdleService == [step |-> "idle"]
FreshSlot == [active |-> FALSE, retired |-> FALSE, generation |-> 1, app |-> 0,
              client |-> AppScoped]

HostInit ==
  /\ instance = 0 /\ nextInstance = 1 /\ termination = "none"
  /\ nextJob = 1 /\ pending = {} /\ inFlight = {} /\ staged = {} /\ completions = {}
  /\ handles = [i \in 1 .. HandleSlots |-> FreshSlot]
  /\ service = [w \in ServiceWorkers |-> IdleService]
  /\ delivered = {}

-----------------------------------------------------------------------------
(***************************************************************************)
(* The handle table                                                        *)
(***************************************************************************)
\* slot_for_handle: the active slot a handle names (none or one).
SlotOf(h) ==
  {i \in 1 .. HandleSlots : /\ i = h.slot /\ handles[i].active
                            /\ handles[i].generation = h.generation}

Live(h) == SlotOf(h) # {}

\* Mutants of Freed: a released slot keeps its generation; the generation wraps around.
FreedSameGeneration(slot) == [slot EXCEPT !.active = FALSE, !.app = 0, !.client = AppScoped]
FreedWraps(slot) ==
  [slot EXCEPT !.active = FALSE, !.app = 0, !.client = AppScoped,
               !.generation = IF @ = MaxHandleGeneration THEN 1 ELSE @ + 1]

\* A released slot moves to its next generation, or is never used again.
Freed(slot) ==
  [slot EXCEPT !.active = FALSE, !.app = 0, !.client = AppScoped,
               !.retired = (slot.generation = MaxHandleGeneration),
               !.generation = IF @ = MaxHandleGeneration THEN @ ELSE @ + 1]

\* The table after the given slots are released.
Releasing(freed) ==
  [i \in 1 .. HandleSlots |-> IF i \in freed THEN Freed(handles[i]) ELSE handles[i]]

\* lookup_copy, and the slot belongs to the App of the completion.
OwnSlot(c) == {i \in SlotOf(c.handle) : handles[i].app = c.request.app}

-----------------------------------------------------------------------------
(***************************************************************************)
(* The host task: launch, submit, pump                                     *)
(***************************************************************************)
HostIdle == termination = "none"

Launch ==
  /\ HostIdle /\ instance = 0 /\ nextInstance <= MaxInstances
  /\ instance' = nextInstance /\ nextInstance' = nextInstance + 1
  /\ UNCHANGED <<termination, queueVars, handles, service, delivered>>

HasCapacity == Cardinality(pending) + Cardinality(inFlight) < InFlightCapacity

\* submit_current, accepted: the job it creates.
NewRequest(client) == [job |-> nextJob, app |-> instance, client |-> client]

Submitted(client) ==
  /\ instance # 0 /\ HasCapacity /\ nextJob <= MaxJobs
  /\ pending' = pending \cup {NewRequest(client)}
  /\ nextJob' = nextJob + 1

Submit(client) ==
  /\ HostIdle /\ Submitted(client)
  /\ UNCHANGED <<appVars, inFlight, staged, completions, handles, service, delivered>>

CancelPending(request) ==
  /\ HostIdle /\ request \in pending
  /\ pending' = pending \ {request}
  /\ UNCHANGED <<appVars, nextJob, inFlight, staged, completions, handles, service, delivered>>

Requests(cs) == {c.request : c \in cs}

\* flush_staged_completions: what the queue has room for leaves its in-flight slot.
FlushChoices ==
  LET room == CompletionCapacity - Cardinality(completions) IN
  {moved \in SUBSET staged :
     IF Cardinality(staged) <= room THEN moved = staged ELSE Cardinality(moved) = room}

\* Mutant of Flushed: the slot in flight is not given up.
FlushedKeepsRequest(moved) == staged' = staged \ moved /\ UNCHANGED inFlight

Flushed(moved) ==
  /\ staged' = staged \ moved
  /\ inFlight' = inFlight \ Requests(moved)

IsCurrent(c) == instance # 0 /\ c.request.app = instance

\* What a completion of an App that is gone still holds.
StaleSlots(c) == OwnSlot(c)

\* pump_frame_completions: flush, then pop one completion.  What belongs to an App that
\* is gone is dropped with its handle; consumed are the slots the consumer of an accepted
\* completion releases in the same call.
PumpFrame(c, consumed) ==
  /\ HostIdle
  /\ \E moved \in FlushChoices :
       /\ Flushed(moved)
       /\ c \in completions \cup moved
       /\ completions' = (completions \cup moved) \ {c}
  /\ handles' = Releasing(IF IsCurrent(c) THEN consumed ELSE StaleSlots(c))
  /\ UNCHANGED <<appVars, nextJob, pending, service>>

\* A consumer takes over what is accepted, and later releases the handle; it may do so
\* after its App is gone.
PumpToConsumer(c) ==
  /\ PumpFrame(c, {})
  /\ delivered' = IF IsCurrent(c) THEN delivered \cup {c} ELSE delivered

ConsumerReleases(c) ==
  /\ HostIdle /\ c \in delivered
  /\ handles' = Releasing(SlotOf(c.handle))
  /\ delivered' = delivered \ {c}
  /\ UNCHANGED <<appVars, queueVars, service>>

-----------------------------------------------------------------------------
(***************************************************************************)
(* terminate_current, by itself or as the first half of a launch           *)
(***************************************************************************)
CancelRequests ==
  /\ HostIdle /\ instance # 0
  /\ termination' = "cancelled"
  /\ pending' = {r \in pending : r.app # instance}
  /\ UNCHANGED <<instance, nextInstance, nextJob, inFlight, staged, completions, handles,
                 service, delivered>>

DiscardCompletions ==
  /\ termination = "cancelled" /\ termination' = "discarded"
  /\ completions' = {c \in completions : c.request.app # instance}
  /\ UNCHANGED <<instance, nextInstance, nextJob, pending, inFlight, staged, handles,
                 service, delivered>>

\* release_app_instance
ReleaseHandles ==
  /\ termination = "discarded" /\ termination' = "released"
  /\ handles' = Releasing({i \in 1 .. HandleSlots :
                             handles[i].active /\ handles[i].app = instance})
  /\ UNCHANGED <<instance, nextInstance, queueVars, service, delivered>>

\* Only now does current_app_instance_id say that the App is gone.
FinishTermination ==
  /\ termination = "released" /\ termination' = "none"
  /\ \/ instance' = 0 /\ UNCHANGED nextInstance
     \/ /\ nextInstance <= MaxInstances
        /\ instance' = nextInstance /\ nextInstance' = nextInstance + 1
  /\ UNCHANGED <<queueVars, handles, service, delivered>>

Terminate == CancelRequests \/ DiscardCompletions \/ ReleaseHandles \/ FinishTermination

-----------------------------------------------------------------------------
(***************************************************************************)
(* A service worker: pump_app_host_service_worker.  Its test that the      *)
(* completion queue is not full is left out, as the queue may fill up      *)
(* before the pop and complete_next of the services pops without it.       *)
(***************************************************************************)
Answer(w) == [request |-> service[w].request, handle |-> service[w].handle]

Pop(w, request) ==
  /\ service[w] = IdleService /\ request \in pending
  /\ pending' = pending \ {request} /\ inFlight' = inFlight \cup {request}
  /\ service' = [service EXCEPT ![w] = [step |-> "process", request |-> request]]
  /\ UNCHANGED <<appVars, nextJob, staged, completions, handles, delivered>>

\* The provider answers with a value of its own, or without one.
Process(w) ==
  /\ service[w].step = "process"
  /\ \/ \E i \in 1 .. HandleSlots, scope \in HandleScopes :
          /\ ~handles[i].active /\ ~handles[i].retired
          /\ handles' = [handles EXCEPT
               ![i].active = TRUE, ![i].app = service[w].request.app,
               ![i].client = IF scope = "app" THEN AppScoped ELSE service[w].request.client]
          /\ service' = [service EXCEPT ![w] =
               [step |-> "push", request |-> @.request,
                handle |-> [slot |-> i, generation |-> handles[i].generation]]]
     \/ /\ service' = [service EXCEPT ![w] =
               [step |-> "push", request |-> @.request, handle |-> NoHandle]]
        /\ UNCHANGED handles
  /\ UNCHANGED <<appVars, queueVars, delivered>>

\* push_completion reads the current App id ...
ReadCurrent(w) ==
  /\ service[w].step = "push"
  /\ service' = [service EXCEPT ![w] =
       [step |-> "look", request |-> @.request, handle |-> @.handle, seen |-> instance]]
  /\ UNCHANGED <<appVars, queueVars, handles, delivered>>

\* ... and then looks the handle up: it has to belong to the completion's App and, if it
\* is scoped, client.  A handle that is gone is tolerated only for an App that is not
\* current.
HandleMatches(w) ==
  LET c == Answer(w) IN
  \/ c.handle = NoHandle
  \/ ~Live(c.handle) /\ c.request.app # service[w].seen
  \/ \E i \in OwnSlot(c) : handles[i].client \in {AppScoped, c.request.client}

CheckHandle(w) ==
  /\ service[w].step = "look"
  /\ service' = [service EXCEPT ![w] =
       [step |-> IF HandleMatches(w) THEN "stage" ELSE "refused",
        request |-> @.request, handle |-> @.handle]]
  /\ UNCHANGED <<appVars, queueVars, handles, delivered>>

\* Mutant of Sanitize: the worker gives up.
GiveUp(w) ==
  /\ service[w].step = "refused"
  /\ service' = [service EXCEPT ![w] = IdleService]
  /\ UNCHANGED <<appVars, queueVars, handles, delivered>>

\* The worker then pushes a failure without a handle, so that the slot in flight is not
\* stranded.
Sanitize(w) ==
  /\ service[w].step = "refused"
  /\ service' = [service EXCEPT ![w] =
       [step |-> "push", request |-> @.request, handle |-> NoHandle]]
  /\ UNCHANGED <<appVars, queueVars, handles, delivered>>

Stage(w) ==
  /\ service[w].step = "stage" /\ service[w].request \in inFlight \ Requests(staged)
  /\ staged' = staged \cup {Answer(w)}
  /\ service' = [service EXCEPT ![w] = [step |-> "flush"]]
  /\ UNCHANGED <<appVars, nextJob, pending, inFlight, completions, handles, delivered>>

FlushStaged(w) ==
  /\ service[w].step = "flush"
  /\ \E moved \in FlushChoices : Flushed(moved) /\ completions' = completions \cup moved
  /\ service' = [service EXCEPT ![w] = IdleService]
  /\ UNCHANGED <<appVars, nextJob, pending, handles, delivered>>

ServiceStep(w) ==
  \/ \E request \in pending : Pop(w, request)
  \/ Process(w) \/ ReadCurrent(w) \/ CheckHandle(w) \/ Sanitize(w) \/ Stage(w)
  \/ FlushStaged(w)

-----------------------------------------------------------------------------
Pumping == \E c \in completions \cup staged : PumpToConsumer(c)

HostNext ==
  \/ Launch \/ Terminate
  \/ \E client \in Clients : Submit(client)
  \/ \E request \in pending : CancelPending(request)
  \/ Pumping
  \/ \E c \in delivered : ConsumerReleases(c)
  \/ \E w \in ServiceWorkers : ServiceStep(w)

\* Service workers are scheduled, a termination once begun runs to its end, and the host
\* pumps in every frame (strong, as terminations come in between).
HostSpec ==
  /\ HostInit /\ [][HostNext]_hostVars
  /\ \A w \in ServiceWorkers : WF_hostVars(ServiceStep(w))
  /\ WF_hostVars(DiscardCompletions \/ ReleaseHandles \/ FinishTermination)
  /\ SF_hostVars(Pumping)

-----------------------------------------------------------------------------
(***************************************************************************)
(* Properties                                                              *)
(***************************************************************************)
Working(steps) == {w \in ServiceWorkers : service[w].step \in steps}

ServiceState ==
  {IdleService, [step |-> "flush"]}
  \cup [step : {"process"}, request : Request]
  \cup [step : {"push", "stage", "refused"}, request : Request,
        handle : Handle \cup {NoHandle}]
  \cup [step : {"look"}, request : Request, handle : Handle \cup {NoHandle},
        seen : Instances \cup {0}]

\* The variables hold values of their types; a request counts against the capacity until
\* the completion queue has taken its completion over.
HostTypeOK ==
  /\ instance \in Instances \cup {0} /\ nextInstance \in 1 .. MaxInstances + 1
  /\ termination \in {"none", "cancelled", "discarded", "released"}
  /\ nextJob \in 1 .. MaxJobs + 1
  /\ pending \subseteq Request /\ inFlight \subseteq Request
  /\ staged \subseteq Completion /\ completions \subseteq Completion
  /\ delivered \subseteq Completion
  /\ handles \in [1 .. HandleSlots -> [active : BOOLEAN, retired : BOOLEAN,
                                       generation : 1 .. MaxHandleGeneration,
                                       app : Instances \cup {0},
                                       client : Clients \cup {AppScoped}]]
  /\ service \in [ServiceWorkers -> ServiceState]
  /\ Cardinality(pending) + Cardinality(inFlight) <= InFlightCapacity
  /\ Cardinality(completions) <= CompletionCapacity

\* The completions with a handle in somebody's hands: a worker that has not staged it
\* yet, the in-flight slot, the queue, a consumer.
Held ==
  {Answer(w) : w \in Working({"push", "look", "refused", "stage"})}
  \cup staged \cup completions \cup delivered

\* A job is in one place only: a request that waits or is processed has no completion,
\* except the one staged in its slot, and nothing is completed twice.
JobsAnsweredOnce ==
  /\ pending \cap inFlight = {} /\ Requests(staged) \subseteq inFlight
  /\ \A a, b \in staged \cup completions \cup delivered : a.request.job = b.request.job => a = b
  /\ \A c \in completions \cup delivered : c.request \notin pending \cup inFlight

\* A handle never names a slot of somebody else, however often its slot was released and
\* used again: late completions of an App that is gone and late releases by its code do
\* not reach what the next App owns.
HandlesNameTheirOwners ==
  \A a \in Held :
    /\ \A i \in SlotOf(a.handle) :
         handles[i].app = a.request.app /\ handles[i].client \in {AppScoped, a.request.client}
    /\ \A b \in Held : Live(a.handle) /\ a.handle = b.handle => a = b

\* A completion on its way to the App that runs still has its result ("never accept a
\* missing active-app handle").
CurrentResultsAreLive ==
  \A c \in staged \cup completions :
    HostIdle /\ IsCurrent(c) /\ c.handle # NoHandle => Live(c.handle)

\* No slot of the table is lost: whatever is allocated is in somebody's hands, or is about
\* to be released by the termination of its App.
HandlesAreHeld ==
  \A i \in 1 .. HandleSlots : handles[i].active =>
    \/ \E c \in Held : i \in SlotOf(c.handle)
    \/ termination \in {"cancelled", "discarded"} /\ handles[i].app = instance

\* A slot in flight is given up again, whether its App is still there or not.
InFlightRetires ==
  \A job \in 1 .. MaxJobs :
    (\E r \in inFlight : r.job = job) ~> ~(\E r \in inFlight : r.job = job)
=============================================================================
