------------------------ MODULE ScriptServices_proofs ------------------------
(***************************************************************************)
(* Theorems about HostServices and about ScriptServiceSession, which       *)
(* composes the host's services with the task of a script.                 *)
(*                                                                         *)
(* Host services: what holds of jobs and result handles at every moment,   *)
(* however many Apps, workers, jobs and slots there are and whatever the   *)
(* workers do between the steps of a termination.                          *)
(*                                                                         *)
(* Sessions, for any number of requests, Apps, leases and service workers: *)
(* the two ledgers of a session's requests name the same requests, each    *)
(* request, payload and result is in one place, the bridge keeps to its    *)
(* capacity, and nothing is left waiting when session and App are over.    *)
(***************************************************************************)
EXTENDS ScriptServiceSession, ScriptTaskSupervisor_proofs

-----------------------------------------------------------------------------
(***************************************************************************)
(* The inductive invariant of the host services                            *)
(***************************************************************************)
Slot == [active : BOOLEAN, retired : BOOLEAN, generation : 1 .. MaxHandleGeneration,
         app : Instances \cup {0}, client : Clients \cup {AppScoped}]

\* The types without the cardinalities.
Types ==
  /\ instance \in Instances \cup {0} /\ nextInstance \in 1 .. MaxInstances + 1
  /\ termination \in {"none", "cancelled", "discarded", "released"}
  /\ nextJob \in 1 .. MaxJobs + 1
  /\ pending \subseteq Request /\ inFlight \subseteq Request
  /\ staged \subseteq Completion /\ completions \subseteq Completion
  /\ delivered \subseteq Completion
  /\ handles \in [1 .. HandleSlots -> Slot]
  /\ service \in [ServiceWorkers -> ServiceState]

\* The workers that have a request, and those that have its answer.
Busy == Working({"process", "push", "look", "refused", "stage"})
Bearers == Working({"push", "look", "refused", "stage"})

\* Every request there still is: it waits, is in its slot, or has been answered.
Known == pending \cup inFlight \cup Requests(completions \cup delivered)

\* Jobs and Apps are numbered once.
Numbered ==
  /\ instance < nextInstance
  /\ \A r \in Known : r.job < nextJob /\ r.app < nextInstance
  /\ \A r, s \in Known : r.job = s.job => r = s

\* Where a request is: it waits, or has a slot in flight, or has been completed.
Placed ==
  /\ pending \cap inFlight = {}
  /\ \A c \in completions \cup delivered : c.request \notin pending \cup inFlight
  /\ completions \cap delivered = {}
  /\ Requests(staged) \subseteq inFlight
  /\ \A a, b \in staged : a.request = b.request => a = b
  /\ \A a, b \in completions \cup delivered : a.request = b.request => a = b

\* A slot in flight without a staged completion has one worker at most.
Worked ==
  /\ \A w \in Busy : service[w].request \in inFlight \ Requests(staged)
  /\ \A v, w \in Busy : service[v].request = service[w].request => v = w

\* A handle in somebody's hands names the slot that was allocated for it, or a generation
\* of the slot that is over; so no later allocation brings it back to life.
Dated(c) ==
  \/ c.handle = NoHandle
  \/ c.handle.generation < handles[c.handle.slot].generation
  \/ /\ c.handle.generation = handles[c.handle.slot].generation
     /\ \/ handles[c.handle.slot].retired
        \/ /\ handles[c.handle.slot].active
           /\ handles[c.handle.slot].app = c.request.app
           /\ handles[c.handle.slot].client \in {AppScoped, c.request.client}

HandlesDated ==
  /\ \A i \in 1 .. HandleSlots : handles[i].active => ~handles[i].retired
  /\ \A c \in Held : Dated(c)
  /\ \A a, b \in Held : Live(a.handle) /\ a.handle = b.handle => a = b

\* The completions that the host or a worker still has.
InHost == {Answer(w) : w \in Bearers} \cup staged \cup completions

\* Until the handles of an App are released with it, its results are alive, also those no
\* worker has staged yet.
ResultsLive ==
  termination # "released" =>
    \A c \in InHost : IsCurrent(c) /\ c.handle # NoHandle => Live(c.handle)

HostInv == Types /\ Numbered /\ Placed /\ Worked /\ HandlesDated /\ ResultsLive

JobsInv == Numbered /\ Placed /\ Worked

\* The steps of HostNext, and what a caller of the host may do besides: cancel several
\* requests in one step, and release a result in the call that pops it instead of taking it over.
CancelSeveral ==
  /\ pending' \subseteq pending
  /\ UNCHANGED <<appVars, nextJob, inFlight, staged, completions, handles, service, delivered>>

PumpAndConsume(c) ==
  \E consumed \in SUBSET OwnSlot(c) : PumpFrame(c, consumed) /\ UNCHANGED delivered

HostStep ==
  HostNext \/ CancelSeveral \/ \E c \in completions \cup staged : PumpAndConsume(c)

-----------------------------------------------------------------------------
(***************************************************************************)
(* Types                                                                   *)
(***************************************************************************)
\* What a worker carries at each of its steps.
LEMMA ServiceFields ==
  ASSUME Types, NEW w \in ServiceWorkers
  PROVE  /\ service[w].step \in {"process", "push", "look", "refused", "stage"}
              => service[w].request \in Request
         /\ service[w].step \in {"push", "look", "refused", "stage"}
              => service[w].handle \in Handle \cup {NoHandle}
BY DEF Types, ServiceState, IdleService

LEMMA FreedIsSlot ==
  ASSUME NEW slot \in Slot
  PROVE  /\ Freed(slot) \in Slot /\ ~Freed(slot).active
         /\ \/ Freed(slot).generation = slot.generation /\ Freed(slot).retired
            \/ Freed(slot).generation = slot.generation + 1
<1>1. CASE slot.generation = MaxHandleGeneration
  BY <1>1, HostAssumption DEF Slot, Freed
<1>2. CASE slot.generation # MaxHandleGeneration
  <2>1. slot.generation + 1 \in 1 .. MaxHandleGeneration
    BY <1>2, HostAssumption DEF Slot
  <2>2. QED BY <1>2, <2>1 DEF Slot, Freed
<1>3. QED BY <1>1, <1>2

LEMMA ReleasingIsTable ==
  ASSUME Types, NEW freed
  PROVE  Releasing(freed) \in [1 .. HandleSlots -> Slot]
BY FreedIsSlot DEF Types, Releasing

\* Whoever gets the completion, a pump releases its slots or none.
LEMMA PumpsFrame ==
  ASSUME NEW c, PumpToConsumer(c) \/ PumpAndConsume(c)
  PROVE  \E consumed \in SUBSET OwnSlot(c) :
           /\ PumpFrame(c, consumed)
           /\ delivered' \subseteq delivered \cup {c}
           /\ consumed # {} => delivered' = delivered
  BY DEF PumpToConsumer, PumpAndConsume

\* The steps of the host task.
LEMMA HostTaskTypes ==
  ASSUME Types,
         \/ Launch \/ Terminate
         \/ \E client \in Clients : Submit(client)
         \/ \E request \in pending : CancelPending(request)
         \/ Pumping
         \/ \E c \in delivered : ConsumerReleases(c)
         \/ CancelSeveral
         \/ \E c \in completions \cup staged : PumpAndConsume(c)
  PROVE  Types'
<1>1. MaxInstances \in Nat /\ MaxJobs \in Nat
  BY HostAssumption
<1>2. CASE Launch
  <2>1. instance' \in Instances /\ nextInstance' \in 1 .. MaxInstances + 1
    BY <1>1, <1>2 DEF Types, Launch, Instances
  <2>2. QED BY <1>2, <2>1 DEF Types, Launch, queueVars
<1>3. CASE CancelRequests
  BY <1>3 DEF Types, CancelRequests
<1>4. CASE DiscardCompletions
  BY <1>4 DEF Types, DiscardCompletions
<1>5. CASE ReleaseHandles
  <2>1. handles' \in [1 .. HandleSlots -> Slot]
    BY <1>5, ReleasingIsTable DEF ReleaseHandles
  <2>2. QED BY <1>5, <2>1 DEF Types, ReleaseHandles, queueVars
<1>6. CASE FinishTermination
  <2>1. instance' \in Instances \cup {0} /\ nextInstance' \in 1 .. MaxInstances + 1
    BY <1>1, <1>6 DEF Types, FinishTermination, Instances
  <2>2. QED BY <1>6, <2>1 DEF Types, FinishTermination, queueVars
<1>7. ASSUME NEW client \in Clients, Submit(client) PROVE Types'
  <2>1. NewRequest(client) \in Request
    BY <1>1, <1>7 DEF Types, Submit, Submitted, NewRequest, Request
  <2>2. nextJob' \in 1 .. MaxJobs + 1
    BY <1>1, <1>7 DEF Types, Submit, Submitted
  <2>3. QED BY <1>7, <2>1, <2>2 DEF Types, Submit, Submitted, appVars
<1>8. ASSUME NEW request \in pending, CancelPending(request) PROVE Types'
  BY <1>8 DEF Types, CancelPending, appVars
<1>9. ASSUME NEW c \in completions \cup staged, PumpToConsumer(c) \/ PumpAndConsume(c)
      PROVE  Types'
  <2> PICK consumed : PumpFrame(c, consumed) /\ delivered' \subseteq delivered \cup {c}
    BY <1>9, PumpsFrame
  <2>1. /\ inFlight' \subseteq inFlight /\ staged' \subseteq staged
        /\ completions' \subseteq completions \cup staged
    BY DEF PumpFrame, Flushed, FlushChoices
  <2>2. handles' \in [1 .. HandleSlots -> Slot]
    BY ReleasingIsTable DEF PumpFrame
  <2>3. UNCHANGED <<instance, nextInstance, termination, nextJob, pending, service>>
    BY DEF PumpFrame, appVars
  <2>4. QED BY <2>1, <2>2, <2>3 DEF Types
<1>10. ASSUME NEW c \in delivered, ConsumerReleases(c) PROVE Types'
  <2>1. handles' \in [1 .. HandleSlots -> Slot]
    BY <1>10, ReleasingIsTable DEF ConsumerReleases
  <2>2. QED BY <1>10, <2>1 DEF Types, ConsumerReleases, appVars, queueVars
<1>11. CASE CancelSeveral
  BY <1>11 DEF Types, CancelSeveral, appVars
<1>12. QED BY <1>2, <1>3, <1>4, <1>5, <1>6, <1>7, <1>8, <1>9, <1>10, <1>11
           DEF Terminate, Pumping

\* A provider's answer, and the slot it is allocated.
Pushes(w, handle) == [step |-> "push", request |-> service[w].request, handle |-> handle]

Allocates(w, i, slot) ==
  /\ ~handles[i].active /\ ~handles[i].retired
  /\ slot.active /\ ~slot.retired /\ slot.generation = handles[i].generation
  /\ slot.app = service[w].request.app
  /\ slot.client \in {AppScoped, service[w].request.client}
  /\ handles' = [handles EXCEPT ![i] = slot]
  /\ service' = [service EXCEPT ![w] =
                   Pushes(w, [slot |-> i, generation |-> handles[i].generation])]

LEMMA ProcessAllocates ==
  ASSUME Types, NEW w \in ServiceWorkers, Process(w)
  PROVE  \/ handles' = handles /\ service' = [service EXCEPT ![w] = Pushes(w, NoHandle)]
         \/ \E i \in 1 .. HandleSlots, slot \in Slot : Allocates(w, i, slot)
<1>1. /\ service \in [ServiceWorkers -> ServiceState]
      /\ handles \in [1 .. HandleSlots -> Slot]
  BY DEF Types
<1>2. service[w].request \in Request
  BY ServiceFields DEF Process
<1>3. ASSUME NEW i \in 1 .. HandleSlots, NEW scope \in HandleScopes,
             ~handles[i].active /\ ~handles[i].retired,
             handles' = [handles EXCEPT
               ![i].active = TRUE, ![i].app = service[w].request.app,
               ![i].client = IF scope = "app" THEN AppScoped ELSE service[w].request.client],
             service' = [service EXCEPT ![w] =
               [step |-> "push", request |-> @.request,
                handle |-> [slot |-> i, generation |-> handles[i].generation]]]
      PROVE  \E slot \in Slot : Allocates(w, i, slot)
  <2>1. PICK client \in {AppScoped, service[w].request.client} :
          handles' = [handles EXCEPT ![i].active = TRUE, ![i].app = service[w].request.app,
                                     ![i].client = client]
    <3>1. CASE scope = "app"
      BY <1>3, <3>1
    <3>2. CASE scope # "app"
      BY <1>3, <3>2
    <3>3. QED BY <3>1, <3>2
  <2> DEFINE slot == [handles[i] EXCEPT !.active = TRUE, !.app = service[w].request.app,
                                        !.client = client]
  <2>2. handles' = [handles EXCEPT ![i] = slot]
    BY <1>1, <2>1
  <2>3. handles[i] \in Slot
    BY <1>1
  <2>4. service[w].request.app \in Instances \cup {0} /\ client \in Clients \cup {AppScoped}
    BY <1>2 DEF Request
  <2>5. /\ slot \in Slot
        /\ slot.active = TRUE /\ slot.retired = handles[i].retired
        /\ slot.generation = handles[i].generation
        /\ slot.app = service[w].request.app /\ slot.client = client
    BY <2>3, <2>4 DEF Slot
  <2> HIDE DEF slot
  <2>6. service' = [service EXCEPT ![w] =
                      Pushes(w, [slot |-> i, generation |-> handles[i].generation])]
    BY <1>1, <1>3 DEF Pushes
  <2>7. Allocates(w, i, slot)
    BY <1>3, <2>2, <2>5, <2>6 DEF Allocates
  <2>8. QED BY <2>5, <2>7
<1>4. CASE /\ service' = [service EXCEPT ![w] =
                [step |-> "push", request |-> @.request, handle |-> NoHandle]]
           /\ UNCHANGED handles
  BY <1>1, <1>4 DEF Pushes
<1>5. QED BY <1>3, <1>4 DEF Process

\* The steps of a service worker.
LEMMA ServiceTypes ==
  ASSUME Types, NEW w \in ServiceWorkers, ServiceStep(w)
  PROVE  Types'
<1>1. service \in [ServiceWorkers -> ServiceState]
  BY DEF Types
<1>2. ASSUME NEW state \in ServiceState, service' = [service EXCEPT ![w] = state]
      PROVE  service' \in [ServiceWorkers -> ServiceState]
  BY <1>1, <1>2
<1>3. IdleService \in ServiceState /\ [step |-> "flush"] \in ServiceState
  BY DEF ServiceState
<1>4. ASSUME NEW request \in pending, Pop(w, request) PROVE Types'
  <2>1. request \in Request
    BY <1>4 DEF Types
  <2>2. [step |-> "process", request |-> request] \in ServiceState
    BY <2>1 DEF ServiceState
  <2>3. service' \in [ServiceWorkers -> ServiceState]
    BY <1>2, <1>4, <2>2 DEF Pop
  <2>4. QED BY <1>4, <2>1, <2>3 DEF Types, Pop, appVars
<1>5. CASE Process(w)
  <2>1. service[w].request \in Request
    BY <1>5, ServiceFields DEF Process
  <2>2. CASE handles' = handles /\ service' = [service EXCEPT ![w] = Pushes(w, NoHandle)]
    <3>1. Pushes(w, NoHandle) \in ServiceState
      BY <2>1 DEF Pushes, ServiceState
    <3>2. service' \in [ServiceWorkers -> ServiceState]
      BY <1>1, <2>2, <3>1
    <3>3. QED BY <1>5, <2>2, <3>2 DEF Types, Process, appVars, queueVars
  <2>3. ASSUME NEW i \in 1 .. HandleSlots, NEW slot \in Slot, Allocates(w, i, slot)
        PROVE  Types'
    <3>1. handles \in [1 .. HandleSlots -> Slot]
      BY DEF Types
    <3>2. handles' \in [1 .. HandleSlots -> Slot]
      BY <2>3, <3>1 DEF Allocates
    <3>3. [slot |-> i, generation |-> handles[i].generation] \in Handle
      BY <3>1 DEF Slot, Handle
    <3>4. Pushes(w, [slot |-> i, generation |-> handles[i].generation]) \in ServiceState
      BY <2>1, <3>3 DEF Pushes, ServiceState
    <3>5. service' \in [ServiceWorkers -> ServiceState]
      BY <1>1, <2>3, <3>4 DEF Allocates
    <3>6. QED BY <1>5, <3>2, <3>5 DEF Types, Process, appVars, queueVars
  <2>4. QED BY <1>5, <2>2, <2>3, ProcessAllocates
<1>6. CASE ReadCurrent(w) \/ CheckHandle(w) \/ Sanitize(w)
  <2>1. /\ service[w].request \in Request
        /\ service[w].handle \in Handle \cup {NoHandle}
        /\ instance \in Instances \cup {0}
    BY <1>6, ServiceFields DEF ReadCurrent, CheckHandle, Sanitize, Types
  <2>2. CASE ReadCurrent(w)
    BY <1>1, <2>1, <2>2 DEF Types, ReadCurrent, ServiceState, appVars, queueVars
  <2>3. CASE CheckHandle(w)
    BY <1>1, <2>1, <2>3 DEF Types, CheckHandle, ServiceState, appVars, queueVars
  <2>4. CASE Sanitize(w)
    BY <1>1, <2>1, <2>4 DEF Types, Sanitize, ServiceState, appVars, queueVars
  <2>5. QED BY <1>6, <2>2, <2>3, <2>4
<1>7. CASE Stage(w)
  <2>1. Answer(w) \in Completion
    BY <1>7, ServiceFields DEF Stage, Answer, Completion
  <2>2. service' \in [ServiceWorkers -> ServiceState]
    BY <1>2, <1>3, <1>7 DEF Stage
  <2>3. QED BY <1>7, <2>1, <2>2 DEF Types, Stage, appVars
<1>8. CASE FlushStaged(w)
  <2>1. /\ inFlight' \subseteq inFlight /\ staged' \subseteq staged
        /\ completions' \subseteq completions \cup staged
    BY <1>8 DEF FlushStaged, Flushed, FlushChoices
  <2>2. service' \in [ServiceWorkers -> ServiceState]
    BY <1>2, <1>3, <1>8 DEF FlushStaged
  <2>3. QED BY <1>8, <2>1, <2>2 DEF Types, FlushStaged, appVars
<1>9. QED BY <1>4, <1>5, <1>6, <1>7, <1>8 DEF ServiceStep

-----------------------------------------------------------------------------
(***************************************************************************)
(* Jobs                                                                    *)
(***************************************************************************)
\* Steps that take requests or completions away, or number the next App.
LEMMA JobsShrink ==
  ASSUME Types, JobsInv, instance' < nextInstance', nextInstance' >= nextInstance,
         nextInstance' \in Nat, UNCHANGED <<nextJob, inFlight, staged, service>>,
         pending' \subseteq pending, completions' \subseteq completions,
         delivered' \subseteq delivered
  PROVE  JobsInv'
<1>1. Known' \subseteq Known
  BY DEF Known, Requests
<1>2. \A r \in Known : r.app \in Nat
  BY DEF Types, Known, Requests, Request, Completion, Instances
<1>3. Numbered'
  BY <1>1, <1>2 DEF JobsInv, Numbered, Types
<1>4. Placed'
  BY DEF JobsInv, Placed, Requests
<1>5. Worked'
  BY DEF JobsInv, Worked, Busy, Working, Requests
<1>6. QED BY <1>3, <1>4, <1>5 DEF JobsInv

\* A flush moves completions out of their slots in flight; some may be popped at once.
LEMMA JobsFlush ==
  ASSUME Types, JobsInv, NEW moved \in SUBSET staged, Flushed(moved),
         UNCHANGED <<instance, nextInstance, nextJob, pending>>,
         completions' \cup delivered' \subseteq completions \cup delivered \cup moved,
         completions' \cap delivered' = {},
         Busy' \subseteq Busy, \A w \in Busy' : service'[w] = service[w]
  PROVE  JobsInv'
<1>1. inFlight' = inFlight \ Requests(moved) /\ staged' = staged \ moved
  BY DEF Flushed
<1>2. Requests(moved) \subseteq Requests(staged) /\ Requests(staged) \subseteq inFlight
  BY DEF Requests, JobsInv, Placed
<1>3. Requests(completions' \cup delivered')
        \subseteq Requests(completions \cup delivered) \cup Requests(moved)
  BY DEF Requests
<1>4. Known' \subseteq Known
  BY <1>1, <1>2, <1>3 DEF Known, Requests
<1>5. Numbered'
  BY <1>4 DEF JobsInv, Numbered
<1>6. Placed'
  <2>1. pending' \cap inFlight' = {}
    BY <1>1 DEF JobsInv, Placed
  <2>2. ASSUME NEW c \in completions' \cup delivered'
        PROVE  c.request \notin pending' \cup inFlight'
    <3>1. CASE c \in completions \cup delivered
      BY <1>1, <3>1 DEF JobsInv, Placed
    <3>2. CASE c \in moved
      <4>1. c.request \in Requests(moved) /\ c.request \in inFlight
        BY <1>2, <3>2 DEF Requests
      <4>2. QED BY <1>1, <4>1 DEF JobsInv, Placed
    <3>3. QED BY <3>1, <3>2
  <2>3. Requests(staged') \subseteq inFlight'
    <3> SUFFICES ASSUME NEW a \in staged' PROVE a.request \in inFlight \ Requests(moved)
      BY <1>1 DEF Requests
    <3>1. a \in staged /\ a \notin moved
      BY <1>1
    <3>2. a.request \in inFlight
      BY <1>2, <3>1 DEF Requests
    <3>3. \A b \in moved : b.request # a.request
      BY <3>1 DEF JobsInv, Placed
    <3>4. QED BY <3>2, <3>3 DEF Requests
  <2>4. \A a, b \in staged' : a.request = b.request => a = b
    BY <1>1 DEF JobsInv, Placed
  <2>5. ASSUME NEW a \in completions' \cup delivered', NEW b \in completions' \cup delivered',
               a.request = b.request
        PROVE  a = b
    <3>1. \A c \in moved : c.request \in inFlight
      BY <1>2 DEF Requests
    <3>2. CASE a \in moved /\ b \in moved
      BY <2>5, <3>2 DEF JobsInv, Placed
    <3>3. CASE a \in completions \cup delivered /\ b \in completions \cup delivered
      BY <2>5, <3>3 DEF JobsInv, Placed
    <3>4. CASE a \in moved /\ b \in completions \cup delivered
      BY <2>5, <3>1, <3>4 DEF JobsInv, Placed
    <3>5. CASE b \in moved /\ a \in completions \cup delivered
      BY <2>5, <3>1, <3>5 DEF JobsInv, Placed
    <3>6. QED BY <3>2, <3>3, <3>4, <3>5
  <2>6. QED BY <2>1, <2>2, <2>3, <2>4, <2>5 DEF Placed
<1>7. Worked'
  <2>1. ASSUME NEW w \in Busy'
        PROVE  service'[w].request \in inFlight' \ Requests(staged')
    <3>1. service'[w].request \in inFlight \ Requests(staged)
      BY <2>1 DEF JobsInv, Worked
    <3>2. Requests(staged') \subseteq Requests(staged)
      BY <1>1 DEF Requests
    <3>3. QED BY <1>1, <1>2, <3>1, <3>2
  <2>2. \A v, w \in Busy' : service'[v].request = service'[w].request => v = w
    BY DEF JobsInv, Worked
  <2>3. QED BY <2>1, <2>2 DEF Worked
<1>8. QED BY <1>5, <1>6, <1>7 DEF JobsInv

\* A worker goes on with its request.
LEMMA JobsWorkOn ==
  ASSUME Types, JobsInv, NEW w \in ServiceWorkers, UNCHANGED <<appVars, queueVars, delivered>>,
         NEW state, service' = [service EXCEPT ![w] = state], w \in Busy,
         state.step \in {"process", "push", "look", "refused", "stage"},
         state.request = service[w].request
  PROVE  JobsInv'
<1>1. service \in [ServiceWorkers -> ServiceState]
  BY DEF Types
<1>2. UNCHANGED <<instance, nextInstance, nextJob, pending, inFlight, staged, completions,
                  delivered>>
  BY DEF appVars, queueVars
<1>3. /\ Busy' = Busy
      /\ \A v \in Busy : service'[v].request = service[v].request
  BY <1>1 DEF Busy, Working
<1>4. Numbered' /\ Placed'
  BY <1>2 DEF JobsInv, Numbered, Placed, Known, Requests
<1>5. Worked'
  BY <1>2, <1>3 DEF JobsInv, Worked, Requests
<1>6. QED BY <1>4, <1>5 DEF JobsInv

LEMMA SubmitKeepsJobs ==
  ASSUME Types, JobsInv, NEW client \in Clients, Submit(client)
  PROVE  JobsInv'
<1> DEFINE new == NewRequest(client)
<1>1. /\ pending' = pending \cup {new} /\ nextJob' = nextJob + 1 /\ instance # 0
      /\ UNCHANGED <<instance, nextInstance, inFlight, staged, completions, service, delivered>>
  BY DEF Submit, Submitted, appVars
<1>2. new.job = nextJob /\ new.app = instance /\ nextJob \in Nat
  BY DEF NewRequest, Types
<1> HIDE DEF new
<1>3. Known' = Known \cup {new} /\ \A r \in Known : r.job < nextJob /\ r.job \in Nat
  BY <1>1 DEF Known, Requests, JobsInv, Numbered, Types, Request, Completion
<1>4. new \notin Known
  BY <1>2, <1>3
<1>5. Numbered'
  BY <1>1, <1>2, <1>3 DEF JobsInv, Numbered
<1>6. Placed'
  BY <1>1, <1>4 DEF JobsInv, Placed, Known, Requests
<1>7. Worked'
  BY <1>1 DEF JobsInv, Worked, Busy, Working, Requests
<1>8. QED BY <1>5, <1>6, <1>7 DEF JobsInv

LEMMA PopKeepsJobs ==
  ASSUME Types, JobsInv, NEW w \in ServiceWorkers, NEW request \in pending, Pop(w, request)
  PROVE  JobsInv'
<1>1. /\ pending' = pending \ {request} /\ inFlight' = inFlight \cup {request}
      /\ service' = [service EXCEPT ![w] = [step |-> "process", request |-> request]]
      /\ UNCHANGED <<instance, nextInstance, nextJob, staged, completions, delivered>>
  BY DEF Pop, appVars
<1>2. request \notin inFlight /\ request \notin Requests(staged)
  BY DEF JobsInv, Placed
<1>3. Numbered'
  <2>1. Known' = Known
    BY <1>1 DEF Known, Requests
  <2>2. QED BY <1>1, <2>1 DEF JobsInv, Numbered
<1>4. Placed'
  BY <1>1, <1>2 DEF JobsInv, Placed, Requests
<1>5. Worked'
  <2>1. service \in [ServiceWorkers -> ServiceState]
    BY DEF Types
  <2>2. /\ Busy' \subseteq Busy \cup {w} /\ service'[w].request = request
        /\ \A v \in Busy' : v # w => service'[v] = service[v]
    BY <1>1, <2>1 DEF Busy, Working
  <2>3. \A v \in Busy' : v # w => service'[v].request \in inFlight \ Requests(staged)
    BY <2>2 DEF JobsInv, Worked
  <2>4. Requests(staged') = Requests(staged)
    BY <1>1 DEF Requests
  <2>5. \A v \in Busy' : service'[v].request \in inFlight' \ Requests(staged')
    BY <1>1, <1>2, <2>2, <2>3, <2>4
  <2>6. ASSUME NEW u \in Busy', NEW v \in Busy', service'[u].request = service'[v].request
        PROVE  u = v
    <3>1. CASE u # w /\ v # w
      BY <2>2, <2>6, <3>1 DEF JobsInv, Worked
    <3>2. CASE u = w \/ v = w
      BY <1>2, <2>2, <2>3, <2>6, <3>2
    <3>3. QED BY <3>1, <3>2
  <2>7. QED BY <2>5, <2>6 DEF Worked
<1>6. QED BY <1>3, <1>4, <1>5 DEF JobsInv

LEMMA StageKeepsJobs ==
  ASSUME Types, JobsInv, NEW w \in ServiceWorkers, Stage(w)
  PROVE  JobsInv'
<1>1. /\ service[w].step = "stage" /\ service[w].request \in inFlight \ Requests(staged)
      /\ staged' = staged \cup {Answer(w)}
      /\ service' = [service EXCEPT ![w] = [step |-> "flush"]]
      /\ UNCHANGED <<instance, nextInstance, nextJob, pending, inFlight, completions, delivered>>
  BY DEF Stage, appVars
<1>2. Answer(w).request = service[w].request
  BY DEF Answer
<1>3. Requests(staged') = Requests(staged) \cup {service[w].request}
  BY <1>1, <1>2 DEF Requests
<1>4. Numbered'
  BY <1>1 DEF JobsInv, Numbered, Known, Requests
<1>5. Placed'
  <2>1. \A a \in staged : a.request # service[w].request
    BY <1>1 DEF Requests
  <2>2. \A a, b \in staged' : a.request = b.request => a = b
    BY <1>1, <1>2, <2>1 DEF JobsInv, Placed
  <2>3. Requests(staged') \subseteq inFlight'
    BY <1>1, <1>3 DEF JobsInv, Placed
  <2>4. QED BY <1>1, <2>2, <2>3 DEF JobsInv, Placed
<1>6. Worked'
  <2>1. service \in [ServiceWorkers -> ServiceState]
    BY DEF Types
  <2>2. /\ Busy' \subseteq Busy \ {w} /\ w \in Busy
        /\ \A v \in Busy' : service'[v] = service[v]
    BY <1>1, <2>1 DEF Busy, Working
  <2>3. \A v \in Busy' : service'[v].request # service[w].request
    BY <2>2 DEF JobsInv, Worked
  <2>4. \A v \in Busy' : service'[v].request \in inFlight' \ Requests(staged')
    <3>1. \A v \in Busy : service[v].request \in inFlight \ Requests(staged)
      BY DEF JobsInv, Worked
    <3>2. QED BY <1>1, <1>3, <2>2, <2>3, <3>1
  <2>5. \A u, v \in Busy' : service'[u].request = service'[v].request => u = v
    BY <2>2 DEF JobsInv, Worked
  <2>6. QED BY <2>4, <2>5 DEF Worked
<1>7. QED BY <1>4, <1>5, <1>6 DEF JobsInv

LEMMA NextJobsInv == Types /\ JobsInv /\ [HostStep]_hostVars => JobsInv'
<1> SUFFICES ASSUME Types, JobsInv, [HostStep]_hostVars PROVE JobsInv'
  OBVIOUS
<1>1. instance < nextInstance /\ nextInstance \in Nat /\ nextInstance > 0
  BY DEF JobsInv, Numbered, Types
<1>2. CASE Launch
  BY <1>1, <1>2, JobsShrink DEF Launch, queueVars
<1>3. CASE Terminate
  <2>1. CASE CancelRequests \/ DiscardCompletions
    BY <1>1, <2>1, JobsShrink DEF CancelRequests, DiscardCompletions
  <2>2. CASE ReleaseHandles
    BY <1>1, <2>2, JobsShrink DEF ReleaseHandles, queueVars
  <2>3. CASE FinishTermination
    BY <1>1, <2>3, JobsShrink DEF FinishTermination, queueVars
  <2>4. QED BY <1>3, <2>1, <2>2, <2>3 DEF Terminate
<1>4. ASSUME NEW request \in pending, CancelPending(request) PROVE JobsInv'
  BY <1>1, <1>4, JobsShrink DEF CancelPending, appVars
<1>5. ASSUME NEW c \in completions \cup staged, PumpToConsumer(c) \/ PumpAndConsume(c)
      PROVE  JobsInv'
  <2> PICK consumed : PumpFrame(c, consumed) /\ delivered' \subseteq delivered \cup {c}
    BY <1>5, PumpsFrame
  <2>1. PICK moved \in FlushChoices :
          /\ Flushed(moved) /\ c \in completions \cup moved
          /\ completions' = (completions \cup moved) \ {c}
    BY DEF PumpFrame
  <2>2. moved \subseteq staged
    BY DEF FlushChoices
  <2>3. /\ UNCHANGED <<instance, nextInstance, nextJob, pending, service>>
        /\ delivered' \subseteq delivered \cup {c}
    BY DEF PumpFrame, appVars
  <2>4. completions' \cap delivered' = {}
    <3>1. \A d \in moved : d.request \in inFlight
      BY <2>2 DEF JobsInv, Placed, Requests
    <3>2. moved \cap delivered = {}
      BY <3>1 DEF JobsInv, Placed
    <3>3. QED BY <2>1, <2>3, <3>2 DEF JobsInv, Placed
  <2>5. Busy' = Busy /\ \A w \in Busy' : service'[w] = service[w]
    BY <2>3 DEF Busy, Working
  <2>6. QED BY <2>1, <2>2, <2>3, <2>4, <2>5, JobsFlush
<1>6. ASSUME NEW c \in delivered, ConsumerReleases(c) PROVE JobsInv'
  BY <1>1, <1>6, JobsShrink DEF ConsumerReleases, appVars, queueVars
<1>7. ASSUME NEW w \in ServiceWorkers, ServiceStep(w) PROVE JobsInv'
  <2>1. service \in [ServiceWorkers -> ServiceState]
    BY DEF Types
  <2>2. CASE Process(w)
    <3>1. PICK handle : service' = [service EXCEPT ![w] = Pushes(w, handle)]
      BY <2>2, ProcessAllocates DEF Allocates
    <3>2. w \in Busy /\ UNCHANGED <<appVars, queueVars, delivered>>
      BY <2>2 DEF Process, Busy, Working
    <3>3. QED BY <3>1, <3>2, JobsWorkOn DEF Pushes
  <2>3. CASE ReadCurrent(w)
    BY <2>1, <2>3, JobsWorkOn DEF ReadCurrent, Busy, Working
  <2>4. CASE CheckHandle(w)
    <3>1. PICK step \in {"stage", "refused"} :
            service' = [service EXCEPT ![w] =
              [step |-> step, request |-> service[w].request, handle |-> service[w].handle]]
      BY <2>1, <2>4 DEF CheckHandle
    <3>2. w \in Busy /\ UNCHANGED <<appVars, queueVars, delivered>>
      BY <2>4 DEF CheckHandle, Busy, Working
    <3>3. QED BY <3>1, <3>2, JobsWorkOn
  <2>5. CASE Sanitize(w)
    BY <2>1, <2>5, JobsWorkOn DEF Sanitize, Busy, Working
  <2>6. CASE FlushStaged(w)
    <3>1. PICK moved \in FlushChoices : Flushed(moved) /\ completions' = completions \cup moved
      BY <2>6 DEF FlushStaged
    <3>2. moved \subseteq staged
      BY DEF FlushChoices
    <3>3. /\ UNCHANGED <<instance, nextInstance, nextJob, pending, delivered>>
          /\ service' = [service EXCEPT ![w] = IdleService]
      BY <2>6 DEF FlushStaged, appVars
    <3>4. completions' \cap delivered' = {}
      <4>1. \A d \in moved : d.request \in inFlight
        BY <3>2 DEF JobsInv, Placed, Requests
      <4>2. QED BY <3>1, <3>3, <4>1 DEF JobsInv, Placed
    <3>5. Busy' \subseteq Busy /\ \A v \in Busy' : service'[v] = service[v]
      BY <2>1, <3>3 DEF Busy, Working, IdleService
    <3>6. QED BY <3>1, <3>2, <3>3, <3>4, <3>5, JobsFlush
  <2>7. QED BY <1>7, <2>2, <2>3, <2>4, <2>5, <2>6, PopKeepsJobs, StageKeepsJobs
            DEF ServiceStep
<1>8. CASE UNCHANGED hostVars
  BY <1>1, <1>8, JobsShrink DEF hostVars, appVars, queueVars
<1>9. CASE CancelSeveral
  BY <1>1, <1>9, JobsShrink DEF CancelSeveral, appVars
<1>10. QED BY <1>2, <1>3, <1>4, <1>5, <1>6, <1>7, <1>8, <1>9, SubmitKeepsJobs
           DEF HostStep, HostNext, Pumping

-----------------------------------------------------------------------------
(***************************************************************************)
(* Handles                                                                 *)
(***************************************************************************)
\* What is held is a completion with a handle or without.
LEMMA HeldTypes ==
  ASSUME Types
  PROVE  /\ \A c \in Held : c \in Completion
         /\ InHost \subseteq Held
         /\ \A w \in Bearers : w \in ServiceWorkers /\ Answer(w) \in Held
<1>1. \A w \in Bearers : w \in ServiceWorkers /\ Answer(w) \in Completion
  BY ServiceFields DEF Bearers, Working, Answer, Completion
<1>2. Held = {Answer(w) : w \in Bearers} \cup staged \cup completions \cup delivered
  BY DEF Held, Bearers
<1>3. \A c \in Held : c \in Completion
  BY <1>1, <1>2 DEF Types
<1>4. InHost \subseteq Held /\ \A w \in Bearers : Answer(w) \in Held
  BY <1>2 DEF InHost
<1>5. QED BY <1>1, <1>3, <1>4

\* A handle has a slot, and is not the missing one.
LEMMA HandleFields ==
  ASSUME NEW c \in Completion, c.handle # NoHandle
  PROVE  /\ c.handle \in Handle /\ c.handle.slot \in 1 .. HandleSlots
         /\ c.handle.generation \in Nat
BY DEF Completion, Handle

LEMMA LiveHandle ==
  ASSUME NEW c \in Completion
  PROVE  Live(c.handle) <=>
           /\ c.handle # NoHandle
           /\ handles[c.handle.slot].active
           /\ handles[c.handle.slot].generation = c.handle.generation
<1>1. CASE c.handle = NoHandle
  BY <1>1, HostAssumption DEF Live, SlotOf, NoHandle
<1>2. CASE c.handle # NoHandle
  <2>1. c.handle.slot \in 1 .. HandleSlots
    BY <1>2, HandleFields
  <2>2. QED BY <1>2, <2>1 DEF Live, SlotOf
<1>3. QED BY <1>1, <1>2

\* What a release does to a slot.
LEMMA ReleasedSlot ==
  ASSUME Types, NEW freed, handles' = handles \/ handles' = Releasing(freed),
         NEW i \in 1 .. HandleSlots
  PROVE  \/ handles'[i] = handles[i]
         \/ /\ i \in freed /\ ~handles'[i].active
            /\ \/ handles'[i].generation = handles[i].generation /\ handles'[i].retired
               \/ handles'[i].generation = handles[i].generation + 1
<1>1. handles[i] \in Slot
  BY DEF Types
<1>2. CASE handles' = handles
  BY <1>2
<1>3. CASE handles' = Releasing(freed)
  <2>1. CASE i \in freed
    <3>1. handles'[i] = Freed(handles[i])
      BY <1>3, <2>1 DEF Releasing
    <3>2. QED BY <1>1, <2>1, <3>1, FreedIsSlot
  <2>2. CASE i \notin freed
    BY <1>3, <2>2 DEF Releasing
  <2>3. QED BY <2>1, <2>2
<1>4. QED BY <1>2, <1>3

\* Releasing slots, and moving completions from hand to hand, bring no handle to life.
LEMMA HandlesReleased ==
  ASSUME Types, HandlesDated, NEW freed, handles' = handles \/ handles' = Releasing(freed),
         \A c \in Held' : c \in Held \/ (c \in Completion /\ c.handle = NoHandle)
  PROVE  HandlesDated'
<1>1. \A i \in 1 .. HandleSlots : handles'[i].active => ~handles'[i].retired
  BY ReleasedSlot DEF HandlesDated
<1>2. ASSUME NEW c \in Held' PROVE Dated(c)'
  <2>1. CASE c.handle = NoHandle
    BY <2>1 DEF Dated
  <2>2. CASE c.handle # NoHandle
    <3>1. c \in Held /\ c \in Completion
      BY <1>2, <2>2, HeldTypes
    <3> DEFINE i == c.handle.slot
    <3>2. i \in 1 .. HandleSlots /\ c.handle.generation \in Nat
      BY <2>2, <3>1, HandleFields
    <3>3. Dated(c) /\ handles[i].generation \in Nat
      BY <3>1, <3>2 DEF HandlesDated, Types, Slot
    <3>4. CASE handles'[i] = handles[i]
      BY <3>3, <3>4 DEF Dated
    <3>5. CASE /\ ~handles'[i].active
               /\ \/ handles'[i].generation = handles[i].generation /\ handles'[i].retired
                  \/ handles'[i].generation = handles[i].generation + 1
      <4>1. c.handle.generation <= handles[i].generation
        BY <2>2, <3>2, <3>3 DEF Dated
      <4>2. QED BY <3>2, <3>3, <3>5, <4>1 DEF Dated
    <3>6. QED BY <3>2, <3>4, <3>5, ReleasedSlot
  <2>3. QED BY <2>1, <2>2
<1>3. ASSUME NEW a \in Held', NEW b \in Held', Live(a.handle)', a.handle = b.handle
      PROVE  a = b
  <2>1. a \in Completion
    BY HeldTypes
  <2>2. /\ a.handle # NoHandle /\ handles'[a.handle.slot].active
        /\ handles'[a.handle.slot].generation = a.handle.generation
    <3>1. CASE a.handle = NoHandle
      BY <1>3, <3>1, HostAssumption DEF Live, SlotOf, NoHandle
    <3>2. QED BY <1>3, <3>1 DEF Live, SlotOf
  <2>3. a.handle.slot \in 1 .. HandleSlots
    BY <2>1, <2>2, HandleFields
  <2>4. handles'[a.handle.slot] = handles[a.handle.slot]
    BY <2>2, <2>3, ReleasedSlot
  <2>5. Live(a.handle) /\ a \in Held /\ b \in Held
    BY <1>3, <2>1, <2>2, <2>4, LiveHandle
  <2>6. QED BY <1>3, <2>5 DEF HandlesDated
<1>4. QED BY <1>1, <1>2, <1>3 DEF HandlesDated

\* A new handle is that of nothing held, since its slot was free and not retired.
LEMMA HandlesAllocated ==
  ASSUME Types, HandlesDated, NEW w \in ServiceWorkers, NEW i \in 1 .. HandleSlots,
         NEW slot \in Slot, Allocates(w, i, slot), NEW new,
         new = [request |-> service[w].request,
                handle |-> [slot |-> i, generation |-> handles[i].generation]],
         \A c \in Held' : c \in Held \/ c = new
  PROVE  HandlesDated'
<1>1. /\ ~handles[i].active /\ ~handles[i].retired
      /\ handles'[i] = slot /\ \A j \in 1 .. HandleSlots : j # i => handles'[j] = handles[j]
      /\ slot.active /\ ~slot.retired /\ slot.generation = handles[i].generation
      /\ slot.app = service[w].request.app
      /\ slot.client \in {AppScoped, service[w].request.client}
  BY DEF Allocates, Types
<1>2. \A j \in 1 .. HandleSlots : handles'[j].active => ~handles'[j].retired
  BY <1>1 DEF HandlesDated
<1>3. /\ new.handle.slot = i /\ new.handle.generation = handles[i].generation
      /\ new.request = service[w].request /\ new.handle # NoHandle
  BY DEF NoHandle
<1>4. ASSUME NEW c \in Held, c.handle # NoHandle, c.handle.slot = i
      PROVE  c.handle.generation < handles[i].generation
  BY <1>1, <1>4 DEF HandlesDated, Dated
<1>5. ASSUME NEW c \in Held' PROVE Dated(c)'
  <2>1. CASE c = new
    BY <1>1, <1>3, <2>1 DEF Dated
  <2>2. CASE c \in Held /\ c.handle.slot = i /\ c.handle # NoHandle
    BY <1>1, <1>4, <2>2 DEF Dated
  <2>3. CASE c \in Held /\ c.handle.slot # i /\ c.handle # NoHandle
    <3>1. c.handle.slot \in 1 .. HandleSlots /\ Dated(c)
      BY <2>3, HeldTypes, HandleFields DEF HandlesDated
    <3>2. QED BY <1>1, <2>3, <3>1 DEF Dated
  <2>4. CASE c.handle = NoHandle
    BY <2>4 DEF Dated
  <2>5. QED BY <1>5, <2>1, <2>2, <2>3, <2>4
<1>6. ASSUME NEW a \in Held', NEW b \in Held', Live(a.handle)', a.handle = b.handle
      PROVE  a = b
  <2>1. /\ a.handle.slot \in 1 .. HandleSlots /\ a.handle # NoHandle
        /\ handles'[a.handle.slot].active
        /\ handles'[a.handle.slot].generation = a.handle.generation
    BY <1>6 DEF Live, SlotOf, NoHandle
  <2>2. \A c \in Held : c.handle = a.handle => a.handle.slot # i
    BY <1>1, <1>4, <2>1, HeldTypes, HandleFields DEF Types, Slot
  <2>3. CASE a.handle.slot = i
    BY <1>6, <2>2, <2>3
  <2>4. CASE a.handle.slot # i
    <3>1. a \in Held /\ b \in Held
      BY <1>3, <1>6, <2>4
    <3>2. Live(a.handle)
      BY <1>1, <2>1, <2>4 DEF Live, SlotOf
    <3>3. QED BY <1>6, <3>1, <3>2 DEF HandlesDated
  <2>5. QED BY <2>3, <2>4
<1>7. QED BY <1>2, <1>5, <1>6 DEF HandlesDated

\* A step of one worker leaves what the others hold.
LEMMA OthersHold ==
  ASSUME Types, NEW w \in ServiceWorkers, NEW state, service' = [service EXCEPT ![w] = state]
  PROVE  /\ \A v \in Bearers' : v # w => v \in Bearers /\ Answer(v)' = Answer(v)
         /\ service'[w] = state
BY DEF Types, Bearers, Working, Answer

\* Completions move from hand to hand; only Process makes one with a handle.
LEMMA CompletionsMove ==
  ASSUME Types, [HostStep]_hostVars, \A w \in ServiceWorkers : ~Process(w)
  PROVE  /\ \A c \in Held' : c \in Held \/ (c \in Completion /\ c.handle = NoHandle)
         /\ \A c \in InHost' : c \in InHost \/ (c \in Completion /\ c.handle = NoHandle)
<1>1. CASE /\ service' = service /\ staged' \subseteq staged
           /\ completions' \subseteq completions \cup staged
           /\ delivered' \subseteq delivered \cup completions \cup staged
  <2>1. Bearers' = Bearers /\ \A v \in Bearers : Answer(v)' = Answer(v)
    BY <1>1 DEF Bearers, Working, Answer
  <2>2. Held' \subseteq Held /\ InHost' \subseteq InHost
    BY <1>1, <2>1 DEF Held, InHost, Bearers
  <2>3. QED BY <2>2
<1>2. ASSUME NEW w \in ServiceWorkers, NEW state, service' = [service EXCEPT ![w] = state],
             delivered' = delivered,
             \A c \in staged' \cup completions' :
               c \in staged \cup completions \/ (w \in Bearers /\ c = Answer(w)),
             w \in Bearers' => \/ w \in Bearers /\ Answer(w)' = Answer(w)
                               \/ Answer(w)' \in Completion /\ Answer(w)'.handle = NoHandle
      PROVE  /\ \A c \in Held' : c \in Held \/ (c \in Completion /\ c.handle = NoHandle)
             /\ \A c \in InHost' : c \in InHost \/ (c \in Completion /\ c.handle = NoHandle)
  <2>1. \A v \in Bearers' :
          \/ v \in Bearers /\ Answer(v)' = Answer(v)
          \/ Answer(v)' \in Completion /\ Answer(v)'.handle = NoHandle
    BY <1>2, OthersHold
  <2>2. InHost' = {Answer(v)' : v \in Bearers'} \cup staged' \cup completions'
    BY DEF InHost
  <2>3. \A c \in InHost' : c \in InHost \/ (c \in Completion /\ c.handle = NoHandle)
    BY <1>2, <2>1, <2>2 DEF InHost
  <2>4. Held' = InHost' \cup delivered' /\ Held = InHost \cup delivered
    BY DEF Held, InHost, Bearers
  <2>5. QED BY <1>2, <2>3, <2>4
<1>3. CASE Launch \/ Terminate
  BY <1>1, <1>3
     DEF Launch, Terminate, CancelRequests, DiscardCompletions, ReleaseHandles,
         FinishTermination, queueVars
<1>4. CASE \E client \in Clients : Submit(client)
  BY <1>1, <1>4 DEF Submit
<1>5. CASE CancelSeveral \/ \E request \in pending : CancelPending(request)
  BY <1>1, <1>5 DEF CancelSeveral, CancelPending
<1>6. ASSUME NEW c \in completions \cup staged, PumpToConsumer(c) \/ PumpAndConsume(c)
      PROVE  /\ service' = service /\ staged' \subseteq staged
             /\ completions' \subseteq completions \cup staged
             /\ delivered' \subseteq delivered \cup completions \cup staged
  BY <1>6, PumpsFrame DEF PumpFrame, Flushed, FlushChoices
<1>7. CASE \E c \in delivered : ConsumerReleases(c)
  BY <1>1, <1>7 DEF ConsumerReleases, queueVars
<1>8. CASE UNCHANGED hostVars
  BY <1>1, <1>8 DEF hostVars, queueVars
<1>9. ASSUME NEW w \in ServiceWorkers, ServiceStep(w)
      PROVE  /\ \A c \in Held' : c \in Held \/ (c \in Completion /\ c.handle = NoHandle)
             /\ \A c \in InHost' : c \in InHost \/ (c \in Completion /\ c.handle = NoHandle)
  <2>1. service \in [ServiceWorkers -> ServiceState]
    BY DEF Types
  <2>2. ASSUME NEW request \in pending, Pop(w, request)
        PROVE  \E state :
                 /\ service' = [service EXCEPT ![w] = state] /\ delivered' = delivered
                 /\ staged' = staged /\ completions' = completions
                 /\ w \notin Bearers'
    BY <2>1, <2>2 DEF Pop, Bearers, Working
  <2>3. CASE ReadCurrent(w) \/ CheckHandle(w)
    <3>1. /\ UNCHANGED <<staged, completions, delivered>> /\ w \in Bearers
          /\ \E state : /\ service' = [service EXCEPT ![w] = state]
                        /\ state.request = service[w].request
                        /\ state.handle = service[w].handle
      BY <2>1, <2>3 DEF ReadCurrent, CheckHandle, queueVars, Bearers, Working
    <3>2. Answer(w)' = Answer(w)
      BY <2>1, <3>1 DEF Answer
    <3>3. QED BY <1>2, <3>1, <3>2
  <2>4. CASE Sanitize(w)
    <3>1. /\ UNCHANGED <<staged, completions, delivered>>
          /\ service[w].request \in Request
          /\ service' = [service EXCEPT ![w] =
               [step |-> "push", request |-> service[w].request, handle |-> NoHandle]]
      BY <2>1, <2>4, ServiceFields DEF Sanitize, queueVars
    <3>2. Answer(w)' = [request |-> service[w].request, handle |-> NoHandle]
      BY <2>1, <3>1 DEF Answer
    <3>3. Answer(w)' \in Completion /\ Answer(w)'.handle = NoHandle
      BY <3>1, <3>2 DEF Completion
    <3>4. QED BY <1>2, <3>1, <3>3
  <2>5. CASE Stage(w)
    <3>1. /\ service' = [service EXCEPT ![w] = [step |-> "flush"]]
          /\ staged' = staged \cup {Answer(w)} /\ w \in Bearers
          /\ UNCHANGED <<completions, delivered>>
      BY <2>5 DEF Stage, Bearers, Working
    <3>2. w \notin Bearers'
      BY <2>1, <3>1 DEF Bearers, Working
    <3>3. QED BY <1>2, <3>1, <3>2
  <2>6. CASE FlushStaged(w)
    <3>1. /\ service' = [service EXCEPT ![w] = IdleService]
          /\ staged' \subseteq staged /\ completions' \subseteq completions \cup staged
          /\ delivered' = delivered
      BY <2>6 DEF FlushStaged, Flushed, FlushChoices
    <3>2. w \notin Bearers'
      BY <2>1, <3>1 DEF Bearers, Working, IdleService
    <3>3. QED BY <1>2, <3>1, <3>2
  <2>7. CASE \E request \in pending : Pop(w, request)
    BY <1>2, <2>2, <2>7
  <2>8. QED BY <1>9, <2>3, <2>4, <2>5, <2>6, <2>7 DEF ServiceStep
<1>10. QED BY <1>1, <1>3, <1>4, <1>5, <1>6, <1>7, <1>8, <1>9 DEF HostStep, HostNext, Pumping

\* Process adds the completion it allocates a handle for, or one without.
Made(w, handle) == [request |-> service[w].request, handle |-> handle]

LEMMA CompletionMade ==
  ASSUME Types, NEW w \in ServiceWorkers, Process(w), NEW handle,
         service' = [service EXCEPT ![w] = Pushes(w, handle)]
  PROVE  /\ service[w].request \in Request /\ w \in Busy
         /\ \A c \in Held' : c \in Held \/ c = Made(w, handle)
         /\ \A c \in InHost' : c \in InHost \/ c = Made(w, handle)
<1>1. service[w].request \in Request /\ w \in Busy
  BY ServiceFields DEF Process, Busy, Working
<1>2. Answer(w)' = Made(w, handle)
  <2>1. service'[w] = Pushes(w, handle)
    BY DEF Types
  <2>2. QED BY <2>1 DEF Answer, Pushes, Made
<1>3. \A v \in Bearers' : v # w => v \in Bearers /\ Answer(v)' = Answer(v)
  BY OthersHold
<1>4. UNCHANGED <<staged, completions, delivered>>
  BY DEF Process, queueVars
<1>5. InHost' = {Answer(v)' : v \in Bearers'} \cup staged' \cup completions'
  BY DEF InHost
<1>6. \A c \in InHost' : c \in InHost \/ c = Made(w, handle)
  BY <1>2, <1>3, <1>4, <1>5 DEF InHost
<1>7. Held' = InHost' \cup delivered' /\ Held = InHost \cup delivered
  BY DEF Held, InHost, Bearers
<1>8. QED BY <1>1, <1>4, <1>6, <1>7

LEMMA NextHandlesDated ==
  Types /\ HandlesDated /\ [HostStep]_hostVars => HandlesDated'
<1> SUFFICES ASSUME Types, HandlesDated, [HostStep]_hostVars PROVE HandlesDated'
  OBVIOUS
<1>1. ASSUME NEW w \in ServiceWorkers, Process(w) PROVE HandlesDated'
  <2>1. CASE handles' = handles /\ service' = [service EXCEPT ![w] = Pushes(w, NoHandle)]
    <3>1. /\ service[w].request \in Request
          /\ \A c \in Held' : c \in Held \/ c = Made(w, NoHandle)
      BY <1>1, <2>1, CompletionMade
    <3>2. Made(w, NoHandle) \in Completion /\ Made(w, NoHandle).handle = NoHandle
      BY <3>1 DEF Completion, Made
    <3>3. QED BY <2>1, <3>1, <3>2, HandlesReleased
  <2>2. ASSUME NEW i \in 1 .. HandleSlots, NEW slot \in Slot, Allocates(w, i, slot)
        PROVE  HandlesDated'
    <3> DEFINE handle == [slot |-> i, generation |-> handles[i].generation]
    <3>1. service' = [service EXCEPT ![w] = Pushes(w, handle)]
      BY <2>2 DEF Allocates
    <3>2. \A c \in Held' : c \in Held \/ c = Made(w, handle)
      BY <1>1, <3>1, CompletionMade
    <3>3. QED BY <2>2, <3>2, HandlesAllocated DEF Made
  <2>3. QED BY <1>1, <2>1, <2>2, ProcessAllocates
<1>2. CASE \A w \in ServiceWorkers : ~Process(w)
  <2>1. \E freed : handles' = handles \/ handles' = Releasing(freed)
    BY <1>2
       DEF HostStep, HostNext, Launch, Terminate, CancelRequests, DiscardCompletions,
           ReleaseHandles, FinishTermination, Submit, CancelPending, CancelSeveral, Pumping,
           PumpToConsumer, PumpAndConsume, PumpFrame, ConsumerReleases, ServiceStep, Pop, ReadCurrent, CheckHandle, Sanitize, Stage,
           FlushStaged, hostVars
  <2>2. QED BY <1>2, <2>1, CompletionsMove, HandlesReleased
<1>3. QED BY <1>1, <1>2

-----------------------------------------------------------------------------
(***************************************************************************)
(* Results of the App that runs                                            *)
(***************************************************************************)
\* What the host or a worker has is not yet a consumer's, and its App has been launched.
LEMMA InHostKnown ==
  ASSUME Types, JobsInv
  PROVE  \A c \in InHost : c.request \in Known /\ c \notin delivered
<1>1. \A w \in Bearers : w \in Busy /\ Answer(w).request = service[w].request
  BY DEF Bearers, Busy, Working, Answer
<1>2. \A w \in Bearers : Answer(w).request \in inFlight
  BY <1>1 DEF JobsInv, Worked
<1>3. \A c \in staged : c.request \in inFlight
  BY DEF JobsInv, Placed, Requests
<1>4. \A c \in delivered : c.request \notin inFlight
  BY DEF JobsInv, Placed
<1>5. completions \cap delivered = {} /\ \A c \in completions : c.request \in Known
  BY DEF JobsInv, Placed, Known, Requests
<1>6. QED BY <1>2, <1>3, <1>4, <1>5 DEF InHost, Known

\* A release that spares the current App's results leaves them alive.
LEMMA ResultsSpared ==
  ASSUME Types, ResultsLive, termination' # "released" => termination # "released",
         instance' = instance,
         NEW freed, handles' = handles \/ handles' = Releasing(freed),
         \A c \in InHost' : c \in InHost \/ (c \in Completion /\ c.handle = NoHandle),
         \A c \in InHost : IsCurrent(c) /\ Live(c.handle) => c.handle.slot \notin freed
  PROVE  ResultsLive'
<1> SUFFICES ASSUME termination' # "released", NEW c \in InHost',
                    IsCurrent(c), c.handle # NoHandle
             PROVE  Live(c.handle)'
  BY DEF ResultsLive, IsCurrent
<1>1. c \in InHost /\ c \in Completion
  BY HeldTypes
<1>2. Live(c.handle)
  BY <1>1 DEF ResultsLive
<1>3. c.handle.slot \in 1 .. HandleSlots /\ c.handle.slot \notin freed
  BY <1>1, <1>2, HandleFields
<1>4. handles'[c.handle.slot] = handles[c.handle.slot]
  BY <1>3, ReleasedSlot
<1>5. QED BY <1>2, <1>3, <1>4 DEF Live, SlotOf

\* Nor do steps that release nothing.
LEMMA ResultsUnreleased ==
  ASSUME Types, ResultsLive, termination' # "released" => termination # "released",
         instance' = instance, handles' = handles,
         \A c \in InHost' : c \in InHost \/ (c \in Completion /\ c.handle = NoHandle)
  PROVE  ResultsLive'
BY DEF ResultsLive, IsCurrent, Live, SlotOf

\* The next App starts without results.
LEMMA ResultsOfNext ==
  ASSUME Types, JobsInv, InHost' = InHost, instance' \in {0, nextInstance}
  PROVE  ResultsLive'
<1>1. \A c \in InHost : c.request.app < nextInstance
  BY InHostKnown DEF JobsInv, Numbered
<1>2. \A c \in InHost : c.request.app # nextInstance
  BY <1>1, HeldTypes DEF Types, Completion, Request, Instances
<1>3. QED BY <1>2 DEF ResultsLive, IsCurrent

\* Two live results with one slot are one.
LEMMA SlotIsOnes ==
  ASSUME Types, HandlesDated, NEW c \in Held, NEW d \in Held,
         Live(d.handle), d.handle.slot \in SlotOf(c.handle)
  PROVE  d = c
<1>1. d \in Completion /\ c \in Completion
  BY HeldTypes
<1>2. /\ d.handle.slot = c.handle.slot /\ d.handle.generation = c.handle.generation
      /\ Live(c.handle)
  BY <1>1, LiveHandle DEF SlotOf, Live
<1>3. d.handle \in Handle /\ c.handle \in Handle
  BY <1>1, <1>2, LiveHandle, HandleFields
<1>4. d.handle = c.handle
  BY <1>2, <1>3 DEF Handle
<1>5. QED BY <1>4 DEF HandlesDated

\* A result that is released as it is popped is not in the host any more.
LEMMA ConsumedResults ==
  ASSUME Types, JobsInv, HandlesDated, ResultsLive,
         NEW c \in completions \cup staged, PumpAndConsume(c)
  PROVE  ResultsLive'
<1>1. PICK consumed \in SUBSET OwnSlot(c) : PumpFrame(c, consumed)
  BY DEF PumpAndConsume
<1>2. PICK moved \in SUBSET staged : /\ Flushed(moved) /\ c \in completions \cup moved
                                     /\ completions' = (completions \cup moved) \ {c}
  BY <1>1 DEF PumpFrame, FlushChoices
<1> DEFINE freed == IF IsCurrent(c) THEN consumed ELSE StaleSlots(c)
<1>3. /\ handles' = Releasing(freed) /\ service' = service
      /\ instance' = instance /\ termination' = termination
  BY <1>1 DEF PumpFrame, appVars
<1>4. freed \subseteq SlotOf(c.handle)
  BY <1>1 DEF StaleSlots, OwnSlot
<1> HIDE DEF freed
<1>5. InHost' \subseteq InHost /\ c \notin InHost'
  <2>1. InHost' = {Answer(w) : w \in Bearers} \cup staged' \cup completions'
    BY <1>3 DEF InHost, Bearers, Working, Answer
  <2>2. c.request \in inFlight => c \in staged
    BY DEF JobsInv, Placed
  <2>3. c.request \notin inFlight \/ c.request \in Requests(staged)
    BY <2>2 DEF Requests
  <2>4. \A w \in Bearers : Answer(w).request \in inFlight \ Requests(staged)
    BY DEF JobsInv, Worked, Bearers, Busy, Working, Answer
  <2>5. \A w \in Bearers : Answer(w) # c
    BY <2>3, <2>4
  <2>6. c \notin staged'
    <3>1. c \in completions => c \notin staged
      BY DEF JobsInv, Placed, Requests
    <3>2. QED BY <1>2, <3>1 DEF Flushed
  <2>7. QED BY <1>2, <2>1, <2>5, <2>6 DEF Flushed, InHost
<1> SUFFICES ASSUME termination # "released", NEW d \in InHost',
                    IsCurrent(d), d.handle # NoHandle
             PROVE  Live(d.handle)'
  BY <1>3 DEF ResultsLive, IsCurrent
<1>6. d \in InHost /\ d # c /\ c \in Held /\ d \in Held /\ d \in Completion
  BY <1>5, HeldTypes DEF Held
<1>7. Live(d.handle)
  BY <1>6 DEF ResultsLive
<1>8. d.handle.slot \in 1 .. HandleSlots /\ d.handle.slot \notin freed
  BY <1>4, <1>6, <1>7, HandleFields, SlotIsOnes
<1>9. handles'[d.handle.slot] = handles[d.handle.slot]
  BY <1>3, <1>8, ReleasedSlot
<1>10. QED BY <1>7, <1>8, <1>9 DEF Live, SlotOf

LEMMA NextResultsLive ==
  Types /\ JobsInv /\ HandlesDated /\ ResultsLive /\ [HostStep]_hostVars => ResultsLive'
<1> SUFFICES ASSUME Types, JobsInv, HandlesDated, ResultsLive, [HostStep]_hostVars
             PROVE  ResultsLive'
  OBVIOUS
<1>1. ASSUME service' = service, UNCHANGED <<staged, completions>> PROVE InHost' = InHost
  BY <1>1 DEF InHost, Bearers, Working, Answer
<1>2. CASE Launch
  BY <1>1, <1>2, ResultsOfNext DEF Launch, queueVars
<1>3. CASE FinishTermination
  BY <1>1, <1>3, ResultsOfNext DEF FinishTermination, queueVars
<1>4. CASE ReleaseHandles
  BY <1>4 DEF ReleaseHandles, ResultsLive
<1>5. ASSUME NEW w \in ServiceWorkers, Process(w) PROVE ResultsLive'
  <2>1. instance' = instance /\ termination' = termination
    BY <1>5 DEF Process, appVars
  <2>2. CASE handles' = handles /\ service' = [service EXCEPT ![w] = Pushes(w, NoHandle)]
    <3>1. /\ service[w].request \in Request
          /\ \A c \in InHost' : c \in InHost \/ c = Made(w, NoHandle)
      BY <1>5, <2>2, CompletionMade
    <3>2. Made(w, NoHandle) \in Completion /\ Made(w, NoHandle).handle = NoHandle
      BY <3>1 DEF Completion, Made
    <3>3. \A c \in InHost' : c \in InHost \/ (c \in Completion /\ c.handle = NoHandle)
      BY <3>1, <3>2
    <3>4. QED BY <2>1, <2>2, <3>3, ResultsUnreleased
  <2>3. ASSUME NEW i \in 1 .. HandleSlots, NEW slot \in Slot, Allocates(w, i, slot)
        PROVE  ResultsLive'
    <3>1. /\ ~handles[i].active /\ slot.active /\ slot.generation = handles[i].generation
          /\ handles'[i] = slot
          /\ \A j \in 1 .. HandleSlots : j # i => handles'[j] = handles[j]
      BY <2>3 DEF Allocates, Types
    <3> DEFINE handle == [slot |-> i, generation |-> handles[i].generation]
    <3>2. \A c \in InHost' : c \in InHost \/ c = Made(w, handle)
      <4>1. service' = [service EXCEPT ![w] = Pushes(w, handle)]
        BY <2>3 DEF Allocates
      <4>2. QED BY <1>5, <4>1, CompletionMade
    <3>3. ASSUME NEW h, h.slot = i, h.generation = handles[i].generation PROVE Live(h)'
      BY <3>1, <3>3 DEF Live, SlotOf
    <3>4. ASSUME NEW h, Live(h) PROVE Live(h)'
      BY <3>1, <3>4 DEF Live, SlotOf
    <3>5. /\ Made(w, handle).handle.slot = i
          /\ Made(w, handle).handle.generation = handles[i].generation
      BY DEF Made
    <3> HIDE DEF handle
    <3>6. ASSUME termination # "released", NEW c \in InHost', IsCurrent(c),
                 c.handle # NoHandle
          PROVE  Live(c.handle)'
      <4>1. CASE c = Made(w, handle)
        BY <3>3, <3>5, <4>1
      <4>2. CASE c \in InHost
        BY <3>4, <3>6, <4>2 DEF ResultsLive
      <4>3. QED BY <3>2, <4>1, <4>2
    <3>7. QED BY <2>1, <3>6 DEF ResultsLive, IsCurrent
  <2>4. QED BY <1>5, <2>2, <2>3, ProcessAllocates
<1>6. CASE \A w \in ServiceWorkers : ~Process(w)
  <2>1. \A c \in InHost' : c \in InHost \/ (c \in Completion /\ c.handle = NoHandle)
    BY <1>6, CompletionsMove
  <2>2. ASSUME NEW c \in completions \cup staged, PumpToConsumer(c) PROVE ResultsLive'
    <3> DEFINE freed == IF IsCurrent(c) THEN {} ELSE StaleSlots(c)
    <3>1. /\ handles' = Releasing(freed) /\ instance' = instance /\ termination' = termination
      BY <2>2 DEF PumpToConsumer, PumpFrame, appVars
    <3>2. ASSUME NEW d \in InHost, IsCurrent(d), Live(d.handle) PROVE d.handle.slot \notin freed
      <4>1. Dated(d) /\ d \in Completion
        BY HeldTypes DEF HandlesDated
      <4>2. handles[d.handle.slot].app = instance
        BY <3>2, <4>1, LiveHandle, HandleFields DEF Dated, HandlesDated, IsCurrent
      <4>3. ~IsCurrent(c) => \A i \in StaleSlots(c) : handles[i].app # instance
        BY <3>2 DEF StaleSlots, OwnSlot, IsCurrent
      <4>4. QED BY <4>2, <4>3
    <3> HIDE DEF freed
    <3>3. QED BY <2>1, <3>1, <3>2, ResultsSpared
  <2>3. ASSUME NEW c \in delivered, ConsumerReleases(c) PROVE ResultsLive'
    <3>1. handles' = Releasing(SlotOf(c.handle)) /\ UNCHANGED <<instance, termination>>
      BY <2>3 DEF ConsumerReleases, appVars
    <3>2. ASSUME NEW d \in InHost, Live(d.handle), d.handle.slot \in SlotOf(c.handle)
          PROVE  FALSE
      <4>1. d \in Held /\ c \in Held
        BY <2>3, HeldTypes DEF Held
      <4>2. d = c
        BY <3>2, <4>1, SlotIsOnes
      <4>3. QED BY <2>3, <4>2, InHostKnown
    <3>3. QED BY <2>1, <3>1, <3>2, ResultsSpared
  <2>4. ASSUME handles' = handles, instance' = instance,
               termination' # "released" => termination # "released"
        PROVE  ResultsLive'
    BY <2>1, <2>4, ResultsUnreleased
  <2>10. ASSUME NEW c \in completions \cup staged, PumpAndConsume(c) PROVE ResultsLive'
    BY <2>10, ConsumedResults
  <2>5. CASE CancelRequests \/ DiscardCompletions
    BY <2>4, <2>5 DEF CancelRequests, DiscardCompletions, HostIdle
  <2>6. CASE \/ \E client \in Clients : Submit(client)
             \/ \E request \in pending : CancelPending(request)
             \/ CancelSeveral
    BY <2>4, <2>6 DEF Submit, CancelPending, CancelSeveral, appVars
  <2>7. ASSUME NEW w \in ServiceWorkers, ServiceStep(w) PROVE ResultsLive'
    BY <1>6, <2>4, <2>7
       DEF ServiceStep, Pop, ReadCurrent, CheckHandle, Sanitize, Stage, FlushStaged, appVars
  <2>8. CASE UNCHANGED hostVars
    BY <2>4, <2>8 DEF hostVars, appVars
  <2>9. QED BY <1>2, <1>3, <1>4, <2>2, <2>3, <2>5, <2>6, <2>7, <2>8, <2>10
            DEF HostStep, HostNext, Terminate, Pumping
<1>7. QED BY <1>5, <1>6

-----------------------------------------------------------------------------
(***************************************************************************)
(* No slot of the handle table is lost                                     *)
(***************************************************************************)
\* What a worker was refused with names nothing, so nothing is lost when it gives it up.
RefusedAreDead ==
  \A w \in ServiceWorkers : service[w].step = "refused" => ~Live(service[w].handle)

\* A caller that releases a result as it pops it releases all of it.
PumpAndRelease(c) == PumpFrame(c, SlotOf(c.handle)) /\ UNCHANGED delivered

KeepingStep ==
  HostNext \/ CancelSeveral \/ \E c \in completions \cup staged : PumpAndRelease(c)

\* The slot a held handle names is the completion's own.
LEMMA OwnersOfSlots ==
  ASSUME Types, HandlesDated, NEW c \in Held, NEW i \in SlotOf(c.handle)
  PROVE  /\ i \in OwnSlot(c) /\ handles[i].client \in {AppScoped, c.request.client}
         /\ handles[i].app = c.request.app
<1>1. c \in Completion
  BY HeldTypes
<1>2. /\ i \in 1 .. HandleSlots /\ i = c.handle.slot /\ handles[i].active
      /\ handles[i].generation = c.handle.generation
  BY DEF SlotOf
<1>3. c.handle # NoHandle /\ c.handle.generation \in Nat
  BY <1>1, <1>2, HandleFields DEF NoHandle
<1>4. ~handles[i].retired /\ Dated(c)
  BY <1>2 DEF HandlesDated
<1>5. QED BY <1>2, <1>3, <1>4 DEF Dated, OwnSlot

LEMMA KeepingIsStep ==
  ASSUME Types, HandlesDated, [KeepingStep]_hostVars
  PROVE  [HostStep]_hostVars
<1>1. ASSUME NEW c \in completions \cup staged, PumpAndRelease(c)
      PROVE  PumpAndConsume(c)
  <2>1. c \in Held
    BY DEF Held
  <2>2. SlotOf(c.handle) \subseteq OwnSlot(c)
    BY <2>1, OwnersOfSlots
  <2>3. QED BY <1>1, <2>2 DEF PumpAndRelease, PumpAndConsume
<1>2. QED BY <1>1 DEF KeepingStep, HostStep

\* A step releases slots, or allocates one.
LEMMA TableChanges ==
  ASSUME Types, HandlesDated, [KeepingStep]_hostVars
  PROVE  \/ \E freed : handles' = handles \/ handles' = Releasing(freed)
         \/ \E w \in ServiceWorkers, i \in 1 .. HandleSlots, slot \in Slot :
              Process(w) /\ Allocates(w, i, slot)
<1>1. CASE \E w \in ServiceWorkers : Process(w)
  BY <1>1, ProcessAllocates
<1>2. CASE \A w \in ServiceWorkers : ~Process(w)
  <2>1. \E freed : handles' = handles \/ handles' = Releasing(freed)
    BY <1>2
       DEF KeepingStep, HostNext, Launch, Terminate, CancelRequests, DiscardCompletions,
           ReleaseHandles, FinishTermination, Submit, CancelPending, CancelSeveral, Pumping,
           PumpToConsumer, PumpAndRelease, PumpFrame, ConsumerReleases, ServiceStep, Pop,
           ReadCurrent, CheckHandle, Sanitize, Stage, FlushStaged, hostVars
  <2>2. QED BY <2>1
<1>3. QED BY <1>1, <1>2

\* A handle that is over stays over.
LEMMA DeadStaysDead ==
  ASSUME Types, HandlesDated, [KeepingStep]_hostVars, NEW c \in Held, ~Live(c.handle)
  PROVE  ~Live(c.handle)'
<1> SUFFICES ASSUME Live(c.handle)'
             PROVE  FALSE
  OBVIOUS
<1> DEFINE i == c.handle.slot
<1>1. /\ i \in 1 .. HandleSlots /\ handles'[i].active
      /\ handles'[i].generation = c.handle.generation
  BY DEF Live, SlotOf
<1>2. handles'[i] # handles[i]
  BY <1>1 DEF Live, SlotOf
<1>3. c \in Completion /\ Dated(c)
  BY HeldTypes DEF HandlesDated
<1>4. c.handle # NoHandle
  BY <1>1 DEF NoHandle
<1>5. c.handle.generation \in Nat /\ handles[i].generation \in Nat
  BY <1>1, <1>3, <1>4, HandleFields DEF Types, Slot
<1>6. CASE \E freed : handles' = handles \/ handles' = Releasing(freed)
  BY <1>1, <1>2, <1>6, ReleasedSlot
<1>7. ASSUME NEW w \in ServiceWorkers, NEW j \in 1 .. HandleSlots, NEW slot \in Slot,
             Allocates(w, j, slot)
      PROVE  FALSE
  <2>1. /\ ~handles[j].active /\ ~handles[j].retired /\ slot.generation = handles[j].generation
        /\ handles'[j] = slot /\ \A k \in 1 .. HandleSlots : k # j => handles'[k] = handles[k]
    BY <1>7 DEF Allocates, Types
  <2>2. i = j
    BY <1>1, <1>2, <2>1
  <2>3. c.handle.generation < handles[i].generation
    BY <1>3, <1>4, <2>1, <2>2 DEF Dated
  <2>4. QED BY <1>1, <1>5, <2>1, <2>2, <2>3
<1>8. QED BY <1>6, <1>7, TableChanges

LEMMA NextRefused ==
  ASSUME Types, HandlesDated, RefusedAreDead, [KeepingStep]_hostVars
  PROVE  RefusedAreDead'
<1> SUFFICES ASSUME NEW w \in ServiceWorkers, service'[w].step = "refused",
                    NEW h, h = service'[w].handle
             PROVE  ~Live(h)'
  BY DEF RefusedAreDead, Live, SlotOf
<1>0. service \in [ServiceWorkers -> ServiceState]
  BY DEF Types
<1>1. CASE service'[w] = service[w]
  <2>1. Answer(w) \in Held /\ Answer(w).handle = service[w].handle
    BY <1>1 DEF Held, Working, Answer
  <2>2. ~Live(Answer(w).handle)
    BY <1>1, <2>1 DEF RefusedAreDead
  <2>3. PICK c \in Held : c.handle = h /\ ~Live(c.handle)
    BY <1>1, <2>1, <2>2
  <2>4. QED BY <2>3, DeadStaysDead
<1>2. CASE service'[w] # service[w]
  <2>1. CheckHandle(w)
    <3>1. \A v \in ServiceWorkers : ServiceStep(v) => v = w
      BY <1>0, <1>2
         DEF ServiceStep, Pop, Process, ReadCurrent, CheckHandle, Sanitize, Stage, FlushStaged
    <3>2. service' # service
      BY <1>2
    <3>3. ServiceStep(w)
      BY <3>1, <3>2
         DEF KeepingStep, HostNext, Launch, Terminate, CancelRequests, DiscardCompletions,
             ReleaseHandles, FinishTermination, Submit, CancelPending, CancelSeveral, Pumping,
             PumpToConsumer, PumpAndRelease, PumpFrame, ConsumerReleases, hostVars
    <3>4. ASSUME NEW state, state.step # "refused" PROVE service' # [service EXCEPT ![w] = state]
      BY <1>0, <3>4
    <3>5. \A request \in pending : ~Pop(w, request)
      BY <3>4 DEF Pop
    <3>6. ~ReadCurrent(w) /\ ~Sanitize(w) /\ ~Stage(w) /\ ~FlushStaged(w)
      BY <1>0, <3>4 DEF ReadCurrent, Sanitize, Stage, FlushStaged, IdleService
    <3>7. ~Process(w)
      BY <3>4, ProcessAllocates DEF Pushes, Allocates
    <3>8. QED BY <3>3, <3>5, <3>6, <3>7 DEF ServiceStep
  <2>2. /\ ~HandleMatches(w) /\ handles' = handles /\ service'[w].handle = service[w].handle
        /\ service[w].step = "look"
    BY <1>0, <2>1 DEF CheckHandle
  <2>3. Answer(w) \in Held
    BY <2>2 DEF Held, Working
  <2>4. \A i \in SlotOf(Answer(w).handle) : FALSE
    BY <2>2, <2>3, OwnersOfSlots DEF HandleMatches
  <2>5. ~Live(h)
    BY <2>2, <2>4 DEF Live, Answer
  <2>6. QED BY <2>2, <2>5 DEF Live, SlotOf
<1>3. QED BY <1>1, <1>2

\* Whoever gives a completion up has released its slot, or releases all slots of its App.
LEMMA HeldStays ==
  ASSUME Types, HandlesDated, RefusedAreDead, [KeepingStep]_hostVars,
         NEW c \in Held, NEW i \in SlotOf(c.handle), handles'[i] = handles[i]
  PROVE  \/ c \in Held'
         \/ termination' = "discarded" /\ handles[i].app = instance /\ instance' = instance
<1>1. /\ i \in 1 .. HandleSlots /\ handles[i].active /\ handles[i].app = c.request.app
      /\ \A d \in Held : i \in SlotOf(d.handle) => i \in OwnSlot(d)
  BY OwnersOfSlots DEF SlotOf
<1>2. ASSUME NEW freed, handles' = Releasing(freed), i \in freed
      PROVE  FALSE
  <2>1. handles'[i] = Freed(handles[i]) /\ handles[i] \in Slot
    BY <1>1, <1>2 DEF Releasing, Types
  <2>2. QED BY <1>1, <2>1, FreedIsSlot
<1>3. CASE c \in Held'
  BY <1>3
<1>4. CASE UNCHANGED <<staged, completions, delivered, service>>
  BY <1>4 DEF Held, Working, Answer
<1>5. CASE Launch \/ CancelRequests \/ ReleaseHandles \/ FinishTermination
  BY <1>4, <1>5 DEF Launch, CancelRequests, ReleaseHandles, FinishTermination, queueVars
<1>6. CASE DiscardCompletions
  <2>1. CASE c \in completions /\ c.request.app = instance
    BY <1>1, <1>6, <2>1 DEF DiscardCompletions
  <2>2. CASE c \notin completions \/ c.request.app # instance
    BY <1>6, <2>2 DEF DiscardCompletions, Held, Working, Answer
  <2>3. QED BY <2>1, <2>2
<1>7. CASE \/ \E client \in Clients : Submit(client)
           \/ \E request \in pending : CancelPending(request)
           \/ CancelSeveral \/ UNCHANGED hostVars
  BY <1>4, <1>7 DEF Submit, CancelPending, CancelSeveral, hostVars, queueVars
<1>8. ASSUME NEW d \in completions \cup staged, PumpToConsumer(d) \/ PumpAndRelease(d)
      PROVE  c \in Held'
  <2>1. d \in Held
    BY DEF Held
  <2>2. /\ service' = service /\ staged \cup completions \subseteq staged' \cup completions' \cup {d}
        /\ delivered \subseteq delivered'
    BY <1>8 DEF PumpToConsumer, PumpAndRelease, PumpFrame, Flushed
  <2>3. CASE c # d
    BY <2>2, <2>3 DEF Held, Working, Answer
  <2>4. CASE c = d
    <3>1. ~IsCurrent(d) => FALSE
      BY <1>1, <1>2, <1>8, <2>4 DEF PumpToConsumer, PumpAndRelease, PumpFrame, StaleSlots
    <3>2. ~PumpAndRelease(d)
      BY <1>2, <2>4, <3>1 DEF PumpAndRelease, PumpFrame
    <3>3. d \in delivered'
      BY <1>8, <3>1, <3>2 DEF PumpToConsumer
    <3>4. QED BY <2>4, <3>3 DEF Held
  <2>5. QED BY <2>3, <2>4
<1>9. ASSUME NEW d \in delivered, ConsumerReleases(d)
      PROVE  c \in Held'
  <2>1. c # d
    BY <1>2, <1>9 DEF ConsumerReleases
  <2>2. QED BY <1>9, <2>1 DEF ConsumerReleases, queueVars, Held, Working, Answer
<1>10. ASSUME NEW w \in ServiceWorkers, ServiceStep(w)
       PROVE  c \in Held'
  <2>1. service \in [ServiceWorkers -> ServiceState]
    BY DEF Types
  <2>2. \A v \in ServiceWorkers : v # w => service'[v] = service[v]
    BY <1>10, <2>1
       DEF ServiceStep, Pop, Process, ReadCurrent, CheckHandle, Sanitize, Stage, FlushStaged
  <2>3. /\ delivered' = delivered /\ staged \cup completions \subseteq staged' \cup completions'
    BY <1>10
       DEF ServiceStep, Pop, Process, ReadCurrent, CheckHandle, Sanitize, Stage, FlushStaged,
           Flushed, queueVars
  <2>4. CASE c \in staged \cup completions \cup delivered
    BY <2>3, <2>4 DEF Held
  <2>5. ASSUME NEW v \in Bearers, c = Answer(v), v # w
        PROVE  c \in Held'
    <3>1. v \in Bearers' /\ Answer(v)' = c
      BY <2>2, <2>5 DEF Bearers, Working, Answer
    <3>2. QED BY <3>1 DEF Held, Bearers
  <2>6. CASE w \in Bearers /\ c = Answer(w)
    <3>1. CASE ReadCurrent(w) \/ CheckHandle(w)
      <4>1. w \in Bearers' /\ Answer(w)' = c
        BY <2>1, <2>6, <3>1 DEF ReadCurrent, CheckHandle, Bearers, Working, Answer
      <4>2. QED BY <4>1 DEF Held, Bearers
    <3>2. CASE Sanitize(w)
      BY <2>6, <3>2 DEF Sanitize, RefusedAreDead, Live, Answer
    <3>3. CASE Stage(w)
      BY <2>6, <3>3 DEF Stage, Held
    <3>4. ~Process(w) /\ ~FlushStaged(w) /\ \A request \in pending : ~Pop(w, request)
      <4>1. service[w].step \in {"push", "look", "refused", "stage"}
        BY <2>6 DEF Bearers, Working
      <4>2. service[w] # IdleService
        BY <4>1 DEF IdleService
      <4>3. QED BY <4>1, <4>2 DEF Process, FlushStaged, Pop
    <3>5. QED BY <1>10, <3>1, <3>2, <3>3, <3>4 DEF ServiceStep, Bearers, Working
  <2>7. QED BY <2>4, <2>5, <2>6 DEF Held, Bearers
<1>11. QED BY <1>5, <1>6, <1>7, <1>8, <1>9, <1>10 DEF KeepingStep, HostNext, Terminate, Pumping

LEMMA NextHandlesHeld ==
  ASSUME Types, HandlesDated, RefusedAreDead, HandlesAreHeld, [KeepingStep]_hostVars
  PROVE  HandlesAreHeld'
<1> SUFFICES ASSUME NEW i \in 1 .. HandleSlots, handles'[i].active
             PROVE  \/ \E c \in Held' : i \in SlotOf(c.handle)'
                    \/ termination' \in {"cancelled", "discarded"} /\ handles'[i].app = instance'
  BY DEF HandlesAreHeld
<1>1. CASE handles'[i] = handles[i]
  <2>1. ASSUME NEW c \in Held, i \in SlotOf(c.handle)
        PROVE  \/ \E d \in Held' : i \in SlotOf(d.handle)'
               \/ termination' \in {"cancelled", "discarded"} /\ handles'[i].app = instance'
    <3>1. i \in SlotOf(c.handle)'
      BY <1>1, <2>1 DEF SlotOf
    <3>2. QED BY <1>1, <2>1, <3>1, HeldStays
  <2>2. ASSUME termination \in {"cancelled", "discarded"}, handles[i].app = instance
        PROVE  termination' \in {"cancelled", "discarded"} /\ handles'[i].app = instance'
    <3>1. ~ReleaseHandles
      <4>1. SUFFICES ASSUME ReleaseHandles PROVE FALSE
        OBVIOUS
      <4>2. handles'[i] = Freed(handles[i]) /\ handles[i] \in Slot
        BY <1>1, <2>2, <4>1 DEF ReleaseHandles, Releasing, Types
      <4>3. QED BY <4>2, FreedIsSlot
    <3>2. QED
      BY <1>1, <2>2, <3>1
         DEF KeepingStep, HostNext, Launch, Terminate, CancelRequests, DiscardCompletions,
             FinishTermination, Submit, CancelPending, CancelSeveral, Pumping, PumpToConsumer,
             PumpAndRelease, PumpFrame, ConsumerReleases, ServiceStep, Pop, Process,
             ReadCurrent, CheckHandle, Sanitize, Stage, FlushStaged, HostIdle, hostVars, appVars
  <2>3. QED BY <1>1, <2>1, <2>2 DEF HandlesAreHeld
<1>2. CASE handles'[i] # handles[i]
  <2>1. \A freed : ~(handles' = handles \/ handles' = Releasing(freed))
    BY <1>2, ReleasedSlot
  <2>2. PICK w \in ServiceWorkers, j \in 1 .. HandleSlots, slot \in Slot :
          Process(w) /\ Allocates(w, j, slot)
    BY <2>1, TableChanges
  <2>3. /\ handles'[j] = slot /\ \A k \in 1 .. HandleSlots : k # j => handles'[k] = handles[k]
        /\ slot.active /\ slot.generation = handles[j].generation
        /\ service'[w] = Pushes(w, [slot |-> j, generation |-> handles[j].generation])
    BY <2>2 DEF Allocates, Types
  <2>4. i = j
    BY <1>2, <2>3
  <2>5. /\ Answer(w)' \in Held'
        /\ Answer(w)'.handle.slot = j /\ Answer(w)'.handle.generation = handles[j].generation
    BY <2>3 DEF Held, Working, Answer, Pushes
  <2>6. PICK c \in Held' : c.handle.slot = i /\ c.handle.generation = handles'[i].generation
    BY <2>3, <2>4, <2>5
  <2>7. i \in SlotOf(c.handle)'
    BY <2>6 DEF SlotOf
  <2>8. QED BY <2>7
<1>3. QED BY <1>1, <1>2

\* Providers that scope every result to its client, as all of them do so far.
ScopedToClients == \A i \in 1 .. HandleSlots : handles[i].active => handles[i].client # AppScoped

LEMMA NextScoped ==
  ASSUME Types, HandlesDated, ScopedToClients, "app" \notin HandleScopes, [KeepingStep]_hostVars
  PROVE  ScopedToClients'
<1> SUFFICES ASSUME NEW i \in 1 .. HandleSlots, handles'[i].active
             PROVE  handles'[i].client # AppScoped
  BY DEF ScopedToClients
<1>1. CASE handles'[i] = handles[i]
  BY <1>1 DEF ScopedToClients
<1>2. CASE handles'[i] # handles[i]
  <2>1. \A freed : ~(handles' = handles \/ handles' = Releasing(freed))
    BY <1>2, ReleasedSlot
  <2>2. PICK w \in ServiceWorkers : Process(w)
    BY <2>1, TableChanges
  <2>3. service[w].request \in Request /\ handles' # handles
    BY <2>1, <2>2, ServiceFields DEF Process
  <2>4. PICK j \in 1 .. HandleSlots, scope \in HandleScopes :
          handles' = [handles EXCEPT
            ![j].active = TRUE, ![j].app = service[w].request.app,
            ![j].client = IF scope = "app" THEN AppScoped ELSE service[w].request.client]
    BY <2>2, <2>3 DEF Process
  <2>5. handles' = [handles EXCEPT
          ![j].active = TRUE, ![j].app = service[w].request.app,
          ![j].client = service[w].request.client]
    BY <2>4
  <2>6. handles \in [1 .. HandleSlots -> Slot]
    BY DEF Types
  <2>7. i = j
    BY <1>2, <2>5, <2>6
  <2>8. handles[i] \in Slot
    BY <2>6
  <2>9. handles'[i].client = service[w].request.client
    BY <2>5, <2>6, <2>7, <2>8 DEF Slot
  <2>10. QED BY <2>3, <2>9, HostAssumption DEF Request
<1>3. QED BY <1>1, <1>2

-----------------------------------------------------------------------------
(***************************************************************************)
(* The capacities of the queues                                            *)
(***************************************************************************)
Counted ==
  /\ IsFiniteSet(pending) /\ IsFiniteSet(inFlight)
  /\ IsFiniteSet(staged) /\ IsFiniteSet(completions)
  /\ Cardinality(pending) + Cardinality(inFlight) <= InFlightCapacity
  /\ Cardinality(completions) <= CompletionCapacity

\* What the queues give up makes no room scarcer.
LEMMA CountedShrinks ==
  ASSUME Counted, pending' \subseteq pending, inFlight' \subseteq inFlight,
         staged' \subseteq staged, completions' \subseteq completions
  PROVE  Counted'
<1>1. ASSUME NEW S, IsFiniteSet(S), NEW T, T \subseteq S
      PROVE  /\ IsFiniteSet(T) /\ Cardinality(T) <= Cardinality(S)
             /\ Cardinality(T) \in Nat /\ Cardinality(S) \in Nat
  BY <1>1, FS_Subset, FS_CardinalityType
<1>2. /\ IsFiniteSet(pending') /\ IsFiniteSet(inFlight')
      /\ IsFiniteSet(staged') /\ IsFiniteSet(completions')
  BY <1>1 DEF Counted
<1>3. /\ Cardinality(pending') <= Cardinality(pending)
      /\ Cardinality(pending') \in Nat /\ Cardinality(pending) \in Nat
  BY <1>1 DEF Counted
<1>4. /\ Cardinality(inFlight') <= Cardinality(inFlight)
      /\ Cardinality(inFlight') \in Nat /\ Cardinality(inFlight) \in Nat
  BY <1>1 DEF Counted
<1>5. /\ Cardinality(completions') <= Cardinality(completions)
      /\ Cardinality(completions') \in Nat /\ Cardinality(completions) \in Nat
  BY <1>1 DEF Counted
<1>6. QED BY <1>2, <1>3, <1>4, <1>5, HostAssumption DEF Counted

\* A flush never moves more completions than the queue has room for.
LEMMA FlushFits ==
  ASSUME Counted, NEW moved \in FlushChoices, completions' \subseteq completions \cup moved,
         Flushed(moved), pending' = pending
  PROVE  Counted'
<1>1. /\ Cardinality(completions) \in Nat /\ CompletionCapacity \in Nat
      /\ Cardinality(completions) <= CompletionCapacity
  BY FS_CardinalityType, HostAssumption DEF Counted
<1>2. moved \subseteq staged /\ IsFiniteSet(moved)
  BY FS_Subset DEF FlushChoices, Counted
<1>3. Cardinality(staged) \in Nat /\ Cardinality(moved) \in Nat
  BY <1>2, FS_CardinalityType DEF Counted
<1>4. Cardinality(moved) <= CompletionCapacity - Cardinality(completions)
  BY <1>1, <1>3 DEF FlushChoices
<1>5. /\ IsFiniteSet(completions \cup moved)
      /\ Cardinality(completions \cup moved) =
           Cardinality(completions) + Cardinality(moved) - Cardinality(completions \cap moved)
  BY <1>2, FS_Union DEF Counted
<1>6. Cardinality(completions \cap moved) \in Nat
  BY FS_Intersection, FS_CardinalityType DEF Counted
<1>7. Cardinality(completions \cup moved) <= CompletionCapacity
  BY <1>1, <1>3, <1>4, <1>5, <1>6
<1>8. /\ IsFiniteSet(completions') /\ Cardinality(completions') <= CompletionCapacity
  <2>1. /\ IsFiniteSet(completions')
        /\ Cardinality(completions') <= Cardinality(completions \cup moved)
    BY <1>5, FS_Subset
  <2>2. Cardinality(completions') \in Nat /\ Cardinality(completions \cup moved) \in Nat
    BY <1>5, <2>1, FS_CardinalityType
  <2>3. QED BY <1>1, <1>7, <2>1, <2>2
<1>9. /\ IsFiniteSet(staged') /\ IsFiniteSet(inFlight')
      /\ Cardinality(inFlight') <= Cardinality(inFlight)
  BY FS_Subset DEF Counted, Flushed
<1>10. /\ Cardinality(inFlight') \in Nat /\ Cardinality(inFlight) \in Nat
       /\ Cardinality(pending) \in Nat /\ InFlightCapacity \in Nat
  BY <1>9, FS_CardinalityType, HostAssumption DEF Counted
<1>11. QED BY <1>8, <1>9, <1>10 DEF Counted

LEMMA NextCounted == Counted /\ [HostStep]_hostVars => Counted'
<1> SUFFICES ASSUME Counted, [HostStep]_hostVars PROVE Counted'
  OBVIOUS
<1>1. /\ Cardinality(pending) \in Nat /\ Cardinality(inFlight) \in Nat
      /\ InFlightCapacity \in Nat
  BY FS_CardinalityType, HostAssumption DEF Counted
<1>2. CASE Launch \/ Terminate
  BY <1>2, CountedShrinks
     DEF Launch, Terminate, CancelRequests, DiscardCompletions, ReleaseHandles,
         FinishTermination, queueVars
<1>3. ASSUME NEW client \in Clients, Submit(client) PROVE Counted'
  <2>1. /\ pending' = pending \cup {NewRequest(client)}
        /\ UNCHANGED <<inFlight, staged, completions>> /\ HasCapacity
    BY <1>3 DEF Submit, Submitted
  <2>2. /\ IsFiniteSet(pending') /\ Cardinality(pending') <= Cardinality(pending) + 1
        /\ Cardinality(pending') \in Nat
    <3>1. /\ IsFiniteSet(pending')
          /\ Cardinality(pending') = IF NewRequest(client) \in pending THEN Cardinality(pending)
                                   ELSE Cardinality(pending) + 1
      <4>1. IsFiniteSet(pending)
        BY DEF Counted
      <4>2. QED BY <2>1, <4>1, FS_AddElement
    <3>2. QED BY <1>1, <3>1
  <2>3. QED BY <1>1, <2>1, <2>2 DEF Counted, HasCapacity
<1>4. ASSUME NEW request \in pending, CancelPending(request) PROVE Counted'
  BY <1>4, CountedShrinks DEF CancelPending
<1>5. ASSUME NEW c \in completions \cup staged, PumpToConsumer(c) \/ PumpAndConsume(c)
      PROVE  Counted'
  <2>1. PICK moved \in FlushChoices :
          Flushed(moved) /\ completions' = (completions \cup moved) \ {c} /\ pending' = pending
    BY <1>5, PumpsFrame DEF PumpFrame
  <2>2. QED BY <2>1, FlushFits
<1>6. ASSUME NEW c \in delivered, ConsumerReleases(c) PROVE Counted'
  BY <1>6, CountedShrinks DEF ConsumerReleases, queueVars
<1>7. ASSUME NEW w \in ServiceWorkers, NEW request \in pending, Pop(w, request) PROVE Counted'
  <2>1. /\ pending' = pending \ {request} /\ inFlight' = inFlight \cup {request}
        /\ UNCHANGED <<staged, completions>>
    BY <1>7 DEF Pop
  <2>2. IsFiniteSet(pending') /\ Cardinality(pending') = Cardinality(pending) - 1
    BY <1>7, <2>1, FS_RemoveElement DEF Counted
  <2>3. /\ IsFiniteSet(inFlight') /\ Cardinality(inFlight') <= Cardinality(inFlight) + 1
        /\ Cardinality(inFlight') \in Nat
    <3>1. /\ IsFiniteSet(inFlight')
          /\ Cardinality(inFlight') = IF request \in inFlight THEN Cardinality(inFlight)
                                   ELSE Cardinality(inFlight) + 1
      <4>1. IsFiniteSet(inFlight)
        BY DEF Counted
      <4>2. QED BY <2>1, <4>1, FS_AddElement
    <3>2. QED BY <1>1, <3>1
  <2>4. QED BY <1>1, <2>1, <2>2, <2>3 DEF Counted
<1>8. ASSUME NEW w \in ServiceWorkers, Stage(w) PROVE Counted'
  <2>1. staged' = staged \cup {Answer(w)} /\ UNCHANGED <<pending, inFlight, completions>>
    BY <1>8 DEF Stage
  <2>2. IsFiniteSet(staged')
    BY <2>1, FS_AddElement DEF Counted
  <2>3. QED BY <2>1, <2>2 DEF Counted
<1>9. ASSUME NEW w \in ServiceWorkers, FlushStaged(w) PROVE Counted'
  <2>1. PICK moved \in FlushChoices :
          Flushed(moved) /\ completions' = completions \cup moved /\ pending' = pending
    BY <1>9 DEF FlushStaged
  <2>2. QED BY <2>1, FlushFits
<1>10. ASSUME NEW w \in ServiceWorkers,
              Process(w) \/ ReadCurrent(w) \/ CheckHandle(w) \/ Sanitize(w)
       PROVE  Counted'
  BY <1>10, CountedShrinks DEF Process, ReadCurrent, CheckHandle, Sanitize, queueVars
<1>11. CASE UNCHANGED hostVars
  BY <1>11, CountedShrinks DEF hostVars, queueVars
<1>12. CASE CancelSeveral
  BY <1>12, CountedShrinks DEF CancelSeveral
<1>13. QED BY <1>2, <1>3, <1>4, <1>5, <1>6, <1>7, <1>8, <1>9, <1>10, <1>11, <1>12
           DEF HostStep, HostNext, Pumping, ServiceStep

-----------------------------------------------------------------------------
(***************************************************************************)
(* The theorems                                                            *)
(***************************************************************************)
LEMMA NextTypes == Types /\ [HostStep]_hostVars => Types'
<1>1. Types /\ UNCHANGED hostVars => Types'
  BY DEF Types, hostVars, appVars, queueVars
<1>2. QED BY <1>1, HostTaskTypes, ServiceTypes DEF HostStep, HostNext

LEMMA InitHostInv == HostInit => HostInv /\ Counted
<1> SUFFICES ASSUME HostInit PROVE HostInv /\ Counted
  OBVIOUS
<1>1. FreshSlot \in Slot /\ ~FreshSlot.active
  BY HostAssumption DEF FreshSlot, Slot, Instances
<1>2. Types
  <2>1. nextInstance \in 1 .. MaxInstances + 1 /\ nextJob \in 1 .. MaxJobs + 1
    BY HostAssumption DEF HostInit
  <2>2. handles \in [1 .. HandleSlots -> Slot] /\ service \in [ServiceWorkers -> ServiceState]
    BY <1>1 DEF HostInit, ServiceState
  <2>3. QED BY <2>1, <2>2 DEF HostInit, Types
<1>3. Busy = {} /\ Bearers = {}
  BY DEF HostInit, Busy, Bearers, Working, IdleService
<1>4. Known = {} /\ Held = {} /\ InHost = {}
  BY <1>3 DEF HostInit, Known, Requests, Held, InHost, Bearers
<1>5. Numbered
  BY <1>4 DEF HostInit, Numbered
<1>6. Placed
  BY DEF HostInit, Placed, Requests
<1>7. Worked
  BY <1>3 DEF Worked
<1>8. HandlesDated
  BY <1>1, <1>4 DEF HostInit, HandlesDated
<1>9. ResultsLive
  BY <1>4 DEF ResultsLive
<1>10. Counted
  <2>1. InFlightCapacity \in Nat /\ CompletionCapacity \in Nat
    BY HostAssumption
  <2>2. QED BY <2>1, FS_EmptySet DEF HostInit, Counted
<1>11. QED BY <1>2, <1>5, <1>6, <1>7, <1>8, <1>9, <1>10 DEF HostInv

LEMMA NextHostInv == HostInv /\ [HostStep]_hostVars => HostInv'
<1> SUFFICES ASSUME HostInv, [HostStep]_hostVars PROVE HostInv'
  OBVIOUS
<1>1. Types /\ JobsInv /\ HandlesDated /\ ResultsLive
  BY DEF HostInv, JobsInv
<1>2. Types' /\ JobsInv' /\ HandlesDated' /\ ResultsLive'
  BY <1>1, NextTypes, NextJobsInv, NextHandlesDated, NextResultsLive
<1>3. QED BY <1>2 DEF HostInv, JobsInv

\* What the invariant says of types, jobs and handles.
LEMMA HostInvSays ==
  /\ HostInv /\ Counted => HostTypeOK
  /\ HostInv => JobsAnsweredOnce /\ HandlesNameTheirOwners /\ CurrentResultsAreLive
<1>1. HostInv /\ Counted => HostTypeOK
  BY DEF HostInv, Types, Counted, HostTypeOK, Slot
<1>2. HostInv => JobsAnsweredOnce
  <2> SUFFICES ASSUME HostInv PROVE JobsAnsweredOnce
    OBVIOUS
  <2>1. Types /\ Numbered /\ Placed
    BY DEF HostInv
  <2>2. \A c \in staged \cup completions \cup delivered : c.request \in Known
    BY <2>1 DEF Placed, Known, Requests
  <2>3. ASSUME NEW a \in staged \cup completions \cup delivered,
               NEW b \in staged \cup completions \cup delivered,
               a.request.job = b.request.job
        PROVE  a = b
    <3>1. a.request = b.request
      BY <2>1, <2>2, <2>3 DEF Numbered
    <3>2. \A c \in staged : c.request \in inFlight
      BY <2>1 DEF Placed, Requests
    <3>3. \A c \in completions \cup delivered : c.request \notin inFlight
      BY <2>1 DEF Placed
    <3>4. QED BY <2>1, <2>3, <3>1, <3>2, <3>3 DEF Placed
  <2>4. QED BY <2>1, <2>3 DEF Placed, JobsAnsweredOnce
<1>3. HostInv => HandlesNameTheirOwners
  <2> SUFFICES ASSUME HostInv PROVE HandlesNameTheirOwners
    OBVIOUS
  <2>1. Types /\ HandlesDated
    BY DEF HostInv
  <2>2. QED BY <2>1, OwnersOfSlots DEF HandlesDated, HandlesNameTheirOwners
<1>4. HostInv => CurrentResultsAreLive
  BY DEF HostInv, ResultsLive, InHost, CurrentResultsAreLive, HostIdle
<1>5. QED BY <1>1, <1>2, <1>3, <1>4

\* The inductive invariant: where every request and every result handle is, whatever the
\* service workers do between the locks of a submission, a pump or a termination.
THEOREM HostInvariant == HostSpec => []HostInv
<1>1. HostInit => HostInv
  BY InitHostInv
<1>2. HostInv /\ [HostNext]_hostVars => HostInv'
  BY NextHostInv DEF HostStep
<1>3. QED BY <1>1, <1>2, PTL DEF HostSpec

\* The variables keep their types, a request counts against max_in_flight_jobs from its
\* submission until the completion queue has taken its completion over, and no flush
\* overfills that queue.
THEOREM HostTypes == HostSpec => []HostTypeOK
<1>1. HostInit => Counted
  BY InitHostInv
<1>2. HostSpec => []Counted
  <2>1. Counted /\ [HostNext]_hostVars => Counted'
    BY NextCounted DEF HostStep
  <2>2. QED BY <1>1, <2>1, PTL DEF HostSpec
<1>3. QED BY <1>2, HostInvSays, HostInvariant, PTL

\* No job is answered twice, and none is answered while it still waits or is processed,
\* whichever worker pops it and whenever its App is terminated.
THEOREM JobsAreAnsweredOnce == HostSpec => []JobsAnsweredOnce
<1>1. QED BY HostInvSays, HostInvariant, PTL

\* A handle in anybody's hands names its own App's and client's slot or none, however
\* often the slot was released, used again or retired.
THEOREM HandlesStayWithOwners == HostSpec => []HandlesNameTheirOwners
<1>1. QED BY HostInvSays, HostInvariant, PTL

\* No slot of the handle table is lost, whatever provider, worker, queue and consumer do with a
\* result between its allocation and its release: what is allocated is in somebody's hands, or
\* about to be released by the termination of its App.
THEOREM HandlesStayHeld == HostSpec => []HandlesAreHeld
<1>1. HostInit => RefusedAreDead /\ HandlesAreHeld
  BY HostAssumption DEF HostInit, RefusedAreDead, HandlesAreHeld, IdleService, FreshSlot
<1>2. HostInv /\ RefusedAreDead /\ HandlesAreHeld /\ [HostNext]_hostVars
        => RefusedAreDead' /\ HandlesAreHeld'
  BY NextRefused, NextHandlesHeld DEF HostInv, KeepingStep
<1>3. QED BY <1>1, <1>2, HostInvariant, PTL DEF HostSpec

\* No completion reaches the App that runs without the result it was promised: what
\* push_completion lets through stays allocated until it is delivered or its App ends.
THEOREM CurrentResultsStayLive == HostSpec => []CurrentResultsAreLive
<1>1. QED BY HostInvSays, HostInvariant, PTL

-----------------------------------------------------------------------------
(***************************************************************************)
(* The inductive invariant of the records                                  *)
(***************************************************************************)
Marked == {r \in records : r.cancelled}

\* A record has the fields of a record.
Shaped ==
  \A r \in records :
    /\ DOMAIN r = {"token", "job", "ready", "cancelled", "lease"}
    /\ r.cancelled \in BOOLEAN

\* The ledger names the records, each of them once, and all are of the session.
Entered ==
  /\ Tokens(records) = tombstones
  /\ \A r, s \in records : r.token = s.token => r = s
  /\ \A r \in records : r.token.session = Session

\* Between the supervisor's part of the teardown and the bridge's the ledger is ahead: all
\* is cancelled there.
Crossed ==
  /\ phase # "begun" => cancelled = Tokens(Marked)
  /\ phase = "begun" => cancelled = tombstones

\* What the place of the supervisor task says of session, bridge and pump.
Phased ==
  /\ phase \in {"idle", "run", "begun", "bridged", "retired", "ended"}
  /\ toDeliver # {} => phase \in {"run", "bridged"}
  /\ phase \in {"idle", "ended"} => current = NoSession /\ retiring = NoSession /\ records = {}
  /\ phase = "run" => current # NoSession
  /\ phase \in {"begun", "bridged", "retired"} => current = NoSession /\ retiring # NoSession

\* Payloads are sealed for the session only.
SealedHere ==
  \A i \in DOMAIN payloads :
    payloads[i].active => Session # NoSession /\ payloads[i].session = Session

LedgerInv == Shaped /\ Entered /\ Crossed /\ Phased /\ SealedHere

-----------------------------------------------------------------------------
(***************************************************************************)
(* What the helpers of the bridge do to records and leases                 *)
(***************************************************************************)
\* Erasing the tokens of records from the ledger is what taking the records away does to
\* their tokens.
LEMMA TokensGone ==
  ASSUME Entered, NEW gone \in SUBSET records
  PROVE  /\ Tokens(records \ gone) = tombstones \ Tokens(gone)
         /\ Tokens({r \in records \ gone : r.cancelled}) = Tokens(Marked) \ Tokens(gone)
  BY DEF Entered, Tokens, Marked

\* Releasing leases activates no slot, and leaves active ones as they are.
LEMMA LeasesGone ==
  ASSUME NEW slots, Released(slots), SealedHere, UNCHANGED <<current, retiring>>
  PROVE  SealedHere'
<1> SUFFICES ASSUME NEW i \in DOMAIN payloads', payloads'[i].active
             PROVE  Session # NoSession /\ payloads'[i].session = Session
  BY DEF SealedHere, Session
<1>1. payloads' = [j \in DOMAIN payloads |->
                     IF j \in slots THEN ReleaseSlot(payloads, j)[j] ELSE payloads[j]]
  BY DEF Released, PayloadsBecome
<1>2. i \in DOMAIN payloads
  BY <1>1
<1>3. i \notin slots
  <2> SUFFICES ASSUME i \in slots
               PROVE  FALSE
    OBVIOUS
  <2>1. payloads'[i] = FreeSlot(NextLeaseGeneration(payloads[i].generation))
    BY <1>1, <1>2 DEF ReleaseSlot
  <2> QED
    BY <2>1 DEF FreeSlot
<1>4. payloads'[i] = payloads[i]
  BY <1>1, <1>2, <1>3
<1> QED
  BY <1>2, <1>4 DEF SealedHere

\* A step that leaves session, records and ledger alone.
LEMMA RecordsStay ==
  ASSUME LedgerInv, SealedHere',
         UNCHANGED <<current, retiring, records, serviceVars>>,
         Phased', phase = "begun" <=> phase' = "begun"
  PROVE  LedgerInv'
<1>1. Shaped' /\ Entered'
  BY DEF LedgerInv, Shaped, Entered, Tokens, Session, serviceVars
<1>2. Marked' = Marked
  BY DEF Marked
<1>3. Crossed'
  BY <1>2 DEF LedgerInv, Crossed, Tokens, serviceVars
<1> QED
  BY <1>1, <1>3 DEF LedgerInv

\* A step that takes records away, their tokens from the ledger and maybe their leases.
LEMMA RecordsGo ==
  ASSUME LedgerInv, NEW gone \in SUBSET records, SealedHere', Phased',
         records' = records \ gone, Erased(Tokens(gone)),
         UNCHANGED <<current, retiring>>, phase # "begun", phase' # "begun"
  PROVE  LedgerInv'
<1>1. Shaped'
  BY DEF LedgerInv, Shaped
<1>2. Entered'
  BY TokensGone DEF LedgerInv, Entered, Erased, Session, Tokens
<1>3. Marked' = {r \in records \ gone : r.cancelled}
  BY DEF Marked
<1>4. cancelled' = Tokens(Marked)'
  BY <1>3, TokensGone DEF LedgerInv, Crossed, Erased, Tokens
<1> QED
  BY <1>1, <1>2, <1>4 DEF LedgerInv, Crossed

-----------------------------------------------------------------------------
LEMMA InitLedgerInv == SessionInit => LedgerInv
<1> SUFFICES ASSUME SessionInit
             PROVE  LedgerInv
  OBVIOUS
<1>1. /\ current = NoSession /\ retiring = NoSession /\ records = {} /\ toDeliver = {}
      /\ phase = "idle" /\ tombstones = {} /\ cancelled = {}
      /\ payloads = [i \in 1 .. PayloadLeases |-> FreeSlot(1)]
  BY DEF SessionInit, Init, NewRegistry
<1>2. SealedHere
  BY <1>1 DEF SealedHere, FreeSlot
<1> QED
  BY <1>1, <1>2 DEF LedgerInv, Shaped, Entered, Crossed, Phased, Tokens, Marked

\* A request that the bridge accepts gets a record and an entry, both unmarked.
LEMMA RequestsAreEntered ==
  ASSUME LedgerInv, PumpRequest, NEW q, SubmitRequest(TokenOf(q))
  PROVE  LedgerInv'
<1> DEFINE token == TokenOf(q)
<1>1. /\ phase = "run" /\ phase' = "run" /\ toDeliver' = toDeliver
      /\ UNCHANGED <<current, retiring, payloads>>
  BY DEF PumpRequest, Loops, sessionVars, SubmitRequest, payloadVars
<1>2. SealedHere' /\ Phased'
  BY <1>1 DEF LedgerInv, SealedHere, Session, Phased
<1>3. cancelled' = cancelled
  BY DEF SubmitRequest
<1>4. CASE TurnAway(token)
  BY <1>1, <1>2, <1>3, <1>4, RecordsStay DEF TurnAway, serviceVars
<1>5. ASSUME NEW job, token \notin Tokens(records) \cup tombstones,
             tombstones' = tombstones \cup {token},
             records' = records \cup {NewRecord(token, job)}
      PROVE  LedgerInv'
  <2> DEFINE new == NewRecord(token, job)
  <2>1. /\ DOMAIN new = {"token", "job", "ready", "cancelled", "lease"}
        /\ new.token = token /\ new.cancelled = FALSE
    BY DEF NewRecord
  <2>2. token.session = Session
    BY DEF TokenOf
  <2> HIDE DEF new, token
  <2>3. Shaped'
    BY <1>5, <2>1 DEF LedgerInv, Shaped, new, token
  <2>4. Entered'
    BY <1>1, <1>5, <2>1, <2>2 DEF LedgerInv, Entered, Session, Tokens, new, token
  <2>5. Marked' = Marked
    BY <1>5, <2>1 DEF Marked, new, token
  <2>6. Crossed'
    BY <1>1, <1>3, <2>5 DEF LedgerInv, Crossed, Tokens
  <2> QED
    BY <1>2, <2>3, <2>4, <2>6 DEF LedgerInv
<1> QED
  BY <1>4, <1>5 DEF SubmitRequest, LetIn, NoPlaceFor, AcceptedByHost, RejectedByHost

\* A request that is cancelled goes with its entry, or keeps both, marked.
LEMMA CancelsAreEntered ==
  ASSUME LedgerInv, PumpRequest, NEW q, CancelRequest(TokenOf(q))
  PROVE  LedgerInv'
<1> DEFINE token == TokenOf(q)
           inWork == {r \in RecordOf(token) : ~r.ready /\ r.job \notin pending}
           gone == RecordOf(token) \ inWork
           kept == {[r EXCEPT !.cancelled = TRUE] : r \in inWork}
<1>1. /\ phase = "run" /\ phase' = "run" /\ toDeliver' = toDeliver
      /\ UNCHANGED <<current, retiring>>
  BY DEF PumpRequest, Loops, sessionVars
<1>2. /\ records' = (records \ RecordOf(token)) \cup kept
      /\ tombstones' = tombstones \ Tokens(gone)
      /\ cancelled' = (cancelled \cup Tokens(inWork)) \ Tokens(gone)
      /\ Released(LeaseSlots(gone))
  BY DEF CancelRequest
<1>3. SealedHere'
  BY <1>1, <1>2, LeasesGone DEF LedgerInv
<1>4. Phased'
  BY <1>1 DEF LedgerInv, Phased
<1>5. /\ RecordOf(token) = {r \in records : r.token = token}
      /\ inWork \subseteq RecordOf(token)
  BY DEF RecordOf
<1>6. \A r \in inWork : LET k == [r EXCEPT !.cancelled = TRUE] IN
        /\ DOMAIN k = {"token", "job", "ready", "cancelled", "lease"}
        /\ k.token = token /\ k.cancelled = TRUE
  BY <1>5 DEF LedgerInv, Shaped
<1>7. \A k \in kept :
        /\ DOMAIN k = {"token", "job", "ready", "cancelled", "lease"}
        /\ k.token = token /\ k.cancelled = TRUE
  BY <1>6
<1>8. /\ \A r, s \in RecordOf(token) : r = s
      /\ \A r, s \in kept : r = s
      /\ kept # {} <=> inWork # {}
  <2>1. \A r, s \in RecordOf(token) : r = s
    BY <1>5 DEF LedgerInv, Entered
  <2>2. \A r, s \in inWork : r = s
    BY <1>5, <2>1
  <2>3. \A k, l \in kept : k = l
    BY <2>2
  <2> QED
    BY <2>1, <2>3
<1>9. token.session = Session
  BY DEF TokenOf
<1>10. /\ \A r \in records' : (r \in records /\ r.token # token) \/ r \in kept
       /\ \A r \in records : r.token # token => r \in records'
       /\ \A r \in kept : r \in records'
  BY <1>2, <1>5
<1>11. /\ \A r \in gone : r \in records /\ r.token = token
       /\ \A r \in inWork : r \in records /\ r.token = token
       /\ gone \cap inWork = {} /\ gone \cup inWork = RecordOf(token)
  BY <1>5
<1> HIDE DEF inWork, gone, kept, token
<1>12. Shaped'
  BY <1>7, <1>10 DEF LedgerInv, Shaped
<1>13. Entered'
  <2>1. Tokens(records') = tombstones'
    <3>1. CASE inWork = {}
      <4>1. records' = records \ gone
        BY <1>2, <1>8, <1>11, <3>1
      <4> QED
        BY <1>2, <1>11, <4>1, TokensGone DEF LedgerInv
    <3>2. CASE inWork # {}
      <4>1. gone = {}
        BY <1>8, <1>11, <3>2
      <4>2. tombstones' = Tokens(records)
        BY <1>2, <4>1 DEF LedgerInv, Entered, Tokens
      <4>3. \E k \in kept : k \in records' /\ k.token = token
        BY <1>7, <1>8, <1>10, <3>2
      <4>4. token \in Tokens(records)
        BY <1>11, <3>2 DEF Tokens
      <4>5. \A x : x \in Tokens(records') <=> x \in Tokens(records)
        BY <1>7, <1>10, <4>3, <4>4 DEF Tokens
      <4> QED
        BY <4>2, <4>5
    <3> QED
      BY <3>1, <3>2
  <2>2. \A r, s \in records' : r.token = s.token => r = s
    BY <1>7, <1>8, <1>10 DEF LedgerInv, Entered
  <2>3. \A r \in records' : r.token.session = Session
    BY <1>7, <1>9, <1>10 DEF LedgerInv, Entered
  <2> QED
    BY <1>1, <2>1, <2>2, <2>3 DEF Entered, Tokens, Session
<1>14. cancelled' = Tokens(Marked')
  <2>1. cancelled = Tokens(Marked)
    BY <1>1 DEF LedgerInv, Crossed
  <2>2. Marked' = {r \in records' : r.cancelled}
    BY DEF Marked
  <2>3. CASE inWork = {}
    <3>1. records' = records \ gone
      BY <1>2, <1>8, <1>11, <2>3
    <3>2. Tokens(inWork) = {}
      BY <2>3 DEF Tokens
    <3> QED
      BY <1>2, <1>11, <2>1, <2>2, <3>1, <3>2, TokensGone DEF LedgerInv
  <2>4. CASE inWork # {}
    <3>1. gone = {}
      BY <1>8, <1>11, <2>4
    <3>2. cancelled' = Tokens(Marked) \cup {token}
      BY <1>2, <1>11, <2>1, <2>4, <3>1 DEF Tokens
    <3>3. \E k \in kept : k \in records' /\ k.token = token /\ k.cancelled
      BY <1>7, <1>8, <1>10, <2>4
    <3>4. \A x : x \in Tokens(Marked') <=> x \in Tokens(Marked) \cup {token}
      BY <1>7, <1>10, <2>2, <3>3 DEF Tokens, Marked
    <3> QED
      BY <3>2, <3>4
  <2> QED
    BY <2>3, <2>4
<1>15. Crossed'
  BY <1>1, <1>14 DEF Crossed, Tokens
<1> QED
  BY <1>3, <1>4, <1>12, <1>13, <1>15 DEF LedgerInv

\* A completion makes the record of its job ready, which changes neither token nor mark.
LEMMA CompletionsAreFiled ==
  ASSUME LedgerInv, NEW c, PumpCompletion(c)
  PROVE  LedgerInv'
<1>1. /\ phase \in {"run", "bridged"} /\ phase' = phase
      /\ UNCHANGED <<current, retiring, serviceVars>>
  BY DEF PumpCompletion, MayPump, sessionVars
<1>2. Phased'
  BY <1>1 DEF LedgerInv, Phased
<1>3. CASE UNCHANGED <<records, payloadVars>>
  <2>1. SealedHere'
    BY <1>1, <1>3 DEF LedgerInv, SealedHere, Session, payloadVars
  <2> QED
    BY <1>1, <1>2, <1>3, <2>1, RecordsStay
<1>4. ASSUME NEW r \in records, NEW lease, FiledAs(r, lease), SealedHere'
      PROVE  LedgerInv'
  <2> DEFINE new == Filed(r, lease)
  <2>1. records' = (records \ {r}) \cup {new}
    BY <1>4 DEF FiledAs
  <2>2. /\ DOMAIN new = {"token", "job", "ready", "cancelled", "lease"}
        /\ new.token = r.token /\ new.cancelled = r.cancelled /\ r.cancelled \in BOOLEAN
    BY DEF LedgerInv, Shaped, Filed
  <2> HIDE DEF new
  <2>3. Shaped'
    BY <2>1, <2>2 DEF LedgerInv, Shaped
  <2>4. Entered'
    <3>1. \A x : x \in Tokens(records') <=> x \in Tokens(records)
      BY <2>1, <2>2 DEF Tokens
    <3>2. tombstones' = Tokens(records)
      BY <1>1 DEF LedgerInv, Entered, serviceVars
    <3>3. Tokens(records') = tombstones'
      BY <3>1, <3>2
    <3>4. /\ \A s \in records \ {r} : s.token # r.token
          /\ \A s, t \in records \ {r} : s.token = t.token => s = t
          /\ \A s \in records : s.token.session = Session
      BY DEF LedgerInv, Entered
    <3>5. \A s, t \in records' : s.token = t.token => s = t
      BY <2>1, <2>2, <3>4
    <3>6. \A s \in records' : s.token.session = Session
      BY <2>1, <2>2, <3>4
    <3> QED
      BY <1>1, <3>3, <3>5, <3>6 DEF Entered, Tokens, Session
  <2>5. Crossed'
    <3>1. /\ Marked = {s \in records : s.cancelled}
          /\ Marked' = {s \in records' : s.cancelled}
      BY DEF Marked
    <3>2. CASE r.cancelled = TRUE
      <4>1. Marked' = (Marked \ {r}) \cup {new} /\ r \in Marked
        BY <2>1, <2>2, <3>1, <3>2
      <4>2. \A x : x \in Tokens(Marked') <=> x \in Tokens(Marked)
        BY <2>2, <4>1 DEF Tokens
      <4>3. cancelled' = Tokens(Marked')
        BY <1>1, <4>2 DEF LedgerInv, Crossed, serviceVars
      <4> QED
        BY <1>1, <4>3 DEF Crossed, Tokens
    <3>3. CASE r.cancelled = FALSE
      <4>1. Marked' = Marked
        BY <2>1, <2>2, <3>1, <3>3
      <4> QED
        BY <1>1, <4>1 DEF LedgerInv, Crossed, Tokens, serviceVars
    <3> QED
      BY <2>2, <3>2, <3>3
  <2> QED
    BY <1>2, <1>4, <2>3, <2>4, <2>5 DEF LedgerInv
<1>5. ASSUME NEW r \in records, FiledAs(r, 0), UNCHANGED payloadVars
      PROVE  LedgerInv'
  <2>1. SealedHere'
    BY <1>1, <1>5 DEF LedgerInv, SealedHere, Session, payloadVars
  <2> QED
    BY <1>4, <1>5, <2>1
<1>6. ASSUME NEW r \in records, NEW i \in 1 .. PayloadLeases, PublishedFor(r, i)
      PROVE  LedgerInv'
  <2>1. /\ current # NoSession /\ r.token.session = current
        /\ payloads' = Publish(payloads, i, r.token.session, 1)
        /\ FiledAs(r, LeaseId(i, payloads[i].generation))
    BY <1>6 DEF PublishedFor, Accepts, PayloadsBecome
  <2>2. \A j \in DOMAIN payloads' :
          /\ j \in DOMAIN payloads
          /\ j # i => payloads'[j] = payloads[j]
          /\ j = i => payloads'[j].session = current
    BY <2>1 DEF Publish
  <2>3. SealedHere'
    BY <1>1, <2>1, <2>2 DEF LedgerInv, SealedHere, Session
  <2> QED
    BY <1>4, <2>1, <2>3
<1> QED
  BY <1>3, <1>5, <1>6 DEF PumpCompletion, FileCompletion

\* A record leaves with its entry, delivered or discarded; if the inbox is full both stay.
LEMMA DeliveriesAreEntered ==
  ASSUME LedgerInv, NEW token, DeliverNext(token)
  PROVE  LedgerInv'
<1>1. /\ phase \in {"run", "bridged"} /\ phase' = phase
      /\ UNCHANGED <<current, retiring>>
  BY DEF DeliverNext, sessionVars, LedgerInv, Phased
<1>2. Phased'
  BY <1>1 DEF LedgerInv, Phased, DeliverNext, RecordOf
<1>3. PICK r \in records :
        \/ Deliver(r) /\ UNCHANGED payloadVars
        \/ DiscardRecord(r)
  BY DEF DeliverNext, RecordOf
<1>4. {r.token} = Tokens({r})
  BY DEF Tokens
<1>5. CASE UNCHANGED <<records, serviceVars, payloadVars>>
  <2>1. SealedHere'
    BY <1>1, <1>5 DEF LedgerInv, SealedHere, Session, payloadVars
  <2> QED
    BY <1>1, <1>2, <1>5, <2>1, RecordsStay
<1>6. CASE records' = records \ {r} /\ Erased({r.token}) /\ UNCHANGED payloadVars
  <2>1. SealedHere'
    BY <1>1, <1>6 DEF LedgerInv, SealedHere, Session, payloadVars
  <2> QED
    BY <1>1, <1>2, <1>4, <1>6, <2>1, RecordsGo
<1>7. CASE DiscardRecord(r)
  <2>1. records' = records \ {r} /\ Erased({r.token}) /\ Released(LeaseSlots({r}))
    BY <1>7 DEF DiscardRecord
  <2>2. SealedHere'
    BY <1>1, <2>1, LeasesGone DEF LedgerInv
  <2> QED
    BY <1>1, <1>2, <1>4, <2>1, <2>2, RecordsGo
<1> QED
  BY <1>3, <1>5, <1>6, <1>7 DEF Deliver

-----------------------------------------------------------------------------
(***************************************************************************)
(* The session begins and ends                                             *)
(***************************************************************************)
LEMMA BeginningsAreEntered ==
  ASSUME LedgerInv, BeginSession
  PROVE  LedgerInv'
<1>1. /\ phase = "idle" /\ phase' = "run" /\ instance # 0
      /\ current' = [app |-> instance, generation |-> nextGeneration]
      /\ UNCHANGED <<retiring, records, toDeliver, payloads, serviceVars>>
      /\ records = {}
  BY DEF BeginSession, Begin, payloadVars, LedgerInv, Phased
<1>2. current' # NoSession
  BY <1>1 DEF NoSession
<1>3. Phased'
  BY <1>1, <1>2 DEF LedgerInv, Phased
<1>4. \A i \in DOMAIN payloads : ~payloads[i].active
  BY <1>1 DEF LedgerInv, SealedHere, Session, Phased
<1>5. SealedHere'
  BY <1>1, <1>4 DEF SealedHere
<1>6. Shaped' /\ Entered' /\ Crossed'
  BY <1>1 DEF LedgerInv, Shaped, Entered, Crossed, Tokens, Marked, serviceVars
<1> QED
  BY <1>3, <1>5, <1>6 DEF LedgerInv

\* Every entry is of the session, so all are marked.
LEMMA ShutdownsAreEntered ==
  ASSUME LedgerInv, BeginShutdown
  PROVE  LedgerInv'
<1>1. /\ phase = "run" /\ phase' = "begun" /\ toDeliver = {} /\ Session = current
      /\ current # NoSession /\ current' = NoSession /\ retiring' = current
      /\ cancelled' = cancelled \cup {t \in tombstones : t.session = current}
      /\ UNCHANGED <<records, toDeliver, payloads, tombstones>>
  BY DEF BeginShutdown, Loops, BeginTeardown, payloadVars, LedgerInv, Phased, Session
<1>2. Session' = Session
  BY <1>1 DEF Session
<1>3. Phased' /\ SealedHere' /\ Shaped'
  BY <1>1, <1>2 DEF LedgerInv, Phased, SealedHere, Shaped
<1>4. Entered'
  BY <1>1, <1>2 DEF LedgerInv, Entered, Tokens
<1>5. {t \in tombstones : t.session = current} = tombstones
  BY <1>1 DEF LedgerInv, Entered, Tokens
<1>6. cancelled \subseteq tombstones
  BY <1>1 DEF LedgerInv, Crossed, Entered, Tokens, Marked
<1>7. Crossed'
  BY <1>1, <1>5, <1>6 DEF Crossed
<1> QED
  BY <1>3, <1>4, <1>7 DEF LedgerInv

\* What is in flight keeps record and entry; both are marked now.
LEMMA BridgeFollows ==
  ASSUME LedgerInv, BridgeBeginTeardown
  PROVE  LedgerInv'
<1> DEFINE inWork == {r \in records : ~r.ready /\ r.job \notin pending}
           gone == records \ inWork
           kept == {[r EXCEPT !.cancelled = TRUE] : r \in inWork}
<1>1. /\ phase = "begun" /\ phase' = "bridged" /\ records' = kept
      /\ Erased(Tokens(gone)) /\ Released(LeaseSlots(gone))
      /\ UNCHANGED <<current, retiring, toDeliver>>
  BY DEF BridgeBeginTeardown, sessionVars
<1>2. SealedHere' /\ Phased'
  BY <1>1, LeasesGone DEF LedgerInv, Phased
<1>3. \A r \in inWork : LET k == [r EXCEPT !.cancelled = TRUE] IN
        /\ DOMAIN k = {"token", "job", "ready", "cancelled", "lease"}
        /\ k.token = r.token /\ k.cancelled = TRUE
  BY DEF LedgerInv, Shaped
<1>4. /\ \A k \in kept : \E r \in inWork : k = [r EXCEPT !.cancelled = TRUE] /\ k.token = r.token
      /\ \A r \in inWork : \E k \in kept : k.token = r.token
      /\ \A k \in kept : /\ DOMAIN k = {"token", "job", "ready", "cancelled", "lease"}
                         /\ k.cancelled = TRUE
  BY <1>3
<1>5. inWork \subseteq records
  OBVIOUS
<1>6. Tokens(inWork) = tombstones \ Tokens(gone)
  <2>1. inWork = records \ gone
    OBVIOUS
  <2> QED
    BY <2>1, TokensGone DEF LedgerInv
<1> HIDE DEF inWork, gone, kept
<1>7. \A x : x \in Tokens(kept) <=> x \in Tokens(inWork)
  BY <1>4 DEF Tokens
<1>8. Tokens(kept) = Tokens(inWork)
  BY <1>7
<1>9. Shaped'
  BY <1>1, <1>4 DEF Shaped
<1>10. Entered'
  <2>1. Tokens(records)' = tombstones'
    BY <1>1, <1>6, <1>8 DEF Erased, Tokens
  <2>2. \A r, s \in records' : r.token = s.token => r = s
    <3> SUFFICES ASSUME NEW r \in kept, NEW s \in kept, r.token = s.token
                 PROVE  r = s
      BY <1>1
    <3>1. PICK a \in inWork : r = [a EXCEPT !.cancelled = TRUE] /\ r.token = a.token
      BY <1>4
    <3>2. PICK b \in inWork : s = [b EXCEPT !.cancelled = TRUE] /\ s.token = b.token
      BY <1>4
    <3>3. a = b
      BY <1>5, <3>1, <3>2 DEF LedgerInv, Entered
    <3> QED
      BY <3>1, <3>2, <3>3
  <2>3. \A r \in records' : r.token.session = Session
    <3> SUFFICES ASSUME NEW r \in kept
                 PROVE  r.token.session = Session
      BY <1>1
    <3> QED
      BY <1>4, <1>5 DEF LedgerInv, Entered
  <2> QED
    BY <1>1, <2>1, <2>2, <2>3 DEF Entered, Session
<1>11. Crossed'
  <2>1. Marked' = kept
    BY <1>1, <1>4 DEF Marked
  <2>2. cancelled' = Tokens(inWork)
    BY <1>1, <1>6 DEF Erased, LedgerInv, Crossed
  <2>3. cancelled' = Tokens(Marked)'
    BY <1>8, <2>1, <2>2 DEF Tokens
  <2> QED
    BY <1>1, <2>3 DEF Crossed
<1> QED
  BY <1>2, <1>9, <1>10, <1>11 DEF LedgerInv

LEMMA BridgeRetires ==
  ASSUME LedgerInv, BridgeCompleteTeardown
  PROVE  LedgerInv'
<1>1. /\ phase = "bridged" /\ phase' = "retired" /\ toDeliver = {}
      /\ records' = records \ Retirable /\ Retirable \in SUBSET records
      /\ Erased(Tokens(Retirable)) /\ Released(LeaseSlots(Retirable))
      /\ UNCHANGED <<current, retiring, toDeliver>>
  BY DEF BridgeCompleteTeardown, sessionVars, Retirable
<1>2. SealedHere' /\ Phased'
  <2>1. SealedHere'
    BY <1>1, LeasesGone DEF LedgerInv
  <2>2. Phased'
    BY <1>1 DEF LedgerInv, Phased
  <2> QED
    BY <2>1, <2>2
<1> QED
  BY <1>1, <1>2, RecordsGo

\* The supervisor forgets what the ledger, the leases and the marks hold of the session,
\* which is all of it.
LEMMA EndingsAreEntered ==
  ASSUME LedgerInv, EndSession
  PROVE  LedgerInv'
<1>1. /\ phase = "retired" /\ phase' \in {"idle", "ended"} /\ records' = {}
      /\ toDeliver = {} /\ toDeliver' = {}
      /\ current = NoSession /\ current' = NoSession /\ Session = retiring
      /\ retiring' = NoSession
      /\ payloads' = ReleaseSession(payloads, retiring)
      /\ tombstones' = {t \in tombstones : t.session # retiring}
      /\ cancelled' = {t \in cancelled : t.session # retiring}
  BY DEF EndSession, CompleteTeardown, LedgerInv, Phased, Session
<1>2. Phased'
  BY <1>1 DEF Phased
<1>3. \A t \in tombstones : t.session = retiring
  BY <1>1 DEF LedgerInv, Entered, Tokens
<1>4. cancelled \subseteq tombstones
  BY <1>1 DEF LedgerInv, Crossed, Entered, Tokens, Marked
<1>5. tombstones' = {} /\ cancelled' = {}
  BY <1>1, <1>3, <1>4
<1>6. SealedHere'
  <2> SUFFICES ASSUME NEW i \in DOMAIN payloads', payloads'[i].active
               PROVE  FALSE
    BY DEF SealedHere
  <2>1. /\ i \in DOMAIN payloads
        /\ payloads'[i] = IF i \in SlotsOf(payloads, retiring)
                          THEN FreeSlot(NextLeaseGeneration(payloads[i].generation))
                          ELSE payloads[i]
    BY <1>1 DEF ReleaseSession
  <2>2. i \notin SlotsOf(payloads, retiring)
    BY <2>1 DEF FreeSlot
  <2>3. payloads[i].active
    BY <2>1, <2>2
  <2> QED
    BY <1>1, <2>1, <2>2, <2>3 DEF LedgerInv, SealedHere, SlotsOf, ActiveSlots
<1>7. Shaped' /\ Entered' /\ Crossed'
  BY <1>1, <1>5 DEF Shaped, Entered, Crossed, Tokens, Marked
<1> QED
  BY <1>2, <1>6, <1>7 DEF LedgerInv

-----------------------------------------------------------------------------
\* What a step may do to the records.
LEMMA NextLedgerInv == LedgerInv /\ [SessionNext]_allVars => LedgerInv'
<1> SUFFICES ASSUME LedgerInv, [SessionNext]_allVars
             PROVE  LedgerInv'
  OBVIOUS
<1>1. ASSUME UNCHANGED <<sessionVars, payloadVars, serviceVars, bridgeVars>>
      PROVE  LedgerInv'
  BY <1>1 DEF LedgerInv, Shaped, Entered, Crossed, Phased, SealedHere, Marked, Tokens, Session,
              sessionVars, payloadVars, serviceVars, bridgeVars
<1>2. CASE UNCHANGED allVars
  BY <1>1, <1>2 DEF allVars, supervisorVars
<1>3. CASE LaunchApp
  BY <1>1, <1>3 DEF LaunchApp, supervisorVars
<1>4. CASE BeginSession
  BY <1>4, BeginningsAreEntered
<1>5. CASE BeginShutdown
  BY <1>5, ShutdownsAreEntered
<1>6. CASE BridgeBeginTeardown
  BY <1>6, BridgeFollows
<1>7. CASE TerminateApp
  <2>1. /\ UNCHANGED <<current, retiring, payloads, records, toDeliver, serviceVars>>
        /\ toDeliver = {} /\ phase \in {"bridged", "ended"}
        /\ phase' = phase \/ (phase = "ended" /\ phase' = "idle")
    <3>1. phase' = phase \/ (phase = "ended" /\ phase' = "idle")
      BY <1>7 DEF TerminateApp
    <3> QED
      BY <1>7, <3>1 DEF TerminateApp, supervisorVars, sessionVars, payloadVars
  <2>2. Phased' /\ SealedHere'
    BY <2>1 DEF LedgerInv, Phased, SealedHere, Session
  <2> QED
    BY <2>1, <2>2, RecordsStay
<1>8. CASE BridgeCompleteTeardown
  BY <1>8, BridgeRetires
<1>9. CASE EndSession
  BY <1>9, EndingsAreEntered
<1>10. CASE PumpRequest
  BY <1>10, RequestsAreEntered, CancelsAreEntered DEF PumpRequest
<1>11. CASE \E c \in completions \cup staged : PumpCompletion(c)
  BY <1>11, CompletionsAreFiled
<1>12. CASE PumpNothing
  <2>1. /\ UNCHANGED <<current, retiring, payloads, records, serviceVars, phase>>
        /\ phase \in {"run", "bridged"}
    BY <1>12 DEF PumpNothing, MayPump, supervisorVars, sessionVars, payloadVars
  <2>2. Phased' /\ SealedHere'
    BY <2>1 DEF LedgerInv, Phased, SealedHere, Session
  <2> QED
    BY <2>1, <2>2, RecordsStay
<1>13. CASE \E token \in toDeliver : DeliverNext(token)
  BY <1>13, DeliveriesAreEntered
<1>14. CASE \E q \in RequestIds : Ask(q) \/ CancelAsked(q)
  BY <1>1, <1>14 DEF Ask, CancelAsked, PostedByScript
<1>15. CASE TakeCompletion \/ StopWorker
  BY <1>1, <1>15 DEF TakeCompletion, StopWorker, supervisorVars
<1>16. CASE Dispatch
  <2>1. /\ UNCHANGED <<current, retiring, records, toDeliver, serviceVars, phase>>
        /\ \E slots : Released(slots)
    BY <1>16 DEF Dispatch, sessionVars, bridgeVars
  <2>2. SealedHere'
    BY <2>1, LeasesGone DEF LedgerInv
  <2>3. Phased'
    BY <2>1 DEF LedgerInv, Phased
  <2> QED
    BY <2>1, <2>2, <2>3, RecordsStay
<1>17. CASE \E w \in ServiceWorkers : Work(w)
  BY <1>1, <1>17 DEF Work, supervisorVars
<1> QED
  BY <1>2, <1>3, <1>4, <1>5, <1>6, <1>7, <1>8, <1>9, <1>10, <1>11, <1>12, <1>13, <1>14, <1>15,
     <1>16, <1>17 DEF SessionNext, Shutdown, Pump

THEOREM LedgerInvariant == SessionSpec => []LedgerInv
<1> QED
  BY InitLedgerInv, NextLedgerInv, PTL DEF SessionSpec

\* The ledger of the supervisor and the records of the bridge, kept under two locks, name the
\* same requests and the same of them as cancelled, however requests, cancellations,
\* completions and a teardown in several calls interleave (script_task_service_bridge.cpp).
THEOREM LedgersAgree == SessionSpec => []LedgerFollowsRecords
<1>1. LedgerInv => LedgerFollowsRecords
  BY DEF LedgerInv, Entered, Crossed, Marked, LedgerFollowsRecords
<1> QED
  BY <1>1, LedgerInvariant, PTL

-----------------------------------------------------------------------------
(***************************************************************************)
(* Nothing waits for nobody                                                *)
(***************************************************************************)
\* The App is terminated behind the worker, and only the App that runs has requests waiting.
WaitInv ==
  /\ termination # "none" => phase \in {"bridged", "ended"} /\ worker = Done /\ pending = {}
  /\ phase \in {"retired", "ended"} => worker = Done
  /\ \A r \in pending : r.app = instance
  /\ instance = 0 => pending = {}

LEMMA InitWaitInv == SessionInit => WaitInv
  BY DEF SessionInit, HostInit, WaitInv

LEMMA NextWaitInv == WaitInv /\ [SessionNext]_allVars => WaitInv'
<1> SUFFICES ASSUME WaitInv, [SessionNext]_allVars
             PROVE  WaitInv'
  OBVIOUS
<1>1. Running # Done
  BY DEF Running, Done
<1>2. CASE UNCHANGED allVars
  BY <1>2 DEF WaitInv, allVars, hostVars, appVars, queueVars, bridgeVars, scriptVars
<1>3. CASE LaunchApp
  BY <1>3 DEF LaunchApp, Launch, HostIdle, WaitInv, queueVars, bridgeVars, scriptVars
<1>4. CASE BeginSession
  BY <1>4 DEF BeginSession, WaitInv, hostVars, appVars, queueVars
<1>5. CASE BeginShutdown
  BY <1>5 DEF BeginShutdown, Loops, WaitInv, hostVars, appVars, queueVars, scriptVars
<1>6. CASE BridgeBeginTeardown
  BY <1>6 DEF BridgeBeginTeardown, WaitInv, appVars, scriptVars
<1>7. CASE TerminateApp
  <2>1. /\ phase \in {"bridged", "ended"} /\ worker = Done /\ worker' = worker
        /\ phase' = phase \/ phase' = "idle"
    BY <1>7 DEF TerminateApp, Joined, scriptVars
  <2>2. CASE CancelRequests /\ UNCHANGED phase
    <3>1. pending' = {r \in pending : r.app # instance} /\ instance' = instance
      BY <2>2 DEF CancelRequests
    <3>2. pending' = {}
      BY <3>1 DEF WaitInv
    <3> QED
      BY <2>1, <2>2, <3>2 DEF WaitInv
  <2>3. CASE (DiscardCompletions \/ ReleaseHandles) /\ UNCHANGED phase
    BY <2>1, <2>3 DEF DiscardCompletions, ReleaseHandles, queueVars, WaitInv
  <2>4. CASE FinishTermination
    <3>1. /\ termination = "released" /\ termination' = "none" /\ pending' = pending
      BY <2>4 DEF FinishTermination, queueVars
    <3>2. pending' = {}
      BY <3>1 DEF WaitInv
    <3> QED
      BY <2>1, <3>1, <3>2 DEF WaitInv
  <2> QED
    BY <1>7, <2>2, <2>3, <2>4 DEF TerminateApp
<1>8. CASE BridgeCompleteTeardown
  BY <1>8 DEF BridgeCompleteTeardown, Joined, HostIdle, WaitInv, hostVars, appVars, queueVars,
              scriptVars
<1>9. CASE EndSession
  BY <1>9 DEF EndSession, WaitInv, hostVars, appVars, queueVars, scriptVars
<1>10. CASE PumpRequest
  <2>1. /\ phase = "run" /\ UNCHANGED <<phase, worker, instance, termination>>
        /\ \/ pending' \subseteq pending
           \/ \E q : Submitted(q)
    <3>1. /\ phase = "run" /\ UNCHANGED <<phase, worker, instance, termination>>
      BY <1>10 DEF PumpRequest, Loops, appVars
    <3>2. ASSUME NEW token, CancelRequest(token)
          PROVE  pending' \subseteq pending
      BY <3>2 DEF CancelRequest
    <3>3. ASSUME NEW token, SubmitRequest(token)
          PROVE  pending' \subseteq pending \/ \E q : Submitted(q)
      BY <3>3 DEF SubmitRequest, TurnAway, LetIn, AcceptedByHost, RejectedByHost
    <3> QED
      BY <1>10, <3>1, <3>2, <3>3 DEF PumpRequest
  <2>2. CASE pending' \subseteq pending
    BY <2>1, <2>2 DEF WaitInv
  <2>3. ASSUME NEW q, Submitted(q)
        PROVE  WaitInv'
    <3>1. /\ instance # 0 /\ pending' = pending \cup {NewRequest(q)}
          /\ NewRequest(q).app = instance
      BY <2>3 DEF Submitted, NewRequest
    <3> QED
      BY <2>1, <3>1 DEF WaitInv
  <2> QED
    BY <2>1, <2>2, <2>3
<1>11. CASE \E c \in completions \cup staged : PumpCompletion(c)
  BY <1>11 DEF PumpCompletion, PumpFrame, WaitInv, appVars, scriptVars
<1>12. CASE PumpNothing
  BY <1>12 DEF PumpNothing, WaitInv, hostVars, appVars, queueVars, scriptVars
<1>13. CASE \E token \in toDeliver : DeliverNext(token)
  BY <1>13 DEF DeliverNext, WaitInv, hostVars, appVars, queueVars, scriptVars
<1>14. CASE \E q \in RequestIds : Ask(q) \/ CancelAsked(q)
  BY <1>14 DEF Ask, CancelAsked, PostedByScript, WaitInv, hostVars, appVars, queueVars, bridgeVars
<1>15. ASSUME worker # Done, UNCHANGED <<instance, termination, pending, phase>>
       PROVE  WaitInv'
  BY <1>15 DEF WaitInv
<1>16. CASE TakeCompletion \/ StopWorker
  BY <1>1, <1>15, <1>16 DEF TakeCompletion, StopWorker, hostVars, appVars, queueVars, bridgeVars
<1>17. CASE Dispatch
  <2>1. worker # Done
    BY <1>17 DEF Dispatch, Done
  <2> QED
    BY <1>15, <1>17, <2>1 DEF Dispatch, hostVars, appVars, queueVars, bridgeVars
<1>18. CASE \E w \in ServiceWorkers : Work(w)
  <2>1. PICK w \in ServiceWorkers : Work(w)
    BY <1>18
  <2>2. UNCHANGED <<instance, termination, phase, worker>> /\ pending' \subseteq pending
    BY <2>1 DEF Work, ServiceStep, Pop, Process, ReadCurrent, CheckHandle, Sanitize, Stage,
                FlushStaged, appVars, queueVars, bridgeVars, scriptVars
  <2> QED
    BY <2>2 DEF WaitInv
<1> QED
  BY <1>2, <1>3, <1>4, <1>5, <1>6, <1>7, <1>8, <1>9, <1>10, <1>11, <1>12, <1>13, <1>14, <1>16,
     <1>17, <1>18 DEF SessionNext, Shutdown, Pump

\* The worker stops before anything of its App is taken away, and when session and App are
\* over no request of theirs waits for a service worker or is in the ledger, and no payload
\* is sealed for them.
THEOREM NothingIsLeftWaiting == SessionSpec => []NothingWaitsForNobody
<1>1. WaitInv /\ LedgerInv => NothingWaitsForNobody
  <2> SUFFICES ASSUME WaitInv, LedgerInv
               PROVE  NothingWaitsForNobody
    OBVIOUS
  <2>1. phase = "idle" => tombstones = {} /\ ActiveSlots(payloads) = {}
    BY DEF LedgerInv, Phased, Entered, SealedHere, Session, Tokens, ActiveSlots
  <2> QED
    BY <2>1 DEF WaitInv, NothingWaitsForNobody
<1> QED
  BY <1>1, InitWaitInv, NextWaitInv, LedgerInvariant, PTL DEF SessionSpec

-----------------------------------------------------------------------------
(***************************************************************************)
(* Payloads and answers are in one pair of hands                           *)
(***************************************************************************)
\* Between sessions the mailboxes are empty.
Vacant == current = NoSession => inbox = <<>> /\ requestBox = <<>>

\* A mailbox is a sequence of packets, and the script sends two kinds.
Lined ==
  /\ \E packets : inbox \in Seq(packets)
  /\ \E packets : requestBox \in Seq(packets)
  /\ \A k \in DOMAIN requestBox : requestBox[k].kind \in {"ServiceRequest", "ServiceCancel"}

\* Only a record that is ready has a lease, and its token is the session's for its request.
Unfiled ==
  \A r \in records : /\ ~r.ready => r.lease = 0
                     /\ r.token = TokenOf(r.token.request)

\* What a lease id is made of.
Indexed ==
  /\ DOMAIN payloads = 1 .. PayloadLeases
  /\ \A i \in 1 .. PayloadLeases : payloads[i].generation \in Nat

HouseInv == Vacant /\ Lined /\ Unfiled /\ Indexed

\* Where a lease can be named.
InRecord(id) == \E r \in records : r.lease = id
InInbox(id) == \E k \in DOMAIN inbox : inbox[k].body.lease = id
InWorker(id) == worker.step = "take" /\ worker.body.lease = id

RecordOnce(id) == \A r, s \in records : r.lease = id /\ s.lease = id => r = s
InboxOnce(id) ==
  \A j, k \in DOMAIN inbox : inbox[j].body.lease = id /\ inbox[k].body.lease = id => j = k

\* What is sealed is named, what is named is sealed, and in one place.
OnceHeld(id) ==
  /\ id \in IdsOf(payloads, current) <=> InRecord(id) \/ InInbox(id) \/ InWorker(id)
  /\ InRecord(id) => ~InInbox(id) /\ ~InWorker(id)
  /\ InInbox(id) => ~InWorker(id)
  /\ RecordOnce(id) /\ InboxOnce(id)

PayloadsPlaced == \A id : id # 0 => OnceHeld(id)

\* Where a request, and then its answer, can be.
IsRequest(k, q) == requestBox[k].kind = "ServiceRequest" /\ requestBox[k].body.request = q
Requested(q) == \E k \in DOMAIN requestBox : IsRequest(k, q)
Recorded(q) == \E r \in records : r.token.request = q
Answered(q) == \E k \in DOMAIN inbox : inbox[k].body.request = q
Served(q) == worker.step = "take" /\ worker.body.request = q

\* What is on its way was asked for in this session, was not turned away and is in one place.
OncePlaced(q) ==
  /\ Requested(q) \/ Recorded(q) \/ Answered(q) \/ Served(q) => q \in asked \ turnedAway
  /\ q \in turnedAway => q \in asked
  /\ Requested(q) => ~Recorded(q) /\ ~Answered(q) /\ ~Served(q)
  /\ Recorded(q) => ~Answered(q) /\ ~Served(q)
  /\ Answered(q) => ~Served(q)
  /\ \A j, k \in DOMAIN requestBox : IsRequest(j, q) /\ IsRequest(k, q) => j = k
  /\ \A j, k \in DOMAIN inbox :
       inbox[j].body.request = q /\ inbox[k].body.request = q => j = k

RequestsPlaced == \A q : OncePlaced(q)

\* What the script has cancelled it does not wait for, and what it waits for it has asked for.
Settled ==
  /\ callbacks \subseteq asked
  /\ \A k \in DOMAIN requestBox : requestBox[k].kind = "ServiceCancel" =>
       requestBox[k].body.request \in asked \ callbacks
  /\ \A r \in records : r.cancelled => r.token.request \notin callbacks

HeldInv == HouseInv /\ (current # NoSession => PayloadsPlaced /\ RequestsPlaced /\ Settled)

\* The request that comes next is new to the bridge and the ledger, and both have room for it.
RoomForRequests ==
  requestBox # <<>> /\ Head(requestBox).kind = "ServiceRequest" =>
    ~NoPlaceFor(TokenOf(Head(requestBox).body.request))

\* What the script waits for is on its way, unless the bridge has turned it away.
Somewhere(q) == Requested(q) \/ Recorded(q) \/ Answered(q) \/ Served(q)
Awaited == current # NoSession => \A q \in callbacks \ turnedAway : Somewhere(q)

-----------------------------------------------------------------------------
(***************************************************************************)
(* The mailboxes, the records and the slots by themselves                  *)
(***************************************************************************)
LEMMA ReleasesKeepIndex ==
  ASSUME Indexed, NEW slots, Released(slots)
  PROVE  Indexed'
<1>1. payloads' = [i \in DOMAIN payloads |->
                     IF i \in slots THEN ReleaseSlot(payloads, i)[i] ELSE payloads[i]]
  BY DEF Released, PayloadsBecome
<1>2. DOMAIN payloads' = 1 .. PayloadLeases
  BY <1>1 DEF Indexed
<1>3. ASSUME NEW i \in 1 .. PayloadLeases
      PROVE  payloads'[i].generation \in Nat
  <2>1. payloads[i].generation \in Nat
    BY DEF Indexed
  <2>2. ReleaseSlot(payloads, i)[i].generation = NextLeaseGeneration(payloads[i].generation)
    BY DEF ReleaseSlot, FreeSlot, Indexed
  <2>3. NextLeaseGeneration(payloads[i].generation) \in Nat
    BY <2>1 DEF NextLeaseGeneration
  <2>4. payloads'[i] = IF i \in slots THEN ReleaseSlot(payloads, i)[i] ELSE payloads[i]
    BY <1>1 DEF Indexed
  <2> QED
    BY <2>1, <2>2, <2>3, <2>4
<1> QED
  BY <1>2, <1>3 DEF Indexed

\* A slot answers to its id, and what is released with an id is the slot of that id.
LEMMA IdsReleased ==
  ASSUME Indexed, current' = current, NEW ids \in SUBSET ({0} \cup IdsOf(payloads, current)),
         Released(UNION {SlotsHeld(payloads, current, id) : id \in ids})
  PROVE  IdsOf(payloads, current)' = IdsOf(payloads, current) \ ids
<1> DEFINE slots == UNION {SlotsHeld(payloads, current, id) : id \in ids}
           IdAt(i) == LeaseId(i, payloads[i].generation)
<1>1. payloads' = [i \in DOMAIN payloads |->
                     IF i \in slots THEN ReleaseSlot(payloads, i)[i] ELSE payloads[i]]
  BY DEF Released, PayloadsBecome
<1>2. \A i \in 1 .. PayloadLeases :
        /\ IdAt(i) % LeaseIndexBase = i /\ IdAt(i) \div LeaseIndexBase = payloads[i].generation
        /\ IdAt(i) # 0
  <2> SUFFICES ASSUME NEW i \in 1 .. PayloadLeases
               PROVE  /\ IdAt(i) % LeaseIndexBase = i
                      /\ IdAt(i) \div LeaseIndexBase = payloads[i].generation
                      /\ IdAt(i) # 0
    OBVIOUS
  <2>1. PayloadLeases \in Nat /\ PayloadLeases < LeaseIndexBase
    BY SupervisorAssumption
  <2>2. i \in Nat /\ 1 <= i /\ i < LeaseIndexBase
    BY <2>1 DEF LeaseIndexBase
  <2>3. payloads[i].generation \in Nat
    BY DEF Indexed
  <2> QED
    BY <2>2, <2>3, LeaseIdParts
<1> HIDE DEF IdAt
<1>3. /\ SlotsOf(payloads, current) =
            {i \in 1 .. PayloadLeases : payloads[i].active /\ payloads[i].session = current}
      /\ IdsOf(payloads, current) = {IdAt(i) : i \in SlotsOf(payloads, current)}
  BY DEF Indexed, SlotsOf, ActiveSlots, IdsOf, IdAt
<1>4. \A i \in SlotsOf(payloads, current) : i \in slots <=> IdAt(i) \in ids
  <2> SUFFICES ASSUME NEW i \in SlotsOf(payloads, current)
               PROVE  i \in slots <=> IdAt(i) \in ids
    OBVIOUS
  <2>1. i \in 1 .. PayloadLeases /\ payloads[i].active /\ payloads[i].session = current
    BY <1>3
  <2>2. \A id \in ids : i \in SlotsHeld(payloads, current, id)
                       <=> /\ i = id % LeaseIndexBase
                           /\ payloads[i].generation = id \div LeaseIndexBase
    BY <2>1 DEF SlotsHeld, SlotsNamed, Indexed
  <2>3. IdAt(i) \in ids => i \in slots
    BY <1>2, <2>1, <2>2
  <2>4. ASSUME NEW id \in ids, i \in SlotsHeld(payloads, current, id)
        PROVE  id = IdAt(i)
    <3>1. i = id % LeaseIndexBase
      BY <2>2, <2>4
    <3>2. id # 0
      BY <2>1, <3>1 DEF LeaseIndexBase
    <3>3. PICK j \in SlotsOf(payloads, current) : id = IdAt(j)
      BY <1>3, <3>2
    <3>4. j = i
      BY <1>2, <1>3, <3>1, <3>3
    <3> QED
      BY <3>3, <3>4
  <2> QED
    BY <2>3, <2>4
<1>5. \A i \in 1 .. PayloadLeases :
        payloads'[i] = IF i \in slots THEN FreeSlot(NextLeaseGeneration(payloads[i].generation))
                       ELSE payloads[i]
  BY <1>1 DEF ReleaseSlot, Indexed
<1>6. DOMAIN payloads' = 1 .. PayloadLeases
  BY <1>1 DEF Indexed
<1> HIDE DEF slots
<1>7. SlotsOf(payloads', current) = SlotsOf(payloads, current) \ slots
  BY <1>3, <1>5, <1>6 DEF SlotsOf, ActiveSlots, FreeSlot
<1>8. \A i \in SlotsOf(payloads', current) : LeaseId(i, payloads'[i].generation) = IdAt(i)
  BY <1>3, <1>5, <1>7 DEF IdAt
<1>9. IdsOf(payloads', current) = {IdAt(i) : i \in SlotsOf(payloads', current)}
  BY <1>8 DEF IdsOf
<1>10. \A x : x \in IdsOf(payloads', current) <=> x \in IdsOf(payloads, current) /\ x \notin ids
  BY <1>3, <1>4, <1>7, <1>9
<1>11. IdsOf(payloads', current) = IdsOf(payloads, current) \ ids
  BY <1>10
<1> QED
  BY <1>11

\* Sealing adds the id of a slot that had none.
LEMMA IdsPublished ==
  ASSUME Indexed, current' = current, NEW i \in 1 .. PayloadLeases, ~payloads[i].active,
         payloads' = Publish(payloads, i, current, 1)
  PROVE  /\ IdsOf(payloads, current)' =
              IdsOf(payloads, current) \cup {LeaseId(i, payloads[i].generation)}
         /\ LeaseId(i, payloads[i].generation) \notin {0} \cup IdsOf(payloads, current)
         /\ Indexed'
<1> DEFINE IdAt(j) == LeaseId(j, payloads[j].generation)
<1>1. \A j \in 1 .. PayloadLeases : IdAt(j) % LeaseIndexBase = j /\ IdAt(j) # 0
  <2> SUFFICES ASSUME NEW j \in 1 .. PayloadLeases
               PROVE  IdAt(j) % LeaseIndexBase = j /\ IdAt(j) # 0
    OBVIOUS
  <2>1. PayloadLeases \in Nat /\ PayloadLeases < LeaseIndexBase
    BY SupervisorAssumption
  <2>2. j \in Nat /\ 1 <= j /\ j < LeaseIndexBase
    BY <2>1 DEF LeaseIndexBase
  <2>3. payloads[j].generation \in Nat
    BY DEF Indexed
  <2> QED
    BY <2>2, <2>3, LeaseIdParts
<1>2. /\ DOMAIN payloads' = 1 .. PayloadLeases
      /\ payloads'[i].generation = payloads[i].generation /\ payloads'[i].active
      /\ payloads'[i].session = current
      /\ \A j \in 1 .. PayloadLeases : j # i => payloads'[j] = payloads[j]
  BY DEF Publish, Indexed
<1>3. /\ SlotsOf(payloads', current) = SlotsOf(payloads, current) \cup {i}
      /\ i \notin SlotsOf(payloads, current)
      /\ SlotsOf(payloads, current) \subseteq 1 .. PayloadLeases
  BY <1>2 DEF SlotsOf, ActiveSlots, Indexed
<1>4. \A j \in SlotsOf(payloads', current) : LeaseId(j, payloads'[j].generation) = IdAt(j)
  BY <1>2, <1>3
<1> HIDE DEF IdAt
<1>5. /\ IdsOf(payloads', current) = {IdAt(j) : j \in SlotsOf(payloads', current)}
      /\ IdsOf(payloads, current) = {IdAt(j) : j \in SlotsOf(payloads, current)}
  BY <1>4 DEF IdsOf, IdAt
<1>6. IdAt(i) \notin {0} \cup IdsOf(payloads, current)
  BY <1>1, <1>3, <1>5
<1>7. IdsOf(payloads', current) = IdsOf(payloads, current) \cup {IdAt(i)}
  BY <1>3, <1>5
<1>8. Indexed'
  BY <1>2 DEF Indexed
<1> QED
  BY <1>6, <1>7, <1>8 DEF IdAt

\* Records that are taken away or keep request and lease keep both facts about records.
LEMMA RecordsStayFiled ==
  ASSUME Unfiled, Session' = Session,
         \A r \in records' :
           \/ \E s \in records : r.token = s.token /\ r.lease = s.lease /\ r.ready = s.ready
           \/ r.token = TokenOf(r.token.request) /\ (r.ready \/ r.lease = 0)
  PROVE  Unfiled'
  BY DEF Unfiled, TokenOf

\* A mailbox stays one when a packet is appended, taken or all are dropped.
LEMMA BoxesStay ==
  ASSUME NEW box, NEW packets, box \in Seq(packets), NEW packet
  PROVE  /\ Append(box, packet) \in Seq(packets \cup {packet})
         /\ Len(Append(box, packet)) = Len(box) + 1
         /\ DOMAIN Append(box, packet) = 1 .. Len(box) + 1 /\ DOMAIN box = 1 .. Len(box)
         /\ Append(box, packet)[Len(box) + 1] = packet
         /\ \A k \in DOMAIN box : Append(box, packet)[k] = box[k]
         /\ box # <<>> =>
              /\ Tail(box) \in Seq(packets) /\ Head(box) = box[1] /\ 1 \in DOMAIN box
              /\ \A k \in DOMAIN Tail(box) : /\ k + 1 \in DOMAIN box /\ k + 1 # 1
                                            /\ Tail(box)[k] = box[k + 1]
              /\ \A k \in DOMAIN box : k # 1 => /\ k - 1 \in DOMAIN Tail(box)
                                               /\ Tail(box)[k - 1] = box[k]
<1>1. box \in Seq(packets \cup {packet})
  BY SeqDef
<1>2. Len(box) \in Nat /\ DOMAIN box = 1 .. Len(box)
  OBVIOUS
<1>3. ASSUME box # <<>>
      PROVE  /\ Tail(box) \in Seq(packets) /\ Head(box) = box[1] /\ 1 \in DOMAIN box
             /\ DOMAIN Tail(box) = 1 .. Len(box) - 1
             /\ \A k \in 1 .. Len(box) - 1 : Tail(box)[k] = box[k + 1]
  BY <1>3, <1>2
<1> QED
  BY <1>1, <1>2, <1>3

\* Each step keeps mailboxes, records and slots what they are.
LEMMA NextHouseInv ==
  ASSUME LedgerInv, HouseInv, [SessionNext]_allVars
  PROVE  HouseInv'
<1> USE DEF HouseInv
<1>1. ASSUME UNCHANGED <<current, retiring, payloads, inbox, requestBox, records>>
      PROVE  HouseInv'
  BY <1>1 DEF Vacant, Lined, Unfiled, Indexed, TokenOf, Session
<1>2. CASE UNCHANGED allVars
  BY <1>1, <1>2 DEF allVars, supervisorVars, sessionVars, payloadVars, boxVars, bridgeVars
<1>3. CASE LaunchApp \/ TerminateApp \/ PumpNothing \/ StopWorker
  <2>1. UNCHANGED <<supervisorVars, records>>
    BY <1>3 DEF LaunchApp, TerminateApp, PumpNothing, StopWorker, bridgeVars
  <2> QED
    BY <1>1, <2>1 DEF supervisorVars, sessionVars, payloadVars, boxVars
<1>4. CASE \E w \in ServiceWorkers : Work(w)
  BY <1>1, <1>4 DEF Work, supervisorVars, sessionVars, payloadVars, boxVars, bridgeVars
<1>5. CASE BeginSession
  <2>1. /\ UNCHANGED <<boxVars, payloads, records>> /\ records = {} /\ current' # NoSession
    BY <1>5 DEF BeginSession, Begin, payloadVars, LedgerInv, Phased, NoSession
  <2> QED
    BY <2>1 DEF boxVars, Vacant, Lined, Unfiled, Indexed
<1>6. CASE BeginShutdown
  <2>1. /\ inbox' = <<>> /\ requestBox' = <<>> /\ UNCHANGED <<payloads, records>>
        /\ Session' = Session
    BY <1>6 DEF BeginShutdown, Loops, BeginTeardown, payloadVars, LedgerInv, Phased, Session
  <2>2. Lined'
    <3>1. <<>> \in Seq({})
      OBVIOUS
    <3> QED
      BY <2>1, <3>1 DEF Lined
  <2>3. Unfiled'
    BY <2>1, RecordsStayFiled
  <2> QED
    BY <2>1, <2>2, <2>3 DEF Vacant, Indexed
<1>7. ASSUME UNCHANGED boxVars, UNCHANGED sessionVars, NEW slots, Released(slots), Unfiled'
      PROVE  HouseInv'
  <2>1. Indexed'
    BY <1>7, ReleasesKeepIndex
  <2> QED
    BY <1>7, <2>1 DEF boxVars, sessionVars, Vacant, Lined
<1>8. CASE BridgeBeginTeardown
  <2> DEFINE inWork == {r \in records : ~r.ready /\ r.job \notin pending}
  <2>1. /\ UNCHANGED <<boxVars, sessionVars>> /\ Session' = Session
        /\ \E slots : Released(slots)
        /\ records' = {[r EXCEPT !.cancelled = TRUE] : r \in inWork}
    BY <1>8 DEF BridgeBeginTeardown, sessionVars, Session
  <2>2. \A r \in inWork : LET k == [r EXCEPT !.cancelled = TRUE] IN
          k.token = r.token /\ k.lease = r.lease /\ k.ready = r.ready
    BY DEF LedgerInv, Shaped
  <2> DEFINE kept == {[r EXCEPT !.cancelled = TRUE] : r \in inWork}
  <2>4. \A k \in kept :
          \E t \in records : k.token = t.token /\ k.lease = t.lease /\ k.ready = t.ready
    BY <2>2
  <2>5. records' = kept
    BY <2>1
  <2> HIDE DEF inWork, kept
  <2>3. Unfiled'
    BY <2>1, <2>4, <2>5, RecordsStayFiled
  <2> QED
    BY <1>7, <2>1, <2>3
<1>9. CASE BridgeCompleteTeardown
  <2>1. /\ UNCHANGED <<boxVars, sessionVars>> /\ Session' = Session
        /\ \E slots : Released(slots)
        /\ records' \subseteq records
    BY <1>9 DEF BridgeCompleteTeardown, sessionVars, Session
  <2>2. Unfiled'
    BY <2>1, RecordsStayFiled
  <2> QED
    BY <1>7, <2>1, <2>2
<1>10. CASE EndSession
  <2>1. /\ current = NoSession /\ UNCHANGED <<current, boxVars>> /\ records' = {}
        /\ payloads' = ReleaseSession(payloads, Session)
    BY <1>10 DEF EndSession, CompleteTeardown
  <2>2. DOMAIN payloads' = 1 .. PayloadLeases
    BY <2>1 DEF ReleaseSession, Indexed
  <2>3. ASSUME NEW i \in 1 .. PayloadLeases
        PROVE  payloads'[i].generation \in Nat
    <3>1. payloads'[i] \in {payloads[i], FreeSlot(NextLeaseGeneration(payloads[i].generation))}
      BY <2>1 DEF ReleaseSession, Indexed
    <3>2. payloads[i].generation \in Nat /\ NextLeaseGeneration(payloads[i].generation) \in Nat
      BY DEF Indexed, NextLeaseGeneration
    <3> QED
      BY <3>1, <3>2 DEF FreeSlot
  <2>4. Indexed'
    BY <2>2, <2>3 DEF Indexed
  <2> QED
    BY <2>1, <2>4 DEF boxVars, Vacant, Lined, Unfiled
<1>11. CASE PumpRequest
  <2>1. /\ phase = "run" /\ requestBox # <<>> /\ requestBox' = Tail(requestBox)
        /\ UNCHANGED <<sessionVars, inbox>>
    BY <1>11 DEF PumpRequest, Loops
  <2>2. current # NoSession /\ current' # NoSession /\ Session' = Session
    BY <2>1 DEF LedgerInv, Phased, sessionVars, Session
  <2>3. Vacant' /\ Lined'
    <3>1. PICK packets : requestBox \in Seq(packets)
      BY DEF Lined
    <3>2. /\ Tail(requestBox) \in Seq(packets)
          /\ \A k \in DOMAIN Tail(requestBox) :
               k + 1 \in DOMAIN requestBox /\ Tail(requestBox)[k] = requestBox[k + 1]
      BY <2>1, <3>1, BoxesStay
    <3> QED
      BY <2>1, <2>2, <3>2 DEF Vacant, Lined
  <2>4. ASSUME NEW q, SubmitRequest(TokenOf(q))
        PROVE  Unfiled' /\ Indexed'
    <3>1. UNCHANGED payloads
      BY <2>4 DEF SubmitRequest, payloadVars
    <3>2. UNCHANGED records \/ \E job : records' = records \cup {NewRecord(TokenOf(q), job)}
      BY <2>4 DEF SubmitRequest, TurnAway, LetIn, AcceptedByHost, RejectedByHost
    <3>3. \A job : LET r == NewRecord(TokenOf(q), job) IN
            r.token = TokenOf(r.token.request) /\ r.lease = 0
      BY DEF NewRecord, TokenOf
    <3>4. Unfiled'
      BY <2>2, <3>2, <3>3, RecordsStayFiled
    <3> QED
      BY <3>1, <3>4 DEF Indexed
  <2>5. ASSUME NEW q, CancelRequest(TokenOf(q))
        PROVE  Unfiled' /\ Indexed'
    <3> DEFINE inWork == {r \in RecordOf(TokenOf(q)) : ~r.ready /\ r.job \notin pending}
    <3>1. /\ records' = (records \ RecordOf(TokenOf(q)))
                        \cup {[r EXCEPT !.cancelled = TRUE] : r \in inWork}
          /\ inWork \subseteq records
          /\ \E slots : Released(slots)
      BY <2>5 DEF CancelRequest, RecordOf
    <3>2. \A r \in inWork : LET k == [r EXCEPT !.cancelled = TRUE] IN
            k.token = r.token /\ k.lease = r.lease /\ k.ready = r.ready
      BY <3>1 DEF LedgerInv, Shaped
    <3> DEFINE kept == {[r EXCEPT !.cancelled = TRUE] : r \in inWork}
    <3> HIDE DEF inWork
    <3>4. \A k \in kept :
            \E t \in records : k.token = t.token /\ k.lease = t.lease /\ k.ready = t.ready
      BY <3>1, <3>2
    <3>5. records' = (records \ RecordOf(TokenOf(q))) \cup kept
      BY <3>1
    <3> HIDE DEF kept
    <3>6. \A r \in records' :
            \E t \in records : r.token = t.token /\ r.lease = t.lease /\ r.ready = t.ready
      <4> SUFFICES ASSUME NEW r \in records'
                   PROVE  \E t \in records : /\ r.token = t.token /\ r.lease = t.lease
                                            /\ r.ready = t.ready
        OBVIOUS
      <4>1. r \in records \/ r \in kept
        BY <3>5
      <4> QED
        BY <3>4, <4>1
    <3>7. Unfiled'
      BY <2>2, <3>6, RecordsStayFiled
    <3> QED
      BY <3>1, <3>7, ReleasesKeepIndex
  <2> QED
    BY <1>11, <2>3, <2>4, <2>5 DEF PumpRequest
<1>12. CASE \E c \in completions \cup staged : PumpCompletion(c)
  <2>1. /\ UNCHANGED <<sessionVars, boxVars>> /\ Session' = Session
        /\ \/ UNCHANGED <<records, payloadVars>>
           \/ \E r \in records : FiledAs(r, 0) /\ UNCHANGED payloadVars
           \/ \E r \in records, i \in 1 .. PayloadLeases : PublishedFor(r, i)
    BY <1>12 DEF PumpCompletion, FileCompletion, sessionVars, Session
  <2>2. ASSUME NEW r \in records, NEW lease, FiledAs(r, lease)
        PROVE  Unfiled'
    <3>1. /\ records' = (records \ {r}) \cup {Filed(r, lease)}
          /\ Filed(r, lease).token = r.token /\ Filed(r, lease).ready
      BY <2>2 DEF FiledAs, Filed, LedgerInv, Shaped
    <3>2. Filed(r, lease).token = TokenOf(Filed(r, lease).token.request)
      BY <3>1 DEF Unfiled
    <3> QED
      BY <2>1, <3>1, <3>2, RecordsStayFiled
  <2>3. ASSUME NEW r \in records, NEW i \in 1 .. PayloadLeases, PublishedFor(r, i)
        PROVE  Indexed'
    <3>1. ~payloads[i].active /\ payloads' = Publish(payloads, i, current, 1) /\ current' = current
      BY <2>1, <2>3 DEF PublishedFor, Accepts, PayloadsBecome, IsFirstFree, sessionVars
    <3> QED
      BY <3>1, IdsPublished
  <2>4. Vacant' /\ Lined'
    BY <2>1 DEF Vacant, Lined, boxVars, sessionVars
  <2>5. CASE UNCHANGED <<records, payloadVars>>
    <3>1. Unfiled'
      BY <2>1, <2>5, RecordsStayFiled
    <3> QED
      BY <2>4, <2>5, <3>1 DEF payloadVars, Indexed
  <2>6. CASE \E r \in records : FiledAs(r, 0) /\ UNCHANGED payloadVars
    BY <2>2, <2>4, <2>6 DEF payloadVars, Indexed
  <2>7. CASE \E r \in records, i \in 1 .. PayloadLeases : PublishedFor(r, i)
    BY <2>2, <2>3, <2>4, <2>7 DEF PublishedFor
  <2> QED
    BY <2>1, <2>5, <2>6, <2>7
<1>13. CASE \E token \in toDeliver : DeliverNext(token)
  <2>1. /\ UNCHANGED <<sessionVars, requestBox>> /\ Session' = Session
        /\ \/ UNCHANGED <<inbox, records, payloads>>
           \/ /\ current # NoSession /\ UNCHANGED payloads /\ records' \subseteq records
              /\ \E p : inbox' = Append(inbox, p)
           \/ UNCHANGED inbox /\ records' \subseteq records /\ \E slots : Released(slots)
    <3>1. PICK token \in toDeliver : DeliverNext(token)
      BY <1>13
    <3>2. UNCHANGED <<sessionVars, requestBox>> /\ Session' = Session
      BY <3>1 DEF DeliverNext, sessionVars, Session
    <3>3. PICK r \in records :
            \/ Disposition(token) = "Accepted" /\ Deliver(r) /\ UNCHANGED payloadVars
            \/ DiscardRecord(r) /\ UNCHANGED inbox
      BY <3>1 DEF DeliverNext, RecordOf
    <3>4. Disposition(token) = "Accepted" => current # NoSession
      BY DEF Disposition, Accepts
    <3> QED
      BY <3>2, <3>3, <3>4 DEF Deliver, DiscardRecord, payloadVars
  <2>2. Unfiled'
    BY <2>1, RecordsStayFiled
  <2>3. Indexed'
    BY <2>1, ReleasesKeepIndex DEF Indexed
  <2>4. Lined'
    <3>1. PICK packets : inbox \in Seq(packets)
      BY DEF Lined
    <3>2. \A p : Append(inbox, p) \in Seq(packets \cup {p})
      BY <3>1, BoxesStay
    <3>3. \E all : inbox' \in Seq(all)
      BY <2>1, <3>1, <3>2
    <3> QED
      BY <2>1, <3>3 DEF Lined
  <2>5. Vacant'
    BY <2>1 DEF Vacant, sessionVars
  <2> QED
    BY <2>2, <2>3, <2>4, <2>5
<1>14. CASE \E q \in RequestIds : Ask(q) \/ CancelAsked(q)
  <2>1. /\ UNCHANGED <<sessionVars, inbox, payloads, records>> /\ Session' = Session
        /\ current # NoSession
        /\ \E p : /\ requestBox' = Append(requestBox, p)
                 /\ p.kind \in {"ServiceRequest", "ServiceCancel"}
    BY <1>14 DEF Ask, CancelAsked, PostedByScript, payloadVars, bridgeVars, sessionVars, Session
  <2>2. Unfiled'
    BY <2>1, RecordsStayFiled
  <2>3. Lined'
    <3>1. PICK p : requestBox' = Append(requestBox, p)
                   /\ p.kind \in {"ServiceRequest", "ServiceCancel"}
      BY <2>1
    <3>2. PICK packets : requestBox \in Seq(packets)
      BY DEF Lined
    <3>3. /\ requestBox' \in Seq(packets \cup {p}) /\ Len(requestBox) \in Nat
          /\ DOMAIN requestBox' = 1 .. Len(requestBox) + 1
          /\ DOMAIN requestBox = 1 .. Len(requestBox)
          /\ requestBox'[Len(requestBox) + 1] = p
          /\ \A k \in DOMAIN requestBox : requestBox'[k] = requestBox[k]
      BY <3>1, <3>2, BoxesStay
    <3>4. \A k \in DOMAIN requestBox' : k = Len(requestBox) + 1 \/ k \in DOMAIN requestBox
      BY <3>3
    <3>5. \A k \in DOMAIN requestBox' : requestBox'[k].kind \in {"ServiceRequest", "ServiceCancel"}
      BY <3>1, <3>3, <3>4 DEF Lined
    <3> QED
      BY <2>1, <3>3, <3>5 DEF Lined
  <2> QED
    BY <2>1, <2>2, <2>3 DEF Vacant, sessionVars, Indexed
<1>15. CASE TakeCompletion
  <2>1. /\ UNCHANGED <<sessionVars, requestBox, payloads, records>> /\ Session' = Session
        /\ current # NoSession /\ inbox # <<>> /\ inbox' = Tail(inbox)
    BY <1>15 DEF TakeCompletion, payloadVars, bridgeVars, sessionVars, Session
  <2>2. Unfiled'
    BY <2>1, RecordsStayFiled
  <2>3. Lined'
    BY <2>1, BoxesStay DEF Lined
  <2> QED
    BY <2>1, <2>2, <2>3 DEF Vacant, sessionVars, Indexed
<1>16. CASE Dispatch
  <2>1. /\ UNCHANGED <<sessionVars, boxVars, records>> /\ Session' = Session
        /\ \E slots : Released(slots)
    BY <1>16 DEF Dispatch, bridgeVars, sessionVars, Session
  <2>2. Unfiled'
    BY <2>1, RecordsStayFiled
  <2> QED
    BY <1>7, <2>1, <2>2
<1> QED
  BY <1>2, <1>3, <1>4, <1>5, <1>6, <1>8, <1>9, <1>10, <1>11, <1>12, <1>13, <1>14, <1>15, <1>16
     DEF SessionNext, Shutdown, Pump

-----------------------------------------------------------------------------
(***************************************************************************)
(* Payloads                                                                *)
(***************************************************************************)
\* The session runs exactly while it is current.
LEMMA RunsWhileCurrent == LedgerInv => (current # NoSession <=> phase = "run")
  BY DEF LedgerInv, Phased

\* No lease has the id 0, which stands for none.
LEMMA NoIdIsNone == Indexed => 0 \notin IdsOf(payloads, current)
<1> SUFFICES ASSUME Indexed, NEW i \in SlotsOf(payloads, current)
             PROVE  LeaseId(i, payloads[i].generation) # 0
  BY DEF IdsOf
<1>1. i \in 1 .. PayloadLeases /\ payloads[i].generation \in Nat
  BY DEF SlotsOf, ActiveSlots, Indexed
<1>2. PayloadLeases \in Nat /\ PayloadLeases < LeaseIndexBase
  BY SupervisorAssumption
<1>3. i \in Nat /\ 1 <= i /\ i < LeaseIndexBase
  BY <1>1, <1>2 DEF LeaseIndexBase
<1> QED
  BY <1>1, <1>3, LeaseIdParts

\* Records go with the leases they name, others neither come nor go.
LEMMA RecordsReleased ==
  ASSUME PayloadsPlaced, UNCHANGED <<inbox, worker>>, NEW ids,
         IdsOf(payloads, current)' = IdsOf(payloads, current) \ ids,
         \A id \in ids : id = 0 \/ InRecord(id),
         \A r \in records' : r.lease # 0 => r \in records /\ r.lease \notin ids,
         \A r \in records : r.lease # 0 => r \in records' \/ r.lease \in ids
  PROVE  PayloadsPlaced'
<1> SUFFICES ASSUME NEW id, id # 0
             PROVE  OnceHeld(id)'
  BY DEF PayloadsPlaced
<1>1. OnceHeld(id)
  BY DEF PayloadsPlaced
<1>2. /\ InInbox(id)' = InInbox(id) /\ InWorker(id)' = InWorker(id)
      /\ InboxOnce(id)' = InboxOnce(id)
  BY DEF InInbox, InWorker, InboxOnce
<1>3. RecordOnce(id)'
  BY <1>1 DEF OnceHeld, RecordOnce
<1>4. InRecord(id)' <=> InRecord(id) /\ id \notin ids
  BY DEF InRecord
<1> QED
  BY <1>1, <1>2, <1>3, <1>4 DEF OnceHeld

\* The worker copies what it has taken, and releases its lease.
LEMMA DispatchReleases ==
  ASSUME Indexed, PayloadsPlaced, current # NoSession, Dispatch
  PROVE  PayloadsPlaced'
<1> DEFINE lease == worker.body.lease
<1>1. /\ worker.step = "take" /\ worker' = Running /\ Session = current
      /\ Released(SlotsHeld(payloads, current, lease))
      /\ UNCHANGED <<current, inbox, records>>
  BY DEF Dispatch, Session, sessionVars, boxVars, bridgeVars
<1>2. lease # 0 => lease \in IdsOf(payloads, current)
  <2>1. InWorker(lease)
    BY <1>1 DEF InWorker
  <2> HIDE DEF lease
  <2> QED
    BY <2>1 DEF PayloadsPlaced, OnceHeld
<1>3. IdsOf(payloads, current)' = IdsOf(payloads, current) \ {lease}
  <2>1. UNION {SlotsHeld(payloads, current, id) : id \in {lease}}
          = SlotsHeld(payloads, current, lease)
    OBVIOUS
  <2>2. {lease} \in SUBSET ({0} \cup IdsOf(payloads, current))
    BY <1>2
  <2> QED
    BY <1>1, <2>1, <2>2, IdsReleased
<1> SUFFICES ASSUME NEW id, id # 0
             PROVE  OnceHeld(id)'
  BY DEF PayloadsPlaced
<1>4. /\ InRecord(id)' = InRecord(id) /\ InInbox(id)' = InInbox(id) /\ ~InWorker(id)'
      /\ RecordOnce(id)' = RecordOnce(id) /\ InboxOnce(id)' = InboxOnce(id)
      /\ InWorker(id) <=> id = lease
  BY <1>1 DEF InRecord, InInbox, InWorker, Running, RecordOnce, InboxOnce
<1>5. OnceHeld(id)
  BY DEF PayloadsPlaced
<1> HIDE DEF lease
<1> QED
  BY <1>3, <1>4, <1>5 DEF OnceHeld

\* The packet in front leaves a mailbox.
LEMMA FrontLeaves ==
  ASSUME NEW box, \E packets : box \in Seq(packets), box # <<>>
  PROVE  /\ Head(box) = box[1] /\ 1 \in DOMAIN box /\ DOMAIN Tail(box) \subseteq Nat
         /\ \A k \in DOMAIN Tail(box) :
              k + 1 \in DOMAIN box /\ k + 1 # 1 /\ Tail(box)[k] = box[k + 1]
         /\ \A k \in DOMAIN box :
              k # 1 => k - 1 \in DOMAIN Tail(box) /\ Tail(box)[k - 1] = box[k]
<1>1. PICK packets : box \in Seq(packets)
  OBVIOUS
<1>2. Tail(box) \in Seq(packets)
  BY <1>1
<1>3. DOMAIN Tail(box) \subseteq Nat
  BY <1>2
<1> QED
  BY <1>1, <1>3, BoxesStay

\* It passes to the worker.
LEMMA TakingPasses ==
  ASSUME Lined, PayloadsPlaced, TakeCompletion
  PROVE  PayloadsPlaced'
<1>1. /\ worker = Running /\ inbox # <<>> /\ inbox' = Tail(inbox)
      /\ worker' = [step |-> "take", body |-> Head(inbox).body]
      /\ UNCHANGED <<current, payloads, records>>
  BY DEF TakeCompletion, sessionVars, payloadVars, bridgeVars
<1>2. /\ 1 \in DOMAIN inbox /\ DOMAIN inbox' \subseteq Nat
      /\ \A k \in DOMAIN inbox' : k + 1 \in DOMAIN inbox /\ k + 1 # 1 /\ inbox'[k] = inbox[k + 1]
      /\ \A k \in DOMAIN inbox : k # 1 => k - 1 \in DOMAIN inbox' /\ inbox'[k - 1] = inbox[k]
      /\ worker.step # "take" /\ worker'.step = "take" /\ worker'.body = inbox[1].body
  BY <1>1, FrontLeaves DEF Lined, Running
<1> SUFFICES ASSUME NEW id, id # 0
             PROVE  OnceHeld(id)'
  BY DEF PayloadsPlaced
<1>3. OnceHeld(id) /\ InboxOnce(id)
  BY DEF PayloadsPlaced, OnceHeld
<1>4. /\ InRecord(id)' = InRecord(id) /\ RecordOnce(id)' = RecordOnce(id) /\ ~InWorker(id)
      /\ InWorker(id)' <=> id = inbox[1].body.lease
  BY <1>1, <1>2 DEF InRecord, RecordOnce, InWorker
<1>5. InInbox(id) <=> InInbox(id)' \/ InWorker(id)'
  BY <1>2, <1>4 DEF InInbox
<1>6. ~(InInbox(id)' /\ InWorker(id)')
  BY <1>2, <1>3, <1>4 DEF InInbox, InboxOnce
<1>7. InboxOnce(id)'
  <2> SUFFICES ASSUME NEW j \in DOMAIN inbox', NEW k \in DOMAIN inbox',
                      inbox'[j].body.lease = id, inbox'[k].body.lease = id
               PROVE  j = k
    BY DEF InboxOnce
  <2>1. j + 1 = k + 1
    BY <1>2, <1>3 DEF InboxOnce
  <2> QED
    BY <1>2, <2>1
<1>8. (id \in IdsOf(payloads, current))' <=> id \in IdsOf(payloads, current)
  BY <1>1
<1> QED
  BY <1>3, <1>4, <1>5, <1>6, <1>7, <1>8 DEF OnceHeld

\* A packet that is posted comes to the end.
LEMMA EndIsAdded ==
  ASSUME NEW box, \E packets : box \in Seq(packets), NEW p
  PROVE  LET end == Len(box) + 1 IN
         /\ DOMAIN Append(box, p) = DOMAIN box \cup {end} /\ end \notin DOMAIN box
         /\ Append(box, p)[end] = p /\ \A k \in DOMAIN box : Append(box, p)[k] = box[k]
<1>1. PICK packets : box \in Seq(packets)
  OBVIOUS
<1>2. /\ DOMAIN Append(box, p) = 1 .. Len(box) + 1 /\ DOMAIN box = 1 .. Len(box)
      /\ Len(box) \in Nat
      /\ Append(box, p)[Len(box) + 1] = p /\ \A k \in DOMAIN box : Append(box, p)[k] = box[k]
  BY <1>1, BoxesStay
<1> QED
  BY <1>2

\* A record passes to the mailbox as a packet.
LEMMA DeliveryPasses ==
  ASSUME Lined, PayloadsPlaced, NEW r \in records,
         inbox' = Append(inbox, CompletionPacket(r)), records' = records \ {r},
         UNCHANGED <<current, payloads, worker>>
  PROVE  PayloadsPlaced'
<1> DEFINE end == Len(inbox) + 1
<1>1. /\ DOMAIN inbox' = DOMAIN inbox \cup {end} /\ end \notin DOMAIN inbox
      /\ inbox'[end].body.lease = r.lease /\ \A k \in DOMAIN inbox : inbox'[k] = inbox[k]
  BY EndIsAdded DEF Lined, CompletionPacket
<1> HIDE DEF end
<1> SUFFICES ASSUME NEW id, id # 0
             PROVE  OnceHeld(id)'
  BY DEF PayloadsPlaced
<1>2. OnceHeld(id) /\ InboxOnce(id) /\ RecordOnce(id)
  BY DEF PayloadsPlaced, OnceHeld
<1>3. InWorker(id)' = InWorker(id)
  BY DEF InWorker
<1>4. InInbox(id)' <=> InInbox(id) \/ id = r.lease
  BY <1>1 DEF InInbox
<1>5. InRecord(id) <=> InRecord(id)' \/ id = r.lease
  BY DEF InRecord
<1>6. RecordOnce(id)' /\ ~(InRecord(id)' /\ id = r.lease)
  BY <1>2 DEF RecordOnce, InRecord
<1>7. InboxOnce(id)'
  <2>1. id = r.lease => ~InInbox(id)
    BY <1>2, <1>5 DEF OnceHeld
  <2> QED
    BY <1>1, <1>2, <2>1 DEF InboxOnce, InInbox
<1>8. (id \in IdsOf(payloads, current))' <=> id \in IdsOf(payloads, current)
  OBVIOUS
<1> QED
  BY <1>2, <1>3, <1>4, <1>5, <1>6, <1>7, <1>8 DEF OnceHeld

\* A payload is sealed and named in the record of its completion.
LEMMA FilingSeals ==
  ASSUME LedgerInv, Indexed, Unfiled, PayloadsPlaced, current' = current,
         NEW r \in records, ~r.ready, NEW i \in 1 .. PayloadLeases, PublishedFor(r, i),
         UNCHANGED <<inbox, worker>>
  PROVE  PayloadsPlaced'
<1> DEFINE new == LeaseId(i, payloads[i].generation)
           filed == Filed(r, new)
<1>1. /\ ~payloads[i].active /\ payloads' = Publish(payloads, i, current, 1)
      /\ records' = (records \ {r}) \cup {filed}
  BY DEF PublishedFor, Accepts, PayloadsBecome, IsFirstFree, FiledAs
<1>2. /\ IdsOf(payloads, current)' = IdsOf(payloads, current) \cup {new}
      /\ new # 0 /\ new \notin IdsOf(payloads, current)
  BY <1>1, IdsPublished
<1>3. filed.lease = new /\ r.lease = 0
  BY DEF Filed, LedgerInv, Shaped, Unfiled
<1> HIDE DEF new, filed
<1> SUFFICES ASSUME NEW id, id # 0
             PROVE  OnceHeld(id)'
  BY DEF PayloadsPlaced
<1>4. OnceHeld(id) /\ OnceHeld(new)
  BY <1>2 DEF PayloadsPlaced
<1>5. /\ InInbox(id)' = InInbox(id) /\ InWorker(id)' = InWorker(id)
      /\ InboxOnce(id)' = InboxOnce(id)
  BY DEF InInbox, InWorker, InboxOnce
<1>6. ~InRecord(new) /\ ~InInbox(new) /\ ~InWorker(new)
  BY <1>2, <1>4 DEF OnceHeld
<1>7. InRecord(id)' <=> InRecord(id) \/ id = new
  BY <1>1, <1>3 DEF InRecord
<1>8. RecordOnce(id)'
  BY <1>1, <1>3, <1>4, <1>6 DEF RecordOnce, InRecord, OnceHeld
<1> QED
  BY <1>2, <1>4, <1>5, <1>6, <1>7, <1>8 DEF OnceHeld

\* Records that are taken away release the leases they name.
LEMMA GoneReleased ==
  ASSUME LedgerInv, Indexed, PayloadsPlaced, current # NoSession, current' = current,
         NEW gone \in SUBSET records, Released(LeaseSlots(gone))
  PROVE  LET ids == {r.lease : r \in gone} IN
         /\ IdsOf(payloads, current)' = IdsOf(payloads, current) \ ids
         /\ \A id \in ids : id = 0 \/ InRecord(id)
<1> DEFINE ids == {r.lease : r \in gone}
<1>1. \A r \in gone : r.token.session = current
  BY DEF LedgerInv, Entered, Session
<1>2. LeaseSlots(gone) = UNION {SlotsHeld(payloads, current, r.lease) : r \in gone}
  BY <1>1 DEF LeaseSlots
<1>3. UNION {SlotsHeld(payloads, current, r.lease) : r \in gone}
        = UNION {SlotsHeld(payloads, current, id) : id \in ids}
  OBVIOUS
<1>4. \A id \in ids : InRecord(id)
  BY DEF InRecord
<1> HIDE DEF ids
<1>5. ids \in SUBSET ({0} \cup IdsOf(payloads, current))
  BY <1>4 DEF PayloadsPlaced, OnceHeld
<1>6. IdsOf(payloads, current)' = IdsOf(payloads, current) \ ids
  BY <1>2, <1>3, <1>5, IdsReleased
<1> QED
  BY <1>4, <1>6 DEF ids

\* Records of no lease may come, go and change.
LEMMA UnleasedChange ==
  ASSUME PayloadsPlaced, UNCHANGED <<current, payloads, inbox, worker>>,
         \A r \in records' : r.lease # 0 => r \in records,
         \A r \in records : r.lease # 0 => r \in records'
  PROVE  PayloadsPlaced'
<1> DEFINE none == {}
<1>1. /\ IdsOf(payloads, current)' = IdsOf(payloads, current) \ none
      /\ \A id : id \notin none
  OBVIOUS
<1> HIDE DEF none
<1> QED
  BY <1>1, RecordsReleased

\* Every step of a session leaves its payloads in one pair of hands.
LEMMA NextPayloadsPlaced ==
  ASSUME LedgerInv, HouseInv, current # NoSession => PayloadsPlaced,
         [SessionNext]_allVars, current' # NoSession
  PROVE  PayloadsPlaced'
<1> USE DEF HouseInv
<1>1. CASE BeginSession
  <2>1. /\ phase = "idle" /\ records' = {} /\ inbox' = <<>> /\ worker' = Running
        /\ UNCHANGED payloads
    BY <1>1 DEF BeginSession, Begin, boxVars, payloadVars, LedgerInv, Phased, Vacant
  <2>2. \A i \in DOMAIN payloads : ~payloads[i].active
    BY <2>1 DEF LedgerInv, Phased, SealedHere, Session
  <2>3. IdsOf(payloads, current)' = {}
    BY <2>1, <2>2 DEF IdsOf, SlotsOf, ActiveSlots
  <2> SUFFICES ASSUME NEW id
               PROVE  OnceHeld(id)'
    BY DEF PayloadsPlaced
  <2>4. ~InRecord(id)' /\ ~InInbox(id)' /\ ~InWorker(id)' /\ RecordOnce(id)' /\ InboxOnce(id)'
    BY <2>1 DEF InRecord, InInbox, InWorker, Running, RecordOnce, InboxOnce
  <2> QED
    BY <2>3, <2>4 DEF OnceHeld
<1>2. CASE BeginShutdown \/ EndSession
  BY <1>2 DEF BeginShutdown, BeginTeardown, EndSession, CompleteTeardown
<1>3. CASE BridgeBeginTeardown \/ BridgeCompleteTeardown
  BY <1>3 DEF BridgeBeginTeardown, BridgeCompleteTeardown, sessionVars, LedgerInv, Phased
<1>4. ASSUME UNCHANGED <<current, payloads, inbox, worker, records>>
      PROVE  PayloadsPlaced'
  BY <1>4, UnleasedChange
<1>5. CASE UNCHANGED allVars
  BY <1>4, <1>5 DEF allVars, supervisorVars, sessionVars, payloadVars, boxVars, bridgeVars,
                    scriptVars
<1>6. CASE LaunchApp \/ TerminateApp \/ PumpNothing
  BY <1>4, <1>6 DEF LaunchApp, TerminateApp, PumpNothing, supervisorVars, sessionVars,
                    payloadVars, boxVars, bridgeVars, scriptVars
<1>7. CASE \E w \in ServiceWorkers : Work(w)
  BY <1>4, <1>7 DEF Work, supervisorVars, sessionVars, payloadVars, boxVars, bridgeVars,
                    scriptVars
<1>8. CASE \E q \in RequestIds : Ask(q) \/ CancelAsked(q)
  BY <1>4, <1>8 DEF Ask, CancelAsked, PostedByScript, sessionVars, payloadVars, bridgeVars
<1>9. CASE StopWorker
  <2>1. UNCHANGED <<current, payloads, inbox, records>> /\ worker = Running /\ worker' = Done
    BY <1>9 DEF StopWorker, supervisorVars, sessionVars, payloadVars, boxVars, bridgeVars
  <2> SUFFICES ASSUME NEW id, id # 0
               PROVE  OnceHeld(id)'
    BY DEF PayloadsPlaced
  <2>2. /\ InRecord(id)' = InRecord(id) /\ InInbox(id)' = InInbox(id)
        /\ ~InWorker(id) /\ ~InWorker(id)'
        /\ RecordOnce(id)' = RecordOnce(id) /\ InboxOnce(id)' = InboxOnce(id)
    BY <2>1 DEF InRecord, InInbox, InWorker, Running, Done, RecordOnce, InboxOnce
  <2>3. OnceHeld(id)
    BY <2>1 DEF PayloadsPlaced
  <2> QED
    BY <2>1, <2>2, <2>3 DEF OnceHeld
<1>10. CASE PumpRequest
  <2>1. UNCHANGED <<current, inbox, worker>> /\ current # NoSession /\ PayloadsPlaced
    BY <1>10 DEF PumpRequest, sessionVars
  <2>2. ASSUME NEW q, SubmitRequest(TokenOf(q))
        PROVE  PayloadsPlaced'
    <3>1. UNCHANGED payloads
      BY <2>2 DEF SubmitRequest, payloadVars
    <3>2. UNCHANGED records \/ \E job : records' = records \cup {NewRecord(TokenOf(q), job)}
      BY <2>2 DEF SubmitRequest, TurnAway, LetIn, AcceptedByHost, RejectedByHost
    <3>3. \A job : NewRecord(TokenOf(q), job).lease = 0
      BY DEF NewRecord
    <3> QED
      BY <2>1, <3>1, <3>2, <3>3, UnleasedChange
  <2>3. ASSUME NEW q, CancelRequest(TokenOf(q))
        PROVE  PayloadsPlaced'
    <3> DEFINE inWork == {r \in RecordOf(TokenOf(q)) : ~r.ready /\ r.job \notin pending}
               gone == RecordOf(TokenOf(q)) \ inWork
               kept == {[r EXCEPT !.cancelled = TRUE] : r \in inWork}
               ids == {r.lease : r \in gone}
    <3>1. /\ records' = (records \ RecordOf(TokenOf(q))) \cup kept
          /\ RecordOf(TokenOf(q)) \subseteq records
          /\ Released(LeaseSlots(gone))
      BY <2>3 DEF CancelRequest, RecordOf
    <3>2. \A r \in inWork : r.lease = 0 /\ [r EXCEPT !.cancelled = TRUE].lease = 0
      BY <3>1 DEF LedgerInv, Shaped, Unfiled
    <3>3. \A k \in kept : k.lease = 0
      BY <3>2
    <3>4. /\ \A r \in RecordOf(TokenOf(q)) : r.lease # 0 => r.lease \in ids
          /\ \A r \in RecordOf(TokenOf(q)) : r.lease = 0 \/ r \in gone
      BY <3>2
    <3>5. gone \in SUBSET records
      BY <3>1
    <3>6. /\ IdsOf(payloads, current)' = IdsOf(payloads, current) \ ids
          /\ \A id \in ids : id = 0 \/ InRecord(id)
      BY <2>1, <3>1, <3>5, GoneReleased
    <3>7. \A r \in records \ RecordOf(TokenOf(q)) : r.lease # 0 => r.lease \notin ids
      <4> SUFFICES ASSUME NEW r \in records, r \notin RecordOf(TokenOf(q)), r.lease # 0,
                          NEW s \in gone, r.lease = s.lease
                   PROVE  FALSE
        OBVIOUS
      <4>1. RecordOnce(r.lease)
        BY <2>1 DEF PayloadsPlaced, OnceHeld
      <4> QED
        BY <3>5, <4>1 DEF RecordOnce
    <3> HIDE DEF inWork, gone, kept, ids
    <3>8. /\ \A r \in records' : r.lease # 0 => r \in records /\ r.lease \notin ids
          /\ \A r \in records : r.lease # 0 => r \in records' \/ r.lease \in ids
      BY <3>1, <3>3, <3>4, <3>7
    <3> QED
      BY <2>1, <3>6, <3>8, RecordsReleased
  <2> QED
    BY <1>10, <2>2, <2>3 DEF PumpRequest
<1>11. CASE \E c \in completions \cup staged : PumpCompletion(c)
  <2>1. PICK c \in completions \cup staged : PumpCompletion(c)
    BY <1>11
  <2>2. UNCHANGED <<current, inbox, worker>> /\ current # NoSession /\ PayloadsPlaced
    BY <2>1 DEF PumpCompletion, sessionVars, boxVars, scriptVars
  <2>3. \/ UNCHANGED <<records, payloadVars>>
        \/ \E r \in records : ~r.ready /\ FiledAs(r, 0) /\ UNCHANGED payloadVars
        \/ \E r \in records, i \in 1 .. PayloadLeases : ~r.ready /\ PublishedFor(r, i)
    BY <2>1 DEF PumpCompletion, FileCompletion
  <2>4. ASSUME NEW r \in records, ~r.ready, FiledAs(r, 0), UNCHANGED payloadVars
        PROVE  PayloadsPlaced'
    <3>1. /\ records' = (records \ {r}) \cup {Filed(r, 0)}
          /\ r.lease = 0 /\ Filed(r, 0).lease = 0
      BY <2>4 DEF FiledAs, Filed, LedgerInv, Shaped, Unfiled
    <3> QED
      BY <2>2, <2>4, <3>1, UnleasedChange DEF payloadVars
  <2> QED
    BY <1>4, <2>2, <2>3, <2>4, FilingSeals DEF payloadVars
<1>12. CASE \E token \in toDeliver : DeliverNext(token)
  <2>1. PICK token \in toDeliver : DeliverNext(token)
    BY <1>12
  <2>2. UNCHANGED <<current, worker>> /\ current # NoSession /\ PayloadsPlaced
    BY <2>1 DEF DeliverNext, sessionVars, scriptVars
  <2>3. PICK r \in records :
          \/ Deliver(r) /\ UNCHANGED payloadVars
          \/ DiscardRecord(r) /\ UNCHANGED inbox
    BY <2>1 DEF DeliverNext, RecordOf
  <2>4. CASE Deliver(r) /\ UNCHANGED payloadVars
    BY <1>4, <2>2, <2>4, DeliveryPasses DEF Deliver, payloadVars
  <2>5. CASE DiscardRecord(r) /\ UNCHANGED inbox
    <3> DEFINE ids == {s.lease : s \in {r}}
    <3>1. /\ records' = records \ {r} /\ ids = {r.lease}
          /\ IdsOf(payloads, current)' = IdsOf(payloads, current) \ ids
          /\ \A id \in ids : id = 0 \/ InRecord(id)
      BY <2>2, <2>5, GoneReleased DEF DiscardRecord
    <3>2. \A s \in records \ {r} : s.lease # 0 => s.lease # r.lease
      BY <2>2 DEF PayloadsPlaced, OnceHeld, RecordOnce
    <3> HIDE DEF ids
    <3> QED
      BY <2>2, <2>5, <3>1, <3>2, RecordsReleased
  <2> QED
    BY <2>3, <2>4, <2>5
<1>13. CASE TakeCompletion
  BY <1>13, TakingPasses DEF TakeCompletion
<1>14. CASE Dispatch
  BY <1>14, DispatchReleases DEF Dispatch, sessionVars
<1> QED
  BY <1>1, <1>2, <1>3, <1>5, <1>6, <1>7, <1>8, <1>9, <1>10, <1>11, <1>12, <1>13, <1>14
     DEF SessionNext, Shutdown, Pump

-----------------------------------------------------------------------------
(***************************************************************************)
(* Requests and their answers                                              *)
(***************************************************************************)
\* A step that hands on nothing, though records may be marked, filed or taken away.
LEMMA RequestsStay ==
  ASSUME RequestsPlaced, UNCHANGED <<requestBox, inbox, worker, asked, turnedAway>>,
         \A r \in records' : \E s \in records : r.token = s.token
  PROVE  RequestsPlaced'
<1> SUFFICES ASSUME NEW q
             PROVE  OncePlaced(q)'
  BY DEF RequestsPlaced
<1>1. OncePlaced(q)
  BY DEF RequestsPlaced
<1>2. /\ Requested(q)' = Requested(q) /\ Answered(q)' = Answered(q) /\ Served(q)' = Served(q)
      /\ \A k : IsRequest(k, q)' = IsRequest(k, q)
  BY DEF Requested, Answered, Served, IsRequest
<1>3. Recorded(q)' => Recorded(q)
  BY DEF Recorded
<1> QED
  BY <1>1, <1>2, <1>3 DEF OncePlaced

\* A packet of the script joins the mailbox: a request if its id is new.
LEMMA PostingPlaces ==
  ASSUME Lined, RequestsPlaced, NEW kind, NEW new, PostedByScript(kind, new),
         \/ kind = "ServiceRequest" /\ new \notin asked /\ asked' = asked \cup {new}
         \/ kind = "ServiceCancel" /\ asked' = asked
  PROVE  RequestsPlaced'
<1> DEFINE p == [kind |-> kind, session |-> Session, body |-> [request |-> new, lease |-> 0]]
<1>1. PICK end :
        /\ DOMAIN requestBox' = DOMAIN requestBox \cup {end} /\ end \notin DOMAIN requestBox
        /\ requestBox'[end] = p /\ \A k \in DOMAIN requestBox : requestBox'[k] = requestBox[k]
  BY EndIsAdded DEF Lined, PostedByScript
<1>2. p.kind = kind /\ p.body.request = new
  OBVIOUS
<1>3. UNCHANGED <<inbox, records, worker, turnedAway>>
  BY DEF PostedByScript, bridgeVars
<1> HIDE DEF p
<1> SUFFICES ASSUME NEW q
             PROVE  OncePlaced(q)'
  BY DEF RequestsPlaced
<1>4. OncePlaced(q)
  BY DEF RequestsPlaced
<1>5. /\ Recorded(q)' = Recorded(q) /\ Answered(q)' = Answered(q) /\ Served(q)' = Served(q)
  BY <1>3 DEF Recorded, Answered, Served
<1>6. /\ \A k \in DOMAIN requestBox : IsRequest(k, q)' = IsRequest(k, q)
      /\ IsRequest(end, q)' <=> kind = "ServiceRequest" /\ new = q
  BY <1>1, <1>2 DEF IsRequest
<1>7. Requested(q)' <=> Requested(q) \/ (kind = "ServiceRequest" /\ new = q)
  BY <1>1, <1>6 DEF Requested
<1>8. kind = "ServiceRequest" /\ new = q =>
        /\ ~Requested(q) /\ ~Recorded(q) /\ ~Answered(q) /\ ~Served(q)
        /\ q \in asked' \ turnedAway'
  BY <1>3, <1>4 DEF OncePlaced
<1>9. (\A j, k \in DOMAIN requestBox : IsRequest(j, q) /\ IsRequest(k, q) => j = k)'
  BY <1>1, <1>4, <1>6, <1>8 DEF OncePlaced, Requested
<1>10. (\A j, k \in DOMAIN inbox :
          inbox[j].body.request = q /\ inbox[k].body.request = q => j = k)'
  BY <1>3, <1>4 DEF OncePlaced
<1> QED
  BY <1>3, <1>4, <1>5, <1>7, <1>8, <1>9, <1>10 DEF OncePlaced

\* The packet in front goes: a request may become a record, a cancellation adds none.
LEMMA PumpingPlaces ==
  ASSUME LedgerInv, Lined, RequestsPlaced, PumpRequest
  PROVE  RequestsPlaced'
<1> DEFINE head == requestBox[1]
<1>1. /\ requestBox # <<>> /\ requestBox' = Tail(requestBox)
      /\ UNCHANGED <<inbox, worker, asked>>
  BY DEF PumpRequest
<1>2. /\ Head(requestBox) = head /\ 1 \in DOMAIN requestBox /\ DOMAIN requestBox' \subseteq Nat
      /\ \A k \in DOMAIN requestBox' :
           k + 1 \in DOMAIN requestBox /\ k + 1 # 1 /\ requestBox'[k] = requestBox[k + 1]
      /\ \A k \in DOMAIN requestBox :
           k # 1 => k - 1 \in DOMAIN requestBox' /\ requestBox'[k - 1] = requestBox[k]
  BY <1>1, FrontLeaves DEF Lined
<1> SUFFICES ASSUME NEW q
             PROVE  OncePlaced(q)'
  BY DEF RequestsPlaced
<1>3. OncePlaced(q)
  BY DEF RequestsPlaced
<1>4. Answered(q)' = Answered(q) /\ Served(q)' = Served(q)
  BY <1>1 DEF Answered, Served
<1>5. /\ Recorded(q)' => Recorded(q) \/ (IsRequest(1, q) /\ turnedAway' = turnedAway)
      /\ q \in turnedAway' => q \in turnedAway \/ IsRequest(1, q)
  <2>1. CASE head.kind = "ServiceCancel"
    <3>1. CancelRequest(TokenOf(head.body.request))
      BY <1>2, <2>1 DEF PumpRequest
    <3>2. \A r \in records : [r EXCEPT !.cancelled = TRUE].token = r.token
      BY DEF LedgerInv, Shaped
    <3>3. \A r \in records' : \E s \in records : r.token = s.token
      BY <3>1, <3>2 DEF CancelRequest, RecordOf
    <3> QED
      BY <3>1, <3>3 DEF CancelRequest, Recorded
  <2>2. CASE head.kind = "ServiceRequest"
    <3>1. SubmitRequest(TokenOf(head.body.request))
      BY <1>2, <2>2 DEF PumpRequest
    <3>2. \/ UNCHANGED records /\ turnedAway' = turnedAway \cup {head.body.request}
          \/ /\ \E job : records' = records \cup {NewRecord(TokenOf(head.body.request), job)}
             /\ UNCHANGED turnedAway
      BY <3>1 DEF SubmitRequest, TurnAway, LetIn, AcceptedByHost, RejectedByHost, TokenOf
    <3>3. \A job : NewRecord(TokenOf(head.body.request), job).token.request = head.body.request
      BY DEF NewRecord, TokenOf
    <3> QED
      BY <2>2, <3>2, <3>3 DEF Recorded, IsRequest
  <2> QED
    BY <1>2, <2>1, <2>2 DEF Lined
<1> HIDE DEF head
<1>6. /\ \A k \in DOMAIN requestBox' : IsRequest(k, q)' = IsRequest(k + 1, q)
      /\ \A k \in DOMAIN requestBox : k # 1 => IsRequest(k - 1, q)' = IsRequest(k, q)
  BY <1>2 DEF IsRequest
<1>7. Requested(q) <=> Requested(q)' \/ IsRequest(1, q)
  BY <1>2, <1>6 DEF Requested
<1>8. ~(Requested(q)' /\ IsRequest(1, q))
  BY <1>2, <1>3, <1>6 DEF Requested, OncePlaced
<1>9. (\A j, k \in DOMAIN requestBox : IsRequest(j, q) /\ IsRequest(k, q) => j = k)'
  <2> SUFFICES ASSUME NEW j \in DOMAIN requestBox', NEW k \in DOMAIN requestBox',
                      IsRequest(j, q)', IsRequest(k, q)'
               PROVE  j = k
    OBVIOUS
  <2>1. j + 1 = k + 1
    BY <1>2, <1>3, <1>6 DEF OncePlaced
  <2> QED
    BY <1>2, <2>1
<1>10. (\A j, k \in DOMAIN inbox :
          inbox[j].body.request = q /\ inbox[k].body.request = q => j = k)'
  BY <1>1, <1>3 DEF OncePlaced
<1> QED
  BY <1>1, <1>3, <1>4, <1>5, <1>7, <1>8, <1>9, <1>10 DEF OncePlaced

\* A record becomes an answer in the inbox.
LEMMA DeliveringPlaces ==
  ASSUME LedgerInv, Lined, Unfiled, RequestsPlaced, NEW r \in records,
         inbox' = Append(inbox, CompletionPacket(r)), records' = records \ {r},
         UNCHANGED <<requestBox, worker, asked, turnedAway>>
  PROVE  RequestsPlaced'
<1> DEFINE end == Len(inbox) + 1
<1>1. /\ DOMAIN inbox' = DOMAIN inbox \cup {end} /\ end \notin DOMAIN inbox
      /\ inbox'[end].body.request = r.token.request
      /\ \A k \in DOMAIN inbox : inbox'[k] = inbox[k]
  BY EndIsAdded DEF Lined, CompletionPacket
<1> HIDE DEF end
<1> SUFFICES ASSUME NEW q
             PROVE  OncePlaced(q)'
  BY DEF RequestsPlaced
<1>2. OncePlaced(q)
  BY DEF RequestsPlaced
<1>3. /\ Requested(q)' = Requested(q) /\ Served(q)' = Served(q)
      /\ \A k : IsRequest(k, q)' = IsRequest(k, q)
  BY DEF Requested, Served, IsRequest
<1>4. Answered(q)' <=> Answered(q) \/ r.token.request = q
  BY <1>1 DEF Answered
<1>5. Recorded(q) <=> Recorded(q)' \/ r.token.request = q
  BY DEF Recorded
<1>6. ~(Recorded(q)' /\ r.token.request = q)
  <2> SUFFICES ASSUME NEW s \in records \ {r}, s.token.request = r.token.request
               PROVE  FALSE
    BY DEF Recorded
  <2>1. s.token = r.token
    BY DEF Unfiled
  <2> QED
    BY <2>1 DEF LedgerInv, Entered
<1>7. (\A j, k \in DOMAIN inbox :
         inbox[j].body.request = q /\ inbox[k].body.request = q => j = k)'
  <2>1. r.token.request = q => ~Answered(q)
    BY <1>2, <1>5 DEF OncePlaced
  <2> QED
    BY <1>1, <1>2, <2>1 DEF OncePlaced, Answered
<1>8. (\A j, k \in DOMAIN requestBox : IsRequest(j, q) /\ IsRequest(k, q) => j = k)'
  BY <1>2, <1>3 DEF OncePlaced
<1> QED
  BY <1>2, <1>3, <1>4, <1>5, <1>6, <1>7, <1>8 DEF OncePlaced

\* The answer in front passes to the worker.
LEMMA TakingPlaces ==
  ASSUME Lined, RequestsPlaced, TakeCompletion
  PROVE  RequestsPlaced'
<1>1. /\ worker = Running /\ inbox # <<>> /\ inbox' = Tail(inbox)
      /\ worker' = [step |-> "take", body |-> Head(inbox).body]
      /\ UNCHANGED <<requestBox, records, asked, turnedAway>>
  BY DEF TakeCompletion, bridgeVars
<1>2. /\ 1 \in DOMAIN inbox /\ DOMAIN inbox' \subseteq Nat
      /\ \A k \in DOMAIN inbox' : k + 1 \in DOMAIN inbox /\ k + 1 # 1 /\ inbox'[k] = inbox[k + 1]
      /\ \A k \in DOMAIN inbox : k # 1 => k - 1 \in DOMAIN inbox' /\ inbox'[k - 1] = inbox[k]
      /\ worker.step # "take" /\ worker'.step = "take" /\ worker'.body = inbox[1].body
  BY <1>1, FrontLeaves DEF Lined, Running
<1> SUFFICES ASSUME NEW q
             PROVE  OncePlaced(q)'
  BY DEF RequestsPlaced
<1>3. OncePlaced(q)
  BY DEF RequestsPlaced
<1>4. /\ Requested(q)' = Requested(q) /\ Recorded(q)' = Recorded(q) /\ ~Served(q)
      /\ \A k : IsRequest(k, q)' = IsRequest(k, q)
      /\ Served(q)' <=> q = inbox[1].body.request
  BY <1>1, <1>2 DEF Requested, Recorded, IsRequest, Served
<1>5. Answered(q) <=> Answered(q)' \/ Served(q)'
  BY <1>2, <1>4 DEF Answered
<1>6. ~(Answered(q)' /\ Served(q)')
  BY <1>2, <1>3, <1>4 DEF Answered, OncePlaced
<1>7. (\A j, k \in DOMAIN inbox :
         inbox[j].body.request = q /\ inbox[k].body.request = q => j = k)'
  <2> SUFFICES ASSUME NEW j \in DOMAIN inbox', NEW k \in DOMAIN inbox',
                      inbox'[j].body.request = q, inbox'[k].body.request = q
               PROVE  j = k
    OBVIOUS
  <2>1. j + 1 = k + 1
    BY <1>2, <1>3 DEF OncePlaced
  <2> QED
    BY <1>2, <2>1
<1>8. (\A j, k \in DOMAIN requestBox : IsRequest(j, q) /\ IsRequest(k, q) => j = k)'
  BY <1>1, <1>3, <1>4 DEF OncePlaced
<1> QED
  BY <1>1, <1>3, <1>4, <1>5, <1>6, <1>7, <1>8 DEF OncePlaced

\* The worker is done with what it has taken.
LEMMA ServingEnds ==
  ASSUME RequestsPlaced, UNCHANGED <<requestBox, inbox, records, asked, turnedAway>>,
         worker'.step # "take"
  PROVE  RequestsPlaced'
<1> SUFFICES ASSUME NEW q
             PROVE  OncePlaced(q)'
  BY DEF RequestsPlaced
<1>1. OncePlaced(q)
  BY DEF RequestsPlaced
<1>2. /\ Requested(q)' = Requested(q) /\ Recorded(q)' = Recorded(q)
      /\ Answered(q)' = Answered(q) /\ ~Served(q)' /\ \A k : IsRequest(k, q)' = IsRequest(k, q)
  BY DEF Requested, Recorded, Answered, Served, IsRequest
<1> QED
  BY <1>1, <1>2 DEF OncePlaced

\* No step of a session answers a request twice.
LEMMA NextRequestsPlaced ==
  ASSUME LedgerInv, HouseInv, current # NoSession => RequestsPlaced,
         [SessionNext]_allVars, current' # NoSession
  PROVE  RequestsPlaced'
<1> USE DEF HouseInv
<1>1. CASE BeginSession
  <2>1. /\ records' = {} /\ inbox' = <<>> /\ requestBox' = <<>> /\ worker' = Running
        /\ turnedAway' = {}
    BY <1>1 DEF BeginSession, Begin, boxVars, LedgerInv, Phased, Vacant
  <2>2. worker'.step # "take"
    BY <2>1 DEF Running
  <2>3. ASSUME NEW q
        PROVE  ~Requested(q)' /\ ~Recorded(q)' /\ ~Answered(q)' /\ ~Served(q)'
    BY <2>1, <2>2 DEF Requested, Recorded, Answered, Served
  <2> QED
    BY <2>1, <2>3 DEF RequestsPlaced, OncePlaced
<1>2. CASE BeginShutdown \/ EndSession
  BY <1>2 DEF BeginShutdown, BeginTeardown, EndSession, CompleteTeardown
<1>3. CASE BridgeBeginTeardown \/ BridgeCompleteTeardown
  BY <1>3 DEF BridgeBeginTeardown, BridgeCompleteTeardown, sessionVars, LedgerInv, Phased
<1>4. ASSUME UNCHANGED <<current, requestBox, inbox, worker, asked, turnedAway, records>>
      PROVE  RequestsPlaced'
  BY <1>4, RequestsStay
<1>5. CASE UNCHANGED allVars
  BY <1>4, <1>5 DEF allVars, supervisorVars, sessionVars, boxVars, bridgeVars, scriptVars
<1>6. CASE LaunchApp \/ TerminateApp \/ PumpNothing
  BY <1>4, <1>6 DEF LaunchApp, TerminateApp, PumpNothing, supervisorVars, sessionVars,
                    boxVars, bridgeVars, scriptVars
<1>7. CASE \E w \in ServiceWorkers : Work(w)
  BY <1>4, <1>7 DEF Work, supervisorVars, sessionVars, boxVars, bridgeVars, scriptVars
<1>8. CASE \E q \in RequestIds : Ask(q) \/ CancelAsked(q)
  <2>1. PICK q \in RequestIds : Ask(q) \/ CancelAsked(q)
    BY <1>8
  <2>2. current # NoSession
    BY <2>1 DEF Ask, CancelAsked, PostedByScript
  <2> QED
    BY <2>1, <2>2, PostingPlaces DEF Ask, CancelAsked
<1>9. CASE StopWorker
  <2>1. /\ UNCHANGED <<current, requestBox, inbox, records, asked, turnedAway>>
        /\ worker'.step # "take"
    BY <1>9 DEF StopWorker, supervisorVars, sessionVars, boxVars, bridgeVars, Done
  <2> QED
    BY <2>1, ServingEnds
<1>10. CASE Dispatch
  <2>1. /\ UNCHANGED <<current, requestBox, inbox, records, asked, turnedAway>>
        /\ worker'.step # "take"
    BY <1>10 DEF Dispatch, sessionVars, boxVars, bridgeVars, Running
  <2> QED
    BY <2>1, ServingEnds
<1>11. CASE PumpRequest
  BY <1>11, PumpingPlaces DEF PumpRequest, sessionVars
<1>12. CASE TakeCompletion
  BY <1>12, TakingPlaces DEF TakeCompletion
<1>13. CASE \E c \in completions \cup staged : PumpCompletion(c)
  <2>1. PICK c \in completions \cup staged : PumpCompletion(c)
    BY <1>13
  <2>2. UNCHANGED <<current, requestBox, inbox, worker, asked, turnedAway>>
    BY <2>1 DEF PumpCompletion, sessionVars, boxVars, scriptVars
  <2>3. UNCHANGED records \/ \E r \in records : \E lease : FiledAs(r, lease)
    BY <2>1 DEF PumpCompletion, FileCompletion, PublishedFor
  <2>4. \A r \in records : \A lease : Filed(r, lease).token = r.token
    BY DEF LedgerInv, Shaped, Filed
  <2>5. \A r \in records' : \E s \in records : r.token = s.token
    BY <2>3, <2>4 DEF FiledAs
  <2> QED
    BY <2>2, <2>5, RequestsStay
<1>14. CASE \E token \in toDeliver : DeliverNext(token)
  <2>1. PICK token \in toDeliver : DeliverNext(token)
    BY <1>14
  <2>2. UNCHANGED <<current, requestBox, worker, asked, turnedAway>>
    BY <2>1 DEF DeliverNext, sessionVars, scriptVars
  <2>3. PICK r \in records : Deliver(r) \/ (DiscardRecord(r) /\ UNCHANGED inbox)
    BY <2>1 DEF DeliverNext, RecordOf
  <2>4. CASE UNCHANGED inbox /\ records' \subseteq records
    BY <2>2, <2>4, RequestsStay
  <2> QED
    BY <2>2, <2>3, <2>4, DeliveringPlaces DEF Deliver, DiscardRecord
<1> QED
  BY <1>1, <1>2, <1>3, <1>5, <1>6, <1>7, <1>8, <1>9, <1>10, <1>11, <1>12, <1>13, <1>14
     DEF SessionNext, Shutdown, Pump

\* A step that posts nothing, asks for nothing and marks nothing that is waited for.
LEMMA SettledStays ==
  ASSUME Settled, UNCHANGED <<requestBox, asked>>, callbacks' \subseteq callbacks,
         \A r \in records' : r.cancelled =>
           \E s \in records : s.cancelled /\ s.token = r.token
  PROVE  Settled'
  BY DEF Settled

\* No step marks a request that the script still waits for.
LEMMA NextSettled ==
  ASSUME LedgerInv, HouseInv, current # NoSession => RequestsPlaced /\ Settled,
         [SessionNext]_allVars, current' # NoSession
  PROVE  Settled'
<1> USE DEF HouseInv
<1>1. CASE BeginSession
  BY <1>1 DEF BeginSession, Begin, boxVars, LedgerInv, Phased, Vacant, Settled
<1>2. CASE BeginShutdown \/ EndSession
  BY <1>2 DEF BeginShutdown, BeginTeardown, EndSession, CompleteTeardown
<1>3. CASE BridgeBeginTeardown \/ BridgeCompleteTeardown
  BY <1>3 DEF BridgeBeginTeardown, BridgeCompleteTeardown, sessionVars, LedgerInv, Phased
<1>4. ASSUME UNCHANGED <<current, requestBox, asked>>, callbacks' \subseteq callbacks,
             records' \subseteq records
      PROVE  Settled'
  BY <1>4, SettledStays
<1>5. CASE UNCHANGED allVars
  BY <1>4, <1>5 DEF allVars, supervisorVars, sessionVars, boxVars, bridgeVars, scriptVars
<1>6. CASE LaunchApp \/ TerminateApp \/ PumpNothing
  BY <1>4, <1>6 DEF LaunchApp, TerminateApp, PumpNothing, supervisorVars, sessionVars,
                    boxVars, bridgeVars, scriptVars
<1>7. CASE \E w \in ServiceWorkers : Work(w)
  BY <1>4, <1>7 DEF Work, supervisorVars, sessionVars, boxVars, bridgeVars, scriptVars
<1>8. CASE StopWorker \/ Dispatch
  BY <1>4, <1>8 DEF StopWorker, Dispatch, supervisorVars, sessionVars, boxVars, bridgeVars
<1>9. CASE TakeCompletion
  BY <1>4, <1>9 DEF TakeCompletion, sessionVars, bridgeVars
<1>10. CASE \E token \in toDeliver : DeliverNext(token)
  BY <1>4, <1>10 DEF DeliverNext, Deliver, DiscardRecord, sessionVars, scriptVars
<1>11. CASE \E q \in RequestIds : Ask(q) \/ CancelAsked(q)
  <2>1. PICK q \in RequestIds : Ask(q) \/ CancelAsked(q)
    BY <1>11
  <2>2. PICK kind :
          /\ PostedByScript(kind, q)
          /\ \/ /\ kind = "ServiceRequest" /\ q \notin asked
                /\ asked' = asked \cup {q} /\ callbacks' = callbacks \cup {q}
             \/ /\ kind = "ServiceCancel" /\ q \in callbacks
                /\ asked' = asked /\ callbacks' = callbacks \ {q}
    BY <2>1 DEF Ask, CancelAsked
  <2> DEFINE p == [kind |-> kind, session |-> Session, body |-> [request |-> q, lease |-> 0]]
  <2>3. PICK end :
          /\ DOMAIN requestBox' = DOMAIN requestBox \cup {end}
          /\ requestBox'[end] = p /\ \A k \in DOMAIN requestBox : requestBox'[k] = requestBox[k]
    BY <2>2, EndIsAdded DEF Lined, PostedByScript
  <2>4. p.kind = kind /\ p.body.request = q
    OBVIOUS
  <2>5. records' = records /\ RequestsPlaced /\ Settled
    BY <2>2 DEF PostedByScript, bridgeVars
  <2>6. \A r \in records : r.token.request \in asked
    BY <2>5 DEF RequestsPlaced, OncePlaced, Recorded
  <2> HIDE DEF p
  <2>7. /\ callbacks' \subseteq asked'
        /\ \A r \in records' : r.cancelled => r.token.request \notin callbacks'
    BY <2>2, <2>5, <2>6 DEF Settled
  <2>8. \A k \in DOMAIN requestBox' : requestBox'[k].kind = "ServiceCancel" =>
          requestBox'[k].body.request \in asked' \ callbacks'
    BY <2>2, <2>3, <2>4, <2>5 DEF Settled
  <2> QED
    BY <2>7, <2>8 DEF Settled
<1>12. CASE PumpRequest
  <2> DEFINE head == requestBox[1]
  <2>1. /\ requestBox # <<>> /\ requestBox' = Tail(requestBox) /\ Settled
        /\ UNCHANGED <<callbacks, asked>>
    BY <1>12 DEF PumpRequest, sessionVars
  <2>2. /\ Head(requestBox) = head /\ 1 \in DOMAIN requestBox
        /\ \A k \in DOMAIN requestBox' :
             k + 1 \in DOMAIN requestBox /\ requestBox'[k] = requestBox[k + 1]
    BY <2>1, FrontLeaves DEF Lined
  <2>3. \A r \in records' : r.cancelled => r.token.request \notin callbacks'
    <3>1. CASE head.kind = "ServiceCancel"
      <4>1. CancelRequest(TokenOf(head.body.request)) /\ head.body.request \notin callbacks
        BY <1>12, <2>1, <2>2, <3>1 DEF PumpRequest, Settled
      <4>2. \A r \in records : [r EXCEPT !.cancelled = TRUE].token = r.token
        BY DEF LedgerInv, Shaped
      <4>3. \A r \in records' : r \in records \/ r.token = TokenOf(head.body.request)
        BY <4>1, <4>2 DEF CancelRequest, RecordOf
      <4>4. TokenOf(head.body.request).request = head.body.request
        BY DEF TokenOf
      <4> QED
        BY <2>1, <4>1, <4>3, <4>4 DEF Settled
    <3>2. CASE head.kind = "ServiceRequest"
      <4>1. SubmitRequest(TokenOf(head.body.request))
        BY <1>12, <2>2, <3>2 DEF PumpRequest
      <4>2. \/ UNCHANGED records
            \/ \E job : records' = records \cup {NewRecord(TokenOf(head.body.request), job)}
        BY <4>1 DEF SubmitRequest, TurnAway, LetIn, AcceptedByHost, RejectedByHost
      <4>3. \A job : ~NewRecord(TokenOf(head.body.request), job).cancelled
        BY DEF NewRecord
      <4> QED
        BY <2>1, <4>2, <4>3 DEF Settled
    <3> QED
      BY <2>2, <3>1, <3>2 DEF Lined
  <2> HIDE DEF head
  <2> QED
    BY <2>1, <2>2, <2>3 DEF Settled
<1>13. CASE \E c \in completions \cup staged : PumpCompletion(c)
  <2>1. PICK c \in completions \cup staged : PumpCompletion(c)
    BY <1>13
  <2>2. UNCHANGED <<current, requestBox, asked, callbacks>>
    BY <2>1 DEF PumpCompletion, sessionVars, boxVars, scriptVars
  <2>3. UNCHANGED records \/ \E r \in records : \E lease : FiledAs(r, lease)
    BY <2>1 DEF PumpCompletion, FileCompletion, PublishedFor
  <2>4. \A r \in records : \A lease : /\ Filed(r, lease).token = r.token
                                     /\ Filed(r, lease).cancelled = r.cancelled
    BY DEF LedgerInv, Shaped, Filed
  <2>5. \A r \in records' : r.cancelled => \E s \in records : s.cancelled /\ s.token = r.token
    BY <2>3, <2>4 DEF FiledAs
  <2> QED
    BY <2>2, <2>5, SettledStays
<1> QED
  BY <1>1, <1>2, <1>3, <1>5, <1>6, <1>7, <1>8, <1>9, <1>10, <1>11, <1>12, <1>13
     DEF SessionNext, Shutdown, Pump

-----------------------------------------------------------------------------
(***************************************************************************)
(* What the script waits for                                               *)
(***************************************************************************)
\* A step that takes nothing from its place.
LEMMA AwaitedStays ==
  ASSUME Awaited, UNCHANGED <<current, requestBox, inbox, worker, turnedAway>>,
         callbacks' \subseteq callbacks,
         \A r \in records : r.token.request \in callbacks' =>
           \E s \in records' : s.token.request = r.token.request
  PROVE  Awaited'
<1> SUFFICES ASSUME current # NoSession, NEW q \in callbacks' \ turnedAway
             PROVE  Somewhere(q)'
  BY DEF Awaited
<1>1. Somewhere(q)
  BY DEF Awaited
<1>2. Requested(q)' = Requested(q) /\ Answered(q)' = Answered(q) /\ Served(q)' = Served(q)
  BY DEF Requested, IsRequest, Answered, Served
<1>3. Recorded(q) => Recorded(q)'
  BY DEF Recorded
<1> QED
  BY <1>1, <1>2, <1>3 DEF Somewhere

\* Each step hands on what is waited for, or answers it, or turns it away.
LEMMA NextAwaited ==
  ASSUME LedgerInv, HouseInv, current # NoSession => RequestsPlaced /\ Settled,
         Awaited, [SessionNext]_allVars
  PROVE  Awaited'
<1> USE DEF HouseInv
<1> SUFFICES ASSUME current' # NoSession
             PROVE  Awaited'
  BY DEF Awaited
<1>1. CASE BeginSession
  BY <1>1 DEF BeginSession, Awaited
<1>2. CASE BeginShutdown \/ EndSession
  BY <1>2 DEF BeginShutdown, BeginTeardown, EndSession, CompleteTeardown
<1>3. CASE BridgeBeginTeardown \/ BridgeCompleteTeardown
  BY <1>3 DEF BridgeBeginTeardown, BridgeCompleteTeardown, sessionVars, LedgerInv, Phased
<1>4. ASSUME UNCHANGED <<current, requestBox, inbox, worker, records, callbacks, turnedAway>>
      PROVE  Awaited'
  BY <1>4, AwaitedStays
<1>5. CASE UNCHANGED allVars
  BY <1>4, <1>5 DEF allVars, supervisorVars, sessionVars, boxVars, bridgeVars, scriptVars
<1>6. CASE LaunchApp \/ TerminateApp \/ PumpNothing
  BY <1>4, <1>6 DEF LaunchApp, TerminateApp, PumpNothing, supervisorVars, sessionVars,
                    boxVars, bridgeVars, scriptVars
<1>7. CASE \E w \in ServiceWorkers : Work(w)
  BY <1>4, <1>7 DEF Work, supervisorVars, sessionVars, boxVars, bridgeVars, scriptVars
<1>8. CASE StopWorker
  BY <1>8 DEF StopWorker, Awaited
<1>9. CASE Dispatch
  <2>1. /\ UNCHANGED <<current, requestBox, inbox, records, turnedAway>> /\ worker.step = "take"
        /\ callbacks' = callbacks \ {worker.body.request}
    BY <1>9 DEF Dispatch, sessionVars, boxVars, bridgeVars
  <2> SUFFICES ASSUME NEW q \in callbacks' \ turnedAway'
               PROVE  Somewhere(q)'
    BY DEF Awaited
  <2>2. Somewhere(q) /\ ~Served(q)
    BY <2>1 DEF Awaited, Served
  <2>3. /\ Requested(q)' = Requested(q) /\ Recorded(q)' = Recorded(q)
        /\ Answered(q)' = Answered(q)
    BY <2>1 DEF Requested, IsRequest, Recorded, Answered
  <2> QED
    BY <2>2, <2>3 DEF Somewhere
<1>10. CASE \E q \in RequestIds : Ask(q) \/ CancelAsked(q)
  <2>1. PICK new \in RequestIds : Ask(new) \/ CancelAsked(new)
    BY <1>10
  <2>2. PICK kind :
          /\ PostedByScript(kind, new)
          /\ \/ kind = "ServiceRequest" /\ callbacks' = callbacks \cup {new}
             \/ kind = "ServiceCancel" /\ callbacks' = callbacks \ {new}
    BY <2>1 DEF Ask, CancelAsked
  <2> DEFINE p == [kind |-> kind, session |-> Session, body |-> [request |-> new, lease |-> 0]]
  <2>3. PICK end :
          /\ DOMAIN requestBox' = DOMAIN requestBox \cup {end} /\ end \notin DOMAIN requestBox
          /\ requestBox'[end] = p /\ \A k \in DOMAIN requestBox : requestBox'[k] = requestBox[k]
    BY <2>2, EndIsAdded DEF Lined, PostedByScript
  <2>4. p.kind = kind /\ p.body.request = new
    OBVIOUS
  <2>5. UNCHANGED <<inbox, worker, records, turnedAway>> /\ current # NoSession
    BY <2>2 DEF PostedByScript, bridgeVars
  <2> HIDE DEF p
  <2> SUFFICES ASSUME NEW q \in callbacks' \ turnedAway'
               PROVE  Somewhere(q)'
    BY DEF Awaited
  <2>6. CASE q \in callbacks
    <3>1. Somewhere(q)
      BY <2>5, <2>6 DEF Awaited
    <3>2. Requested(q) => Requested(q)'
      BY <2>3 DEF Requested, IsRequest
    <3>3. Recorded(q)' = Recorded(q) /\ Answered(q)' = Answered(q) /\ Served(q)' = Served(q)
      BY <2>5 DEF Recorded, Answered, Served
    <3> QED
      BY <3>1, <3>2, <3>3 DEF Somewhere
  <2>7. CASE q \notin callbacks
    <3>1. q = new /\ kind = "ServiceRequest"
      BY <2>2, <2>7
    <3>2. Requested(q)'
      BY <2>3, <2>4, <3>1 DEF Requested, IsRequest
    <3> QED
      BY <3>2 DEF Somewhere
  <2> QED
    BY <2>6, <2>7
<1>11. CASE PumpRequest
  <2> DEFINE head == requestBox[1]
             h == head.body.request
  <2>1. /\ requestBox # <<>> /\ requestBox' = Tail(requestBox) /\ current # NoSession
        /\ UNCHANGED <<callbacks, inbox, worker>> /\ RequestsPlaced /\ Settled
    BY <1>11 DEF PumpRequest, sessionVars
  <2>2. /\ Head(requestBox) = head /\ 1 \in DOMAIN requestBox
        /\ \A k \in DOMAIN requestBox :
             k # 1 => k - 1 \in DOMAIN requestBox' /\ requestBox'[k - 1] = requestBox[k]
    BY <2>1, FrontLeaves DEF Lined
  <2> SUFFICES ASSUME NEW q \in callbacks \ turnedAway'
               PROVE  Somewhere(q)'
    BY <2>1 DEF Awaited
  <2>3. turnedAway \subseteq turnedAway' /\ Somewhere(q)
    BY <1>11, <2>1 DEF PumpRequest, CancelRequest, SubmitRequest, TurnAway, LetIn, Awaited
  <2>4. Answered(q)' = Answered(q) /\ Served(q)' = Served(q)
    BY <2>1 DEF Answered, Served
  <2>5. CASE head.kind = "ServiceCancel"
    <3>1. CancelRequest(TokenOf(h)) /\ h \notin callbacks
      BY <1>11, <2>1, <2>2, <2>5 DEF PumpRequest, Settled
    <3>2. Requested(q) => Requested(q)'
      BY <2>2, <2>5 DEF Requested, IsRequest
    <3>3. \A r \in records : r.token.request = q => r \notin RecordOf(TokenOf(h))
      BY <3>1 DEF RecordOf, TokenOf
    <3>4. Recorded(q) => Recorded(q)'
      BY <3>1, <3>3 DEF CancelRequest, Recorded
    <3> QED
      BY <2>3, <2>4, <3>2, <3>4 DEF Somewhere
  <2>6. CASE head.kind = "ServiceRequest"
    <3>1. SubmitRequest(TokenOf(h)) /\ IsRequest(1, h)
      BY <1>11, <2>2, <2>6 DEF PumpRequest, IsRequest
    <3>2. CASE TurnAway(TokenOf(h))
      <4>1. q # h /\ records' = records
        BY <3>2 DEF TurnAway, TokenOf
      <4>2. Requested(q) => Requested(q)'
        BY <2>2, <4>1 DEF Requested, IsRequest
      <4> QED
        BY <2>3, <2>4, <4>1, <4>2 DEF Somewhere, Recorded
    <3>3. CASE LetIn(TokenOf(h))
      <4>1. \E job : records' = records \cup {NewRecord(TokenOf(h), job)}
        BY <3>3 DEF LetIn, AcceptedByHost, RejectedByHost
      <4>2. \A job : NewRecord(TokenOf(h), job).token.request = h
        BY DEF NewRecord, TokenOf
      <4>3. (Recorded(q) => Recorded(q)') /\ (q = h => Recorded(q)')
        BY <4>1, <4>2 DEF Recorded
      <4>4. Requested(q) => Requested(q)' \/ q = h
        BY <2>2 DEF Requested, IsRequest
      <4> QED
        BY <2>3, <2>4, <4>3, <4>4 DEF Somewhere
    <3> QED
      BY <3>1, <3>2, <3>3 DEF SubmitRequest
  <2> QED
    BY <2>2, <2>5, <2>6 DEF Lined
<1>12. CASE \E c \in completions \cup staged : PumpCompletion(c)
  <2>1. PICK c \in completions \cup staged : PumpCompletion(c)
    BY <1>12
  <2>2. UNCHANGED <<current, requestBox, inbox, worker, callbacks, turnedAway>>
    BY <2>1 DEF PumpCompletion, sessionVars, boxVars, scriptVars
  <2>3. UNCHANGED records \/ \E r \in records : \E lease : FiledAs(r, lease)
    BY <2>1 DEF PumpCompletion, FileCompletion, PublishedFor
  <2>4. \A r \in records : \A lease : Filed(r, lease).token = r.token
    BY DEF LedgerInv, Shaped, Filed
  <2>5. \A r \in records : \E s \in records' : s.token.request = r.token.request
    BY <2>3, <2>4 DEF FiledAs
  <2> QED
    BY <2>2, <2>5, AwaitedStays
<1>13. CASE \E token \in toDeliver : DeliverNext(token)
  <2>1. PICK token \in toDeliver : DeliverNext(token)
    BY <1>13
  <2>2. /\ UNCHANGED <<current, requestBox, worker, callbacks, turnedAway>> /\ current # NoSession
        /\ phase # "begun"
    BY <2>1 DEF DeliverNext, sessionVars, scriptVars, LedgerInv, Phased
  <2>3. PICK r \in records :
          /\ r.token = token
          /\ \/ Deliver(r)
             \/ Disposition(token) # "Accepted" /\ DiscardRecord(r) /\ UNCHANGED inbox
    BY <2>1 DEF DeliverNext, RecordOf
  <2>4. CASE UNCHANGED <<inbox, records>>
    BY <2>2, <2>4, AwaitedStays
  <2>5. CASE inbox' = Append(inbox, CompletionPacket(r)) /\ records' = records \ {r}
    <3>1. PICK end :
            /\ DOMAIN inbox' = DOMAIN inbox \cup {end}
            /\ inbox'[end] = CompletionPacket(r) /\ \A k \in DOMAIN inbox : inbox'[k] = inbox[k]
      BY <2>5, EndIsAdded DEF Lined
    <3>2. CompletionPacket(r).body.request = r.token.request
      BY DEF CompletionPacket
    <3> SUFFICES ASSUME NEW q \in callbacks \ turnedAway
                 PROVE  Somewhere(q)'
      BY <2>2 DEF Awaited
    <3>3. Somewhere(q)
      BY <2>2 DEF Awaited
    <3>4. Requested(q)' = Requested(q) /\ Served(q)' = Served(q)
      BY <2>2 DEF Requested, IsRequest, Served
    <3>5. (Answered(q) => Answered(q)') /\ (r.token.request = q => Answered(q)')
      BY <3>1, <3>2 DEF Answered
    <3>6. Recorded(q) => Recorded(q)' \/ r.token.request = q
      BY <2>5 DEF Recorded
    <3> QED
      BY <3>3, <3>4, <3>5, <3>6 DEF Somewhere
  <2>6. CASE Disposition(token) # "Accepted" /\ DiscardRecord(r) /\ UNCHANGED inbox
    <3>1. token \in tombstones /\ Accepts(token.session)
      BY <2>2, <2>3 DEF LedgerInv, Entered, Tokens, Accepts, Session
    <3>2. token \in cancelled
      BY <2>6, <3>1 DEF Disposition
    <3>3. r.cancelled
      BY <2>2, <2>3, <3>2 DEF LedgerInv, Crossed, Entered, Tokens, Marked
    <3>4. r.token.request \notin callbacks
      BY <2>2, <3>3 DEF Settled
    <3> QED
      BY <2>2, <2>6, <3>4, AwaitedStays DEF DiscardRecord
  <2> QED
    BY <2>3, <2>4, <2>5, <2>6 DEF Deliver
<1>14. CASE TakeCompletion
  <2>1. /\ inbox # <<>> /\ inbox' = Tail(inbox) /\ worker = Running
        /\ worker' = [step |-> "take", body |-> Head(inbox).body]
        /\ UNCHANGED <<current, requestBox, records, callbacks, turnedAway>>
    BY <1>14 DEF TakeCompletion, sessionVars, bridgeVars
  <2>2. /\ \A k \in DOMAIN inbox :
             k # 1 => k - 1 \in DOMAIN inbox' /\ inbox'[k - 1] = inbox[k]
        /\ worker'.step = "take" /\ worker'.body = inbox[1].body /\ worker.step # "take"
    BY <2>1, FrontLeaves DEF Lined, Running
  <2> SUFFICES ASSUME NEW q \in callbacks \ turnedAway
               PROVE  Somewhere(q)'
    BY <2>1 DEF Awaited
  <2>3. Somewhere(q) /\ ~Served(q)
    BY <2>1, <2>2 DEF Awaited, Served
  <2>4. Requested(q)' = Requested(q) /\ Recorded(q)' = Recorded(q)
    BY <2>1 DEF Requested, IsRequest, Recorded
  <2>5. Answered(q) => Answered(q)' \/ Served(q)'
    BY <2>2 DEF Answered, Served
  <2> QED
    BY <2>3, <2>4, <2>5 DEF Somewhere
<1> QED
  BY <1>1, <1>2, <1>3, <1>5, <1>6, <1>7, <1>8, <1>9, <1>10, <1>11, <1>12, <1>13, <1>14
     DEF SessionNext, Shutdown, Pump

-----------------------------------------------------------------------------
LEMMA InitHeldInv == SessionInit => HeldInv /\ Awaited
<1> SUFFICES ASSUME SessionInit
             PROVE  HeldInv /\ Awaited
  OBVIOUS
<1>1. /\ current = NoSession /\ inbox = <<>> /\ requestBox = <<>> /\ records = {}
      /\ payloads = [i \in 1 .. PayloadLeases |-> FreeSlot(1)]
  BY DEF SessionInit, Init, NewRegistry
<1>2. inbox \in Seq({}) /\ requestBox \in Seq({}) /\ DOMAIN requestBox = {}
  BY <1>1
<1>3. Indexed
  BY <1>1 DEF Indexed, FreeSlot
<1> QED
  BY <1>1, <1>2, <1>3 DEF HeldInv, Awaited, HouseInv, Vacant, Lined, Unfiled

LEMMA NextHeldInv == LedgerInv /\ HeldInv /\ [SessionNext]_allVars => HeldInv'
  BY NextHouseInv, NextPayloadsPlaced, NextRequestsPlaced, NextSettled DEF HeldInv

THEOREM HeldInvariant == SessionSpec => []HeldInv
<1>1. SessionInit => HeldInv
  BY InitHeldInv
<1> QED
  BY <1>1, NextHeldInv, LedgerInvariant, PTL DEF SessionSpec

\* What is there once at most is counted as one, or as none.
LEMMA CountedOnce ==
  ASSUME NEW S, \A x, y \in S : x = y
  PROVE  Cardinality(S) = IF S = {} THEN 0 ELSE 1
<1>1. CASE S = {}
  BY <1>1, FS_EmptySet
<1>2. ASSUME NEW x \in S
      PROVE  Cardinality(S) = 1
  <2>1. S = {x}
    OBVIOUS
  <2> QED
    BY <2>1, FS_Singleton
<1> QED
  BY <1>1, <1>2

\* While a session runs every sealed payload is in one pair of hands: a record that is not
\* delivered yet, a packet in the inbox, or the worker; and no one holds the id of a lease
\* that is not sealed for the session.  Payloads change hands with publish_service_payload,
\* push and pop of the inbox and take_script_task_service_payload, and go with records that
\* are cancelled or discarded.
THEOREM PayloadsAreHeld == SessionSpec => []PayloadsHeld
<1>1. HeldInv => PayloadsHeld
  <2> SUFFICES ASSUME HeldInv, current # NoSession
               PROVE  PayloadsHeld
    BY DEF PayloadsHeld
  <2>1. ASSUME NEW id, id # 0
        PROVE  Holders(id) = IF id \in IdsOf(payloads, current) THEN 1 ELSE 0
    <3> DEFINE Filers == {r \in records : r.lease = id}
               Posts == {k \in DOMAIN inbox : inbox[k].body.lease = id}
    <3>1. OnceHeld(id)
      BY <2>1 DEF HeldInv, PayloadsPlaced
    <3>2. /\ InRecord(id) <=> Filers # {}
          /\ InInbox(id) <=> Posts # {}
      BY DEF InRecord, InInbox
    <3>3. (\A r, s \in Filers : r = s) /\ \A j, k \in Posts : j = k
      BY <3>1 DEF OnceHeld, RecordOnce, InboxOnce
    <3>4. /\ Holders(id) = Cardinality(Filers) + Cardinality(Posts)
                           + (IF InWorker(id) THEN 1 ELSE 0)
      BY DEF Holders, InWorker
    <3> HIDE DEF Filers, Posts
    <3>5. /\ Cardinality(Filers) = IF InRecord(id) THEN 1 ELSE 0
          /\ Cardinality(Posts) = IF InInbox(id) THEN 1 ELSE 0
      BY <3>2, <3>3, CountedOnce
    <3> QED
      BY <3>1, <3>4, <3>5 DEF OnceHeld
  <2>2. 0 \notin IdsOf(payloads, current)
    BY NoIdIsNone DEF HeldInv, HouseInv
  <2> QED
    BY <2>1, <2>2 DEF PayloadsHeld
<1> QED
  BY <1>1, HeldInvariant, PTL

\* Places of a request are counted.
LEMMA PlacesCounted ==
  ASSUME LedgerInv, HeldInv, current # NoSession, NEW q
  PROVE  Places(q) = IF Somewhere(q) THEN 1 ELSE 0
<1> DEFINE Asks == {k \in DOMAIN requestBox : /\ requestBox[k].kind = "ServiceRequest"
                                              /\ requestBox[k].body.request = q}
           Posts == {k \in DOMAIN inbox : inbox[k].body.request = q}
<1>1. OncePlaced(q)
  BY DEF HeldInv, RequestsPlaced
<1>2. /\ Requested(q) <=> Asks # {}
      /\ Answered(q) <=> Posts # {}
  BY DEF Requested, IsRequest, Answered
<1>3. Recorded(q) <=> RecordOf(TokenOf(q)) # {}
  <2>1. \A r \in records : r.token.request = q => r.token = TokenOf(q)
    BY DEF HeldInv, HouseInv, Unfiled
  <2> QED
    BY <2>1 DEF Recorded, RecordOf, TokenOf
<1>4. /\ \A j, k \in Asks : j = k
      /\ \A j, k \in Posts : j = k
      /\ \A r, s \in RecordOf(TokenOf(q)) : r = s
  BY <1>1 DEF OncePlaced, IsRequest, RecordOf, LedgerInv, Entered
<1>5. Places(q) = Cardinality(Asks) + Cardinality(RecordOf(TokenOf(q))) + Cardinality(Posts)
                  + (IF Served(q) THEN 1 ELSE 0)
  BY DEF Places, Served
<1> HIDE DEF Asks, Posts
<1>6. /\ Cardinality(Asks) = IF Requested(q) THEN 1 ELSE 0
      /\ Cardinality(RecordOf(TokenOf(q))) = IF Recorded(q) THEN 1 ELSE 0
      /\ Cardinality(Posts) = IF Answered(q) THEN 1 ELSE 0
  BY <1>2, <1>3, <1>4, CountedOnce
<1> QED
  BY <1>1, <1>5, <1>6 DEF OncePlaced, Somewhere

\* While a session runs no request is on its way twice: as a packet of the script, a record of
\* the bridge, a packet to the script or the answer the worker has taken.
THEOREM RequestsAreAnsweredOnce ==
  SessionSpec => [](current # NoSession => \A q \in RequestIds : Places(q) <= 1)
<1>1. LedgerInv /\ HeldInv => (current # NoSession => \A q \in RequestIds : Places(q) <= 1)
  <2> SUFFICES ASSUME LedgerInv, HeldInv, current # NoSession, NEW q \in RequestIds
               PROVE  Places(q) <= 1
    OBVIOUS
  <2>1. Places(q) = IF Somewhere(q) THEN 1 ELSE 0
    BY PlacesCounted
  <2> QED
    BY <2>1
<1> QED
  BY <1>1, LedgerInvariant, HeldInvariant, PTL

\* Every callback that waits has exactly one answer on its way, unless the bridge has turned
\* its request away, and then none: what submit of the bridge has let in is lost nowhere.
THEOREM CallbacksAreAnswered == SessionSpec => []AwaitedIsSomewhere
<1>1. LedgerInv /\ HeldInv /\ Awaited => AwaitedIsSomewhere
  <2> SUFFICES ASSUME LedgerInv, HeldInv, Awaited, current # NoSession, NEW q \in RequestIds
               PROVE  /\ Places(q) <= 1
                      /\ q \in callbacks => Places(q) = IF q \in turnedAway THEN 0 ELSE 1
    BY DEF AwaitedIsSomewhere
  <2>1. Places(q) = IF Somewhere(q) THEN 1 ELSE 0
    BY PlacesCounted
  <2>2. q \in callbacks => (Somewhere(q) <=> q \notin turnedAway)
    BY DEF Awaited, HeldInv, RequestsPlaced, OncePlaced, Somewhere
  <2> QED
    BY <2>1, <2>2
<1>2. SessionInit => Awaited
  BY InitHeldInv
<1>3. LedgerInv /\ HeldInv /\ Awaited /\ [SessionNext]_allVars => Awaited'
  BY NextAwaited DEF HeldInv
<1> QED
  BY <1>1, <1>2, <1>3, LedgerInvariant, HeldInvariant, PTL DEF SessionSpec
-----------------------------------------------------------------------------
(***************************************************************************)
(* The host under the session                                              *)
(***************************************************************************)
\* The script counts its requests up, and the bridge hands no result on to a consumer.
CallerInv == asked \subseteq RequestIds /\ delivered = {}

LEMMA NextCallerInv == CallerInv /\ [SessionNext]_allVars => CallerInv'
<1> SUFFICES ASSUME CallerInv, [SessionNext]_allVars
             PROVE  CallerInv'
  OBVIOUS
<1>1. ASSUME UNCHANGED asked, UNCHANGED delivered
      PROVE  CallerInv'
  BY <1>1 DEF CallerInv
<1>2. CASE LaunchApp
  BY <1>1, <1>2 DEF LaunchApp, Launch, scriptVars
<1>3. CASE BeginSession
  BY <1>3 DEF BeginSession, hostVars, CallerInv
<1>4. CASE BeginShutdown \/ EndSession
  BY <1>1, <1>4 DEF BeginShutdown, EndSession, hostVars, scriptVars
<1>5. CASE BridgeBeginTeardown \/ BridgeCompleteTeardown
  BY <1>1, <1>5 DEF BridgeBeginTeardown, BridgeCompleteTeardown, hostVars, scriptVars
<1>6. CASE TerminateApp
  BY <1>1, <1>6 DEF TerminateApp, CancelRequests, DiscardCompletions, ReleaseHandles,
                    FinishTermination, scriptVars
<1>7. CASE PumpRequest
  BY <1>1, <1>7 DEF PumpRequest
<1>8. CASE Pump
  BY <1>1, <1>8 DEF Pump, PumpCompletion, PumpNothing, DeliverNext, hostVars, scriptVars
<1>9. CASE \E q \in RequestIds : Ask(q) \/ CancelAsked(q)
  BY <1>9 DEF Ask, CancelAsked, PostedByScript, hostVars, CallerInv
<1>10. CASE TakeCompletion \/ Dispatch \/ StopWorker
  BY <1>1, <1>10 DEF TakeCompletion, Dispatch, StopWorker, hostVars
<1>11. CASE \E w \in ServiceWorkers : Work(w)
  BY <1>1, <1>11
     DEF Work, ServiceStep, Pop, Process, ReadCurrent, CheckHandle, Sanitize, Stage, FlushStaged,
         scriptVars
<1>12. CASE UNCHANGED allVars
  BY <1>1, <1>12 DEF allVars, hostVars, scriptVars
<1> QED
  BY <1>2, <1>3, <1>4, <1>5, <1>6, <1>7, <1>8, <1>9, <1>10, <1>11, <1>12
     DEF SessionNext, Shutdown

\* The pump of the bridge: it releases what the record of a completion's job owns.
PumpForRecord(c) == PumpFrame(c, OwnedSlots(c)) /\ UNCHANGED delivered

\* What the session does to the host are calls of the host, except that a request, or all
\* of them, may be cancelled by the records of the bridge, and that the pump releases results.
LEMMA SessionCallsHost ==
  ASSUME LedgerInv, HeldInv, WaitInv, CallerInv, [SessionNext]_allVars
  PROVE  \/ UNCHANGED hostVars
         \/ HostNext \/ CancelSeveral
         \/ \E c \in completions \cup staged : PumpForRecord(c)
<1>1. CASE LaunchApp
  BY <1>1 DEF LaunchApp, HostNext
<1>2. CASE TerminateApp
  BY <1>2 DEF TerminateApp, HostNext, Terminate
<1>3. CASE \E w \in ServiceWorkers : Work(w)
  BY <1>3 DEF Work, HostNext
<1>4. CASE BridgeBeginTeardown
  BY <1>4 DEF BridgeBeginTeardown, CancelSeveral
<1>5. ASSUME NEW c \in completions \cup staged, PumpCompletion(c)
      PROVE  PumpForRecord(c)
  BY <1>5 DEF PumpCompletion, PumpForRecord
<1>6. CASE BeginSession \/ BeginShutdown \/ BridgeCompleteTeardown \/ EndSession \/ PumpNothing
  BY <1>6 DEF BeginSession, BeginShutdown, BridgeCompleteTeardown, EndSession, PumpNothing
<1>7. CASE \E token \in toDeliver : DeliverNext(token)
  BY <1>7 DEF DeliverNext
<1>8. CASE \E q \in RequestIds : Ask(q) \/ CancelAsked(q)
  BY <1>8 DEF Ask, CancelAsked, PostedByScript
<1>9. CASE TakeCompletion \/ Dispatch \/ StopWorker
  BY <1>9 DEF TakeCompletion, Dispatch, StopWorker
<1>10. CASE UNCHANGED allVars
  BY <1>10 DEF allVars
<1>11. CASE PumpRequest
  <2>1. /\ requestBox # <<>> /\ phase = "run"
        /\ UNCHANGED <<appVars, inFlight, staged, completions, handles, service, delivered>>
    BY <1>11 DEF PumpRequest, Loops
  <2>2. current # NoSession /\ HostIdle
    BY <2>1, RunsWhileCurrent DEF WaitInv, HostIdle
  <2> DEFINE head == requestBox[1]
  <2>3. Head(requestBox) = head /\ 1 \in DOMAIN requestBox
    BY <2>1, FrontLeaves DEF HeldInv, HouseInv, Lined
  <2>4. CASE head.kind = "ServiceCancel"
    <3>1. CancelRequest(TokenOf(head.body.request))
      BY <1>11, <2>3, <2>4 DEF PumpRequest
    <3>2. pending' \subseteq pending /\ nextJob' = nextJob
      BY <3>1 DEF CancelRequest
    <3>3. QED
      BY <2>1, <3>2 DEF CancelSeveral
  <2>5. CASE head.kind = "ServiceRequest"
    <3> DEFINE q == head.body.request
    <3>1. SubmitRequest(TokenOf(q))
      BY <1>11, <2>3, <2>5 DEF PumpRequest
    <3>2. Requested(q) /\ OncePlaced(q)
      BY <2>2, <2>3, <2>5 DEF Requested, IsRequest, HeldInv, RequestsPlaced
    <3>3. q \in Clients
      BY <3>2, SessionAssumption DEF OncePlaced, CallerInv
    <3>4. TokenOf(q).request = q
      BY DEF TokenOf
    <3> HIDE DEF q
    <3>5. Submitted(q) \/ (nextJob' = nextJob /\ pending' = pending)
      BY <3>1, <3>4 DEF SubmitRequest, TurnAway, LetIn, AcceptedByHost, RejectedByHost
    <3>6. CASE Submitted(q)
      <4>1. Submit(q)
        BY <2>1, <2>2, <3>6 DEF Submit
      <4> QED
        BY <3>3, <4>1 DEF HostNext
    <3>7. CASE nextJob' = nextJob /\ pending' = pending
      BY <2>1, <3>7 DEF CancelSeveral
    <3> QED
      BY <3>5, <3>6, <3>7
  <2> QED
    BY <2>3, <2>4, <2>5 DEF HeldInv, HouseInv, Lined
<1> QED
  BY <1>1, <1>2, <1>3, <1>4, <1>5, <1>6, <1>7, <1>8, <1>9, <1>10, <1>11
     DEF SessionNext, Shutdown, Pump

LEMMA SessionIsHostStep ==
  ASSUME LedgerInv, HeldInv, WaitInv, CallerInv, [SessionNext]_allVars
  PROVE  [HostStep]_hostVars
<1>1. ASSUME NEW c \in completions \cup staged, PumpForRecord(c)
      PROVE  PumpAndConsume(c)
  BY <1>1 DEF PumpForRecord, PumpAndConsume, OwnedSlots
<1> QED
  BY <1>1, SessionCallsHost DEF HostStep

\* Handles that are scoped to clients are all released as their completions are popped.
LEMMA SessionIsKeepingStep ==
  ASSUME LedgerInv, HeldInv, WaitInv, CallerInv, [SessionNext]_allVars,
         HostInv, ScopedToClients
  PROVE  [KeepingStep]_hostVars
<1>1. ASSUME NEW c \in completions \cup staged, PumpForRecord(c)
      PROVE  PumpAndRelease(c)
  <2>1. c \in Held /\ Types /\ HandlesDated
    BY DEF Held, HostInv
  <2>2. \A i \in SlotOf(c.handle) : i \in OwnSlot(c) /\ handles[i].client = c.request.client
    <3> SUFFICES ASSUME NEW i \in SlotOf(c.handle)
                 PROVE  i \in OwnSlot(c) /\ handles[i].client = c.request.client
      OBVIOUS
    <3>1. i \in OwnSlot(c) /\ handles[i].client \in {AppScoped, c.request.client}
      BY <2>1, OwnersOfSlots
    <3>2. i \in 1 .. HandleSlots /\ handles[i].active
      BY DEF SlotOf
    <3> QED
      BY <3>1, <3>2 DEF ScopedToClients
  <2>3. OwnedSlots(c) = SlotOf(c.handle)
    BY <2>2 DEF OwnedSlots, OwnSlot
  <2> QED
    BY <1>1, <2>3 DEF PumpForRecord, PumpAndRelease
<1> QED
  BY <1>1, SessionCallsHost DEF KeepingStep

\* All that HostServices promises its callers holds for the bridge.
THEOREM HostIsSound == SessionSpec => [](HostInv /\ Counted)
<1>1. SessionInit => HostInv /\ Counted /\ CallerInv
  BY InitHostInv DEF SessionInit, HostInit, CallerInv
<1>2. SessionSpec => []CallerInv
  BY <1>1, NextCallerInv, PTL DEF SessionSpec
<1>3. SessionSpec => []WaitInv
  BY InitWaitInv, NextWaitInv, LedgerInvariant, PTL DEF SessionSpec
<1>4. /\ HostInv /\ Counted /\ LedgerInv /\ HeldInv /\ WaitInv /\ CallerInv
      /\ [SessionNext]_allVars
      => HostInv' /\ Counted'
  BY SessionIsHostStep, NextHostInv, NextCounted
<1> QED
  BY <1>1, <1>2, <1>3, <1>4, LedgerInvariant, HeldInvariant, PTL DEF SessionSpec

\* Jobs and handles of a session's requests: no request is answered twice by the service
\* workers, no handle names the slot of another, and no answer for the App that runs has
\* lost its result, whatever script, bridge and shutdown do.
THEOREM AnswersAreTheRequests ==
  SessionSpec => [](HostTypeOK /\ JobsAnsweredOnce /\ HandlesNameTheirOwners
                    /\ CurrentResultsAreLive)
<1>1. HostInv /\ Counted => /\ HostTypeOK /\ JobsAnsweredOnce /\ HandlesNameTheirOwners
                            /\ CurrentResultsAreLive
  BY HostInvSays
<1> QED
  BY <1>1, HostIsSound, PTL

\* As long as providers scope results to clients, each allocated handle slot is in somebody's
\* hands, or about to be released with its App.  (One with the scope of its App is refused by
\* the bridge and not released: session_scope.cfg.)
THEOREM ResultsAreHeld == SessionSpec /\ "app" \notin HandleScopes => []HandlesAreHeld
<1> SUFFICES ASSUME "app" \notin HandleScopes
             PROVE  SessionSpec => []HandlesAreHeld
  OBVIOUS
<1> DEFINE KeptInv == RefusedAreDead /\ HandlesAreHeld /\ ScopedToClients
<1>1. SessionInit => CallerInv /\ KeptInv
  BY HostAssumption
     DEF SessionInit, HostInit, CallerInv, RefusedAreDead, HandlesAreHeld, ScopedToClients,
         IdleService, FreshSlot
<1>2. SessionSpec => []CallerInv
  BY <1>1, NextCallerInv, PTL DEF SessionSpec
<1>3. SessionSpec => []WaitInv
  BY InitWaitInv, NextWaitInv, LedgerInvariant, PTL DEF SessionSpec
<1>4. /\ HostInv /\ Counted /\ LedgerInv /\ HeldInv /\ WaitInv /\ CallerInv /\ KeptInv
      /\ [SessionNext]_allVars
      => KeptInv'
  BY SessionIsKeepingStep, NextRefused, NextHandlesHeld, NextScoped DEF HostInv
<1>5. KeptInv => HandlesAreHeld
  OBVIOUS
<1> HIDE DEF KeptInv
<1> QED
  BY <1>1, <1>2, <1>3, <1>4, <1>5, LedgerInvariant, HeldInvariant, HostIsSound, PTL DEF SessionSpec

-----------------------------------------------------------------------------
(***************************************************************************)
(* Types and capacity of the bridge                                        *)
(***************************************************************************)
SessionsTyped ==
  /\ current \in Sessions \cup {NoSession} /\ retiring \in Sessions \cup {NoSession}
  /\ nextGeneration \in 1 .. MaxU32

\* A slot is published at most LeaseGenerationBound times, so its ids are in LeaseIds.
LeasesBounded ==
  \A i \in 1 .. PayloadLeases :
    /\ payloads[i].generation \in 1 .. LeaseGenerationBound + 1
    /\ payloads[i].active => payloads[i].generation <= LeaseGenerationBound

RecordsTyped ==
  records \subseteq Record /\ IsFiniteSet(records) /\ Cardinality(records) <= MaxRequests

\* pump visits records that are ready.
Visiting == toDeliver \subseteq Tokens(Ready)

\* What the script is given, and what it waits for.
ScriptTyped ==
  /\ \A k \in DOMAIN inbox : inbox[k].body \in Body
  /\ worker \in {Off, Running, Done} \cup [step : {"take"}, body : Body]
  /\ callbacks \cup turnedAway \subseteq asked

LEMMA NextSessionsTyped ==
  ASSUME Types, LedgerInv, SessionsTyped, [SessionNext]_allVars
  PROVE  SessionsTyped'
<1>1. ASSUME UNCHANGED sessionVars
      PROVE  SessionsTyped'
  BY <1>1 DEF sessionVars, SessionsTyped
<1>2. CASE BeginSession
  <2>1. /\ instance # 0
        /\ current' = [app |-> instance, generation |-> nextGeneration]
        /\ nextGeneration' = NextNonzero(nextGeneration) /\ retiring' = retiring
    BY <1>2 DEF BeginSession, Begin
  <2>2. instance \in Apps
    BY <2>1, SessionAssumption DEF Types
  <2>3. current' \in Sessions
    BY <2>1, <2>2 DEF Sessions, SessionsTyped
  <2>4. NextNonzero(nextGeneration) \in 1 .. MaxU32
    BY SupervisorAssumption DEF NextNonzero, SessionsTyped
  <2> QED
    BY <2>1, <2>3, <2>4 DEF SessionsTyped
<1>3. CASE BeginShutdown
  <2>1. current' = NoSession /\ retiring' = current /\ nextGeneration' = nextGeneration
    BY <1>3 DEF BeginShutdown, Loops, BeginTeardown, LedgerInv, Phased, Session
  <2> QED
    BY <2>1 DEF SessionsTyped
<1>4. CASE EndSession
  BY <1>4 DEF EndSession, CompleteTeardown, SessionsTyped
<1>5. CASE \/ LaunchApp \/ BridgeBeginTeardown \/ TerminateApp \/ BridgeCompleteTeardown
           \/ PumpRequest \/ Pump \/ TakeCompletion \/ Dispatch \/ StopWorker
           \/ (\E q \in RequestIds : Ask(q) \/ CancelAsked(q))
           \/ (\E w \in ServiceWorkers : Work(w)) \/ UNCHANGED allVars
  <2>1. UNCHANGED sessionVars
    BY <1>5 DEF LaunchApp, BridgeBeginTeardown, TerminateApp, BridgeCompleteTeardown, PumpRequest,
                Pump, PumpCompletion, PumpNothing, DeliverNext, TakeCompletion, Dispatch,
                StopWorker, Ask, CancelAsked, PostedByScript, Work, supervisorVars, allVars
  <2> QED
    BY <1>1, <2>1
<1> QED
  BY <1>2, <1>3, <1>4, <1>5 DEF SessionNext, Shutdown

\* A slot that is released has been sealed, and moves on by one.
LEMMA ReleasesKeepBound ==
  ASSUME LeasesBounded, NEW slots \in SUBSET ActiveSlots(payloads),
         \A i \in 1 .. PayloadLeases :
           payloads'[i] = IF i \in slots THEN FreeSlot(NextLeaseGeneration(payloads[i].generation))
                          ELSE payloads[i]
  PROVE  LeasesBounded'
<1> SUFFICES ASSUME NEW i \in 1 .. PayloadLeases
             PROVE  /\ payloads'[i].generation \in 1 .. LeaseGenerationBound + 1
                    /\ payloads'[i].active => payloads'[i].generation <= LeaseGenerationBound
  BY DEF LeasesBounded
<1>1. CASE i \notin slots
  BY <1>1 DEF LeasesBounded
<1>2. CASE i \in slots
  <2>1. payloads[i].active
    BY <1>2 DEF ActiveSlots
  <2>2. payloads[i].generation \in 1 .. LeaseGenerationBound
    BY <2>1, SupervisorAssumption DEF LeasesBounded
  <2>3. NextLeaseGeneration(payloads[i].generation) \in 1 .. LeaseGenerationBound + 1
    BY <2>2, SupervisorAssumption, LeaseGenerationAssumption DEF NextLeaseGeneration
  <2>4. payloads'[i] = FreeSlot(NextLeaseGeneration(payloads[i].generation))
    BY <1>2
  <2>5. ~payloads'[i].active /\ payloads'[i].generation = NextLeaseGeneration(payloads[i].generation)
    BY <2>4 DEF FreeSlot
  <2> QED
    BY <2>3, <2>5
<1> QED
  BY <1>1, <1>2

LEMMA NextLeasesBounded ==
  ASSUME LedgerInv, Indexed, LeasesBounded, [SessionNext]_allVars
  PROVE  LeasesBounded'
<1>1. ASSUME UNCHANGED payloads
      PROVE  LeasesBounded'
  BY <1>1 DEF LeasesBounded
<1>2. ASSUME NEW slots \in SUBSET ActiveSlots(payloads), Released(slots)
      PROVE  LeasesBounded'
  <2>1. \A i \in 1 .. PayloadLeases :
          payloads'[i] = IF i \in slots THEN FreeSlot(NextLeaseGeneration(payloads[i].generation))
                         ELSE payloads[i]
    BY <1>2 DEF Released, PayloadsBecome, ReleaseSlot, Indexed
  <2> QED
    BY <2>1, ReleasesKeepBound
<1>3. \A rs : LeaseSlots(rs) \subseteq ActiveSlots(payloads)
  BY DEF LeaseSlots, SlotsHeld, SlotsNamed, ActiveSlots
<1>4. CASE BridgeBeginTeardown \/ BridgeCompleteTeardown
  BY <1>2, <1>3, <1>4 DEF BridgeBeginTeardown, BridgeCompleteTeardown
<1>5. CASE Dispatch
  <2>1. PICK id : Released(SlotsHeld(payloads, Session, id))
    BY <1>5 DEF Dispatch
  <2>2. SlotsHeld(payloads, Session, id) \subseteq ActiveSlots(payloads)
    BY DEF SlotsHeld, SlotsNamed, ActiveSlots
  <2> QED
    BY <1>2, <2>1, <2>2
<1>6. CASE EndSession
  <2> DEFINE slots == SlotsOf(payloads, Session)
  <2>1. payloads' = ReleaseSession(payloads, Session)
    BY <1>6 DEF EndSession, CompleteTeardown
  <2>2. slots \in SUBSET ActiveSlots(payloads)
    BY DEF SlotsOf
  <2>3. \A i \in 1 .. PayloadLeases :
          payloads'[i] = IF i \in slots THEN FreeSlot(NextLeaseGeneration(payloads[i].generation))
                         ELSE payloads[i]
    BY <2>1 DEF ReleaseSession, Indexed
  <2> HIDE DEF slots
  <2> QED
    BY <2>2, <2>3, ReleasesKeepBound
<1>7. CASE PumpRequest
  <2>1. ASSUME NEW token, SubmitRequest(token)
        PROVE  LeasesBounded'
    BY <1>1, <2>1 DEF SubmitRequest, payloadVars
  <2>2. ASSUME NEW token, CancelRequest(token)
        PROVE  LeasesBounded'
    BY <1>2, <1>3, <2>2 DEF CancelRequest
  <2> QED
    BY <1>7, <2>1, <2>2 DEF PumpRequest
<1>8. CASE \E c \in completions \cup staged : PumpCompletion(c)
  <2>1. UNCHANGED payloads \/ \E r \in records, i \in 1 .. PayloadLeases : PublishedFor(r, i)
    BY <1>8 DEF PumpCompletion, FileCompletion, payloadVars
  <2>2. ASSUME NEW r, NEW i \in 1 .. PayloadLeases, PublishedFor(r, i)
        PROVE  LeasesBounded'
    <3>1. /\ payloads' = Publish(payloads, i, r.token.session, 1)
          /\ payloads[i].generation <= LeaseGenerationBound
      BY <2>2 DEF PublishedFor, PayloadsBecome
    <3>2. /\ payloads'[i].generation = payloads[i].generation
          /\ \A j \in 1 .. PayloadLeases : j # i => payloads'[j] = payloads[j]
      BY <3>1 DEF Publish, Indexed
    <3> QED
      BY <3>1, <3>2 DEF LeasesBounded
  <2> QED
    BY <1>1, <2>1, <2>2
<1>9. CASE \E token \in toDeliver : DeliverNext(token)
  <2>1. UNCHANGED payloads \/ \E r : Released(LeaseSlots({r}))
    BY <1>9 DEF DeliverNext, DiscardRecord, payloadVars
  <2> QED
    BY <1>1, <1>2, <1>3, <2>1
<1>10. CASE \/ LaunchApp \/ BeginSession \/ BeginShutdown \/ TerminateApp
            \/ PumpNothing \/ TakeCompletion \/ StopWorker
            \/ (\E q \in RequestIds : Ask(q) \/ CancelAsked(q))
            \/ (\E w \in ServiceWorkers : Work(w)) \/ UNCHANGED allVars
  <2>1. UNCHANGED payloads
    BY <1>10 DEF LaunchApp, BeginSession, Begin, BeginShutdown, BeginTeardown, TerminateApp,
                 PumpNothing, TakeCompletion, StopWorker, Ask, CancelAsked, PostedByScript, Work,
                 supervisorVars, allVars, payloadVars
  <2> QED
    BY <1>1, <2>1
<1> QED
  BY <1>4, <1>5, <1>6, <1>7, <1>8, <1>9, <1>10 DEF SessionNext, Shutdown, Pump

-----------------------------------------------------------------------------
\* Of a finite set, one element is exchanged, or each is mapped to another.
LEMMA ExchangedFits ==
  ASSUME NEW S, IsFiniteSet(S), NEW x \in S, NEW y, NEW R, R = (S \ {x}) \cup {y}
  PROVE  IsFiniteSet(R) /\ Cardinality(R) <= Cardinality(S)
<1>1. IsFiniteSet(S \ {x}) /\ Cardinality(S \ {x}) = Cardinality(S) - 1
  BY FS_RemoveElement
<1>2. /\ IsFiniteSet(R)
      /\ Cardinality(R) = IF y \in S \ {x} THEN Cardinality(S \ {x})
                                                   ELSE Cardinality(S \ {x}) + 1
  BY <1>1, FS_AddElement
<1>3. Cardinality(S) \in Nat
  BY FS_CardinalityType
<1> QED
  BY <1>1, <1>2, <1>3

LEMMA MappedFits ==
  ASSUME NEW S, IsFiniteSet(S), NEW T, NEW f \in [S -> T], \A y \in T : \E x \in S : f[x] = y
  PROVE  IsFiniteSet(T) /\ Cardinality(T) <= Cardinality(S)
<1>1. f \in Surjection(S, T)
  BY DEF Surjection
<1> QED
  BY <1>1, FS_Surjection

\* A record whose request is cancelled is a record.
LEMMA CancelledIsRecord ==
  ASSUME NEW r \in Record
  PROVE  [r EXCEPT !.cancelled = TRUE] \in Record
  BY DEF Record

\* A record that is filed under a lease of a slot is a record.
LEMMA FiledIsRecord ==
  ASSUME NEW r \in Record, NEW lease \in LeaseIds
  PROVE  Filed(r, lease) \in Record
  BY DEF Record, Filed

LEMMA NextRecordsTyped ==
  ASSUME Types, CallerInv, LedgerInv, HeldInv, SessionsTyped, LeasesBounded, RecordsTyped,
         [SessionNext]_allVars
  PROVE  RecordsTyped'
<1>1. MaxRequests \in Nat /\ Cardinality(records) \in Nat
  BY SessionAssumption, FS_CardinalityType DEF RecordsTyped
<1>2. ASSUME records' \subseteq records
      PROVE  RecordsTyped'
  <2>1. IsFiniteSet(records') /\ Cardinality(records') <= Cardinality(records)
    BY <1>2, FS_Subset DEF RecordsTyped
  <2>2. Cardinality(records') \in Nat
    BY <2>1, FS_CardinalityType
  <2> QED
    BY <1>1, <1>2, <2>1, <2>2 DEF RecordsTyped
<1>3. ASSUME NEW r \in records, NEW new \in Record, records' = (records \ {r}) \cup {new}
      PROVE  RecordsTyped'
  <2>1. IsFiniteSet(records') /\ Cardinality(records') <= Cardinality(records)
    BY <1>3, ExchangedFits DEF RecordsTyped
  <2>2. Cardinality(records') \in Nat
    BY <2>1, FS_CardinalityType
  <2> QED
    BY <1>1, <1>3, <2>1, <2>2 DEF RecordsTyped
<1>4. CASE BridgeBeginTeardown
  <2> DEFINE inWork == {r \in records : ~r.ready /\ r.job \notin pending}
             kept == {[r EXCEPT !.cancelled = TRUE] : r \in inWork}
             mark == [r \in inWork |-> [r EXCEPT !.cancelled = TRUE]]
  <2>1. records' = kept
    BY <1>4 DEF BridgeBeginTeardown
  <2>2. IsFiniteSet(inWork) /\ Cardinality(inWork) <= Cardinality(records)
    BY FS_Subset DEF RecordsTyped
  <2>3. mark \in [inWork -> kept] /\ \A y \in kept : \E x \in inWork : mark[x] = y
    OBVIOUS
  <2>4. kept \subseteq Record
    BY CancelledIsRecord DEF RecordsTyped
  <2> HIDE DEF inWork, kept, mark
  <2>5. IsFiniteSet(kept) /\ Cardinality(kept) <= Cardinality(inWork)
    BY <2>2, <2>3, MappedFits
  <2>6. Cardinality(kept) \in Nat /\ Cardinality(inWork) \in Nat
    BY <2>2, <2>5, FS_CardinalityType
  <2> QED
    BY <1>1, <2>1, <2>2, <2>4, <2>5, <2>6 DEF RecordsTyped
<1>5. CASE PumpRequest
  <2>1. requestBox # <<>> /\ phase = "run" /\ current # NoSession
    BY <1>5, RunsWhileCurrent DEF PumpRequest, Loops
  <2> DEFINE head == requestBox[1]
             q == head.body.request
  <2>2. Head(requestBox) = head /\ 1 \in DOMAIN requestBox
    BY <2>1, FrontLeaves DEF HeldInv, HouseInv, Lined
  <2>3. CASE head.kind = "ServiceCancel"
    <3> DEFINE own == RecordOf(TokenOf(q))
               inWork == {r \in own : ~r.ready /\ r.job \notin pending}
               kept == {[r EXCEPT !.cancelled = TRUE] : r \in inWork}
    <3>1. records' = (records \ own) \cup kept
      BY <1>5, <2>2, <2>3 DEF PumpRequest, CancelRequest
    <3>2. own \subseteq records /\ \A r, s \in own : r = s
      BY DEF RecordOf, LedgerInv, Entered
    <3>3. CASE inWork = {}
      BY <1>2, <3>1, <3>3
    <3>4. CASE inWork # {}
      <4>1. PICK r \in own : r \in inWork
        BY <3>4
      <4>2. own = {r} /\ inWork = {r}
        BY <3>2, <4>1
      <4>3. kept = {[r EXCEPT !.cancelled = TRUE]}
        BY <4>2
      <4>4. [r EXCEPT !.cancelled = TRUE] \in Record
        BY <3>2, CancelledIsRecord DEF RecordsTyped
      <4> QED
        BY <1>3, <3>1, <3>2, <4>2, <4>3, <4>4
    <3> QED
      BY <3>3, <3>4
  <2>4. CASE head.kind = "ServiceRequest"
    <3>1. SubmitRequest(TokenOf(q))
      BY <1>5, <2>2, <2>4 DEF PumpRequest
    <3>2. Requested(q) /\ OncePlaced(q)
      BY <2>1, <2>2, <2>4 DEF Requested, IsRequest, HeldInv, RequestsPlaced
    <3>3. q \in RequestIds
      BY <3>2 DEF OncePlaced, CallerInv
    <3>4. TokenOf(q) \in Token /\ TokenOf(q).request = q
      BY <2>1, <3>3 DEF Token, TokenOf, Session, SessionsTyped
    <3> HIDE DEF q
    <3>5. CASE UNCHANGED records
      BY <1>2, <3>5
    <3>6. ASSUME NEW job \in Request \cup {NoJob}, Cardinality(records) < MaxRequests,
                 records' = records \cup {NewRecord(TokenOf(q), job)}
          PROVE  RecordsTyped'
      <4>1. NewRecord(TokenOf(q), job) \in Record
        BY <3>4 DEF NewRecord, Record, LeaseIds
      <4>2. /\ IsFiniteSet(records')
            /\ Cardinality(records') \in {Cardinality(records), Cardinality(records) + 1}
        BY <3>6, FS_AddElement DEF RecordsTyped
      <4> QED
        BY <1>1, <3>6, <4>1, <4>2 DEF RecordsTyped
    <3>7. CASE AcceptedByHost(TokenOf(q)) /\ ~NoPlaceFor(TokenOf(q))
      <4>1. /\ instance # 0 /\ nextJob <= MaxJobs
            /\ records' = records \cup {NewRecord(TokenOf(q), NewRequest(q))}
        BY <3>4, <3>7 DEF AcceptedByHost, Submitted
      <4>2. NewRequest(q) \in Request
        BY <3>3, <4>1, SessionAssumption, HostAssumption DEF NewRequest, Request, Types
      <4>3. Cardinality(records) < MaxRequests
        BY <1>1, <3>7 DEF NoPlaceFor
      <4> QED
        BY <3>6, <4>1, <4>2, <4>3
    <3>8. CASE RejectedByHost(TokenOf(q)) /\ ~NoPlaceFor(TokenOf(q))
      <4>1. Cardinality(records) < MaxRequests
        BY <1>1, <3>8 DEF NoPlaceFor
      <4> QED
        BY <3>6, <3>8, <4>1 DEF RejectedByHost
    <3> QED
      BY <3>1, <3>5, <3>7, <3>8 DEF SubmitRequest, TurnAway, LetIn
  <2> QED
    BY <2>2, <2>3, <2>4 DEF HeldInv, HouseInv, Lined
<1>6. CASE \E c \in completions \cup staged : PumpCompletion(c)
  <2>1. \/ UNCHANGED records
        \/ \E r \in records : FiledAs(r, 0)
        \/ \E r \in records, i \in 1 .. PayloadLeases : PublishedFor(r, i)
    BY <1>6 DEF PumpCompletion, FileCompletion
  <2>2. ASSUME NEW r \in records, NEW lease \in LeaseIds, FiledAs(r, lease)
        PROVE  RecordsTyped'
    <3>1. Filed(r, lease) \in Record
      BY FiledIsRecord DEF RecordsTyped
    <3> QED
      BY <1>3, <2>2, <3>1 DEF FiledAs
  <2>3. ASSUME NEW i \in 1 .. PayloadLeases
        PROVE  LeaseId(i, payloads[i].generation) \in LeaseIds
    BY DEF LeasesBounded, LeaseIds, IdsUpTo
  <2> QED
    BY <1>2, <2>1, <2>2, <2>3 DEF PublishedFor, LeaseIds
<1>7. CASE \E token \in toDeliver : DeliverNext(token)
  BY <1>2, <1>7 DEF DeliverNext, Deliver, DiscardRecord
<1>8. CASE BridgeCompleteTeardown \/ EndSession
  BY <1>2, <1>8 DEF BridgeCompleteTeardown, EndSession
<1>9. CASE \/ LaunchApp \/ BeginSession \/ BeginShutdown \/ TerminateApp
           \/ PumpNothing \/ TakeCompletion \/ Dispatch \/ StopWorker
           \/ (\E q \in RequestIds : Ask(q) \/ CancelAsked(q))
           \/ (\E w \in ServiceWorkers : Work(w)) \/ UNCHANGED allVars
  BY <1>2, <1>9 DEF LaunchApp, BeginSession, BeginShutdown, TerminateApp, PumpNothing,
                    TakeCompletion, Dispatch, StopWorker, Ask, CancelAsked, PostedByScript, Work,
                    allVars, bridgeVars
<1> QED
  BY <1>4, <1>5, <1>6, <1>7, <1>8, <1>9 DEF SessionNext, Shutdown, Pump

-----------------------------------------------------------------------------
\* Records that are ready stay so until pump has visited them.
LEMMA NextVisiting ==
  ASSUME LedgerInv, Visiting, [SessionNext]_allVars
  PROVE  Visiting'
<1>1. ASSUME toDeliver' = {}
      PROVE  Visiting'
  BY <1>1 DEF Visiting
<1>2. ASSUME UNCHANGED <<toDeliver, records>>
      PROVE  Visiting'
  BY <1>2 DEF Visiting, Tokens, Ready
<1>3. ASSUME VisitReady
      PROVE  Visiting'
  BY <1>3 DEF Visiting, VisitReady, Tokens, Ready
<1>4. CASE \/ BeginSession \/ BeginShutdown \/ BridgeBeginTeardown \/ BridgeCompleteTeardown
           \/ EndSession \/ PumpRequest
  <2>1. toDeliver = {} /\ toDeliver' = toDeliver
    BY <1>4 DEF BeginSession, BeginShutdown, BridgeBeginTeardown, BridgeCompleteTeardown,
                EndSession, PumpRequest, Loops, LedgerInv, Phased
  <2> QED
    BY <1>1, <2>1
<1>5. CASE PumpNothing \/ \E c \in completions \cup staged : PumpCompletion(c)
  BY <1>3, <1>5 DEF PumpNothing, PumpCompletion
<1>6. CASE \E token \in toDeliver : DeliverNext(token)
  <2>1. PICK token \in toDeliver : DeliverNext(token)
    BY <1>6
  <2>2. toDeliver' = toDeliver \ {token}
    BY <2>1 DEF DeliverNext
  <2>3. \A r \in records : r.token # token => r \in records'
    BY <2>1 DEF DeliverNext, RecordOf, Deliver, DiscardRecord
  <2>4. \A t \in toDeliver : \E r \in records : r.ready /\ r.token = t
    BY DEF Visiting, Tokens, Ready
  <2> QED
    BY <2>2, <2>3, <2>4 DEF Visiting, Tokens, Ready
<1>7. CASE \/ LaunchApp \/ TerminateApp \/ TakeCompletion \/ Dispatch \/ StopWorker
           \/ (\E q \in RequestIds : Ask(q) \/ CancelAsked(q))
           \/ (\E w \in ServiceWorkers : Work(w)) \/ UNCHANGED allVars
  BY <1>2, <1>7 DEF LaunchApp, TerminateApp, TakeCompletion, Dispatch, StopWorker, Ask,
                    CancelAsked, PostedByScript, Work, allVars, bridgeVars
<1> QED
  BY <1>4, <1>5, <1>6, <1>7 DEF SessionNext, Shutdown, Pump

LEMMA NextScriptTyped ==
  ASSUME LedgerInv, HeldInv, RecordsTyped, ScriptTyped, [SessionNext]_allVars
  PROVE  ScriptTyped'
<1>1. ASSUME UNCHANGED <<inbox, scriptVars>>
      PROVE  ScriptTyped'
  BY <1>1 DEF ScriptTyped, scriptVars
<1>2. CASE BeginSession
  BY <1>2 DEF BeginSession, Begin, boxVars, ScriptTyped
<1>3. CASE BeginShutdown
  BY <1>3 DEF BeginShutdown, BeginTeardown, scriptVars, ScriptTyped
<1>4. CASE \E q \in RequestIds : Ask(q) \/ CancelAsked(q)
  <2>1. UNCHANGED <<inbox, worker>> /\ callbacks' \subseteq asked' /\ turnedAway' \subseteq asked'
    BY <1>4 DEF Ask, CancelAsked, PostedByScript, ScriptTyped
  <2> QED
    BY <2>1 DEF ScriptTyped
<1>5. CASE TakeCompletion
  <2>1. /\ inbox # <<>> /\ inbox' = Tail(inbox)
        /\ UNCHANGED <<callbacks, asked, turnedAway>>
        /\ worker' = [step |-> "take", body |-> Head(inbox).body]
    BY <1>5 DEF TakeCompletion
  <2>2. PICK packets : inbox \in Seq(packets)
    BY DEF HeldInv, HouseInv, Lined
  <2>3. /\ Head(inbox) = inbox[1] /\ 1 \in DOMAIN inbox
        /\ \A k \in DOMAIN inbox' : k + 1 \in DOMAIN inbox /\ inbox'[k] = inbox[k + 1]
    BY <2>1, <2>2, BoxesStay
  <2>4. worker' \in [step : {"take"}, body : Body]
    BY <2>1, <2>3 DEF ScriptTyped
  <2> QED
    BY <2>1, <2>3, <2>4 DEF ScriptTyped
<1>6. CASE Dispatch \/ StopWorker
  BY <1>6 DEF Dispatch, StopWorker, supervisorVars, boxVars, ScriptTyped
<1>7. CASE \E token \in toDeliver : DeliverNext(token)
  <2>1. PICK token \in toDeliver : DeliverNext(token)
    BY <1>7
  <2>2. UNCHANGED scriptVars
    BY <2>1 DEF DeliverNext
  <2>3. PICK r \in records : inbox' = inbox \/ inbox' = Append(inbox, CompletionPacket(r))
    BY <2>1 DEF DeliverNext, RecordOf, Deliver
  <2>4. CASE inbox' = inbox
    BY <1>1, <2>2, <2>4
  <2>5. CASE inbox' = Append(inbox, CompletionPacket(r))
    <3>1. CompletionPacket(r).body \in Body
      BY DEF CompletionPacket, RecordsTyped, Record, Token, Body
    <3>2. PICK end :
            /\ DOMAIN inbox' = DOMAIN inbox \cup {end}
            /\ inbox'[end] = CompletionPacket(r) /\ \A k \in DOMAIN inbox : inbox'[k] = inbox[k]
      BY <2>5, EndIsAdded DEF HeldInv, HouseInv, Lined
    <3> QED
      BY <2>2, <3>1, <3>2 DEF ScriptTyped, scriptVars
  <2> QED
    BY <2>3, <2>4, <2>5
<1>8. CASE \/ LaunchApp \/ BridgeBeginTeardown \/ TerminateApp \/ BridgeCompleteTeardown
           \/ EndSession \/ PumpNothing
           \/ (\E c \in completions \cup staged : PumpCompletion(c))
           \/ (\E w \in ServiceWorkers : Work(w)) \/ UNCHANGED allVars
  <2>1. UNCHANGED <<inbox, scriptVars>>
    BY <1>8 DEF LaunchApp, BridgeBeginTeardown, TerminateApp, BridgeCompleteTeardown, EndSession,
                CompleteTeardown, PumpNothing, PumpCompletion, Work, supervisorVars,
                boxVars, allVars
  <2> QED
    BY <1>1, <2>1
<1>9. CASE PumpRequest
  <2> DEFINE q == requestBox[1].body.request
  <2>1. requestBox # <<>> /\ UNCHANGED <<inbox, worker, callbacks, asked>>
    BY <1>9 DEF PumpRequest
  <2>2. /\ Head(requestBox) = requestBox[1] /\ 1 \in DOMAIN requestBox
        /\ current # NoSession /\ RequestsPlaced
    BY <2>1, FrontLeaves DEF HeldInv, HouseInv, Lined, Vacant
  <2>3. TokenOf(q).request = q
    BY DEF TokenOf
  <2>4. turnedAway' = turnedAway \/ (IsRequest(1, q) /\ turnedAway' = turnedAway \cup {q})
    <3>1. CASE requestBox[1].kind = "ServiceCancel"
      BY <1>9, <2>2, <3>1 DEF PumpRequest, CancelRequest
    <3>2. CASE requestBox[1].kind = "ServiceRequest"
      <4>1. SubmitRequest(TokenOf(q))
        BY <1>9, <2>2, <3>2 DEF PumpRequest
      <4> QED
        BY <2>3, <3>2, <4>1 DEF SubmitRequest, TurnAway, LetIn, IsRequest
    <3> QED
      BY <2>2, <3>1, <3>2 DEF HeldInv, HouseInv, Lined
  <2>5. IsRequest(1, q) => q \in asked
    BY <2>2 DEF Requested, RequestsPlaced, OncePlaced
  <2> HIDE DEF q
  <2> QED
    BY <2>1, <2>4, <2>5 DEF ScriptTyped
<1> QED
  BY <1>2, <1>3, <1>4, <1>5, <1>6, <1>7, <1>8, <1>9 DEF SessionNext, Shutdown, Pump

\* Each variable of session and host keeps its type, pump visits records that are there and
\* ready, and the bridge keeps to its capacity, for all capacities.
THEOREM SessionTypes == SessionSpec => []SessionTypeOK
<1> DEFINE BridgeTyped == SessionsTyped /\ LeasesBounded /\ RecordsTyped /\ Visiting /\ ScriptTyped
<1>1. SessionInit => CallerInv /\ BridgeTyped
  <2> SUFFICES ASSUME SessionInit
               PROVE  CallerInv /\ BridgeTyped
    OBVIOUS
  <2>1. /\ current = NoSession /\ retiring = NoSession /\ nextGeneration = 1 /\ inbox = <<>>
        /\ payloads = [i \in 1 .. PayloadLeases |-> FreeSlot(1)] /\ records = {}
        /\ toDeliver = {} /\ worker = Off /\ callbacks = {} /\ asked = {} /\ delivered = {}
        /\ turnedAway = {}
    BY DEF SessionInit, Init, HostInit, NewRegistry
  <2>2. LeasesBounded
    BY <2>1, SupervisorAssumption DEF LeasesBounded, FreeSlot
  <2>3. RecordsTyped
    BY <2>1, FS_EmptySet, SessionAssumption DEF RecordsTyped
  <2> QED
    BY <2>1, <2>2, <2>3, SupervisorAssumption
       DEF SessionsTyped, Visiting, ScriptTyped, CallerInv
<1>2. SessionSpec => []CallerInv
  BY <1>1, NextCallerInv, PTL DEF SessionSpec
<1>3. HostInv /\ CallerInv /\ LedgerInv /\ HeldInv /\ BridgeTyped /\ [SessionNext]_allVars
      => BridgeTyped'
  BY NextSessionsTyped, NextLeasesBounded, NextRecordsTyped, NextVisiting, NextScriptTyped
     DEF HostInv, HeldInv, HouseInv
<1>4. HostInv /\ Counted /\ CallerInv /\ LedgerInv /\ BridgeTyped => SessionTypeOK
  <2> SUFFICES ASSUME HostInv, Counted, CallerInv, LedgerInv, BridgeTyped
               PROVE  SessionTypeOK
    OBVIOUS
  <2>1. HostTypeOK
    BY HostInvSays
  <2> QED
    BY <2>1 DEF SessionTypeOK, RecordsTyped, Visiting, ScriptTyped, LedgerInv, Phased, CallerInv
<1> HIDE DEF BridgeTyped
<1> QED
  BY <1>1, <1>2, <1>3, <1>4, LedgerInvariant, HeldInvariant, HostIsSound, PTL DEF SessionSpec

\* The bridge has room for every request the script may ever have waiting.
RoomForAll ==
  /\ IsFiniteSet(RequestIds)
  /\ Cardinality(RequestIds) <= MaxRequests /\ Cardinality(RequestIds) <= MaxTombstones

LEMMA OthersFit ==
  ASSUME RoomForAll, NEW q \in RequestIds, NEW S, NEW f \in Injection(S, RequestIds \ {q})
  PROVE  /\ Cardinality(S) \in Nat
         /\ Cardinality(S) < MaxRequests /\ Cardinality(S) < MaxTombstones
<1>1. /\ IsFiniteSet(RequestIds \ {q})
      /\ Cardinality(RequestIds \ {q}) = Cardinality(RequestIds) - 1
  BY FS_RemoveElement DEF RoomForAll
<1>2. IsFiniteSet(S) /\ Cardinality(S) <= Cardinality(RequestIds \ {q})
  BY <1>1, FS_Injection
<1>3. /\ Cardinality(S) \in Nat /\ Cardinality(RequestIds) \in Nat
      /\ MaxRequests \in Nat /\ MaxTombstones \in Nat
  BY <1>2, FS_CardinalityType, SessionAssumption, SupervisorAssumption DEF RoomForAll
<1> QED
  BY <1>1, <1>2, <1>3 DEF RoomForAll

\* When it has, no request is turned away for want of room or as one that is known: what comes
\* is not among what the bridge holds.  (It may still be turned away for what it asks for.)
THEOREM RoomIsEnough == SessionSpec /\ RoomForAll => []RoomForRequests
<1> SUFFICES ASSUME RoomForAll
             PROVE  SessionSpec => []RoomForRequests
  OBVIOUS
<1>1. LedgerInv /\ HeldInv /\ CallerInv => RoomForRequests
  <2> SUFFICES ASSUME LedgerInv, HeldInv, CallerInv,
                      requestBox # <<>>, Head(requestBox).kind = "ServiceRequest"
               PROVE  ~NoPlaceFor(TokenOf(Head(requestBox).body.request))
    BY DEF RoomForRequests
  <2> DEFINE q == requestBox[1].body.request
  <2>1. current # NoSession /\ RequestsPlaced
    BY DEF HeldInv, HouseInv, Vacant
  <2>2. Head(requestBox) = requestBox[1] /\ 1 \in DOMAIN requestBox
    BY FrontLeaves DEF HeldInv, HouseInv, Lined
  <2>3. Requested(q)
    BY <2>2 DEF Requested, IsRequest
  <2>4. q \in RequestIds /\ ~Recorded(q) /\ TokenOf(q).request = q
    BY <2>1, <2>3 DEF RequestsPlaced, OncePlaced, CallerInv, TokenOf
  <2> HIDE DEF q
  <2>5. \A r \in records : r.token.request \in RequestIds \ {q}
    <3> SUFFICES ASSUME NEW r \in records
                 PROVE  r.token.request \in RequestIds \ {q}
      OBVIOUS
    <3>1. Recorded(r.token.request)
      BY DEF Recorded
    <3>2. r.token.request \in asked
      BY <2>1, <3>1 DEF RequestsPlaced, OncePlaced
    <3> QED
      BY <2>4, <3>1, <3>2 DEF CallerInv
  <2>6. \A r, s \in records : r.token.request = s.token.request => r = s
    <3>1. \A r \in records : r.token = TokenOf(r.token.request)
      BY DEF HeldInv, HouseInv, Unfiled
    <3>2. \A r, s \in records : r.token = s.token => r = s
      BY DEF LedgerInv, Entered
    <3> QED
      BY <3>1, <3>2
  <2>7. Cardinality(records) \in Nat /\ Cardinality(records) < MaxRequests
    <3> DEFINE f == [r \in records |-> r.token.request]
    <3>1. f \in Injection(records, RequestIds \ {q})
      BY <2>5, <2>6 DEF Injection, IsInjective
    <3> HIDE DEF f
    <3> QED
      BY <2>4, <3>1, OthersFit
  <2>8. Cardinality(tombstones) \in Nat /\ Cardinality(tombstones) < MaxTombstones
    <3> DEFINE f == [t \in tombstones |-> t.request]
    <3>1. \A t \in tombstones : \E r \in records : r.token = t
      BY DEF LedgerInv, Entered, Tokens
    <3>2. f \in Injection(tombstones, RequestIds \ {q})
      BY <2>5, <2>6, <3>1 DEF Injection, IsInjective
    <3> HIDE DEF f
    <3> QED
      BY <2>4, <3>2, OthersFit
  <2>9. TokenOf(q) \notin Tokens(records) \cup tombstones
    BY <2>4 DEF Tokens, Recorded, LedgerInv, Entered
  <2>10. ~NoPlaceFor(TokenOf(q))
    BY <2>7, <2>8, <2>9, SessionAssumption, SupervisorAssumption DEF NoPlaceFor
  <2> QED
    BY <2>2, <2>10 DEF q
<1>2. SessionInit => CallerInv
  BY DEF SessionInit, HostInit, CallerInv
<1> QED
  BY <1>1, <1>2, NextCallerInv, LedgerInvariant, HeldInvariant, PTL DEF SessionSpec

-----------------------------------------------------------------------------
\* With results scoped to clients, payloads, the handles of results and the answers to what the
\* bridge has let in are neither lost nor doubled between provider and script.
THEOREM AnswersStayHeld ==
  SessionSpec /\ "app" \notin HandleScopes => []AnswersAreHeld
<1>1. PayloadsHeld /\ AwaitedIsSomewhere /\ HandlesAreHeld => AnswersAreHeld
  BY DEF AnswersAreHeld
<1> QED
  BY <1>1, PayloadsAreHeld, CallbacksAreAnswered, ResultsAreHeld, PTL
=============================================================================
