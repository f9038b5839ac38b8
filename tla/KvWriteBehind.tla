---------------------------- MODULE KvWriteBehind ----------------------------
(***************************************************************************)
(* Private storage of Apps, written behind: AppPrivateKvStorageMock of     *)
(* app_services.cpp and app_storage_lifecycle_policy.cpp.  A request to    *)
(* the storage is a job in the host's request queue and an operation in    *)
(* pending; a worker takes jobs from the queue and applies the operation,  *)
(* if it is still pending then.  Suspension, exit, crash, removal or       *)
(* replacement of an App and shortage of memory flush, drop or delete what *)
(* the policy says, on the UI thread, while the worker may have a job.     *)
(*                                                                         *)
(* Job slots, result handles and completions are HostServices's: here a    *)
(* job is answered when it is applied.  Jobs are numbered as they come, so *)
(* queues are sets and their order is that of the numbers.                 *)
(***************************************************************************)
EXTENDS Integers, FiniteSets, FiniteSetsExt, Folds

CONSTANTS
  Apps, Keys,
  Values,        \* a value is its number of bytes
  MaxItems,      \* max_items_per_app
  MaxBytes,      \* max_bytes_per_app
  MaxFlushOps,   \* max_flush_ops of a report, 0 for no limit
  Policy,        \* the flags of AppStorageLifecyclePolicy that are set
  MaxJobs,       \* jobs (bound)
  MaxInstances   \* launches (bound)

Flags ==
  {"flush_pending_on_suspend", "flush_pending_on_exit", "flush_pending_on_update",
   "drop_pending_on_crash", "drop_pending_on_memory_pressure", "delete_data_on_uninstall",
   "keep_data_on_update"}

ASSUME KvAssumption ==
  /\ Values \subseteq Nat /\ {MaxItems, MaxBytes, MaxFlushOps, MaxJobs, MaxInstances} \subseteq Nat
  /\ Policy \subseteq Flags

VARIABLES
  current,      \* the running App: the set of at most one [id, app]
  closing,      \* its end has been reported and is next
  launches, jobs,
  installed,
  requests,     \* the host's queue: job and instance
  held,         \* the request a worker has taken: the set of at most one
  pending,      \* pending_
  spaces,       \* spaces_, with nothing for an App that has no entry
  written,      \* per App the space its last instance has asked for
  flushed       \* Apps whose last exit was reported as flushed, and that nothing changed since

kvVars == <<current, closing, launches, jobs, installed, requests, held, pending, spaces,
            written, flushed>>

-----------------------------------------------------------------------------
(***************************************************************************)
(* A space and the operations on it                                        *)
(***************************************************************************)
KeyBytes == 1
Nothing == [values |-> <<>>, bytes |-> 0]

Stores(s, key) == key \in DOMAIN s.values
BytesOf(s, key) == IF Stores(s, key) THEN KeyBytes + s.values[key] ELSE 0

CanStore(s, key, value) ==
  /\ Stores(s, key) \/ Cardinality(DOMAIN s.values) < MaxItems
  /\ s.bytes - BytesOf(s, key) + KeyBytes + value <= MaxBytes

\* Mutant of Removed: the bytes of the value stay on the account.
RemovedKeepsBytes(s, key) ==
  [values |-> [k \in DOMAIN s.values \ {key} |-> s.values[k]], bytes |-> s.bytes]

Removed(s, key) ==
  [values |-> [k \in DOMAIN s.values \ {key} |-> s.values[k]], bytes |-> s.bytes - BytesOf(s, key)]

\* apply
Applied(s, op) ==
  CASE op.kind = "set" /\ CanStore(s, op.key, op.value) ->
         [values |-> [k \in DOMAIN s.values \cup {op.key} |-> IF k = op.key THEN op.value ELSE s.values[k]],
          bytes |-> s.bytes - BytesOf(s, op.key) + KeyBytes + op.value]
    [] op.kind = "remove" -> Removed(s, op.key)
    [] op.kind = "clear" -> Nothing
    [] OTHER -> s

Jobs(set) == {x.job : x \in set}

Oldest(set) == CHOOSE x \in set : \A y \in set : x.job <= y.job
Newest(set) == CHOOSE x \in set : \A y \in set : y.job <= x.job

\* One operation after the other, as they were asked for.
AppliedAll(s, ops) == MapThenFoldSet(LAMBDA p, t : Applied(t, p.op), s, LAMBDA p : p, Newest, ops)

Operations ==
  [kind : {"set"}, key : Keys, value : Values] \cup [kind : {"remove"}, key : Keys]
  \cup [kind : {"clear", "get"}]

-----------------------------------------------------------------------------
(***************************************************************************)
(* Apps come, ask and go                                                   *)
(***************************************************************************)
KvInit ==
  /\ current = {} /\ closing = FALSE /\ launches = 0 /\ jobs = 0 /\ installed = Apps
  /\ requests = {} /\ held = {} /\ pending = {}
  /\ spaces = [a \in Apps |-> Nothing] /\ written = spaces /\ flushed = {}

Launch ==
  /\ current = {} /\ launches < MaxInstances /\ launches' = launches + 1
  /\ \E a \in installed :
       /\ current' = {[id |-> launches + 1, app |-> a]}
       /\ written' = [written EXCEPT ![a] = spaces[a]]
       /\ flushed' = flushed \ {a}
  /\ UNCHANGED <<closing, jobs, installed, requests, held, pending, spaces>>

\* The queue has room: what a full one refuses changes nothing.
Submit ==
  /\ ~closing /\ jobs < MaxJobs /\ jobs' = jobs + 1
  /\ \E c \in current, op \in Operations :
       /\ pending' = pending \cup {[job |-> jobs + 1, id |-> c.id, app |-> c.app, op |-> op]}
       /\ written' = [written EXCEPT ![c.app] = Applied(@, op)]
  /\ requests' = requests \cup {[job |-> jobs + 1, id |-> c.id] : c \in current}
  /\ UNCHANGED <<current, closing, launches, installed, held, spaces, flushed>>

\* terminate_current: the queue forgets the jobs of the App, pending does not.
Terminate ==
  /\ closing /\ closing' = FALSE
  /\ requests' = {r \in requests : \A c \in current : r.id # c.id}
  /\ current' = {}
  /\ UNCHANGED <<launches, jobs, installed, held, pending, spaces, written, flushed>>

\* The operations a report is about: of the instance if the App runs, of all its instances
\* if it does not.
Concerned(a) ==
  {p \in pending : p.app = a /\ \A c \in current : c.app = a => p.id = c.id}

-----------------------------------------------------------------------------
(***************************************************************************)
(* The worker: pop_worker_request, complete_request                        *)
(***************************************************************************)
WorkerTakes ==
  /\ held = {} /\ requests # {}
  /\ held' = {Oldest(requests)} /\ requests' = requests \ held'
  /\ UNCHANGED <<current, closing, launches, jobs, installed, pending, spaces, written, flushed>>

\* An operation that is no longer pending is answered as cancelled.
WorkerCompletes ==
  /\ held # {} /\ held' = {}
  /\ LET done == {p \in pending : p.job \in Jobs(held)}
         late == {p \in done : \A c \in current : p.id # c.id}
     IN /\ pending' = pending \ done
        /\ spaces' = [a \in Apps |-> AppliedAll(spaces[a], {p \in done : p.app = a})]
        /\ flushed' = flushed \ {p.app : p \in late}
        /\ written' = [a \in Apps |->
                        IF \A p \in late : p.app # a THEN written[a]
                        ELSE AppliedAll(spaces'[a], Concerned(a) \ done)]
  /\ UNCHANGED <<current, closing, launches, jobs, installed, requests>>

-----------------------------------------------------------------------------
(***************************************************************************)
(* Reports of the App's life to the storage                                *)
(***************************************************************************)
Triggers == {"suspend", "exit", "crash", "uninstall", "update", "pressure"}

\* app_storage_lifecycle_decision_for
Drops(t) ==
  \/ t = "uninstall"
  \/ t = "crash" /\ "drop_pending_on_crash" \in Policy
  \/ t = "pressure" /\ "drop_pending_on_memory_pressure" \in Policy

Flushes(t) ==
  /\ ~Drops(t)
  /\ \/ t = "suspend" /\ "flush_pending_on_suspend" \in Policy
     \/ t = "exit" /\ "flush_pending_on_exit" \in Policy
     \/ t = "update" /\ "flush_pending_on_update" \in Policy

Deletes(t) ==
  \/ t = "uninstall" /\ "delete_data_on_uninstall" \in Policy
  \/ t = "update" /\ "keep_data_on_update" \notin Policy

FitsFlush(ops) == MaxFlushOps = 0 \/ Cardinality(ops) <= MaxFlushOps

UpTo(p, ops) == {q \in ops : q.job <= p.job}

\* Mutant of Flushable: jobs that cannot be taken are passed over.
FlushableOfAny(a) ==
  LET mine == {p \in Concerned(a) : p.job \in Jobs(requests)}
  IN {p \in mine : FitsFlush(UpTo(p, mine))}

\* The flush takes one job after the other from the queue, and ends at the first that is not
\* there: a worker has it, or its App is gone.
Flushable(a) ==
  LET mine == Concerned(a)
  IN {p \in mine : FitsFlush(UpTo(p, mine)) /\ Jobs(UpTo(p, mine)) \subseteq Jobs(requests)}

\* flush_pending_app_instance, flush_pending_app: the jobs done by a report.
Taken(t, a) == IF Flushes(t) THEN Flushable(a) ELSE {}

\* Mutant of Undropped: only what the running instance asked for is dropped.
UndroppedOfOthers(a) == {p \in pending : p.app # a \/ \A c \in current : p.id # c.id}

\* drop_pending_app_instance, drop_pending_app; the jobs stay in the queue.
Undropped(a) == {p \in pending : p.app # a}

ReportsFlushed(t, a) == t = "exit" /\ Flushes(t) /\ Flushable(a) = Concerned(a)

\* apply_app_storage_lifecycle
Report(t, a) ==
  /\ spaces' = [spaces EXCEPT ![a] =
                 IF Deletes(t) THEN Nothing
                 ELSE AppliedAll(@, Taken(t, a))]
  /\ pending' = IF Drops(t) THEN Undropped(a) ELSE pending \ Taken(t, a)
  /\ requests' = {r \in requests : r.job \notin Jobs(Taken(t, a))}
  /\ written' = IF Drops(t) \/ Deletes(t) THEN [written EXCEPT ![a] = spaces'[a]] ELSE written
  /\ flushed' = CASE ReportsFlushed(t, a) -> flushed \cup {a}
                  [] Deletes(t) -> flushed \ {a}
                  [] OTHER -> flushed

\* Suspension and shortage of memory leave the App running; the others end it.
ReportRunning ==
  /\ ~closing
  /\ \E c \in current, t \in Triggers :
       /\ Report(t, c.app)
       /\ closing' = (t \notin {"suspend", "pressure"})
       /\ installed' = IF t = "uninstall" THEN installed \ {c.app} ELSE installed
  /\ UNCHANGED <<current, launches, jobs, held>>

\* An App that does not run is removed or replaced, another one may be running.
ReportStopped ==
  /\ ~closing
  /\ \E a \in installed \ {c.app : c \in current}, t \in {"uninstall", "update"} :
       /\ Report(t, a)
       /\ installed' = IF t = "uninstall" THEN installed \ {a} ELSE installed
  /\ UNCHANGED <<current, closing, launches, jobs, held>>

Install ==
  /\ \E a \in Apps \ installed : installed' = installed \cup {a}
  /\ ~closing
  /\ UNCHANGED <<current, closing, launches, jobs, requests, held, pending, spaces, written, flushed>>

KvNext ==
  \/ Launch \/ Submit \/ Terminate \/ Install
  \/ WorkerTakes \/ WorkerCompletes
  \/ ReportRunning \/ ReportStopped

KvSpec == KvInit /\ [][KvNext]_kvVars

-----------------------------------------------------------------------------
(***************************************************************************)
(* Properties                                                              *)
(***************************************************************************)
\* The variables hold values of their types; whatever was set, replaced, removed, cleared and
\* refused, the bytes charged to an App are those it stores, within its budgets.
KvTypeOK ==
  /\ current \subseteq [id : 1 .. MaxInstances, app : Apps] /\ closing \in BOOLEAN
  /\ installed \subseteq Apps /\ flushed \subseteq Apps
  /\ Jobs(held \cup requests \cup pending) \subseteq 1 .. MaxJobs
  /\ \A a \in Apps :
       /\ DOMAIN spaces[a].values \subseteq Keys
       /\ Cardinality(DOMAIN spaces[a].values) <= MaxItems
       /\ spaces[a].bytes = MapThenSumSet(LAMBDA k : BytesOf(spaces[a], k), DOMAIN spaces[a].values)
       /\ spaces[a].bytes <= MaxBytes

\* What an instance asked for is applied in the order it asked, whoever applies it: the worker
\* or a flush that meets a job the worker has taken (an operation that goes is applied or
\* dropped with all of its App, and none of its instance before it stays behind).
AppliesInOrder ==
  [][\A p, q \in pending :
       p.id = q.id /\ p.job < q.job /\ q \notin pending' => p \notin pending']_kvVars

\* The data of an App that was removed is gone and stays gone, whatever its instances had
\* asked for and a worker had taken already ("drops pending writes and deletes app-private
\* data").
RemovedStaysRemoved ==
  \A a \in Apps \ installed : spaces[a] = Nothing

\* What an exit reports as flushed is what the App has asked for, all of it, and the next
\* instance finds it ("flushed value is readable after relaunch"), unless the worker is late
\* with an operation of an instance before, whose own exit was not reported as flushed.
FlushedIsReadable == \A a \in flushed : spaces[a] = written[a]

\* What the reports of an App's life say is so.
ReportsAreTrue == RemovedStaysRemoved /\ FlushedIsReadable
=============================================================================
