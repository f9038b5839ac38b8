# JellyFrame: specification and verification

JellyFrame runs small HTML/CSS/JavaScript Apps on microcontrollers.  This
directory holds TLA+ specifications of the parts of it that are concurrent,
persistent or shared between tasks, the TLC configurations that check them, and
TLAPS proofs.  Paths below are relative to the repository; `SAR/` is
`src/app_runtime/` and `ESP/` is `ports/esp32s3-idf/main/`, with the prefix
`jellyframe_esp32s3_` of its files left out.

Contents: 1 the system; 2 the components; 3 the modules; 4 the runs;
5 fairness; 6 findings and observations; 7 proofs; 8 abstractions;
9 what is not modelled; 10 plan; 11 how to run.

## 1. The system

A device has one *foreground App* at a time.  The installed bundle lies in flash;
a host installs, launches, stops, removes and rolls it back over JFDP, a framed
serial protocol.  A launched App runs on three tasks:

    host over USB --JFDP--> endpoint task --launch/stop--> supervisor task
                               |                            |  ^        |
                          image store (flash)      completions |        | requests
                                                           v  |        v
                                  script worker (JerryScript)    service workers
                                           |
                                           +-- frames --> UI task (panel, touch)

The tasks share no heap objects.  They exchange fixed-size packets through
mailboxes and larger data through *leases* of sealed buffers, and every packet
carries the *session* (App instance, generation) it belongs to.  Host services
(network, storage, compute, sensors) are requests an App submits and workers
complete; results stay in the provider and are named by generation-checked
handles.  What is hard is always the same question asked in different places: an
App ends at any moment; does anything of it reach the next App, stay behind
for ever, or get lost while it still runs?  The image store asks it of flash: the
power fails at any moment; what does the next boot find?

## 2. The components

### 2.1 Script task contract (`SAR/script_task_contract.{h,cpp}`) -- modelled
State: current and retiring session, next generation and frame sequence; four
bounded mailboxes (worker inbox, frames, requests, fatal); two registries of
sealed leases with byte accounts; a ledger of service requests (tombstones) and
which of them are cancelled; release intents of native objects.
Operations: `begin`, `post_*`, `take_*`, `publish_frame`, `publish_payload`, `release_*`,
`track/cancel/accept/forget_service_request`, `post_release_intent`, `begin_teardown`,
`complete_teardown`, each under one mutex, called from three tasks in any order.
Hard: posts racing with teardown; releases after the slot was used again; a
frame that is leased and then refused; wrap-around of generations.
Correct when: no packet crosses sessions, nothing is queued after teardown has
begun, nothing is owned after it has completed, sealed bytes do not change, byte
accounts do not drift.

### 2.2 Script task service bridge (`SAR/script_task_service_bridge.{h,cpp}`) and the worker's side (`src/script/script_task_worker_runtime.cpp`, `src/script/jerryscript_runtime.cpp`) -- partly
State: records of requests (token, host job, ready packet, payload lease); in the
worker the callbacks that wait.  Operations: `submit`, `cancel`, `pump_host_completions`,
`pump`, two halves of teardown; in the worker `services.request`, `services.cancel`, taking
and dispatching a completion, stop.
Interacts with: the supervisor's ledger and mailboxes, the host's queues and
handles.  Hard: an inbox that is full while completions are ready; cancellation
at every stage; copying the payload may fail; completions whose record is gone;
two locks for what must agree; requests that `submit` turns away without an answer.
Correct when: each callback whose request was let in is answered exactly once or ended
with its session, and payloads and handles are neither lost nor named twice.

### 2.3 Installed script task (`ESP/installed_script_task.{h,cpp}`, `src/script/script_task_worker_runtime.cpp`) -- partly
State: the flags `stop`, `fatal_seen`, `worker_done`, `ui_done`; in the worker the document
and whether it is dirty, and the failure; in the UI task the frame in hand.
Creates the three tasks of a session, pumps in a loop, and shuts down: begin
teardown, join worker and UI task, complete teardown.  The worker loads the document,
evaluates its scripts, dispatches input, runs callbacks and publishes a frame of what has
changed; the UI task takes a frame, copies it, gives its lease back and draws.
Hard: the order of shutdown, as the protocol object lies on the supervisor task's
stack; waiting for tasks that may wait for mailboxes; `fatal_seen` against `worker_done`; a
frame that is refused and has to be published later.
Correct when: no task outlives the protocol it calls, a failure is seen by the endpoint,
no lease leaks, the UI task gets to draw the last state of the document in the end, and every session
that is told to stop ends.

### 2.4 Host services, App host and lifecycle (`SAR/host_services.*`, `SAR/app_host.*`, `SAR/app_lifecycle.*`, `SAR/app_service_worker.*`) -- partly
State: pending requests, in-flight jobs with staged completions, completion
queue, handle table (generation, owner, retired), current App, atomic copy of its id.
Operations: `submit_request`, `pop_request`, `allocate_handle`, `push_completion`, pumping, `release`,
launch, `terminate_current` in three separately locked steps.  No lock spans two of the
structures.  Hard: a worker decides by an App id that a termination has changed
meanwhile; handle generations are 16 bits; late workers and late consumers.
Correct when: jobs are answered once, in-flight slots and handle slots are given
back, a handle never names somebody else's slot.

### 2.5 Device image store (`ESP/device_image_store.{h,cpp}`) -- partly
State: two registry sectors, three bundle slots, registry in RAM, an open
staging, a one-sector validation cache.  Operations: `initialize`, `begin/write/verify/commit/abort_staging`,
`rollback`, `remove`, `acquire_installed_bundle`.  Hard: power loss and failing flash
operations between any two steps, defects found at boot, the cache.
Correct when: what the next boot finds changes by one whole operation at a time
and names complete bundles only.

### 2.6 Install transaction (`src/device_runtime_contracts/device_install_transaction.*`) -- modelled
State: the open transaction and the bytes received.  Operations: begin, append,
commit, abort.  Hard: chunks repeated, out of order, of another transaction;
failure of each step.  Correct when: transaction and staging open and end
together and what is acknowledged has been written.

### 2.7 Endpoint (`ESP/device_image_lifecycle.*`) and bundle binding (`SAR/app_installed_bundle.*`) -- partly
State: the lease of the launched bundle, the running session, the active App and
what the host has in the foreground.  Operations: handlers of JFDP requests, transport
reset, polling of a failed session.  Correct when: the session that runs is the one the
endpoint accounts for, it is stopped before its bundle is replaced on its own
account (a remove or a rollback of it), and a failed one is taken down.

### 2.8 The other components

| component | state, operations, hard behaviour | correct when | status |
|---|---|---|---|
| JFDP stream transport (`ESP/jfdp_transport.cpp`) | receive buffer, partial reads; feed, reset, reject; timeouts, disconnection | no frame is handed on but a complete one sent; it resynchronises | partly: `JfdpStream` |
| JFDP codecs, bundle format (`src/device_runtime_contracts`) | none; pure | round trip, bounds | the framing in `JfdpStream`; the rest not modelled: pure data, golden vectors |
| Script frames (`SAR/script_task_frame_codec.*`, renderer, UI task) | frame mailbox and leases; take, copy, release as three calls | no torn frame, the last one not passed over, leases given back | partly: 2.1, 2.3; encoding and rasterising are pure |
| Packet codecs, input dispatch | none | round trip | not modelled |
| JavaScript runtime (`src/script/jerryscript_runtime.*`) | DOM bindings, timers, animation callbacks, service callbacks | timers fire once, survive changes while walked | partly: service callbacks in 2.2, timers and animation callbacks in `CallbackPump` |
| Service providers (`SAR/app_services.*`, `SAR/app_*`) | key-value store with pending writes, XHR, compute, video, capture | writes reach the medium in order, a flush on suspension or exit is what it says | partly: `KvWriteBehind`; the others are examples of a provider (one provider that may answer in every way is modelled) |
| App policies (storage lifecycle, permissions, quotas, arbitration) | none; decision tables | tables | the storage policy in `KvWriteBehind`; the others not modelled |
| System events, fonts | one queue or table per App | cleared with the App | not modelled; same pattern as 2.4 |
| Documents, style, layout, painting, repaint (`src/render_core`) | trees, geometry, pixels | repaint covers changes | not modelled: data beyond a bounded state space |
| Input and forms | focus, selection; sequential | -- | not modelled |
| UI task and boards, virtual board, host demo | panel and touch I/O | -- | not modelled: I/O |
| tools, tests, samples, benchmarks | -- | -- | outside the program |

`PROJECT.json` lists the hazards of each component at their lines, with the
properties that would catch them.

## 3. The modules

| module | models | uses |
|---|---|---|
| `LeaseRegistry` | `ScriptTaskFrameRegistry`/`ScriptTaskPayloadRegistry` as operators on a slot table | |
| `SessionLifecycle` | abstract: idle, active, retiring, and what a session may own | |
| `ScriptTaskSupervisor` | 2.1, every call of the class, by a caller that may do anything | EXTENDS `LeaseRegistry`, INSTANCE `SessionLifecycle` |
| `SetSums_proofs` | lemmas: sums over finite sets | |
| `ScriptTaskSupervisor_proofs` | the theorems about it | EXTENDS `SetSums_proofs` |
| `InstalledScriptTask` | 2.3: supervisor task, worker task, UI task, the endpoint's request to stop | EXTENDS `ScriptTaskSupervisor` |
| `InstalledScriptTask_proofs` | the theorems about it | EXTENDS `ScriptTaskSupervisor_proofs` |
| `HostServices` | 2.4 | |
| `ScriptServiceSession` | 2.2 and the shutdown of 2.3: supervisor task, worker task, service workers | EXTENDS `ScriptTaskSupervisor`, `HostServices` |
| `ScriptServices_proofs` | the theorems about host services and session | EXTENDS `ScriptTaskSupervisor_proofs` |
| `AppLibrary` | abstract: the library changes by one install, rollback or remove | |
| `DeviceImageStore` | 2.5, flash operation by flash operation | INSTANCE `AppLibrary` |
| `DeviceInstallTransaction` | 2.6 over the store, with the transport's reset | EXTENDS `DeviceImageStore` |
| `DeviceImageEndpoint` | 2.7 | EXTENDS `DeviceInstallTransaction` |
| `DeviceImage_proofs` | the theorems about store, transaction and endpoint | |
| `JfdpStream` | the request stream: host processes, the link, the adapter, the loop around it | |
| `JfdpStream_proofs` | the theorems about it | |
| `KvWriteBehind` | private storage of Apps with its pending writes and the storage policy | |
| `KvWriteBehind_proofs` | the theorems about it | EXTENDS `SetSums_proofs` |
| `CallbackRounds` | abstract: callbacks run in rounds that begin after they were registered | |
| `CallbackPump` | timers and animation callbacks while callbacks change their lists | INSTANCE `CallbackRounds` twice |
| `CallbackPump_proofs` | the theorems about it | |
| `MC...` | instances for TLC | |

Names follow the code.  Correspondence of state and steps:

**`ScriptTaskSupervisor`.**  One action per public method, its refusals being
disabled actions unless a refusal changes something (a refused frame gives its
lease back in the same call).  `nextGeneration` wraps at `MaxU32` and skips 0, as
`begin` does.  A lease id is slot index and generation, as in the code; the ids a
caller may present include stale ones.  The module composes in two ways: alone it is
driven by any caller (`Next`), in `ScriptServiceSession` by the bridge and the worker.

**`InstalledScriptTask`.**  Each task has a program counter; a step is one call into the
protocol or one access to a flag, with what the task does to its own data up to the
next.  `PublishesFrame` is `publish_frame` of the worker runtime in its two outcomes: the
document is clean afterwards, or stays dirty.  A version of the document is also the
size of its frame, so versions compete for the byte budget, and what the UI task drew
can be told from the bytes it copied.  Creation of a task can fail, a document or a
callback can be rejected (`failed`), the UI task can give up at its start; `AskToStop` is
`stop_installed_bundle_script_task`, at any time.

**`JfdpStream`.**  `Feed` is one round of the loop in `feed`: take what completes a header or
a frame, then `accept`, `reject` or wait.  `ReadBytes` hands the bytes of the link over in
pieces of any length, or times out on a partial frame; `PollLink` is `was_connected` of
the device loop.  The host is one process at a time; it opens the link, sends a request,
waits, gives up, dies, and the next process finds what it left.

**`KvWriteBehind`.**  `Submit` queues a job and appends to `pending_`; `WorkerTakes` and
`WorkerCompletes` are the two halves of a worker's pump; `ReportRunning` and `ReportStopped` are
`report_app_storage_lifecycle` with each of its triggers, whose flush applies, drops or
deletes as the policy says and stops at a job a worker holds.  Jobs are numbered as they
come, so the host's queue and `pending_` are sets, and their order is that of the numbers:
`Oldest` is the front, `AppliedAll` goes through a set from its oldest to its newest.

**`CallbackPump`.**  `PumpTimers`, `CallTimer`, `TimerReturns`, `TimersDone` are the loop of
`pump_timers` cut where a callback runs, and likewise for `pump_animation_frame`; `Script` is
what a callback or a handler may do in between.  Entries no longer active are
removed when a pump begins and when it ends, as in the code; what is left of a list keeps its
order (`At`).

**`HostServices`.**  A worker step is one locked call: pop, process (which allocates
a handle or fails to), look at the current App, push or release, stage, and the
second answer after a refusal.  `terminate_current` is three actions; between them
workers act.

**`ScriptServiceSession`.**  Both pumps, submission and the parts of shutdown are
actions of the supervisor task.  A pump's locked calls are merged where all but one
of them touch data of that task only or commute with what other tasks may do;
delivery to the inbox is one step per record because the worker empties the inbox
meanwhile.  `phase` is the program counter of the shutdown; terminating the App and
`complete_teardown` of the bridge come in either order, since the code and its document
differ (section 6).

**`DeviceImageStore`.**  A sector holds a registry copy with a generation, or an invalid
one; a slot is a row of chunks, each erased, torn or of a bundle.  A publication is
`erase`, `write`, then what the caller does with the result; `PowerLoss` is possible
between any two, every operation can fail, `Boot` runs `initialize`.  `Damage` spoils
anything in flash, only while the device is off.

**`DeviceImageEndpoint`.**  One action per handler.  A handler that stops the session can time
out doing so; it then answers Failed and has changed nothing, a stutter.

## 4. The runs

| run | states | asks | expect |
|---|---|---|---|
| `supervisor` | 258 k | Does a session ever see or keep what belongs to another, whoever calls? Does the supervisor implement the lifecycle? | pass |
| `script_task` | 106 k | Do the three tasks of a session end in order whatever fails, is a failure seen, does the last frame reach the panel task? | pass |
| `host` | 316 k | Are jobs answered once, handles never confused, in-flight slots given back, across termination and launch? | pass |
| `session` | 515 k | Two Apps in a row compete for one in-flight slot, handle, lease and inbox slot: are answers, payloads and handles neither lost nor doubled? | pass |
| `session_scope` | 0.9 k until found | Is an app-scoped handle, which providers may use, released? | violation |
| `install` | 1.04 M | Power loss and failures between any two flash operations: is what is durable always complete, and changed atomically? | pass |
| `install_reset` | 4.5 k until found | Is an empty registry published by a reset what the next boot loads? | violation |
| `endpoint` | 236 k | A running App among installs, removes, rollbacks and one flash defect: is it always accounted for, stopped before its own library entry is removed or rolled back, and taken down when it fails? | pass |
| `endpoint_lease` | 11 k until found | Does the bundle a running App leases stay as it is? | violation |
| `jfdp_stream` | 704 k | Cut, damaged and left-over bytes, dying hosts: is a frame handed on only if it was sent, and does the next request get through? | pass |
| `kv` | 525 k | Suspension, exit, crash, removal while a worker has a job: is storage what the reports say? | pass |
| `callbacks` | 86 k | Timers and animation callbacks that add and clear others while they run: does each run as often as it should? | pass |

### What the properties say

*supervisor.* `NothingOutlivesItsSession` has three parts.  `MailboxesCurrent`: mailboxes hold
packets of the current session only, none after teardown has begun.  `NothingSurvivesTeardown`:
leases, tombstones and intents belong to the session that is current or retiring.
`RetiringIsCancelled`: late completions count as cancelled.  `BytesAccounted`: the clamped
subtraction never bites; accounts equal the sum of active leases.  `SealedUntilReleased`: a
sealed slot does not change until released, an old id never names new content, and a frame
stays sealed after the call that sealed it only if its packet is in the mailbox (a refused
frame gives its lease back).
`ImplementsLifecycle`: refinement.

*script_task.* `ProtocolOutlivesTasks`: no task runs when the supervisor task has torn the
protocol down.  `FramesAreAccounted`: a sealed frame is named by one packet or is in the
UI task's hand.  `FailureIsSeen`: a session that failed is over only with `fatal_seen` set.
`LatestFrameIsTried`, `SessionEnds`: liveness.

*host.* `JobsAnsweredOnce`: a job is pending, in flight, staged, queued or
delivered once.  `HandlesNameTheirOwners`: any handle in anybody's hands names its own slot or
none.  `CurrentResultsAreLive`: an answer for the running App still has its result.
`InFlightRetires`: liveness.

*session.* `LedgerFollowsRecords`: what is kept under two locks agrees.  `AnswersAreHeld` has
three parts.  `PayloadsHeld`: a sealed payload has exactly one holder.  `AwaitedIsSomewhere`: no
request is on its way twice, and each waiting callback has exactly one answer on its way, or none
if the bridge turned its request away (section 6).  `HandlesAreHeld`: each allocated handle slot
is in somebody's hands; `session_scope` checks it alone with app-scoped handles, where it fails.
`NothingWaitsForNobody`: the worker stops before its App's state goes, and
afterwards nothing of it is left.  `CallbacksAreServed`: liveness, of the requests the bridge let in.

*install.* `DurableIsIntact`: what the next boot would load names complete bundles only.
`MemoryIsTrue`: registry and read cache in RAM agree with flash.  `StagingIsIsolated`: what is
staged never shares a slot with what is installed.  `TransactionIsStaged`: transaction and
staging open and end together, and the bytes acknowledged are in flash.  `OlderCopyBoots`: should
the newest copy of the registry be lost while an App is installed, the App the older copy names is
still whole, for all that was installed and rolled back since.  `NoSilentDowngrade`: a commit
replaces the active App by an older version of it only if its request said so; like the code it
looks at what is active only, so after a remove, or while another App is active, an older version
gets in.  `ImplementsLibrary`: refinement, in which the library is what the *next
boot* would find, so a power loss is not a step of it at all.

*endpoint.* `SessionIsAccountedFor`; `StopsBeforeMutation`: while the installed App runs, neither its
remove nor its rollback is published (installs and the removal of another App do reach a running
App's slot: `endpoint_lease`); `FatalIsHandled`: liveness.  All with one flash defect.

*jfdp_stream.* `StreamTypeOK`: the buffer stays below what it waits for.  `HandsOnWhatIsDue`: whatever
is left over, a frame is handed on only if it was sent, and once.  `RequestsGetThrough`: when
the faults are over, no request stays unanswered for good.  `LaterInstallsGetIn`: an install
left open does not keep others out for good.

*kv.* `KvTypeOK`: the bytes charged are those stored.  `AppliesInOrder`: operations of an instance are
applied in order, whoever applies them.  `ReportsAreTrue`: what was removed stays removed, and
what was reported as flushed is what the next instance reads.

*callbacks.* `KeepsRounds`: refinement of `CallbackRounds` by timers and by animation callbacks: none
after it was cleared, none in the pump that added it, a one-shot once, none lost.  `CallbacksRun`:
liveness.

Every property has a mutant in the module (a definition "Mutant of ..."), a plausible bug of
the code under which the run finds it violated.

### Bounds, and why they are enough

- `supervisor`: Apps {1, 2} and two generations (`MaxU32` = 2), so generations wrap around
  and an App follows itself and another one.  One slot per mailbox, one frame and two
  payload leases, sizes 1 and 2 of a budget of 3: full, partly full and over-budget all
  occur.  A slot is used up to three times (`LeaseGenerationBound` = 2 of
  `MaxLeaseGeneration` = 3).  Bodies are never compared, so one is enough.
- `script_task`: one session (each has a protocol object of its own); three versions of the
  document of 1, 2 and 3 bytes in two leases of a budget of 4, so both leases and bytes run
  out; one inbox slot.
- `host`: two launches, three jobs, two workers, *one* handle slot whose second generation is the last: reuse
  by the next App and retirement at exhaustion both happen.  Launches and jobs are
  bounded, so the model stops and deadlock is not checked.
- `session`: two requests of two Apps over one of everything they compete for, one service
  worker (`host` has two).
- `install`: two versions of App A, the newer in two chunks (so an install can be cut in
  between), one of App B; three publications (`MaxGeneration` = 3) are enough for both sectors
  to be overwritten once, for each of the three slots to be used again, and for install,
  rollback and install in a row.  A bundle announced under a wrong App id is among the requests.
- `endpoint`: bundles of one chunk (cut installs are `install`'s), three publications with a running
  App, one defect anywhere in flash; install requests without downgrades.  `install_reset` and
  `endpoint_lease` use the same module.
- `jfdp_stream`: three process numbers, used again; installs of one chunk; payloads up to two
  cells, so that a wrong header can declare less, as much or more than is left of the true
  frame; two faults, in any combination.
- `kv`: two Apps, two keys, three jobs, three launches, so that one App can come back after
  the other; a flush does two operations at most, so it can end before the queue does.
  The byte budget is reached; the item budget is not.
- `callbacks`: two timers and two animation callbacks at a time, three entries of each list (one
  more than is active, so an entry cleared in a pump stays beside a new one); delays
  of 0 and 2 rounds.  The timer budget is the maximum of timers, as in the installed task
  (32 for 8), the animation budget is 1 of 2.

## 5. Fairness

Only where the code's scheduling gives it:

- `HostSpec`: a service worker that has begun goes on (`WF` on its steps: its task only
  makes non-blocking calls); a termination that has begun finishes; the host pumps
  again and again, but other calls come in between (`SF` on pumping).  No fairness on
  launching, terminating or submitting.
- `SessionSpec`: the supervisor task loops over both pumps (`PumpRequest`, `Pump`), a shutdown
  once begun runs to its end, the worker task takes what is in its inbox, and stops
  once told to.  The script is not obliged to do anything, nor the supervisor to end.
- `EndpointSpec`: flash operations return (`WF` on publication); the endpoint's loop polls the
  session at the head of each round (`SF`, as requests interrupt it).  It assumes that
  the tasks of a failed session do stop within the 3 s timeout of some attempt.

- `TaskSpec`: each of the three tasks goes on (`WF` per task): their loops sleep a few
  milliseconds and never wait for a mailbox, a script is bounded by the watchdog, and a UI round
  posts at most eight events (hence `WF` on `EvalDone` and `InputDone`, the ends of two inner
  loops).  The endpoint need not ask to stop.
- `StreamSpec`: the device's loop goes round, also when nothing arrives; a host process reads its
  answer or gives up, opens the link again and goes on asking, and the user plugs the device
  in again.  Faults are bounded and never fair.
- `CallbackSpec`: the worker's loop pumps again and again, and a callback that runs returns
  (the watchdog).  Scripts may do anything allowed, or nothing, in between.

Safety runs use no fairness.

## 6. Findings and observations

Three runs are expected to find a violation; each confronts the code with a line
of the repository.

1. **`install_reset`** -- `initialize` answers a damaged library by publishing an *empty
   generation 0* into sector 0, commented "so the next boot has a bounded trusted record".
   Only sector 0 is rewritten.  If the library did not load because a bundle or the copy
   in sector 0 was damaged, a copy with a higher generation may still be in sector 1; the
   next boot prefers it, and loads it when the bundle it names validates.  The run ends in
   such a state: the registry in RAM is empty, and the next boot would load one from
   before the reset.
2. **`endpoint_lease`** -- the store "owns ... immutable committed-bundle leases", but
   remembers no lease.  While an App runs, the host may install another App twice, or
   remove the one now installed; the slot the running App leases is erased.  The
   endpoint stops a session only if the request names its App.
3. **`session_scope`** -- the document of host services lets providers use app-scoped
   handles; the bridge refuses a completion with one (`HandleRejected`) and does not
   release it, against its own "exactly once".  The slot stays taken until the App ends.

Observations that are not violations (see the notes under "hazards"):

- Between the release of an App's handles and the reset of its id, a completion
  with a handle is refused although a comment wants it deliverable; the worker's
  second answer, without the handle, recovers its in-flight slot.
- `run_supervisor` completes the bridge's teardown while the App is still current; the
  ownership contract asks for the other order.  With the code's order the bridge
  retires nothing, but as it is destroyed with the session nothing is lost.
- `submit` of the bridge returns without a record, hence without an answer, for a service that
  is not for scripts, an input handle that is not live or not its client's, an answer above the byte
  limit of the inbox, and a full bridge; the codec and the runtime let all of these through, and
  the callback waits until its session ends (`TurnAway`).  The bridge has room for 8 requests and the
  script may wait for 16.  The guide of the port asks for no more callbacks than bridge and ledger
  hold (`script_task_port_integration_guide_zh.md:63-65`); a bridge can be full all the same, as a
  cancelled request in flight keeps its record but no callback.  `AwaitedIsSomewhere` and
  `CallbacksAreServed` say all this: whoever was let in is answered, whoever was turned away is not.
- `publish_frame` leaves the document dirty when its frame is refused, and the worker tries
  again in its next round, so `LatestFrameIsTried` holds: the UI task gets to try the last state of
  the document that can be encoded.  A frame that cannot be decoded, rendered or presented is gone
  with its lease and not asked for again: that state is shown only with the next change, and
  the property promises the try, not the picture.
- The fatal record of a worker may be lost, as the supervisor's loop ends as soon as
  `worker_done` is set; `fatal_seen` is set all the same (`FailureIsSeen`).
- The loop of the device polls the link: bytes of an old process already received can open an
  install after the link was lost and the loop has noticed.  It stays open until a reset or until another
  process, answered Busy, cancels it with the transaction id in the answer.
- `JfdpStream` needs three facts of timing: a new process waits (0.2 s) and then empties its input,
  so it does not read answers meant for another; the host's timeout is longer than the
  device's 0.5 s for partial frames; the loop may miss a link that is lost and comes back.
- Private storage: an operation a worker holds when its App ends is applied when the worker
  comes to it, over what a later instance has flushed; `FlushedIsReadable` is stated for what the later
  instance does itself.  Operations of an App that ended without a flush stay
  in `pending_`, and a flush by App name meets them first.
- With a timer budget below `max_timers`, intervals at the head of the list are due again
  in each pump and keep the timers behind them from running at all.  The installed task has a
  budget of 32 for 8 timers; the default profile has 32 for 64, so `CallbacksRun`
  is stated for a budget of at least the number of timers.
- When `max_animation_frame_callbacks` are registered, a callback cannot register itself again
  while it runs, since its entry is still active; a one-shot timer can, its slot is free before
  it is called.
- A callback that adds and clears timers without end lengthens the list until its pump
  is over; only the watchdog bounds that.
- A commit keeps the record of *another* App as its rollback record, so a rollback of B can
  activate A.

## 7. Proofs

`ScriptTaskSupervisor_proofs` proves for all capacities, Apps, sizes and bodies, with the callers
free to do anything:

| theorem | states |
|---|---|
| `TypeCorrect` | `Spec => []TypeOK` |
| `NothingOutlives` | `Spec => []NothingOutlivesItsSession`, whose parts are the next three |
| `MailboxIsolation` | `Spec => []MailboxesCurrent` |
| `TeardownIsComplete` | `Spec => []NothingSurvivesTeardown` |
| `RetiringRequestsAreCancelled` | `Spec => []RetiringIsCancelled` |
| `LeasesAreSealed` | `Spec => SealedUntilReleased` |
| `SupervisorImplementsLifecycle` | `Spec => ImplementsLifecycle` |
| `BytesStayAccounted` | `Spec => []BytesAccounted` |

Assumptions: `SupervisorAssumption` (constants are natural numbers, App ids and generations are not
0, fewer than 65536 leases, `LeaseGenerationBound < MaxLeaseGeneration`) and
`LeaseGenerationAssumption`.  TLC evaluates both on the runs.

*Type correctness* is inductive alone.  Its lemmas say what the registry operators
return (`RegistryTypes`), and that popping a mailbox (`AfterPopIsPart`), releasing a session and
adding under a capacity keep within their types (`WithinCapacity`, on finite sets).

*The session invariant.*  `MailboxesCurrent` is not inductive alone: `begin` would be
allowed to start a session while a mailbox still holds packets of a retiring one.
That it cannot rests on `begin` refusing while a session retires, and on
teardown emptying mailboxes; `NothingSurvivesTeardown` rests on it too, since
leases of a retiring session would be owned by nobody when a new one began.  The
inductive invariant is

    SessionInv == TypeOK /\ OneSessionAtATime /\ MailboxesCurrent
                  /\ NothingSurvivesTeardown /\ RetiringIsCancelled

proved action by action (`NextSessionInv`); the theorems are its conjuncts.

*Sealing.*  That a released slot's id names no later content requires that a release
moves the generation on, which fails at the wrap-around.  `SealInv` adds that generations stay
within `LeaseGenerationBound`; the code has 2^32 of them.  The theorem therefore
holds up to that many reuses of one slot, the bound being a guard of the model.

*Refinement.*  `OwnedByOpen` (from `SessionInv`) says that what is owned is of the open
session; `OnlyIntentsGrow` that while retiring only release intents are added;
`LifecycleStep` maps `Begin` to `Open`, `BeginTeardown` to `Close`, `CompleteTeardown` to `Finish` and all other
calls to `Work`, `Drain` or a stutter.

*Byte accounts.*  `BytesInv` says that an account is the sum of the sizes of the active slots and within
the total.  The sum is a fold over a set, which `SetSums_proofs` makes reasonable: a library theorem for
induction takes a predicate as a parameter, which no installed prover can instantiate, so its lemmas argue
by the smallest counterexample instead (`SmallestNumber`, `SmallestSubset`: a set of naturals, or of finite
sets, that is not empty has a least member), and state what a sum is after an element is taken
away, added or changed (`SumsSplit`, `SumsRemove`, `SumsAgree`).  That the sum is exact also shows that the
clamps of `publish` and `release` never clamp.

`InstalledScriptTask_proofs` proves for all capacities and versions, with every interleaving of the
three tasks and the request to stop:

| theorem | states |
|---|---|
| `ProtocolIsThere` | `TaskSpec => []ProtocolOutlivesTasks` |
| `NoFailureIsLost` | `TaskSpec => []FailureIsSeen` |
| `TasksAreCallers` | `TaskSpec => Spec` |
| `AppsAreIsolated` | `TaskSpec => []NothingOutlivesItsSession` |
| `FramesAreSealed` | `TaskSpec => SealedUntilReleased` |
| `TaskTypes` | `TaskSpec => []TaskTypeOK` |
| `NoLeaseLeaks` | `TaskSpec => []FramesAreAccounted` |

Assumption, besides those above: `TaskAssumption` (each version of the document fits a lease, the
frame mailbox holds a packet per lease, and what the tasks post is among what any caller of the
supervisor may post).  The first two need no fact about the protocol.

*Shutdown.*  `ControlInv` relates program counters and flags: a task reported done is done or
does not exist (`DoneIsDone`); the session stops because it was asked to or because a failure is
recorded, and a worker on its way out has failed or seen `stop` (`StopHasReason`); a failed worker
sets `fatal_seen` before it announces the failure a second time (`FailureIsRecorded`).  `FailureIsSeen` needs all
three: the supervisor may find `worker_done` without any fatal record, so the reason has to be
traced through the worker's exit.

*Composition.*  `TaskStepIsACall` shows that each step of a task leaves the protocol alone or is one of
the calls `ScriptTaskSupervisor` allows any caller.  The session it names is one of an App since
the call was accepted; the lease id the UI task gives back is one that was handed out because
a slot answers to it (`HeldIsNamed`, from `SealInv`).  The theorems of the supervisor thus hold for
the tasks that really run, without being proved again.

*Leases.*  `FramesAreAccounted` counts where a lease is named, which is not how a step can be reasoned
about.  `FramesInv` says it without counting (`LeasesPlaced`): the packets of the mailbox name different
active slots, what the UI task has in hand is none of them, and every active slot is named by one
or the other.  It needs `SealInv` (ids of different slots or generations differ, by the arithmetic of
`LeaseId`, and a released id does not come back), `HandInv` (when there is something in hand) and the
session's end, where everything is released and nothing named.  `NoLeaseLeaks` then turns the
statement into cardinalities of 0 and 1.  `FatalOnce` is what `TaskTypeOK` needs of the fatal mailbox.

`DeviceImage_proofs` proves of store and transaction for any bundles, requests and number of chunks and publications, with failures and power
losses at any step (the three slots and two registry sectors are those of the partition):

| theorem | states |
|---|---|
| `InstallTypes` | `InstallSpec => []TypeOK` |
| `DurableStaysIntact` | `InstallSpec => []DurableIsIntact` |
| `MemoryStaysTrue` | `InstallSpec => []MemoryIsTrue` |
| `StagingStaysIsolated` | `InstallSpec => []StagingIsIsolated` |
| `TransactionStaysStaged` | `InstallSpec => []TransactionIsStaged` |
| `DowngradesAreAllowed` | `InstallSpec => NoSilentDowngrade` |
| `OlderCopyStaysBootable` | `InstallSpec => []OlderCopyBoots` |
| `StoreImplementsLibrary` | `InstallSpec => ImplementsLibrary` |

Assumptions: `ImageAssumption`.  That some bundle is the longest is part of it (a slot has room for any
bundle the device takes; bundles are bounded in the code by the size of a slot).

`DurableIsIntact` is not inductive: that a publication in progress can be lost and leave the old
registry intact depends on where it writes.  The inductive invariant `StoreInv` has these parts:
`CopiesInPlace` (a registry of generation g lies in sector g mod 2, so a publication never writes the
newest copy), `ModeFollows` (in which modes memory means something; an initialised store without a
publication remembers what flash has), `PublicationFollows` (a publication is one generation ahead of what it would
replace, and knows what to go back to), `Isolated` (what is being staged, and what a new registry names beyond the
old, is a slot the durable one does not name), `Coherent` (a cached validation is of what the slot
holds, for every slot that a registry names; of others it may be stale), `SameInstall` and
`ReceivedIsStaged` (transaction and staging belong together).  For `OlderCopyBoots` it is strengthened by
`OlderFollows`: while both copies name an App, the older one's is the rollback of the newer, which
`DurableIsIntact` covers.  The refinement maps the store to the library
of `Durable`; its proof takes each flash operation and shows that only the write that completes
a publication changes what is durable, and that the change is the one the library's step makes.

It proves of the endpoint over the store, from the same assumptions:

| theorem | states |
|---|---|
| `EndpointTypes` | `EndpointSpec => []EndpointTypeOK` |
| `SessionsAreAccountedFor` | `EndpointSpec => []SessionIsAccountedFor` |
| `MutationsFollowStops` | `EndpointSpec => []StopsBeforeMutation` |

`EndpointInv` is their conjunction: which session runs, from which slot, under which lease decides whether a handler
may touch the library, so none of the parts is inductive by itself.

`ScriptServices_proofs` proves of the host services, for any number of workers, Apps, clients, slots and jobs:

| theorem | states |
|---|---|
| `HostTypes` | `HostSpec => []HostTypeOK` |
| `JobsAreAnsweredOnce` | `HostSpec => []JobsAnsweredOnce` |
| `HandlesStayWithOwners` | `HostSpec => []HandlesNameTheirOwners` |
| `CurrentResultsStayLive` | `HostSpec => []CurrentResultsAreLive` |
| `HandlesStayHeld` | `HostSpec => []HandlesAreHeld` |

Assumption: `HostAssumption`.  The inductive invariant `HostInv` traces a job and a handle through every hand
they pass: jobs are numbered below the next (`Numbered`), a request is in one of the places only (`Placed`) and at one
worker only, which holds a slot in flight that has no completion yet (`Worked`); a handle names a slot of the
generation it was allocated with, which is at most the slot's (`HandlesDated`: a released slot has
moved on or is retired, so a late handle names nothing); and what is on its way to the App that runs
has its result, except between the release of its handles and the end of its termination (`ResultsLive`).  That
queues keep their capacity (`Counted`) is a matter of cardinalities and proved apart.  That no slot is lost
(`HandlesAreHeld`) needs one more fact, `RefusedAreDead`: what a worker takes out of a refused completion names nothing any
more, so the second answer, which has no handle, loses none.

The invariants are proved of `HostStep`, which is wider than `HostNext`: a caller may cancel several
requests in a step, and release a handle in the call that delivers it, as the bridge does.

The same module proves of the bridge between supervisor and host:

| theorem | states |
|---|---|
| `LedgersAgree` | `SessionSpec => []LedgerFollowsRecords` |
| `NothingIsLeftWaiting` | `SessionSpec => []NothingWaitsForNobody` |
| `PayloadsAreHeld` | `SessionSpec => []PayloadsHeld` |
| `RequestsAreAnsweredOnce` | `SessionSpec =>` no request is on its way twice |
| `CallbacksAreAnswered` | `SessionSpec => []AwaitedIsSomewhere` |
| `HostIsSound` | `SessionSpec => [](HostInv /\ Counted)` |
| `AnswersAreTheRequests` | `SessionSpec => [](HostTypeOK /\ JobsAnsweredOnce /\ HandlesNameTheirOwners /\ CurrentResultsAreLive)` |
| `ResultsAreHeld` | `SessionSpec /\ "app" \notin HandleScopes => []HandlesAreHeld` |
| `SessionTypes` | `SessionSpec => []SessionTypeOK` |
| `RoomIsEnough` | `SessionSpec /\ RoomForAll => []RoomForRequests` |
| `AnswersStayHeld` | `SessionSpec /\ "app" \notin HandleScopes => []AnswersAreHeld` |

Assumptions: `SupervisorAssumption`, `LeaseGenerationAssumption`, `HostAssumption`, `SessionAssumption`.  `LedgerInv` ties records and ledger (`Entered`, `Crossed`)
to the place of the supervisor task (`Phased`): between its two calls, `begin_teardown` of the supervisor and of
the bridge, the ledger has everything cancelled and the bridge nothing; after both they agree again because
every record is of the session that ends.  `SealedHere` (payloads are sealed for the session only) is what
makes `complete_teardown` leave none.  `WaitInv` says that an App is terminated behind its worker, and only
the App that runs has requests waiting.

`PayloadsHeld` and `AwaitedIsSomewhere` count holders and places; the invariant `HeldInv` says the same without
counting.  `OnceHeld(id)`: a lease id is sealed for the session exactly if a record, a packet of the inbox or
the worker names it, and not two of them.  `OncePlaced(q)`: what is on its way was asked for, and is in one
place.  `Settled`: what the script has cancelled it no longer waits for, so a cancellation that takes record and
payload away takes no answer from anybody.  Between sessions both mailboxes are empty (`Vacant`).  That a
waiting callback has an answer exactly if its request was not turned away is part of
`OncePlaced` (the history `turnedAway` remembers the requests `submit` left without a record).
`RoomIsEnough` proves of every instance that has no more requests than bridge and ledger have room
(`RoomForAll`; `session.cfg` is one) that a request never finds the bridge full or its token known,
so what is turned away there is turned away for what it asks.

*The host below the bridge.*  Each step of the session is a `HostStep` or leaves the host alone, so what
is proved of the host holds here (`HostIsSound`).  `CallerInv` has what the host assumes of its callers
(what was asked for are requests of the script, and no completion stays with the caller after the step that takes it).  That
no result is lost (`ResultsAreHeld`) is proved for providers that scope handles to clients; the bridge
releases as a client, and `session_scope` is the run in which it loses a handle scoped to the App.

*Types.*  `SessionTypeOK` is inductive with `SessionsTyped` (session and App numbers), `LeasesBounded`
(the bound on generations), `RecordsTyped` (records fit the bridge), `Visiting` (the records a pump is about to visit
are ready) and `ScriptTyped`, on top of the invariants above.

`KvWriteBehind_proofs` proves of the storage, for any number of Apps, keys, values, jobs and launches and for every
limit of a flush:

| theorem | states |
|---|---|
| `OperationsKeepOrder` | `KvSpec => AppliesInOrder` |
| `KvTypes` | `KvSpec => []KvTypeOK` |
| `FlushedStaysReadable` | `KvSpec => []FlushedIsReadable` |
| `RemovedIsGone` | `KvSpec /\ "delete_data_on_uninstall" \in Policy => []RemovedStaysRemoved` |
| `ReportsStayTrue` | `KvSpec /\ "delete_data_on_uninstall" \in Policy => []ReportsAreTrue` |

Assumption: `KvAssumption`.  The hypothesis on the policy is what "removed" means: without that flag the code keeps the
data of a removed App, on purpose.  `QueueInv` is about jobs: they are numbered as they come (`Numbered`), an
instance is of one App (`Launched`), the host's queue is the running instance's and has whatever of it waits, unless a worker holds
it, and what the worker holds is the oldest of its instance (`Queued`), which is why an operation can overtake none of its own
instance; nothing waits of a removed App (`NothingRemoved`), so a job the worker took before finds nothing to apply.
`StorageInv` ties three views of a space: applying all that waits to what is stored gives what the
instance asked for (`WrittenIsPending`), and what was reported as flushed has nothing waiting (`FlushedIsDone`).  The lemmas they
need say of the fold `AppliedAll` that it ends with the newest (`AppliedNewest`) and can be cut in two
at any job (`AppliedInTwo`), so that what a flush or a worker takes from the front may be applied first.  As in
`SetSums_proofs`, they argue by the smallest set for which they would fail.

`JfdpStream_proofs` proves of the request stream, for any number of chunks, cells of a payload and faults:

| theorem | states |
|---|---|
| `OnlyDueIsHandedOn` | `StreamSpec /\ NumbersAreFresh => HandsOnWhatIsDue` |
| `StreamTypes` | `StreamSpec /\ NumbersAreFresh => []StreamTypeOK` |

Assumption: `StreamAssumption`.  The hypothesis `NumbersAreFresh`, `MaxFaults < Hosts`, is about a bound of the model: process
numbers are used again in turn, and each process that leaves bytes behind costs a fault, so with more numbers
than faults no number comes back while bytes of it are on their way.  (The tool takes the
session and transaction numbers of a process from the low 32 bits of its clock in nanoseconds.)  It holds of `jfdp_stream.cfg`.

What was sent and is not dealt with lies in `buffer`, `read` and `wire`; the proof takes the three as one sequence, `Stream`, of
which every step but a request leaves a part without gaps (`PartOf`, `PartKeeps`), whatever the adapter does
with declared lengths.  `StreamInv` says of it: a process has at most one request there, in the order of its cells
(`OneRequestEach`), every cell is of a request sent and not handed on (`Sent`), and a process with a request there, or an
answer on its way, waits and does not have both (`OneAnswer`).  A frame that was put together thus takes all cells
of its process along (`WholeRequest`), which is why it cannot be handed on twice.  That a new process finds nothing under
its own number needs the history: what is left is of processes at most as many steps back as there were faults
(`FewLeftOvers`), one less unless the present one found silence when it opened the link (`FoundSilence`).

`CallbackPump_proofs` proves of timers and animation callbacks, for any limits, budgets and delays:

| theorem | states |
|---|---|
| `CallbacksKeepRounds` | `CallbackSpec => KeepsRounds` |
| `CallbackInvariant` | `CallbackSpec => []CallbackInv` |

Assumption: `CallbackAssumption`.  `KeepsRounds` is a refinement: each step of `CallbackPump` is a step of
`CallbackRounds`, or none, once with the timers (`TimersStep`) and once with the animation callbacks (`AnimationsStep`).
Steps map as their names say (`AddTimerIsRegister`, `CallTimerIsRun`, ...).  What the mapping needs is that no two
entries of a list have one id (`Distinct`), also while what is cleared stays in the list; that a walk over
the timers ends within the list it began with (`TimersInv`), so that a timer appended on the way is not in this
round; and that each animation callback marked as queued is in the batch, once, or running (`FramesInv`), so that
none is dropped when the pump ends.  `Picked` is the lemma the lists rest on: what is picked from a list at
some places is a list of just these entries, one for each place.

Only model-checked:

- liveness and fairness: `InFlightRetires`, `CallbacksAreServed`, `FatalIsHandled`, `LatestFrameIsTried`,
  `SessionEnds`, `RequestsGetThrough`, `LaterInstallsGetIn`, `CallbacksRun`.  TLAPS does not handle `ENABLED`.

No module uses RECURSIVE operators.

## 8. Abstractions

- **Data.**  Packets are records, not bytes.  Bundles are values; length and CRC together
  stand for one bundle, so the CRC is taken to tell bundles apart.
- **Flash.**  A failed erase leaves the contents, a failed write of a registry sector leaves
  an invalid CRC, a failed write of a chunk leaves it torn; the validation cache is taken as a whole slot, the worst case.  Defects occur while
  the device is off.  Reads do not fail: one that does leaves `reader_cache_` with the label of the
  sector before and undefined bytes (`read_slot_cached`), which `MemoryIsTrue` thus does not cover.
  The recovery record, telemetry and injected acceptance faults are left out.
- **Bounded counters.**  Generations of registry, launches and jobs are capped in the guards
  (`MaxGeneration`, `MaxInstances`, `MaxJobs`, `LeaseGenerationBound`); their width is modelled where it matters (session generations wrap, handle
  generations run out).
- **Host services.**  Kinds and priorities are left open: a worker gets any pending request.
  Queues are sets of jobs, popped in any order.  Events (job 0), the byte budget (a provider may answer
  without a handle), suspend and resume, and fonts are left out.
- **Frames.**  A frame is its version; a version may be one that cannot be encoded (`fits`), and
  each copy may fail to be decoded, rendered or presented (`screen.missed`).  No frame that was
  encoded is too large for a lease.
- **Stream.**  Cells instead of bytes: two for a header, one for a payload.  Magic and CRC are taken
  to detect whatever is not one whole frame; a header put together from other cells declares any length.
- **Storage.**  A value is its size.  A queue is a set of numbered jobs.  Answers and job slots are `HostServices`'s; the storage that
  shadows localStorage, `flush_pending()` and `complete_next` of the mock are left out, and so is a
  `push_completion` that fails after its operation was applied (it only makes a flush report less).
- **Callbacks.**  Time passes in rounds of the worker; ids are unique among the entries of a list;
  an entry that is not active holds nothing.  `add_timer` counts from the last pump, as in the code.
- **Service session.**  Input handles and status codes are left out: what `submit` finds wrong with a
  request is a choice (`TurnAway`).  Copying a
  payload may fail at any time.

## 9. What is not modelled

The table in 2.8 gives the reason for each component.  In short: documents, style, layout,
painting and repaint, by far the largest part of the code, are sequential computation over
trees, text and pixels, whose correctness is a relation between large values and not an order
of steps; codecs, the bundle format and most policies are pure functions with
golden vectors or tables; boards, drivers and demos are I/O; system events and fonts repeat the
pattern of `HostServices` (one bounded table, cleared with its App) without another task.

## 10. Plan

Done in this order: supervisor (the contract all tasks rely on) with its proofs;
image store, transaction, endpoint; host services; service session; the three tasks of an
installed App with their proofs; the JFDP stream; write-behind storage; timers and animation callbacks.

With theorems about supervisor, tasks, store, transaction, endpoint, host services,
service session, stream, storage and callbacks: their types and every safety property the runs check.

## 11. How to run

    tlc -workers 2 -config supervisor.cfg ScriptTaskSupervisor.tla
    tlc -workers 2 -config install.cfg MCDeviceInstall.tla
    tlapm ScriptTaskSupervisor_proofs.tla
    tlapm InstalledScriptTask_proofs.tla
    tlapm DeviceImage_proofs.tla

and likewise for the other modules of proofs.

`PROJECT.json` names the module of each configuration, the mutants, and for each definition the source
lines it models.
