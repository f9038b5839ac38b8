-------------------------- MODULE DeviceImageEndpoint --------------------------
(***************************************************************************)
(* DeviceImageEndpoint of jellyframe_esp32s3_device_image_lifecycle.cpp:   *)
(* the handlers that join the install transaction and the store to the App *)
(* that runs.  AppInstalledBundleBinding holds the lease of the bundle it  *)
(* launched; the UI or script tasks of the App are one session here (their *)
(* own steps are ScriptTaskSupervisor's), which the endpoint stops before  *)
(* it replaces or removes what they run.                                   *)
(*                                                                         *)
(* A handler is one action.  Stopping a session can time out; the handler  *)
(* then gives up and nothing has changed, so that case is a stutter.       *)
(***************************************************************************)
EXTENDS DeviceInstallTransaction

VARIABLES
  lease,       \* active_lease_ of the binding: the set of at most one record
  session,     \* ui_session_ or script_session_: the set of at most one bundle
  fatal,       \* the script worker of the session failed
  activeApp,   \* active_app_id_: the set of at most one app
  foreground   \* the App of the AppRuntimeHost: the set of at most one app or "launcher"

appVars == <<lease, session, fatal, activeApp, foreground>>
endpointVars == <<installVars, appVars>>

EndpointInit ==
  /\ InstallInit
  /\ lease = {} /\ session = {} /\ fatal = FALSE /\ activeApp = {} /\ foreground = {}

-----------------------------------------------------------------------------
\* Mutant of Ended: the App is terminated but its tasks were not stopped.
EndedUnstopped(next) ==
  /\ UNCHANGED <<session, fatal>>
  /\ lease' = {} /\ activeApp' = {} /\ foreground' = next

\* stop_active_ui has joined the tasks, and the binding has terminated the App and
\* released its lease; foreground is what the host runs instead.
Ended(next) ==
  /\ session' = {} /\ fatal' = FALSE
  /\ lease' = {} /\ activeApp' = {} /\ foreground' = next

\* recover_to_launcher
Recovered == Ended({"launcher"})

\* Mutant of LaunchStarts: the App that runs is not ended first.
LaunchStartsBeside(app) ==
  /\ AcquireInstalledBundle(app)
  /\ Validates(registry.active, ReadSlot(registry.active.slot))
  /\ lease' = lease \cup {registry.active}
  /\ session' = session \cup {registry.active.bundle} /\ fatal' = FALSE
  /\ activeApp' = {app} /\ foreground' = {app}
  /\ UNCHANGED transaction

\* The bundle is acquired, its entry and resources are copied, and its tasks start.
LaunchStarts(app) ==
  /\ AcquireInstalledBundle(app)
  /\ Validates(registry.active, ReadSlot(registry.active.slot))
  /\ lease' = {registry.active}
  /\ session' = {registry.active.bundle} /\ fatal' = FALSE
  /\ activeApp' = {app} /\ foreground' = {app}
  /\ UNCHANGED transaction

\* No such App, a bundle that fails validation, a resource that cannot be read or tasks
\* that cannot be created.
LaunchFails(app) ==
  /\ Ready
  /\ \/ AcquireInstalledBundle(app)
     \/ ~Installed(app) /\ UNCHANGED storeVars
  /\ Recovered
  /\ UNCHANGED transaction

Runs(app) == lease # {} /\ activeApp = {app}

HandleStop(app) ==
  /\ Ready /\ Runs(app)
  /\ Ended({})
  /\ UNCHANGED installVars

\* Mutant of StopIfRunning: the tasks of the App go on.
KeepRunning(app) == UNCHANGED appVars

StopIfRunning(app) == IF Runs(app) THEN Ended({}) ELSE UNCHANGED appVars

\* Whether or not the store then finds the App, it has been stopped.
HandleRemove(app) ==
  /\ \/ Remove(app)
     \/ Ready /\ ~Installed(app) /\ UNCHANGED storeVars
  /\ StopIfRunning(app)
  /\ UNCHANGED transaction

HandleRollback(app) ==
  /\ \/ Rollback(app)
     \/ /\ Ready /\ ~(Installed(app) /\ registry.rollback # NoRecord)
        /\ UNCHANGED storeVars
  /\ StopIfRunning(app)
  /\ UNCHANGED transaction

\* The worker task publishes its fatal record at any moment.
SessionFails ==
  /\ session # {} /\ ~fatal /\ fatal' = TRUE
  /\ UNCHANGED <<installVars, lease, session, activeApp, foreground>>

\* Mutant of PollActiveSession: it answers only while no install is open.
PollWhenNoInstall ==
  /\ Ready /\ fatal /\ activeApp # {} /\ transaction = {}
  /\ Recovered
  /\ UNCHANGED installVars

PollActiveSession ==
  /\ Ready /\ fatal /\ activeApp # {}
  /\ Recovered
  /\ UNCHANGED installVars

EndpointPower ==
  \/ PowerLoss /\ transaction' = {} /\ Ended({})
  \/ (Boot \/ Damage) /\ UNCHANGED <<transaction, appVars>>

EndpointNext ==
  \/ (InstallRequested \/ Publication) /\ UNCHANGED appVars
  \/ \E app \in Apps :
       \/ LaunchStarts(app) \/ LaunchFails(app) \/ HandleStop(app)
       \/ HandleRemove(app) \/ HandleRollback(app)
  \/ SessionFails \/ PollActiveSession
  \/ EndpointPower

\* A flash operation returns, so a publication ends.  The task loop polls at the head of
\* every round, between any two batches of requests, so a poll that again and again has
\* something to do is made in the end (strong, as requests keep interrupting it); this
\* assumes that the tasks of a failed session do stop within one of the timeouts.
EndpointSpec ==
  /\ EndpointInit /\ [][EndpointNext]_endpointVars
  /\ WF_endpointVars(Publication /\ UNCHANGED appVars)
  /\ SF_endpointVars(PollActiveSession)

-----------------------------------------------------------------------------
(***************************************************************************)
(* Properties                                                              *)
(***************************************************************************)
\* The variables of the endpoint hold values of their types; one session runs at most, with
\* one lease.
EndpointTypeOK ==
  /\ TypeOK
  /\ lease \subseteq Record \ {NoRecord} /\ Cardinality(lease) <= 1
  /\ session \subseteq Bundles /\ Cardinality(session) <= 1
  /\ fatal \in BOOLEAN
  /\ activeApp \subseteq Apps /\ Cardinality(activeApp) <= 1
  /\ Cardinality(foreground) <= 1 /\ foreground \subseteq Apps \cup {"launcher"}

\* Tasks run only for the App whose bundle is leased, named as active and current in the
\* host, so a Stop, Remove or Rollback naming that App finds and stops them; nothing runs
\* beside the launcher.
SessionIsAccountedFor ==
  \A b \in session :
    /\ activeApp = {AppOf[b]} /\ foreground = activeApp
    /\ \E r \in lease : r.bundle = b

\* "stop/remove/rollback first stop input and services, wait for teardown, and only then
\* mutate the registry": while an App that is the installed one runs, neither a remove nor
\* a rollback is published.
StopsBeforeMutation ==
  \A p \in publishing, b \in session :
    p.why \in {"remove", "rollback"} => AppOf[b] # AppOf[p.previous.active.bundle]

\* The lease of a running App keeps naming the bundle it was acquired for ("immutable
\* committed-bundle leases").
LeaseIsImmutable == \A r \in lease : Holds(slots[r.slot], r.bundle)

\* An App whose worker failed does not stay: the endpoint takes it down, unless somebody
\* else or a power loss did.
FatalIsHandled == fatal ~> ~fatal
=============================================================================
