-------------------------- MODULE SessionLifecycle --------------------------
(***************************************************************************)
(* What the supervisor promises about App sessions, without mailboxes,     *)
(* registries or ledgers: docs/cross_task_ownership_contract.md states it  *)
(* as "No heap, slot or session identity is reused before every owner has  *)
(* acknowledged release".                                                  *)
(*                                                                         *)
(* One session at a time goes idle -> active -> retiring -> idle.  Values  *)
(* can be queued and resources acquired only for the active session; the   *)
(* moment it retires nothing of it is queued any more; while it retires    *)
(* its resources can only be given up (a finalizer may still announce a    *)
(* native release); when it is over it owns nothing.                       *)
(***************************************************************************)
CONSTANTS Sessions, NoSession

VARIABLES
  phase,    \* "idle", "active" or "retiring"
  session,  \* the session that is active or retiring
  queued,   \* the sessions that have a packet in some mailbox
  owned     \* resources [session, kind, id]

lifecycleVars == <<phase, session, queued, owned>>

Init == phase = "idle" /\ session = NoSession /\ queued = {} /\ owned = {}

Open ==
  /\ phase = "idle" /\ phase' = "active"
  /\ session' \in Sessions
  /\ queued' = {} /\ owned' = {}

Work ==
  /\ phase = "active" /\ UNCHANGED <<phase, session>>
  /\ queued' \subseteq {session}
  /\ \A r \in owned' : r.session = session

Close ==
  /\ phase = "active" /\ phase' = "retiring"
  /\ queued' = {}
  /\ UNCHANGED <<session, owned>>

Drain ==
  /\ phase = "retiring" /\ UNCHANGED <<phase, session, queued>>
  /\ \A r \in owned' \ owned : r.session = session /\ r.kind = "intent"

Finish ==
  /\ phase = "retiring" /\ phase' = "idle"
  /\ session' = NoSession
  /\ owned' = {} /\ queued' = {}

Next == Open \/ Work \/ Close \/ Drain \/ Finish

Spec == Init /\ [][Next]_lifecycleVars
=============================================================================
