----------------------- MODULE DeviceInstallTransaction -----------------------
(***************************************************************************)
(* DeviceInstallTransaction of device_install_transaction.{h,cpp} with the *)
(* store it drives, as the JFDP endpoint calls the two: begin, chunks,     *)
(* commit and abort of one install at a time, rollback and remove at any   *)
(* moment, also while an install is open, and a transport that can break   *)
(* off between any two requests.                                           *)
(*                                                                         *)
(* A request that is refused (busy, wrong transaction or offset, a chunk   *)
(* too many, incomplete) changes nothing and is a stuttering step.         *)
(***************************************************************************)
EXTENDS DeviceImageStore

VARIABLE
  transaction  \* the set of at most one open install: its request, the chunks received

installVars == <<storeVars, transaction>>

InstallInit == Init /\ transaction = {}

Begin(request) ==
  /\ transaction = {}
  /\ BeginStaging(request)
  /\ transaction' = {[request |-> request, received |-> 0]}

\* The chunk continues the open transaction.
InOrder(t, tx, k) ==
  /\ t.request.tx = tx /\ k = t.received + 1
  /\ t.received < ChunksOf[t.request.bundle]

\* A chunk is one of the announced bundle, or bytes that are not (Torn).
AppendChunk(tx, k) ==
  \E t \in transaction :
    /\ InOrder(t, tx, k) /\ transaction' = {[t EXCEPT !.received = @ + 1]}
    /\ WriteStaging(k, t.request.bundle) \/ WriteStaging(k, Torn)

\* Mutant of AppendFails: the transaction is not reset.
AppendFailsKeepsTransaction(tx, k) ==
  /\ \E t \in transaction : InOrder(t, tx, k)
  /\ WriteStagingFails(k)
  /\ UNCHANGED transaction

\* write_staging fails: the staging is dropped, and with it the transaction.
AppendFails(tx, k) ==
  /\ \E t \in transaction : InOrder(t, tx, k)
  /\ WriteStagingFails(k)
  /\ transaction' = {}

Commits(t, tx) == t.request.tx = tx /\ t.received = ChunksOf[t.request.bundle]

CommitRejected(tx) ==
  /\ \E t \in transaction : Commits(t, tx)
  /\ VerifyRejects
  /\ transaction' = {}

\* The transaction is over when the publication is.
Commit(tx) ==
  /\ \E t \in transaction : Commits(t, tx)
  /\ CommitStaging
  /\ UNCHANGED transaction

Abort(tx) ==
  /\ \E t \in transaction : t.request.tx = tx
  /\ AbortStaging(tx)
  /\ transaction' = {}

\* A bad frame, a lost connection or a frame that stays incomplete too long aborts
\* whatever install is open.
TransportReset == \E t \in transaction : Abort(t.request.tx)

-----------------------------------------------------------------------------
InstallRequested ==
  \/ \E request \in InstallRequests : Begin(request)
  \/ \E tx \in TxIds :
       \/ \E k \in Chunks : AppendChunk(tx, k) \/ AppendFails(tx, k)
       \/ CommitRejected(tx) \/ Commit(tx) \/ Abort(tx)
  \/ TransportReset

LibraryRequested ==
  \E app \in Apps :
    (AcquireInstalledBundle(app) \/ Rollback(app) \/ Remove(app)) /\ UNCHANGED transaction

\* The publication of a commit ends the transaction, whichever way it ends.
Publication ==
  \/ EraseSector /\ UNCHANGED transaction
  \/ /\ WriteSector \/ PublishFails
     /\ transaction' = IF \E p \in publishing : p.why = "commit" THEN {} ELSE transaction

\* Flash that is damaged is for the endpoint, which boots on it.
Power ==
  \/ Boot /\ UNCHANGED transaction
  \/ PowerLoss /\ transaction' = {}

InstallNext == InstallRequested \/ LibraryRequested \/ Publication \/ Power

InstallSpec == InstallInit /\ [][InstallNext]_installVars

-----------------------------------------------------------------------------
(***************************************************************************)
(* Properties                                                              *)
(***************************************************************************)
\* The variables of the store and the transaction hold values of their types, and no more
\* is received than was announced.
TypeOK ==
  /\ StoreTypeOK
  /\ Cardinality(transaction) <= 1
  /\ transaction \subseteq [request : InstallRequests, received : Nat]
  /\ \A t \in transaction : t.received <= ChunksOf[t.request.bundle]

\* The transaction controller and the store agree: a staging is open exactly while a
\* transaction is, for the same request, so no failure path leaves a slot occupied that
\* no transaction can abort ("It cannot block a later install indefinitely").
StagingFollowsTransaction ==
  Ready => {g.request : g \in staging} = {t.request : t \in transaction}

\* What is acknowledged as received has been written, without a gap, and nothing lies in
\* front of the next chunk that could spoil it.
ReceivedIsStaged ==
  \A t \in transaction, g \in staging :
    \A k \in 1 .. ChunksOf[t.request.bundle] :
      k <= t.received <=> slots[g.slot][k] # Erased

\* The controller's account of an install is what lies in flash.
TransactionIsStaged == StagingFollowsTransaction /\ ReceivedIsStaged

\* A commit never replaces an App by an older version of it unless its request allowed
\* that, however rollbacks and removes come in between.
NoSilentDowngrade ==
  [][\A p \in publishing, g \in staging :
       p.why = "commit" /\ Durable' # Durable /\ Durable.active # NoRecord
       /\ AppOf[Durable'.active.bundle] = AppOf[Durable.active.bundle]
       => \/ g.request.allowDowngrade
          \/ VersionOf[Durable'.active.bundle] >= VersionOf[Durable.active.bundle]]_installVars
=============================================================================
