------------------------------ MODULE AppLibrary ------------------------------
(***************************************************************************)
(* What the device image store promises about the installed App, without   *)
(* sectors, slots or staging: device_install_transaction.h says of a       *)
(* commit that "true only after durable atomic publication; a false result *)
(* leaves the previously published registry unchanged", and the port       *)
(* acceptance asks the same of remove and rollback.                        *)
(*                                                                         *)
(* The library is what the next boot would find.  It changes by one whole  *)
(* operation at a time; failing, losing power or booting changes nothing.  *)
(***************************************************************************)
EXTENDS Naturals

CONSTANTS Bundles, NoBundle

VARIABLES
  generation,  \* of the registry
  active,      \* the bundle that launches
  retained     \* the bundle a rollback selects

libraryVars == <<generation, active, retained>>

Init == generation = 0 /\ active = NoBundle /\ retained = NoBundle

Install ==
  /\ active' \in Bundles
  /\ retained' = active
  /\ generation' = generation + 1

Rollback ==
  /\ active # NoBundle /\ retained # NoBundle
  /\ active' = retained /\ retained' = active
  /\ generation' = generation + 1

Remove ==
  /\ active # NoBundle
  /\ active' = NoBundle /\ retained' = NoBundle
  /\ generation' = generation + 1

Next == Install \/ Rollback \/ Remove

Spec == Init /\ [][Next]_libraryVars
=============================================================================
