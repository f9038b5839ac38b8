----------------------- MODULE MCScriptServiceSession -----------------------
(***************************************************************************)
(* Packet bodies for small instances of ScriptServiceSession: a request    *)
(* and the payload lease of its answer.                                    *)
(***************************************************************************)
EXTENDS ScriptServiceSession

CONSTANTS q1, q2

MCRequests == {q1, q2}
MCBodies == [request : MCRequests, lease : {0} \cup IdsUpTo(PayloadLeases)]
=============================================================================
