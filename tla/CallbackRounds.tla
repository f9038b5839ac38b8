----------------------------- MODULE CallbackRounds -----------------------------
(***************************************************************************)
(* What a script may rely on of its timers or animation callbacks: a       *)
(* callback that was registered and not cancelled runs when it is due, in  *)
(* a round that began after it was registered, and at most once a round;   *)
(* a one-shot callback is gone when it runs.  In which order, and how      *)
(* many a round lets run, is left open.                                    *)
(***************************************************************************)
CONSTANTS
  Ids,      \* what names a callback while it is registered
  Repeats   \* BOOLEAN if callbacks can be registered to run again and again

VARIABLES
  registered,  \* the callbacks that can still run: id and repeat
  due,         \* the ids of those whose time has come
  turn         \* the ids that may still run in this round

roundsVars == <<registered, due, turn>>

Named(id) == {c \in registered : c.id = id}
Registered == {c.id : c \in registered}

RoundsInit == registered = {} /\ due = {} /\ turn = {}

\* It is due at once or later, in no case in this round.
Register ==
  /\ \E id \in Ids \ Registered, repeat \in Repeats :
       /\ registered' = registered \cup {[id |-> id, repeat |-> repeat]}
       /\ due' \in {due, due \cup {id}}
  /\ UNCHANGED turn

Cancel ==
  \E id \in Registered :
    /\ registered' = registered \ Named(id)
    /\ due' = due \ {id} /\ turn' = turn \ {id}

\* Time has passed.
BeginRound ==
  /\ turn = {} /\ UNCHANGED registered
  /\ due \subseteq due' /\ due' \subseteq Registered
  /\ turn' \subseteq due'

Run ==
  \E id \in turn :
    /\ turn' = turn \ {id} /\ due' = due \ {id}
    /\ registered' = {c \in registered : c.id # id \/ c.repeat}

\* The budget of the round is used up, or a callback has failed.
EndRound == turn' = {} /\ UNCHANGED <<registered, due>>

RoundsNext == Register \/ Cancel \/ BeginRound \/ Run \/ EndRound

RoundsSpec == RoundsInit /\ [][RoundsNext]_roundsVars
=============================================================================
