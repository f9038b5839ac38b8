------------------------------ MODULE CallbackPump ------------------------------
(***************************************************************************)
(* Timers and animation callbacks of a script (jerryscript_runtime.cpp),   *)
(* as the worker task pumps them in each round of its loop: pump_timers    *)
(* walks timers_, pump_animation_frame a copy of the first entries of      *)
(* animation_frame_callbacks_, while the callbacks they call register and  *)
(* cancel others in the same lists.  Between the pumps scripts and         *)
(* handlers do so, too.                                                    *)
(*                                                                         *)
(* A timer counts down to its due time from the last pump, which is the    *)
(* clock add_timer reads.  An entry that is not active has no callback.    *)
(* Ids are counted up in the code and are taken to be unique among the     *)
(* entries here: the counter does not come round while an entry lives.     *)
(***************************************************************************)
EXTENDS Integers, SequencesExt

CONSTANTS
  MaxTimers,        \* max_timers
  MaxAnimations,    \* max_animation_frame_callbacks
  TimerBudget,      \* max_callbacks of pump_timers
  AnimationBudget,  \* max_callbacks of pump_animation_frame
  Delays,           \* delays of timers, in rounds of the worker's loop
  MaxEntries        \* entries of a list, those no longer active included (bound)

\* The worker passes 32 and 4.
ASSUME CallbackAssumption ==
  /\ {MaxTimers, MaxAnimations, MaxEntries} \subseteq Nat
  /\ {TimerBudget, AnimationBudget} \subseteq Nat \ {0}
  /\ Delays \subseteq Nat

VARIABLES
  timers,   \* timers_; left is what is left of the time until the timer is due
  frames,   \* animation_frame_callbacks_
  place,    \* where the worker is; "timer" and "frame" while a callback runs
  running,  \* the id of the callback that runs, 0 if none does
  index, initial,  \* index and initial_count of pump_timers
  calls,    \* callbacks of this pump
  batch,    \* the rest of callbacks of pump_animation_frame
  failing   \* callback_failure_

pumpVars == <<place, running, index, initial, calls, batch, failing>>
callbackVars == <<timers, frames, pumpVars>>

CallbackInit ==
  /\ timers = <<>> /\ frames = <<>> /\ place = "idle" /\ running = 0
  /\ index = 1 /\ initial = 0 /\ calls = 0 /\ batch = <<>> /\ failing = FALSE

-----------------------------------------------------------------------------
(***************************************************************************)
(* What a script does: in a callback, or between the pumps                 *)
(***************************************************************************)
\* What is in a list at these places, in the order of the list.
At(entries, places) ==
  [n \in 1 .. Cardinality(places) |->
     entries[CHOOSE k \in places : Cardinality({p \in places : p <= k}) = n]]

Active(entries) == At(entries, {k \in DOMAIN entries : entries[k].active})
IdsIn(entries) == {e.id : e \in ToSet(entries)}
Ids == 1 .. MaxEntries
NewId(entries) == Min(Ids \ IdsIn(entries))

\* What an entry holds that is no longer active is read by nobody.
Gone(entry) ==
  [f \in DOMAIN entry |-> CASE f = "id" -> entry.id [] f \in {"left", "delay"} -> 0 [] OTHER -> FALSE]

Deactivated(entries, id) ==
  [k \in DOMAIN entries |-> IF entries[k].id = id THEN Gone(entries[k]) ELSE entries[k]]

ScriptRuns == place \in {"idle", "timer", "frame"}

\* Entries are taken out of a list only while no pump walks it.
Kept(entries, walked) == IF walked THEN entries ELSE Active(entries)

AddTimer(delay, repeat) ==
  LET kept == Kept(timers, place = "timer") IN
  /\ ScriptRuns /\ Len(kept) < MaxEntries
  /\ timers' = IF Len(Active(kept)) >= MaxTimers THEN kept
               ELSE Append(kept, [id |-> NewId(kept), left |-> delay, delay |-> delay,
                                  repeat |-> repeat, active |-> TRUE])
  /\ UNCHANGED <<frames, pumpVars>>

ClearTimer(id) ==
  /\ ScriptRuns
  /\ timers' = Deactivated(timers, id)
  /\ UNCHANGED <<frames, pumpVars>>

AddAnimationFrameCallback ==
  LET kept == Kept(frames, place = "frame") IN
  /\ ScriptRuns /\ Len(kept) < MaxEntries
  /\ frames' = IF Len(Active(kept)) >= MaxAnimations THEN kept
               ELSE Append(kept, [id |-> NewId(kept), queued |-> FALSE, active |-> TRUE])
  /\ UNCHANGED <<timers, pumpVars>>

CancelAnimationFrameCallback(id) ==
  /\ ScriptRuns
  /\ frames' = Kept(Deactivated(frames, id), place = "frame")
  /\ UNCHANGED <<timers, pumpVars>>

Script ==
  \/ \E delay \in Delays, repeat \in BOOLEAN : AddTimer(delay, repeat)
  \/ \E id \in IdsIn(timers) : ClearTimer(id)
  \/ AddAnimationFrameCallback
  \/ \E id \in IdsIn(frames) : CancelAnimationFrameCallback(id)

-----------------------------------------------------------------------------
(***************************************************************************)
(* pump_timers                                                             *)
(***************************************************************************)
\* A round of the worker's loop takes one unit of time.
PumpTimers ==
  /\ place = "idle" /\ place' = "timers"
  /\ timers' = [k \in DOMAIN Active(timers) |-> [Active(timers)[k] EXCEPT !.left = Max({0, @ - 1})]]
  /\ index' = 1 /\ initial' = Len(Active(timers)) /\ calls' = 0
  /\ UNCHANGED <<frames, running, batch, failing>>

IsDue(timer) == timer.active /\ timer.left = 0

\* Mutant of Due: the walk goes on to the timers that were added on the way.
DueToTheEnd == {k \in index .. Len(timers) : IsDue(timers[k])}

Due == {k \in index .. initial : IsDue(timers[k])}

\* An interval is due again later, a one-shot timer is gone before its callback is called.
Fired(timer) ==
  IF timer.repeat THEN [timer EXCEPT !.left = Max({1, timer.delay})]
                  ELSE Gone(timer)

CallTimer ==
  /\ place = "timers" /\ calls < TimerBudget
  /\ \E k \in Due :
       /\ \A other \in Due : k <= other
       /\ timers' = [timers EXCEPT ![k] = Fired(@)]
       /\ running' = timers[k].id /\ index' = k + 1
  /\ place' = "timer"
  /\ UNCHANGED <<frames, initial, calls, batch, failing>>

\* An exception, or the watchdog: the worker ends.
TimerReturns ==
  /\ place = "timer" /\ running' = 0 /\ calls' = calls + 1
  /\ \/ place' = "timers" /\ UNCHANGED <<timers, failing>>
     \/ place' = "failed" /\ failing' = TRUE /\ timers' = Active(timers)
  /\ UNCHANGED <<frames, index, initial, batch>>

TimersDone ==
  /\ place = "timers" /\ (Due = {} \/ calls = TimerBudget)
  /\ place' = "between" /\ timers' = Active(timers)
  /\ index' = 1 /\ initial' = 0 /\ calls' = 0
  /\ UNCHANGED <<frames, running, batch, failing>>

-----------------------------------------------------------------------------
(***************************************************************************)
(* pump_animation_frame                                                    *)
(***************************************************************************)
\* Mutant of FirstOnes: those registered last come first.
LastOnes(entries) == SubSeq(entries, Len(entries) - Min({Len(entries), AnimationBudget}) + 1, Len(entries))

FirstOnes(entries) == SubSeq(entries, 1, Min({Len(entries), AnimationBudget}))

PumpAnimationFrame ==
  LET kept == Active(frames)
      first == FirstOnes(kept)
  IN
  /\ place = "between"
  /\ place' = IF kept = <<>> THEN "idle" ELSE "frames"
  /\ frames' = [k \in DOMAIN kept |-> [kept[k] EXCEPT !.queued = @ \/ kept[k] \in ToSet(first)]]
  /\ batch' = [k \in DOMAIN first |-> first[k].id]
  /\ UNCHANGED <<timers, running, index, initial, calls, failing>>

\* A callback that was cancelled since is passed over.
CallFrame ==
  /\ place = "frames" /\ batch # <<>> /\ batch' = Tail(batch)
  /\ IF Head(batch) \in IdsIn(Active(frames))
     THEN place' = "frame" /\ running' = Head(batch)
     ELSE UNCHANGED <<place, running>>
  /\ UNCHANGED <<timers, frames, index, initial, calls, failing>>

\* A failure does not keep the others from being called.
FrameReturns ==
  /\ place = "frame" /\ place' = "frames" /\ running' = 0
  /\ failing' \in {failing, TRUE}
  /\ frames' = Deactivated(frames, running)
  /\ UNCHANGED <<timers, index, initial, calls, batch>>


\* What was not queued for this pump waits for the next.
Rest == At(frames, {k \in DOMAIN frames : frames[k].active /\ ~frames[k].queued})

FramesDone ==
  /\ place = "frames" /\ batch = <<>>
  /\ frames' = Rest
  /\ place' = IF failing THEN "failed" ELSE "idle"
  /\ UNCHANGED <<timers, running, index, initial, calls, batch, failing>>

Pump ==
  \/ PumpTimers \/ CallTimer \/ TimerReturns \/ TimersDone
  \/ PumpAnimationFrame \/ CallFrame \/ FrameReturns \/ FramesDone

CallbackNext == Script \/ Pump

\* The worker's loop goes round, and the watchdog bounds what a script does in a callback.
CallbackSpec == CallbackInit /\ [][CallbackNext]_callbackVars /\ WF_callbackVars(Pump)
-----------------------------------------------------------------------------
(***************************************************************************)
(* Properties                                                              *)
(***************************************************************************)
Timers == {[id |-> e.id, repeat |-> e.repeat] : e \in ToSet(Active(timers))}
Animations == {[id |-> f.id, repeat |-> FALSE] : f \in ToSet(Active(frames))}
Called == {c \in Animations : place = "frame" /\ c.id = running}

TimerRounds ==
  INSTANCE CallbackRounds WITH
    Repeats <- BOOLEAN,
    registered <- Timers,
    due <- {e.id : e \in {f \in ToSet(timers) : IsDue(f)}},
    turn <- IF place \in {"timers", "timer"} THEN {timers[k].id : k \in Due} ELSE {}

AnimationRounds ==
  INSTANCE CallbackRounds WITH
    Repeats <- {FALSE},
    registered <- Animations \ Called,
    due <- {c.id : c \in Animations \ Called},
    turn <- ToSet(batch) \cap {c.id : c \in Animations}

\* However callbacks add and clear timers and animation callbacks while the lists are being
\* walked, each runs as a script may rely on: never after it was cleared, not in the pump
\* in which it was added ("a timer added by a callback waits for the next pump"), a
\* one-shot once, and none is lost.
KeepsRounds == TimerRounds!RoundsSpec /\ AnimationRounds!RoundsSpec

\* A timer that is not cleared, and an animation callback that is not cancelled, gets its
\* turn, whatever intervals and animations go on beside it, unless a callback fails.
CallbacksRun ==
  \A id \in Ids :
    /\ id \in IdsIn(Active(timers)) ~>
         id \notin IdsIn(Active(timers)) \/ (place = "timer" /\ running = id) \/ place = "failed"
    /\ id \in IdsIn(Active(frames)) ~>
         id \notin IdsIn(Active(frames)) \/ (place = "frame" /\ running = id) \/ place = "failed"
=============================================================================
