----------------------------- MODULE TimerWheel -----------------------------
(***************************************************************************)
(* SimpleTimerWheel under its real callers: one thread ticks it, and any   *)
(* thread, or the callback that is running, may Schedule and Cancel.  Each *)
(* of the methods is a step of its own, but Tick is as many steps as the   *)
(* code lets others come between: it reads the clock once, then takes the  *)
(* front entry out of the heap, and only then runs that entry's callback.  *)
(* (Calls that overlap inside one method are the subject of JniNode.)      *)
(***************************************************************************)
EXTENDS Sequences, FiniteSets, WheelOps

CONSTANTS
    Delay,          \* the delays clients ask for
    MaxTimers,      \* bound on the number of Schedule calls
    MaxNow          \* bound on the clock

ASSUME WheelAssumption ==
    /\ Delay \subseteq Nat
    /\ MaxTimers \in Nat
    /\ MaxNow \in Nat

VARIABLES
    timers,     \* timers_, the heap's entries
    next_id,    \* next_id_
    now,        \* steady_clock
    tick,       \* the Tick call in progress: what it read off the clock,
                \* and the entry it has popped and not yet disposed of
    fired,      \* ghost: the entries whose callbacks ran, in order
    revoked     \* ghost: ids whose Cancel found them in the heap

vars == <<timers, next_id, now, tick, fired, revoked>>

NoTimer == [id |-> 0]
Idle    == [read |-> 0, popped |-> NoTimer, active |-> FALSE]

Init ==
    /\ timers = {}
    /\ next_id = 1
    /\ now = 0
    /\ tick = Idle
    /\ fired = << >>
    /\ revoked = {}

Schedule(d) ==
    /\ next_id <= MaxTimers
    /\ timers' = timers \union {Timer(next_id, now + d, "callback")}
    /\ next_id' = next_id + 1
    /\ UNCHANGED <<now, tick, fired, revoked>>

Cancel(id) ==
    /\ timers' = Cancelled(timers, id)
    /\ revoked' = revoked \union {t.id : t \in {u \in timers : u.id = id}}
    /\ UNCHANGED <<next_id, now, tick, fired>>

BeginTick ==
    /\ ~ tick.active
    /\ tick' = [read |-> now, popped |-> NoTimer, active |-> TRUE]
    /\ UNCHANGED <<timers, next_id, now, fired, revoked>>

\* Mutant of PopFront: the entry is copied out and stays in the heap.
PopFrontByCopy ==
    /\ tick.active /\ tick.popped = NoTimer
    /\ Len(fired) < MaxTimers
    /\ \E t \in DueFront(timers, tick.read) : tick' = [tick EXCEPT !.popped = t]
    /\ UNCHANGED <<timers, next_id, now, fired, revoked>>

\* Mutant of PopFront: any due entry, as if the heap order were not kept up.
PopAnyDue ==
    /\ tick.active /\ tick.popped = NoTimer
    /\ \E t \in {u \in timers : u.expires_at <= tick.read} :
         /\ timers' = timers \ {t}
         /\ tick' = [tick EXCEPT !.popped = t]
    /\ UNCHANGED <<next_id, now, fired, revoked>>

\* Mutant of PopFront: a cancelled entry at the front stops the loop.
PopFrontUncancelled ==
    /\ tick.active /\ tick.popped = NoTimer
    /\ \E t \in DueFront(timers, tick.read) :
         /\ ~ t.cancelled
         /\ timers' = timers \ {t}
         /\ tick' = [tick EXCEPT !.popped = t]
    /\ UNCHANGED <<next_id, now, fired, revoked>>

PopFront ==
    /\ tick.active /\ tick.popped = NoTimer
    /\ \E t \in DueFront(timers, tick.read) :
         /\ timers' = timers \ {t}
         /\ tick' = [tick EXCEPT !.popped = t]
    /\ UNCHANGED <<next_id, now, fired, revoked>>

\* Mutant of RunCallback: the cancelled flag is not looked at.
RunCallbackAnyway ==
    /\ tick.popped # NoTimer
    /\ fired' = Append(fired, [timer |-> tick.popped, at |-> now])
    /\ tick' = [tick EXCEPT !.popped = NoTimer]
    /\ UNCHANGED <<timers, next_id, now, revoked>>

RunCallback ==
    /\ tick.popped # NoTimer
    /\ ~ tick.popped.cancelled
    /\ fired' = Append(fired, [timer |-> tick.popped, at |-> now])
    /\ tick' = [tick EXCEPT !.popped = NoTimer]
    /\ UNCHANGED <<timers, next_id, now, revoked>>

SkipCancelled ==
    /\ tick.popped # NoTimer
    /\ tick.popped.cancelled
    /\ tick' = [tick EXCEPT !.popped = NoTimer]
    /\ UNCHANGED <<timers, next_id, now, fired, revoked>>

EndTick ==
    /\ tick.active /\ tick.popped = NoTimer
    /\ DueFront(timers, tick.read) = {}
    /\ tick' = Idle
    /\ UNCHANGED <<timers, next_id, now, fired, revoked>>

ClockTick ==
    /\ now < MaxNow
    /\ now' = now + 1
    /\ UNCHANGED <<timers, next_id, tick, fired, revoked>>

Tick == BeginTick \/ PopFront \/ RunCallback \/ SkipCancelled \/ EndTick

Next ==
    \/ Tick
    \/ ClockTick
    \/ \E d \in Delay : Schedule(d)
    \/ \E id \in 1..MaxTimers : Cancel(id)

\* The event loop keeps calling Tick, callbacks return, and time goes on.
\* Each part of Tick has its own fairness: BeginTick and EndTick alone
\* could otherwise be taken for ever.
Fairness ==
    /\ WF_vars(BeginTick) /\ WF_vars(EndTick)
    /\ WF_vars(PopFront) /\ WF_vars(RunCallback) /\ WF_vars(SkipCancelled)
    /\ WF_vars(ClockTick)

Spec == Init /\ [][Next]_vars /\ Fairness

-----------------------------------------------------------------------------
(* No callback runs before its delay has passed, and none runs twice,      *)
(* whatever is scheduled or cancelled between the pop and the call.        *)
OnTimeAndOnce ==
    /\ \A i \in 1..Len(fired) : fired[i].timer.expires_at <= fired[i].at
    /\ \A i, j \in 1..Len(fired) :
         fired[i].timer.id = fired[j].timer.id => i = j

(* A Cancel that still finds its timer in the heap is final: the entry is  *)
(* popped later but its callback never runs (timer_wheel.hpp:16-18).       *)
CancelIsFinal == \A i \in 1..Len(fired) : fired[i].timer.id \notin revoked

(* Callbacks run in order of expiry over the whole life of the wheel, also *)
(* across ticks and for timers scheduled from a callback, because nothing  *)
(* is ever scheduled behind what has fired.                                *)
FiresInExpiryOrder ==
    \A i, j \in 1..Len(fired) :
        i < j => fired[i].timer.expires_at <= fired[j].timer.expires_at

(* A scheduled timer within the clock's reach leaves the heap in the end:  *)
(* no later and shorter timer can keep Tick from coming round to it.       *)
EveryTimerLeaves ==
    \A id \in 1..MaxTimers :
        (\E t \in timers : t.id = id /\ t.expires_at <= MaxNow)
            ~> (\A t \in timers : t.id # id)
=============================================================================
