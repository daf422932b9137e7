---------------------------- MODULE ControlPlane ----------------------------
(***************************************************************************)
(* The control plane as one node sees it: every neighbour broadcasts OGMs  *)
(* at the interval CmsiScheduler gives it, ogm_process puts what arrives   *)
(* into the NeighborTable, and select_candidates picks from the table.     *)
(* Times are in milliseconds and move in steps of Step; the table keeps    *)
(* how long ago an entry was last_seen, which saturates once it is stale.  *)
(*                                                                         *)
(* The repository declares this loop (cmsi.hpp:15-16, ogm.hpp:28-33) and   *)
(* tests its parts, but no program of it wires them together, and          *)
(* ogm_receive, which would decode a frame, is a stub: an OGM is a record. *)
(***************************************************************************)
EXTENDS Integers, FiniteSets

CONSTANTS
    Neighbours,         \* numbered in the order of their MAC addresses
    Throughputs,        \* kbps a neighbour measures
    FadeMargins,        \* received power above the sensitivity, in dB
    CandidateCount,     \* candidate_count
    NeighborExpiry,     \* neighbor_expiry_ms
    CmsiMin, CmsiMax,   \* cmsi_min_s, cmsi_max_s, in ms
    MaxDelay,           \* how late an OGM may arrive
    Step                \* granularity of the clock

TqMax == 255

VARIABLES
    up,         \* the neighbours that are running
    loop,       \* neighbour -> ms until on_fire; Off if that is not scheduled
    ogms,       \* OGMs under way
    table,      \* table_: neighbour -> NeighborEntry
    silence     \* ghost: neighbour -> ms from the last OGM that arrived to
                \* the next that is to be sent, over those that got lost; Off
                \* if none has arrived in this life

controlVars == <<up, loop, ogms, table, silence>>

Off == -1

-----------------------------------------------------------------------------
(* Routing metric and candidate selection.                                 *)

CalculateTq(tq_local, tq_recv) == (2 * tq_local * tq_recv + TqMax) \div (2 * TqMax)

DistancePenalty(fade_margin) ==
    IF fade_margin < 10 THEN 1 ELSE IF fade_margin <= 20 THEN 3 ELSE 5

\* LQ in units of 1/TqMax, so that it compares as the double does.
CalculateJokerLq(tq, penalty) == tq * (TqMax - penalty)

\* Mutant of IsStale: an entry as old as the expiry is stale already.
IsStaleAtExpiry(age) == age >= NeighborExpiry

IsStale(age) == age > NeighborExpiry

\* Mutant of AllFresh: staleness is left to ExpireStale, as in Lookup.
AllKnown == DOMAIN table

AllFresh == {n \in DOMAIN table : ~ IsStale(table[n].age)}

LinkQuality(n) == CalculateJokerLq(CalculateTq(table[n].tq_local, table[n].tq_recv),
                                   DistancePenalty(table[n].fade_margin))

Outranks(a, b) ==
    \/ LinkQuality(a) > LinkQuality(b)
    \/ LinkQuality(a) = LinkQuality(b) /\ a < b

Eligible == {n \in AllFresh : table[n].reachable_to_dest}

\* Its place in the sorted vector; 1 is the highest.
Priority(n) == 1 + Cardinality({m \in Eligible : Outranks(m, n)})

SelectCandidates == {n \in Eligible : Priority(n) <= CandidateCount}

-----------------------------------------------------------------------------
(* OGMs.                                                                   *)

CalculateCmsi(throughput) == 6 * throughput + 1500

Reschedule(throughput) ==
    IF CalculateCmsi(throughput) < CmsiMin THEN CmsiMin
    ELSE IF CalculateCmsi(throughput) > CmsiMax THEN CmsiMax
    ELSE CalculateCmsi(throughput)

\* Whatever happens, happens on a step of the clock.
ASSUME ControlAssumption ==
    /\ Neighbours \union Throughputs \union {NeighborExpiry, MaxDelay} \subseteq Nat
    /\ {Step, CmsiMin, CmsiMax} \subseteq Nat \ {0}
    /\ NeighborExpiry % Step = 0 /\ MaxDelay % Step = 0
    /\ \A throughput \in Throughputs : Reschedule(throughput) % Step = 0

\* on_air, for how long the OGM has been under way, is the medium's.  Its
\* sequence number is not modelled: nothing reads it.
OgmBuild(n) == [originator |-> n, tq_reported |-> TqMax, on_air |-> 0]

ControlInit ==
    /\ up = {}
    /\ loop = [n \in Neighbours |-> Off]
    /\ ogms = {}
    /\ table = << >>
    /\ silence = [n \in Neighbours |-> Off]

Boot(n) ==
    /\ n \notin up
    /\ up' = up \union {n}
    /\ \E tp \in Throughputs : loop' = [loop EXCEPT ![n] = Reschedule(tp)]
    /\ UNCHANGED <<ogms, table, silence>>

Crash(n) ==
    /\ n \in up
    /\ up' = up \ {n}
    /\ loop' = [loop EXCEPT ![n] = Off]
    /\ silence' = [silence EXCEPT ![n] = Off]
    /\ UNCHANGED <<ogms, table>>

\* Mutant of RescheduleLoop: on_fire is not scheduled again.
LetLoopEnd(n, interval) == loop' = [loop EXCEPT ![n] = Off]

RescheduleLoop(n, interval) == loop' = [loop EXCEPT ![n] = interval]

Broadcast(n) == ogms' = ogms \union {OgmBuild(n)} /\ UNCHANGED silence

\* Sent, and heard by nobody.
LoseOgm(n, interval) ==
    /\ silence' = [silence EXCEPT ![n] =
            IF @ = Off \/ @ > NeighborExpiry THEN @ ELSE @ + interval]
    /\ UNCHANGED ogms

\* on_fire: broadcast an OGM, which may get lost, and reschedule.
OnFire(n) ==
    /\ loop[n] = 0
    /\ \E throughput \in Throughputs :
         /\ RescheduleLoop(n, Reschedule(throughput))
         /\ Broadcast(n) \/ LoseOgm(n, Reschedule(throughput))
    /\ UNCHANGED <<up, table>>

\* ogm_process: what it does not take from the OGM has fixed values, and
\* last_seen is when the OGM arrives.  measured is a ghost: how long ago the
\* OGM was sent.
OgmProcess(ogm, fade_margin) ==
    table' = [n \in DOMAIN table \union {ogm.originator} |->
        IF n # ogm.originator THEN table[n]
        ELSE [age |-> 0, tq_local |-> TqMax, tq_recv |-> ogm.tq_reported,
              fade_margin |-> fade_margin, reachable_to_dest |-> TRUE,
              measured |-> ogm.on_air]]

ReceiveOgm(ogm) ==
    /\ ogm \in ogms
    /\ ogms' = ogms \ {ogm}
    /\ \E margin \in FadeMargins : OgmProcess(ogm, margin)
    /\ silence' = [silence EXCEPT ![ogm.originator] = loop[ogm.originator]]
    /\ UNCHANGED <<up, loop>>

ExpireStale ==
    /\ table' = [n \in AllFresh |-> table[n]]
    /\ UNCHANGED <<up, loop, ogms, silence>>

Later(ms, limit) == IF ms > limit THEN ms ELSE ms + Step

\* Time waits for timers that are due and for OGMs that may not be later.
TimePasses ==
    /\ \A n \in Neighbours : loop[n] = Off \/ loop[n] >= Step
    /\ \A ogm \in ogms : ogm.on_air + Step <= MaxDelay
    /\ loop' = [n \in Neighbours |-> IF loop[n] = Off THEN Off ELSE loop[n] - Step]
    /\ ogms' = {[ogm EXCEPT !.on_air = @ + Step] : ogm \in ogms}
    /\ table' = [n \in DOMAIN table |->
            [table[n] EXCEPT !.age = Later(@, NeighborExpiry),
                             !.measured = Later(@, NeighborExpiry + MaxDelay)]]
    /\ UNCHANGED <<up, silence>>

ControlNext ==
    \/ ExpireStale \/ TimePasses
    \/ \E n \in Neighbours : Boot(n) \/ Crash(n) \/ OnFire(n)
    \/ \E ogm \in ogms : ReceiveOgm(ogm)

\* Time goes on; an OGM under way arrives (time waits for it); a timer fires,
\* and a medium on which a node keeps sending does not lose everything for
\* ever.
ControlFairness ==
    /\ WF_controlVars(TimePasses)
    /\ WF_controlVars(\E ogm \in ogms : ReceiveOgm(ogm))
    /\ \A n \in Neighbours : SF_controlVars(OnFire(n) /\ Broadcast(n))

ControlSpec == ControlInit /\ [][ControlNext]_controlVars /\ ControlFairness

-----------------------------------------------------------------------------
(* "Neighbors with no recent OGM must be excluded from candidate           *)
(* selection" (ARCHITECTURE.md:398): whoever is selected is selected on a  *)
(* metric that was true of it no longer ago than the expiry and the time   *)
(* an OGM may take, also when it has crashed, when a late OGM of a former  *)
(* life overwrites the entry, and when nobody ever calls ExpireStale.      *)
SelectedOnRecentMetric ==
    \A n \in SelectCandidates : table[n].measured <= NeighborExpiry + MaxDelay

(* "Inherently tolerant of occasional control-packet loss" (ARCHITECTURE.  *)
(* md:337): a running neighbour that has been heard stays in AllFresh over *)
(* OGMs lost in a row, as long as their intervals and the delay of the     *)
(* first that gets through fit into the expiry time.                       *)
LossTolerance ==
    \A n \in up :
        silence[n] # Off /\ silence[n] + MaxDelay <= NeighborExpiry => n \in AllFresh

(* A node that stays up is known in the end, and again and again: its OGM  *)
(* loop keeps itself going, and no sweep or crash before puts it out.      *)
NeighbourIsFound ==
    \A n \in Neighbours : <>[](n \in up) => []<>(n \in AllFresh)
=============================================================================
