----------------------------- MODULE LinkProofs -----------------------------
(***************************************************************************)
(* What passes between a node and its neighbours: the acknowledgements     *)
(* that elect a forwarder, the OGMs that keep a neighbour known, and the   *)
(* adapter that carries the frames.                                        *)
(***************************************************************************)
EXTENDS AckCoordination, ControlPlane, PacketSocket, TLAPS

-----------------------------------------------------------------------------
(***************************************************************************)
(* A sender elects no more often than it transmits, and nobody who has     *)
(* nothing to forward, for any senders, candidates, packets and number of  *)
(* transmissions.  That is not inductive by itself: an ack could elect     *)
(* beyond the count, or elect one that has nothing to forward, were it not *)
(* that what is pending still has an election to its account and that an   *)
(* ack on the air comes from a candidate that has the packet.              *)
(***************************************************************************)

AckTypes ==
    /\ pending \in [Senders -> SUBSET Packets]
    /\ late \in [Senders -> SUBSET Packets]
    /\ tries \in [Senders -> [Packets -> Nat]]
    /\ seen \in [Candidates -> SUBSET Packets]
    /\ elected \in [Senders -> [Packets -> Seq(Candidates)]]

AcksAreTrue ==
    \A message \in frames :
        \/ \E p \in Packets : message = Data(p)
        \/ \E p \in Packets, c \in Candidates : message = Ack(p, c) /\ p \in seen[c]

WaitsAreCounted ==
    \A s \in Senders, p \in Packets :
        /\ Len(elected[s][p]) <= tries[s][p]
        /\ p \in pending[s] => Len(elected[s][p]) < tries[s][p]

ElectedHaveIt ==
    \A s \in Senders, p \in Packets :
        \A i \in DOMAIN elected[s][p] : p \in seen[elected[s][p][i]]

AckInv == AckTypes /\ AcksAreTrue /\ WaitsAreCounted /\ ElectedHaveIt

(* The strengthened invariant holds in every initial state.                *)
LEMMA AckInitially == AckInit => AckInv
BY DEF AckInit, AckInv, AckTypes, AcksAreTrue, WaitsAreCounted, ElectedHaveIt

(* What the sender does by itself: transmit, miss a deadline, sweep.       *)
LEMMA SenderKeeps ==
    ASSUME AckInv, NEW s \in Senders,
           \/ ProcessTimeouts(s)
           \/ \E p \in Packets : AddPending(s, p) \/ DeadlinePasses(s, p)
    PROVE  AckInv'
<1>1. CASE ProcessTimeouts(s)
  BY <1>1 DEF ProcessTimeouts, AckInv, AckTypes, AcksAreTrue,
              WaitsAreCounted, ElectedHaveIt
<1>2. ASSUME NEW p \in Packets, AddPending(s, p)
      PROVE  AckInv'
  <2>1. AckTypes'
    BY <1>2 DEF AddPending, AckInv, AckTypes
  <2>2. AcksAreTrue' /\ ElectedHaveIt'
    BY <1>2 DEF AddPending, AckInv, AcksAreTrue, ElectedHaveIt
  <2>3. ASSUME NEW t \in Senders, NEW q \in Packets
        PROVE  /\ Len(elected'[t][q]) <= tries'[t][q]
               /\ q \in pending'[t] => Len(elected'[t][q]) < tries'[t][q]
    <3>1. Len(elected[t][q]) \in Nat /\ tries[t][q] \in Nat
      BY DEF AckInv, AckTypes
    <3>2. Len(elected[t][q]) <= tries[t][q]
          /\ (q \in pending[t] => Len(elected[t][q]) < tries[t][q])
      BY DEF AckInv, WaitsAreCounted
    <3>3. elected' = elected
      BY <1>2 DEF AddPending
    <3>4. CASE t = s /\ q = p
      <4>1. tries'[t][q] = tries[t][q] + 1
        BY <3>4, <1>2 DEF AddPending, AckInv, AckTypes
      <4> QED
        BY <4>1, <3>1, <3>2, <3>3
    <3>5. CASE ~ (t = s /\ q = p)
      <4>1. tries'[t][q] = tries[t][q] /\ (q \in pending'[t] => q \in pending[t])
        BY <3>5, <1>2 DEF AddPending, AckInv, AckTypes
      <4> QED
        BY <4>1, <3>2, <3>3
    <3> QED
      BY <3>4, <3>5
  <2> QED
    BY <2>1, <2>2, <2>3 DEF AckInv, WaitsAreCounted
<1>3. ASSUME NEW p \in Packets, DeadlinePasses(s, p)
      PROVE  AckInv'
  <2>1. /\ late' = [late EXCEPT ![s] = @ \union {p}]
        /\ UNCHANGED <<pending, tries, frames, seen, elected>>
    BY <1>3 DEF DeadlinePasses
  <2>2. AckTypes'
    BY <2>1 DEF AckInv, AckTypes
  <2>3. (AcksAreTrue /\ WaitsAreCounted /\ ElectedHaveIt)'
    BY <2>1 DEF AckInv, AcksAreTrue, WaitsAreCounted, ElectedHaveIt
  <2> QED
    BY <2>2, <2>3 DEF AckInv
<1> QED
  BY <1>1, <1>2, <1>3

(* An ack elects its sender, if the packet it names is pending.            *)
LEMMA ElectionKeeps ==
    ASSUME AckInv, NEW s \in Senders, NEW message \in frames, HandleAck(s, message)
    PROVE  AckInv'
<1>1. PICK p \in Packets, c \in Candidates : message = Ack(p, c) /\ p \in seen[c]
  BY DEF AckInv, AcksAreTrue, HandleAck, Data
<1>2. message.packet_id = p /\ message.final_destination = c
  BY <1>1 DEF Ack
<1>3. /\ p \in pending[s]
      /\ elected' = [elected EXCEPT ![s][p] = Append(@, c)]
      /\ pending' = [pending EXCEPT ![s] = @ \ {p}]
      /\ late' = [late EXCEPT ![s] = @ \ {p}]
      /\ UNCHANGED <<tries, frames, seen>>
  BY <1>2 DEF HandleAck, Elect
<1>4. /\ elected'[s][p] = Append(elected[s][p], c)
      /\ \A t \in Senders, q \in Packets :
            ~ (t = s /\ q = p) => elected'[t][q] = elected[t][q]
  BY <1>3 DEF AckInv, AckTypes
<1>5. elected[s][p] \in Seq(Candidates) /\ tries[s][p] \in Nat
  BY DEF AckInv, AckTypes
<1>6. AckTypes'
  <2>1. Append(elected[s][p], c) \in Seq(Candidates)
    BY <1>5
  <2> QED
    BY <2>1, <1>3 DEF AckInv, AckTypes
<1>7. AcksAreTrue'
  BY <1>3 DEF AckInv, AcksAreTrue
<1>8. WaitsAreCounted'
  <2>1. Len(elected'[s][p]) = Len(elected[s][p]) + 1 /\ p \notin pending'[s]
    BY <1>3, <1>4, <1>5 DEF AckInv, AckTypes
  <2>2. Len(elected[s][p]) < tries[s][p]
    BY <1>3 DEF AckInv, WaitsAreCounted
  <2>3. Len(elected'[s][p]) <= tries'[s][p]
    BY <2>1, <2>2, <1>3, <1>5
  <2>4. \A t \in Senders, q \in Packets : q \in pending'[t] => q \in pending[t]
    BY <1>3 DEF AckInv, AckTypes
  <2> QED
    BY <2>1, <2>3, <2>4, <1>3, <1>4 DEF AckInv, WaitsAreCounted
<1>9. ElectedHaveIt'
  <2>1. ASSUME NEW i \in DOMAIN elected'[s][p]
        PROVE  p \in seen'[elected'[s][p][i]]
    <3>1. elected'[s][p][i] = c \/ (i \in DOMAIN elected[s][p]
                                    /\ elected'[s][p][i] = elected[s][p][i])
      BY <1>4, <1>5
    <3> QED
      BY <3>1, <1>1, <1>3 DEF AckInv, ElectedHaveIt
  <2> QED
    BY <2>1, <1>3, <1>4 DEF AckInv, ElectedHaveIt
<1> QED
  BY <1>6, <1>7, <1>8, <1>9 DEF AckInv

(* A candidate that takes a packet in has it from then on.                 *)
LEMMA CandidateKeeps ==
    ASSUME AckInv, NEW c \in Candidates, NEW p \in Packets,
           OnCandidateReceivedDataPacket(c, p)
    PROVE  AckInv'
<1>1. \A d \in Candidates : seen[d] \subseteq seen'[d]
  BY DEF OnCandidateReceivedDataPacket, AckInv, AckTypes
<1>2. p \in seen'[c]
  BY DEF OnCandidateReceivedDataPacket, AckInv, AckTypes
<1>3. AckTypes'
  BY DEF OnCandidateReceivedDataPacket, AckInv, AckTypes
<1>4. AcksAreTrue'
  BY <1>1, <1>2 DEF OnCandidateReceivedDataPacket, AckInv, AcksAreTrue
<1>5. WaitsAreCounted'
  BY DEF OnCandidateReceivedDataPacket, AckInv, WaitsAreCounted
<1>6. ElectedHaveIt'
  <2>1. elected' = elected
    BY DEF OnCandidateReceivedDataPacket
  <2>2. \A s \in Senders, q \in Packets :
            \A i \in DOMAIN elected[s][q] : elected[s][q][i] \in Candidates
    BY DEF AckInv, AckTypes
  <2> QED
    BY <1>1, <2>1, <2>2 DEF AckInv, ElectedHaveIt
<1> QED
  BY <1>3, <1>4, <1>5, <1>6 DEF AckInv

(* Every behaviour keeps the strengthened invariant.                       *)
THEOREM AckInvariance == AckSpec => []AckInv
<1>1. AckInv /\ [AckNext]_ackVars => AckInv'
  <2> SUFFICES ASSUME AckInv, [AckNext]_ackVars PROVE AckInv'
    OBVIOUS
  <2>1. CASE UNCHANGED ackVars
    BY <2>1 DEF ackVars, AckInv, AckTypes, AcksAreTrue, WaitsAreCounted, ElectedHaveIt
  <2> QED
    BY <2>1, SenderKeeps, ElectionKeeps, CandidateKeeps DEF AckNext
<1> QED
  BY <1>1, AckInitially, PTL DEF AckSpec

(* OneElectionPerTransmission, for every value of the constants: through   *)
(* late, repeated and misdirected acks and any retransmissions, a sender   *)
(* elects no more often than it has transmitted, and only candidates that  *)
(* have the packet.                                                        *)
THEOREM ElectsOncePerTransmission == AckSpec => []OneElectionPerTransmission
<1>1. AckInv => OneElectionPerTransmission
  BY DEF AckInv, WaitsAreCounted, ElectedHaveIt, OneElectionPerTransmission
<1> QED
  BY <1>1, AckInvariance, PTL

-----------------------------------------------------------------------------
(***************************************************************************)
(* What candidates are selected on, and how long a neighbour is kept over  *)
(* lost OGMs, for any neighbours, throughputs, expiry and delay.  Both     *)
(* rest on an account of where an entry's age comes from: the metric of an *)
(* entry is as old as the entry and the delay of its OGM together, and the *)
(* silence of a running neighbour either still covers its entry's age, or  *)
(* an OGM is under way that will renew it in time.                         *)
(***************************************************************************)

TableEntry == [age : Nat, tq_local : {TqMax}, tq_recv : {TqMax},
          fade_margin : FadeMargins, reachable_to_dest : BOOLEAN, measured : Nat]

ControlTypes ==
    /\ up \subseteq Neighbours
    /\ loop \in [Neighbours -> Nat \union {Off}]
    /\ silence \in [Neighbours -> Nat \union {Off}]
    /\ ogms \subseteq [originator : Neighbours, tq_reported : {TqMax}, on_air : 0..MaxDelay]
    /\ DOMAIN table \subseteq Neighbours
    /\ table \in [DOMAIN table -> TableEntry]

MetricAge ==
    \A n \in DOMAIN table :
        table[n].age <= NeighborExpiry => table[n].measured <= table[n].age + MaxDelay

LoopWhileUp ==
    \A n \in Neighbours :
        (n \in up <=> loop[n] # Off) /\ (silence[n] # Off => n \in up)

\* A neighbour of which little enough was lost to be kept.
Kept(n) == n \in up /\ silence[n] # Off /\ silence[n] + MaxDelay <= NeighborExpiry

Covered(n) ==
    /\ n \in DOMAIN table
    /\ \/ table[n].age + loop[n] <= silence[n]
       \/ \E ogm \in ogms :
            ogm.originator = n /\ table[n].age <= silence[n] + ogm.on_air

SilenceCovers == \A n \in Neighbours : Kept(n) => Covered(n)

ControlInv == ControlTypes /\ MetricAge /\ LoopWhileUp /\ SilenceCovers

(* The durations the clock is compared with are numbers.                   *)
LEMMA Durations ==
    NeighborExpiry \in Nat /\ MaxDelay \in Nat /\ Step \in Nat \ {0}
BY ControlAssumption

(* An interval between OGMs is a positive number of milliseconds.          *)
LEMMA IntervalIsPositive ==
    ASSUME NEW throughput \in Throughputs
    PROVE  Reschedule(throughput) \in Nat \ {0}
BY ControlAssumption
    DEF Reschedule, CalculateCmsi

(* The strengthened invariant holds in every initial state.                *)
LEMMA ControlInitially == ControlInit => ControlInv
<1> SUFFICES ASSUME ControlInit PROVE ControlInv
  OBVIOUS
<1>1. ControlTypes
  BY DEF ControlInit, ControlTypes, Off, TableEntry
<1>2. MetricAge /\ LoopWhileUp /\ SilenceCovers
  BY DEF ControlInit, MetricAge, LoopWhileUp, SilenceCovers, Kept, Off
<1> QED
  BY <1>1, <1>2 DEF ControlInv

(* A node that comes up has not been heard in this life; one that goes     *)
(* down is not running.                                                    *)
LEMMA BootAndCrashKeep ==
    ASSUME ControlInv, NEW n \in Neighbours, Boot(n) \/ Crash(n)
    PROVE  ControlInv'
<1>1. CASE Boot(n)
  <2>1. PICK throughput \in Throughputs :
            loop' = [loop EXCEPT ![n] = Reschedule(throughput)]
    BY <1>1 DEF Boot
  <2>2. Reschedule(throughput) \in Nat \ {0}
    BY IntervalIsPositive
  <2>3. silence[n] = Off /\ n \notin up
    BY <1>1 DEF Boot, ControlInv, LoopWhileUp
  <2>4. ControlTypes' /\ MetricAge'
    BY <1>1, <2>1, <2>2 DEF Boot, ControlInv, ControlTypes, MetricAge, Off, TableEntry
  <2>5. LoopWhileUp'
    BY <1>1, <2>1, <2>2, <2>3 DEF Boot, ControlInv, ControlTypes, LoopWhileUp, Off
  <2>6. SilenceCovers'
    BY <1>1, <2>1, <2>3 DEF Boot, ControlInv, ControlTypes, SilenceCovers, Kept, Covered
  <2> QED
    BY <2>4, <2>5, <2>6 DEF ControlInv
<1>2. CASE Crash(n)
  <2>1. ControlTypes' /\ MetricAge' /\ LoopWhileUp'
    BY <1>2 DEF Crash, ControlInv, ControlTypes, MetricAge, LoopWhileUp, Off, TableEntry
  <2>2. SilenceCovers'
    BY <1>2 DEF Crash, ControlInv, ControlTypes, SilenceCovers, Kept, Covered
  <2> QED
    BY <2>1, <2>2 DEF ControlInv
<1> QED
  BY <1>1, <1>2

(* An OGM that is sent is under way with all the silence there was; one    *)
(* that is lost adds its interval to it.                                   *)
LEMMA OnFireKeeps ==
    ASSUME ControlInv, NEW n \in Neighbours, OnFire(n)
    PROVE  ControlInv'
<1>1. PICK throughput \in Throughputs :
          /\ RescheduleLoop(n, Reschedule(throughput))
          /\ Broadcast(n) \/ LoseOgm(n, Reschedule(throughput))
  BY DEF OnFire
<1>2. PICK interval \in Nat \ {0} :
          /\ loop' = [loop EXCEPT ![n] = interval]
          /\ Broadcast(n) \/ LoseOgm(n, interval)
  BY <1>1, IntervalIsPositive DEF RescheduleLoop
<1>3. loop[n] = 0 /\ n \in up /\ up' = up /\ table' = table
  BY DEF OnFire, ControlInv, LoopWhileUp, Off
<1>4. CASE Broadcast(n)
  <2>1. ogms' = ogms \union {OgmBuild(n)} /\ silence' = silence
    BY <1>4 DEF Broadcast
  <2>2. OgmBuild(n) \in
            [originator : Neighbours, tq_reported : {TqMax}, on_air : 0..MaxDelay]
    BY ControlAssumption
    DEF OgmBuild
  <2>3. ControlTypes' /\ MetricAge' /\ LoopWhileUp'
    BY <1>2, <1>3, <2>1, <2>2
    DEF ControlInv, ControlTypes, MetricAge, LoopWhileUp, Off, TableEntry
  <2>4. ASSUME NEW m \in Neighbours, Kept(m)'
        PROVE  Covered(m)'
    <3>1. Kept(m) /\ Covered(m)
      BY <2>1, <2>4, <1>3 DEF Kept, ControlInv, SilenceCovers
    <3>2. CASE \E ogm \in ogms :
                 ogm.originator = m /\ table[m].age <= silence[m] + ogm.on_air
      BY <1>3, <2>1, <3>1, <3>2 DEF Covered
    <3>3. CASE table[m].age + loop[m] <= silence[m] /\ m # n
      BY <1>2, <1>3, <2>1, <3>1, <3>3 DEF Covered, ControlInv, ControlTypes
    <3>4. CASE table[m].age + loop[m] <= silence[m] /\ m = n
      <4>1. OgmBuild(n) \in ogms' /\ OgmBuild(n).originator = n /\ OgmBuild(n).on_air = 0
        BY <2>1 DEF OgmBuild
      <4>2. table[n].age <= silence[n] + 0
        BY <1>3, <3>1, <3>4 DEF ControlInv, ControlTypes, TableEntry, Kept, Covered, Off
      <4> QED
        BY <1>3, <2>1, <3>1, <3>4, <4>1, <4>2 DEF Covered
    <3> QED
      BY <3>1, <3>2, <3>3, <3>4 DEF Covered
  <2> QED
    BY <2>3, <2>4 DEF ControlInv, SilenceCovers
<1>5. CASE LoseOgm(n, interval)
  <2>1. /\ silence' = [silence EXCEPT ![n] =
              IF silence[n] = Off \/ silence[n] > NeighborExpiry
              THEN silence[n] ELSE silence[n] + interval]
        /\ ogms' = ogms
    BY <1>5 DEF LoseOgm
  <2>2. ControlTypes' /\ MetricAge' /\ LoopWhileUp'
    BY <1>2, <1>3, <2>1, ControlAssumption
    DEF ControlInv, ControlTypes, MetricAge, LoopWhileUp, Off, TableEntry
  <2>3. ASSUME NEW m \in Neighbours, Kept(m)'
        PROVE  Covered(m)'
    <3>1. CASE m # n
      <4>1. Kept(m) /\ silence'[m] = silence[m] /\ loop'[m] = loop[m]
        BY <1>2, <1>3, <2>1, <2>3, <3>1 DEF Kept, ControlInv, ControlTypes
      <4> QED
        BY <1>3, <2>1, <4>1 DEF Covered, ControlInv, SilenceCovers
    <3>2. CASE m = n
      <4>1. /\ silence[n] \in Nat \union {Off}
            /\ silence'[n] = IF silence[n] = Off \/ silence[n] > NeighborExpiry
                             THEN silence[n] ELSE silence[n] + interval
        BY <2>1 DEF ControlInv, ControlTypes
      <4>2. silence'[n] # Off /\ silence'[n] + MaxDelay <= NeighborExpiry
        BY <2>3, <3>2 DEF Kept
      <4>3. /\ silence[n] \in Nat /\ silence'[n] = silence[n] + interval
            /\ silence[n] + MaxDelay <= NeighborExpiry
        BY <1>2, <4>1, <4>2, ControlAssumption
    DEF Off
      <4>4. Kept(n)
        BY <1>3, <4>3 DEF Kept, Off
      <4>5. Covered(n)
        BY <4>4 DEF ControlInv, SilenceCovers
      <4>6. n \in DOMAIN table /\ table[n].age \in Nat
        BY <4>5 DEF Covered, ControlInv, ControlTypes, TableEntry
      <4>7. CASE table[n].age + loop[n] <= silence[n]
        BY <1>2, <1>3, <3>2, <4>3, <4>6, <4>7 DEF Covered, ControlInv, ControlTypes
      <4>8. ASSUME NEW ogm \in ogms, ogm.originator = n,
                   table[n].age <= silence[n] + ogm.on_air
            PROVE  Covered(n)'
        <5>1. ogm.on_air \in Nat
          BY ControlAssumption
    DEF ControlInv, ControlTypes
        <5>2. table[n].age <= silence'[n] + ogm.on_air
          BY <1>2, <4>3, <4>6, <4>8, <5>1
        <5> QED
          BY <1>3, <2>1, <4>6, <4>8, <5>2 DEF Covered
      <4> QED
        BY <3>2, <4>5, <4>7, <4>8 DEF Covered
    <3> QED
      BY <3>1, <3>2
  <2> QED
    BY <2>2, <2>3 DEF ControlInv, SilenceCovers
<1> QED
  BY <1>2, <1>4, <1>5

(* An OGM that arrives renews its entry with what it says; it was sent as  *)
(* long ago as it has been under way.                                      *)
LEMMA OgmReceiveKeeps ==
    ASSUME ControlInv, NEW ogm \in ogms, ReceiveOgm(ogm)
    PROVE  ControlInv'
<1> DEFINE n == ogm.originator
<1>1. /\ n \in Neighbours /\ ogm.tq_reported = TqMax
      /\ ogm.on_air \in Nat /\ ogm.on_air <= MaxDelay
  BY ControlAssumption
    DEF ControlInv, ControlTypes
<1>2. PICK margin \in FadeMargins : OgmProcess(ogm, margin)
  BY DEF ReceiveOgm
<1>3. /\ DOMAIN table' = DOMAIN table \union {n}
      /\ table'[n].age = 0 /\ table'[n].measured = ogm.on_air
      /\ \A m \in DOMAIN table \ {n} : table'[m] = table[m]
      /\ table' \in [DOMAIN table' -> TableEntry]
  BY <1>1, <1>2 DEF OgmProcess, TableEntry, ControlInv, ControlTypes
<1>4. /\ ogms' = ogms \ {ogm}
      /\ silence' = [silence EXCEPT ![n] = loop[n]]
      /\ UNCHANGED <<up, loop>>
  BY DEF ReceiveOgm
<1> HIDE DEF n
<1>5. ControlTypes'
  BY <1>1, <1>3, <1>4 DEF ControlInv, ControlTypes
<1>6. MetricAge'
  BY <1>1, <1>3, <1>4, Durations DEF ControlInv, MetricAge
<1>7. LoopWhileUp'
  BY <1>1, <1>4 DEF ControlInv, ControlTypes, LoopWhileUp
<1>8. ASSUME NEW m \in Neighbours, Kept(m)'
      PROVE  Covered(m)'
  <2>1. CASE m = n
    BY <1>1, <1>3, <1>4, <2>1 DEF Covered, ControlInv, ControlTypes, Off
  <2>2. CASE m # n
    <3>1. Kept(m) /\ silence'[m] = silence[m]
      BY <1>4, <1>8, <2>2 DEF Kept, ControlInv, ControlTypes
    <3>2. Covered(m)
      BY <3>1 DEF ControlInv, SilenceCovers
    <3>3. m \in DOMAIN table' /\ table'[m] = table[m]
      BY <1>3, <2>2, <3>2 DEF Covered
    <3>4. \A other \in ogms : other.originator = m => other \in ogms'
      BY <1>4, <2>2 DEF n
    <3> QED
      BY <1>4, <3>1, <3>2, <3>3, <3>4 DEF Covered
  <2> QED
    BY <2>1, <2>2
<1> QED
  BY <1>5, <1>6, <1>7, <1>8 DEF ControlInv, SilenceCovers

(* A sweep removes nothing that is kept: what covers an entry's age bounds *)
(* it by the expiry.                                                       *)
LEMMA KeptIsFresh ==
    ASSUME ControlInv, NEW n \in Neighbours, Kept(n)
    PROVE  n \in AllFresh
<1>1. n \in DOMAIN table /\ table[n].age \in Nat /\ silence[n] \in Nat
  BY DEF ControlInv, SilenceCovers, Covered, ControlTypes, TableEntry, Kept, Off
<1>2. table[n].age <= silence[n] + MaxDelay
  <2>1. CASE table[n].age + loop[n] <= silence[n]
    <3>1. loop[n] \in Nat
      BY DEF ControlInv, ControlTypes, LoopWhileUp, Kept, Off
    <3> QED
      BY <1>1, <2>1, <3>1, Durations
  <2>2. ASSUME NEW ogm \in ogms, table[n].age <= silence[n] + ogm.on_air
        PROVE  table[n].age <= silence[n] + MaxDelay
    <3>1. ogm.on_air \in Nat /\ ogm.on_air <= MaxDelay
      BY Durations DEF ControlInv, ControlTypes
    <3> QED
      BY <1>1, <2>2, <3>1, Durations
  <2> QED
    BY <2>1, <2>2 DEF ControlInv, SilenceCovers, Covered
<1>3. table[n].age <= NeighborExpiry
  BY <1>1, <1>2, Durations DEF Kept
<1> QED
  BY <1>1, <1>3, Durations DEF AllFresh, IsStale

(* The sweep keeps the invariant.                                          *)
LEMMA ExpireKeeps ==
    ASSUME ControlInv, ExpireStale
    PROVE  ControlInv'
<1>1. /\ table' = [n \in AllFresh |-> table[n]]
      /\ UNCHANGED <<up, loop, ogms, silence>>
  BY DEF ExpireStale
<1>2. AllFresh \subseteq DOMAIN table
  BY DEF AllFresh
<1>3. ControlTypes' /\ MetricAge' /\ LoopWhileUp'
  BY <1>1, <1>2 DEF ControlInv, ControlTypes, MetricAge, LoopWhileUp
<1>4. ASSUME NEW n \in Neighbours, Kept(n)'
      PROVE  Covered(n)'
  <2>1. Kept(n)
    BY <1>1, <1>4 DEF Kept
  <2>2. Covered(n) /\ n \in AllFresh
    BY <2>1, KeptIsFresh DEF ControlInv, SilenceCovers
  <2> QED
    BY <1>1, <2>2 DEF Covered
<1> QED
  BY <1>3, <1>4 DEF ControlInv, SilenceCovers

(* Time ages the entries, the OGMs under way and the silence alike.        *)
LEMMA TickKeeps ==
    ASSUME ControlInv, TimePasses
    PROVE  ControlInv'
<1>1. /\ \A n \in Neighbours : loop[n] = Off \/ loop[n] >= Step
      /\ loop' = [n \in Neighbours |-> IF loop[n] = Off THEN Off ELSE loop[n] - Step]
      /\ UNCHANGED <<up, silence>>
  BY DEF TimePasses
<1>2. /\ \A ogm \in ogms : ogm.on_air + Step <= MaxDelay
      /\ ogms' = {[ogm EXCEPT !.on_air = @ + Step] : ogm \in ogms}
  BY DEF TimePasses
<1>3. /\ DOMAIN table' = DOMAIN table
      /\ table' \in [DOMAIN table' -> TableEntry]
      /\ \A n \in DOMAIN table :
            /\ table'[n].age = Later(table[n].age, NeighborExpiry)
            /\ table'[n].measured = Later(table[n].measured, NeighborExpiry + MaxDelay)
  <2>1. table' = [n \in DOMAIN table |->
            [table[n] EXCEPT !.age = Later(@, NeighborExpiry),
                             !.measured = Later(@, NeighborExpiry + MaxDelay)]]
    BY DEF TimePasses
  <2>2. ASSUME NEW n \in DOMAIN table
        PROVE  /\ table'[n] \in TableEntry
               /\ table'[n].age = Later(table[n].age, NeighborExpiry)
               /\ table'[n].measured = Later(table[n].measured, NeighborExpiry + MaxDelay)
    <3> DEFINE age == Later(table[n].age, NeighborExpiry)
               measured == Later(table[n].measured, NeighborExpiry + MaxDelay)
    <3>1. table[n] \in TableEntry
      BY DEF ControlInv, ControlTypes
    <3>2. age \in Nat /\ measured \in Nat
      BY <3>1, Durations DEF Later, TableEntry
    <3>3. table'[n] = [table[n] EXCEPT !.age = age, !.measured = measured]
      BY <2>1
    <3> HIDE DEF age, measured
    <3>4. table'[n] \in TableEntry /\ table'[n].age = age /\ table'[n].measured = measured
      BY <3>1, <3>2, <3>3 DEF TableEntry
    <3> QED
      BY <3>4 DEF age, measured
  <2> QED
    BY <2>1, <2>2
<1>4. ControlTypes'
  <2>1. loop' \in [Neighbours -> Nat \union {Off}]
    BY <1>1, Durations DEF ControlInv, ControlTypes, Off
  <2>2. ogms' \subseteq
            [originator : Neighbours, tq_reported : {TqMax}, on_air : 0..MaxDelay]
    BY <1>2, Durations DEF ControlInv, ControlTypes
  <2> QED
    BY <1>1, <1>3, <2>1, <2>2 DEF ControlInv, ControlTypes
<1>5. MetricAge'
  BY <1>3, Durations DEF ControlInv, ControlTypes, TableEntry, MetricAge, Later
<1>6. LoopWhileUp'
  BY <1>1, Durations DEF ControlInv, ControlTypes, LoopWhileUp, Off
<1>7. ASSUME NEW n \in Neighbours, Kept(n)'
      PROVE  Covered(n)'
  <2>1. Kept(n) /\ Covered(n) /\ n \in AllFresh
    BY <1>1, <1>7, KeptIsFresh DEF Kept, ControlInv, SilenceCovers
  <2>2. /\ n \in DOMAIN table /\ table[n].age \in Nat /\ silence[n] \in Nat
        /\ table'[n].age = table[n].age + Step
    BY <1>3, <2>1, Durations
    DEF AllFresh, IsStale, Later, ControlInv, ControlTypes, TableEntry, Kept, Off
  <2>3. CASE table[n].age + loop[n] <= silence[n]
    <3>1. loop[n] \in Nat /\ loop'[n] = loop[n] - Step
      BY <1>1, <2>1 DEF ControlInv, ControlTypes, LoopWhileUp, Kept, Off
    <3> QED
      BY <1>1, <1>3, <2>2, <2>3, <3>1, Durations DEF Covered
  <2>4. ASSUME NEW ogm \in ogms, ogm.originator = n,
               table[n].age <= silence[n] + ogm.on_air
        PROVE  Covered(n)'
    <3> DEFINE later == [ogm EXCEPT !.on_air = @ + Step]
    <3>1. later \in ogms'
      BY <1>2
    <3>2. ogm.on_air \in Nat /\ later.originator = n /\ later.on_air = ogm.on_air + Step
      BY <2>4, Durations DEF ControlInv, ControlTypes
    <3>3. table'[n].age <= silence'[n] + later.on_air
      BY <1>1, <2>2, <2>4, <3>2, Durations
    <3> QED
      BY <1>3, <2>2, <3>1, <3>2, <3>3 DEF Covered
  <2> QED
    BY <2>1, <2>3, <2>4 DEF Covered
<1> QED
  BY <1>4, <1>5, <1>6, <1>7 DEF ControlInv, SilenceCovers

(* Every behaviour keeps the strengthened invariant.                       *)
THEOREM ControlInvariance == ControlSpec => []ControlInv
<1>1. ControlInv /\ [ControlNext]_controlVars => ControlInv'
  <2> SUFFICES ASSUME ControlInv, [ControlNext]_controlVars PROVE ControlInv'
    OBVIOUS
  <2>1. CASE UNCHANGED controlVars
    BY <2>1 DEF controlVars, ControlInv, ControlTypes, MetricAge, LoopWhileUp, SilenceCovers,
                Kept, Covered
  <2> QED
    BY <2>1, ExpireKeeps, TickKeeps, BootAndCrashKeep,
       OnFireKeeps, OgmReceiveKeeps DEF ControlNext
<1> QED
  BY <1>1, ControlInitially, PTL DEF ControlSpec

(* SelectedOnRecentMetric, for any neighbours, expiry and delay: no crash, *)
(* late OGM or missing sweep has a candidate selected on an older metric.  *)
THEOREM CandidatesAreRecent == ControlSpec => []SelectedOnRecentMetric
<1>1. ControlInv => SelectedOnRecentMetric
  <2> SUFFICES ASSUME ControlInv, NEW n \in SelectCandidates
               PROVE  table[n].measured <= NeighborExpiry + MaxDelay
    BY DEF SelectedOnRecentMetric
  <2>1. n \in DOMAIN table /\ ~ table[n].age > NeighborExpiry
    BY DEF SelectCandidates, Eligible, AllFresh, IsStale
  <2>2. table[n].age \in Nat /\ table[n].measured \in Nat
    BY <2>1 DEF ControlInv, ControlTypes, TableEntry
  <2>3. table[n].measured <= table[n].age + MaxDelay
    BY <2>1, <2>2, Durations DEF ControlInv, MetricAge
  <2> QED
    BY <2>1, <2>2, <2>3, Durations
<1> QED
  BY <1>1, ControlInvariance, PTL

(* LossTolerance, for any neighbours, throughputs, expiry and delay: OGMs  *)
(* may be lost in a row while their intervals and one delay fit into the   *)
(* expiry.                                                                 *)
THEOREM LossIsTolerated == ControlSpec => []LossTolerance
<1>1. ControlInv => LossTolerance
  <2> SUFFICES ASSUME ControlInv, NEW n \in up, silence[n] # Off,
                      silence[n] + MaxDelay <= NeighborExpiry
               PROVE  n \in AllFresh
    BY DEF LossTolerance
  <2>1. n \in Neighbours /\ Kept(n)
    BY DEF ControlInv, ControlTypes, Kept
  <2> QED
    BY <2>1, KeptIsFresh
<1> QED
  BY <1>1, ControlInvariance, PTL

-----------------------------------------------------------------------------
(***************************************************************************)
(* The receive thread of every adapter ends with its Stop, for any number  *)
(* of adapters on the interface and any buffer.  running_ alone does not   *)
(* say so: Stop clears it first, and what lies between that and the join,  *)
(* and between the promiscuous mode and the thread of a Start, has to be   *)
(* told apart by where the owner is.                                       *)
(***************************************************************************)

SocketTypes ==
    /\ pc \in [Adapters -> {"none", "idle", "starting", "joining", "leaving"}]
    /\ dying \in [Adapters -> BOOLEAN]
    /\ running \in [Adapters -> BOOLEAN]
    /\ rx \in [Adapters -> {"none", "loop", "poll", "recv", "callback", "ended"}]

\* An adapter runs only while its owner is outside Start and Stop, and has a
\* thread then; a thread there is to join keeps until it is joined.
ThreadByOwner ==
    \A a \in Adapters :
        /\ running[a] => pc[a] = "idle" /\ rx[a] # "none"
        /\ rx[a] # "none" => running[a] \/ pc[a] = "joining"

SocketInv == SocketTypes /\ ThreadByOwner

(* The strengthened invariant holds in every initial state.                *)
LEMMA SocketInitially == SocketInit => SocketInv
BY DEF SocketInit, SocketInv, SocketTypes, ThreadByOwner

(* What the owner of an adapter does keeps it.                             *)
LEMMA OwnerKeeps ==
    ASSUME SocketInv, NEW a \in Adapters, Owner(a)
    PROVE  SocketInv'
<1> USE DEF SocketInv, SocketTypes, ThreadByOwner
<1>1. CASE Construct(a)
  BY <1>1 DEF Construct
<1>2. CASE Start(a)
  BY <1>2 DEF Start
<1>3. CASE SpawnRx(a)
  BY <1>3 DEF SpawnRx
<1>4. CASE Destroy(a)
  BY <1>4 DEF Destroy
<1>5. CASE Stop(a)
  BY <1>5 DEF Stop
<1>6. CASE JoinRx(a)
  BY <1>6 DEF JoinRx
<1>7. CASE LeavePromiscuous(a)
  BY <1>7 DEF LeavePromiscuous
<1>8. CASE Close(a)
  BY <1>8 DEF Close
<1> QED
  BY <1>1, <1>2, <1>3, <1>4, <1>5, <1>6, <1>7, <1>8 DEF Owner

(* What the receive thread does, and an error of its poll, keep it: there  *)
(* is a thread before and after.                                           *)
LEMMA ReceiveLoopKeeps ==
    ASSUME SocketInv, NEW a \in Adapters, ReceiveLoop(a) \/ PollFails(a)
    PROVE  SocketInv'
<1>1. /\ rx[a] # "none"
      /\ \E to \in {"loop", "poll", "recv", "callback", "ended"} :
             rx' = [rx EXCEPT ![a] = to]
      /\ UNCHANGED <<pc, dying, running>>
  BY DEF ReceiveLoop, RxLoop, PollReturns, PollFails, Receive, CallbackReturns, RxGoes
<1> QED
  BY <1>1 DEF SocketInv, SocketTypes, ThreadByOwner

(* Every behaviour keeps the strengthened invariant.                       *)
THEOREM SocketInvariance == SocketSpec => []SocketInv
<1>1. SocketInv /\ [SocketNext]_socketVars => SocketInv'
  <2> SUFFICES ASSUME SocketInv, [SocketNext]_socketVars PROVE SocketInv'
    OBVIOUS
  <2>1. CASE UNCHANGED socketVars
    BY <2>1 DEF socketVars, SocketInv, SocketTypes, ThreadByOwner
  <2>2. ASSUME NEW addressee \in {"us", "others"}, FrameOnAir(addressee)
        PROVE  SocketInv'
    BY <2>2 DEF FrameOnAir, SocketInv, SocketTypes, ThreadByOwner
  <2> QED
    BY <2>1, <2>2, OwnerKeeps, ReceiveLoopKeeps DEF SocketNext
<1> QED
  BY <1>1, SocketInitially, PTL DEF SocketSpec

(* ThreadEndsWithStop, for any number of adapters and any backlog: where   *)
(* the receive thread is in its loop, Stop has not returned.               *)
THEOREM StopEndsThread == SocketSpec => []ThreadEndsWithStop
<1>1. SocketInv => ThreadEndsWithStop
  BY DEF SocketInv, ThreadByOwner, ThreadEndsWithStop
<1> QED
  BY <1>1, SocketInvariance, PTL
=============================================================================
