--------------------------- MODULE ResilienceProofs ---------------------------
(***************************************************************************)
(* Proofs about what stands between a caller and a backend that fails, for *)
(* any number of callers, any thresholds, any ring, any rate and capacity, *)
(* any health checks, keys and label sets.                                 *)
(*                                                                         *)
(* Breakers: the trial needs one fact that the code never writes down:     *)
(* whenever a trial is in flight, half_open_in is set and this half-open   *)
(* state has not lost an earlier trial.  So nobody is admitted beside it,  *)
(* and the outcome that clears half_open_in demotes it to a late call.     *)
(*                                                                         *)
(* Limiters: the rate needs that what the bucket could hand out now and    *)
(* what the worst window has already had fit into one burst together.  The *)
(* count in flight needs that done() comes from a caller it counts, so     *)
(* that it is never zero.                                                  *)
(*                                                                         *)
(* Retries, health checks, caches: RetryInv, HealthInv and KvInv, a cache  *)
(* by its eviction order, which lists a key once and the keys it holds.    *)
(*                                                                         *)
(* Metrics: LinesInv sorts the lines of the datadog engine into piles, and *)
(* a step moves a whole pile or puts the next line on one.  Kept relates   *)
(* the tables of prometheus to the history: an instrument is that of its   *)
(* name's first report the registry could take, and a series has exactly   *)
(* the samples its label set selects.                                      *)
(*                                                                         *)
(* Sums, powers, flattened lists and sorted labels are reasoned about with *)
(* Induct, induction over a concrete set of numbers, and Recursion, that a *)
(* function so defined exists.                                             *)
(***************************************************************************)
EXTENDS MCResilience, FiniteSetTheorems, WellFoundedInduction, TLAPS

\* The parts of the type invariant that different actions disturb.
Roles == {"idle", "refused", "call", "trial", "late"}

MachineTypeOK ==
  /\ flavor \in Flavors
  /\ shut \in BOOLEAN
  /\ state \in {"closed", "open", "half"}
  /\ slept \in 0..Sleep
  /\ trying \in BOOLEAN

LatencyTypeOK == min_rtt \in Nat /\ base \in Nat /\ cur \in Nat /\ samples \in 0..Warmup

CallTypeOK ==
  /\ role \in [Callers -> Roles]
  /\ timed \subseteq {c \in Callers : InFlight(c)}
  /\ calls \in Nat

HistoryTypeOK ==
  /\ marked \in Nat /\ failed \in Nat
  /\ orphaned \in BOOLEAN

LEMMA TypeParts ==
  TypeOK <=> RingTypeOK /\ MachineTypeOK /\ LatencyTypeOK /\ CallTypeOK /\ HistoryTypeOK
BY DEF TypeOK, MachineTypeOK, LatencyTypeOK, CallTypeOK, HistoryTypeOK, Roles

-------------------------------------------------------------------------------
(* The ring.                                                               *)

LEMMA WindowType == Window \in Nat \ {0}
BY RingAssumption DEF Window

LEMMA RemainderType ==
  ASSUME NEW n \in Nat, NEW w \in Nat \ {0}
  PROVE  n % w \in 0..(w - 1)
OBVIOUS

LEMMA AddedType ==
  ASSUME NEW S, NEW f \in [S -> Nat], NEW i, NEW n \in Nat
  PROVE  [f EXCEPT ![i] = @ + n] \in [S -> Nat]
<1>1. CASE i \in S
 <2>1. f[i] + n \in Nat  BY <1>1
 <2>2. QED  BY <2>1, Zenon
<1>2. CASE i \notin S  BY <1>2, Zenon
<1>3. QED  BY <1>1, <1>2

\* A tick after a rotation, the next is due within the window.
LEMMA RotatedAndTicked ==
  ASSUME NEW b \in Nat \ {0}, NEW t \in Nat \ {0}, NEW s \in 0 .. b * t
  PROVE  (IF s \div t = 0 THEN s ELSE 0) + 1 \in 0 .. b * t
<1>1. b * t \in Nat /\ t <= b * t /\ 1 <= b * t  OBVIOUS
<1>2. CASE s \div t = 0
 <2>1. s < t  BY <1>2
 <2> QED  BY <1>1, <1>2, <2>1
<1> QED  BY <1>1, <1>2

\* Whatever is done to the window, it stays a window.
LEMMA RingStep ==
  ASSUME RingTypeOK,
         \/ Rotate \/ Reset \/ RingTick \/ UNCHANGED ring
         \/ \E error \in {0, 1}, between \in BOOLEAN : Count(error, between)
  PROVE  RingTypeOK'
<1> USE WindowType
<1>1. \A f \in [Slots -> Nat] : Rotated(f) \in [Slots -> Nat]  BY DEF Rotated
<1>2. SinceRotated \in 0..Window  BY DEF RingTypeOK, SinceRotated
<1>3. CASE Rotate  BY <1>1, <1>2, <1>3 DEF Rotate, RingTypeOK
<1>4. CASE Reset  BY <1>2, <1>4 DEF Reset, RingTypeOK
<1>9. (phase + 1) % Window \in 0..(Window - 1)
 <2>1. phase + 1 \in Nat  BY DEF RingTypeOK
 <2>2. QED  BY <2>1, RemainderType
<1>5. CASE RingTick  BY <1>5, <1>9 DEF RingTick, RingTypeOK
<1>6. CASE UNCHANGED ring  BY <1>6 DEF ring, RingTypeOK
<1>7. ASSUME NEW error \in {0, 1}, NEW between \in BOOLEAN, Count(error, between) PROVE RingTypeOK'
 <2>1. Rotated(reqs) \in [Slots -> Nat] /\ Rotated(errs) \in [Slots -> Nat]  BY <1>1 DEF RingTypeOK
 <2>2. \A i : [Rotated(reqs) EXCEPT ![i] = @ + 1] \in [Slots -> Nat]  BY <2>1, AddedType
 <2>3. \A i : [Rotated(errs) EXCEPT ![i] = @ + error] \in [Slots -> Nat]  BY <2>1, AddedType
 <2>4. SinceRotated + 1 \in 0..Window
   BY RingAssumption, RotatedAndTicked DEF RingTypeOK, SinceRotated, Steps, Window
 <2>5. reqs' \in [Slots -> Nat] /\ errs' \in [Slots -> Nat]  BY <1>7, <2>2, <2>3 DEF Count
 <2>6. phase' \in 0..(Window - 1) /\ since' \in 0..Window  BY <1>2, <1>7, <1>9, <2>4 DEF Count, RingTypeOK
 <2>7. QED  BY <2>5, <2>6 DEF RingTypeOK
<1>8. QED  BY <1>3, <1>4, <1>5, <1>6, <1>7

-------------------------------------------------------------------------------
(* Types.                                                                  *)

\* Every action does one of five things to the ring.
LEMMA NextOnRing ==
  ASSUME [Next]_vars
  PROVE  \/ Rotate \/ Reset \/ RingTick \/ UNCHANGED ring
         \/ \E error \in {0, 1}, between \in BOOLEAN : Count(error, between)
<1>1. CASE UNCHANGED vars  BY <1>1 DEF vars
<1>2. ASSUME NEW c \in Callers, Asks(c)
      PROVE  Rotate \/ UNCHANGED ring
  BY <1>2 DEF Asks, RefusedShut, HystrixAdmits, HystrixTries, HystrixRefuses,
              SresAdmits, SresRefuses, VegasAdmits, VegasRefuses
<1>3. ASSUME NEW c \in Callers, Marks(c)
      PROVE  Rotate \/ Reset \/ UNCHANGED ring
             \/ \E error \in {0, 1}, between \in BOOLEAN : Count(error, between)
  BY <1>3 DEF Marks, HystrixRecovers, HystrixRelapses, HystrixCounts, SresCounts,
              VegasSucceeds, VegasFails, VegasReturns
<1>4. CASE Tick  BY <1>4 DEF Tick
<1>5. ASSUME NEW c \in Callers, VegasRecords(c) \/ Dropped(c)
      PROVE  UNCHANGED ring  BY <1>5 DEF VegasRecords, Dropped
<1>6. CASE StateObserved \/ Close  BY <1>6 DEF StateObserved, Close
<1>7. QED  BY <1>1, <1>2, <1>3, <1>4, <1>5, <1>6 DEF Next

LEMMA ParametersType ==
  /\ Sleep \in Nat /\ Warmup \in Nat /\ MaxRtt \in Nat
BY BreakerAssumption

LEMMA SampledType ==
  ASSUME LatencyTypeOK, NEW rtt \in Nat
  PROVE  /\ Sampled(rtt).base \in Nat
         /\ Sampled(rtt).cur \in Nat
         /\ Sampled(rtt).samples \in 0..Warmup
BY ParametersType DEF LatencyTypeOK, Sampled

LEMMA EvaluatedType ==
  ASSUME NEW from \in {"closed", "open", "half"}, NEW s
  PROVE  Evaluated(from, s) \in {"closed", "open", "half"}
BY Zenon DEF Evaluated

LEMMA FeedType ==
  ASSUME MachineTypeOK, LatencyTypeOK, NEW from \in {"closed", "open", "half"},
         NEW rtt \in Nat, Feed(from, rtt)
  PROVE  /\ LatencyTypeOK'
         /\ state' \in {"closed", "open", "half"}
         /\ slept' = slept /\ trying' = trying
<1>1. /\ base' = Sampled(rtt).base /\ cur' = Sampled(rtt).cur
      /\ samples' = Sampled(rtt).samples
      /\ state' = Evaluated(from, Sampled(rtt))
      /\ slept' = slept /\ trying' = trying /\ min_rtt' = min_rtt  BY DEF Feed
<1>2. LatencyTypeOK'  BY <1>1, SampledType DEF LatencyTypeOK
<1>3. QED  BY <1>1, <1>2, EvaluatedType

\* Only vegas callers report a latency before they return.
OnlyVegasTimes == timed # {} => flavor = "vegas"

Types ==
  RingTypeOK /\ MachineTypeOK /\ LatencyTypeOK /\ CallTypeOK /\ HistoryTypeOK
  /\ OnlyVegasTimes

LEMMA TypesInit == Init => Types
<1> SUFFICES ASSUME Init PROVE Types  OBVIOUS
<1>1. RingTypeOK  BY WindowType DEF Init, RingInit, RingTypeOK
<1>2. MachineTypeOK /\ LatencyTypeOK
 <2>1. 0 \in 0..Sleep /\ 0 \in 0..Warmup  BY ParametersType
 <2>2. min_rtt \in Nat  BY BreakerAssumption DEF Init
 <2>3. QED  BY <2>1, <2>2 DEF Init, MachineTypeOK, LatencyTypeOK
<1>3. CallTypeOK /\ HistoryTypeOK /\ OnlyVegasTimes  BY DEF Init, CallTypeOK, HistoryTypeOK, OnlyVegasTimes, Roles
<1>4. QED  BY <1>1, <1>2, <1>3 DEF Types

\* The calls of the action that a caller idles through, leaves with, or enters.
LEMMA CallsStep ==
  ASSUME CallTypeOK, OnlyVegasTimes, NEW c \in Callers,
         \/ /\ Idle(c) /\ \E as \in Roles : role' = [role EXCEPT ![c] = as]
            /\ timed' = timed
         \/ /\ role' \in {Returned(c), TrialOver(Returned(c))}
            /\ timed' = timed \ {c} \/ (timed' = timed /\ flavor # "vegas"),
         calls' \in Nat, flavor' = flavor
  PROVE  CallTypeOK' /\ OnlyVegasTimes'
<1>1. role' \in [Callers -> Roles]  BY DEF CallTypeOK, Returned, TrialOver, Roles
<1>2. timed' \subseteq timed  OBVIOUS
<1>3. \A d \in timed' : d \in Callers /\ d # c /\ role[d] \in {"call", "trial", "late"}
  BY DEF CallTypeOK, OnlyVegasTimes, Idle, InFlight
<1>4. \A d \in timed' : role'[d] \in {"call", "trial", "late"}  BY <1>3 DEF CallTypeOK, Returned, TrialOver
<1>5. timed' \subseteq {d \in Callers : InFlight(d)'}  BY <1>3, <1>4 DEF InFlight
<1>6. QED  BY <1>1, <1>2, <1>5 DEF CallTypeOK, OnlyVegasTimes

LEMMA TypesStep == Types /\ [Next]_vars => Types'
<1> SUFFICES ASSUME Types, [Next]_vars PROVE Types'  OBVIOUS
<1> USE DEF Types
<1>1. RingTypeOK'  BY NextOnRing, RingStep
<1>2. CASE UNCHANGED vars
  BY <1>1, <1>2 DEF vars, machine, latency, history, MachineTypeOK, LatencyTypeOK,
     CallTypeOK, HistoryTypeOK, OnlyVegasTimes, InFlight
<1>3. ASSUME NEW c \in Callers, Asks(c) PROVE Types'
 <2>1. LatencyTypeOK' /\ HistoryTypeOK' /\ flavor' = flavor
   BY <1>3 DEF Asks, RefusedShut, HystrixAdmits, HystrixTries, HystrixRefuses,
      SresAdmits, SresRefuses, VegasAdmits, VegasRefuses, Admit, Refuse, latency,
      history, LatencyTypeOK, HistoryTypeOK
 <2>2. MachineTypeOK'
   BY <1>3 DEF Asks, RefusedShut, HystrixAdmits, HystrixTries, HystrixRefuses,
      SresAdmits, SresRefuses, VegasAdmits, VegasRefuses, Admit, Refuse, machine,
      MachineTypeOK
 <2>3. Idle(c) /\ \E as \in Roles : role' = [role EXCEPT ![c] = as]
   BY <1>3 DEF Asks, RefusedShut, HystrixAdmits, HystrixTries, HystrixRefuses,
      SresAdmits, SresRefuses, VegasAdmits, VegasRefuses, Admit, Refuse, Roles
 <2>4. timed' = timed /\ calls' \in Nat
   BY <1>3 DEF Asks, RefusedShut, HystrixAdmits, HystrixTries, HystrixRefuses,
      SresAdmits, SresRefuses, VegasAdmits, VegasRefuses, Admit, Refuse, CallTypeOK
 <2>5. CallTypeOK' /\ OnlyVegasTimes'  BY <2>1, <2>3, <2>4, CallsStep
 <2>6. QED  BY <1>1, <2>1, <2>2, <2>5
<1>4. ASSUME NEW c \in Callers, Marks(c) PROVE Types'
 <2>1. LatencyTypeOK' /\ MachineTypeOK' /\ HistoryTypeOK'
  <3>1. ASSUME NEW error \in {0, 1}, HystrixCounts(c, error) \/ SresCounts(c, error)
        PROVE  LatencyTypeOK' /\ MachineTypeOK' /\ HistoryTypeOK'
    BY <3>1, ParametersType DEF HystrixCounts, SresCounts, SleptOn, machine, latency,
       LatencyTypeOK, MachineTypeOK, HistoryTypeOK
  <3>2. CASE HystrixRecovers(c) \/ HystrixRelapses(c)
   <4>1. 0 \in 0..Sleep  BY ParametersType
   <4>2. LatencyTypeOK' /\ HistoryTypeOK'
    <5>1. LatencyTypeOK'  BY <3>2 DEF HystrixRecovers, HystrixRelapses, latency, LatencyTypeOK
    <5>2. marked' \in {0, marked} /\ failed' \in {0, failed} /\ orphaned' = FALSE
      BY <3>2 DEF HystrixRecovers, HystrixRelapses
    <5>3. marked' \in Nat /\ failed' \in Nat  BY <5>2 DEF HistoryTypeOK
    <5>4. QED  BY <5>1, <5>2, <5>3, Zenon DEF HistoryTypeOK
   <4>3. MachineTypeOK'  BY <3>2, <4>1 DEF HystrixRecovers, HystrixRelapses, MachineTypeOK
   <4>4. QED  BY <4>2, <4>3
  <3>3. CASE VegasSucceeds(c)
   <4>1. \E from \in {"closed", "open", "half"} : Feed(from, 0)
     BY <3>3 DEF VegasSucceeds, record_latency, MachineTypeOK
   <4>2. QED  BY <3>3, <4>1, FeedType DEF VegasSucceeds, VegasReturns, history, MachineTypeOK, HistoryTypeOK
  <3>4. CASE VegasFails(c)
   <4>1. flavor' = flavor /\ shut' = shut /\ HistoryTypeOK'
     BY <3>4 DEF VegasFails, VegasReturns, history, HistoryTypeOK
   <4>2. CASE state = "half"  BY <3>4, <4>1, <4>2 DEF VegasFails, latency, MachineTypeOK, LatencyTypeOK
   <4>3. CASE state # "half"
    <5>1. Feed(state, MaxRtt)  BY <3>4, <4>3 DEF VegasFails
    <5>2. QED  BY <4>1, <5>1, FeedType, ParametersType DEF MachineTypeOK
   <4>4. QED  BY <4>2, <4>3
  <3>5. QED  BY <1>4, <3>1, <3>2, <3>3, <3>4 DEF Marks
 <2>2. role' \in {Returned(c), TrialOver(Returned(c))}
   BY <1>4 DEF Marks, HystrixRecovers, HystrixRelapses, HystrixCounts, SresCounts,
      VegasSucceeds, VegasFails, VegasReturns
 <2>3. timed' = timed \ {c} \/ (timed' = timed /\ flavor # "vegas")
   BY <1>4 DEF Marks, HystrixRecovers, HystrixRelapses, HystrixCounts, SresCounts,
      VegasSucceeds, VegasFails, VegasReturns
 <2>4. calls' = calls /\ flavor' = flavor
   BY <1>4 DEF Marks, HystrixRecovers, HystrixRelapses, HystrixCounts, SresCounts,
      VegasSucceeds, VegasFails, VegasReturns
 <2>5. CallTypeOK' /\ OnlyVegasTimes'  BY <2>2, <2>3, <2>4, CallsStep DEF CallTypeOK
 <2>6. QED  BY <1>1, <2>1, <2>5
<1>5. ASSUME NEW c \in Callers, VegasRecords(c) PROVE Types'
 <2>1. PICK rtt \in Rtts : record_latency(rtt)  BY <1>5 DEF VegasRecords
 <2>2. \E from \in {"closed", "open", "half"} : Feed(from, rtt)  BY <2>1 DEF record_latency, MachineTypeOK
 <2>3. /\ LatencyTypeOK' /\ state' \in {"closed", "open", "half"}
       /\ slept' = slept /\ trying' = trying  BY <2>2, FeedType, BreakerAssumption
 <2>4. CallTypeOK' /\ OnlyVegasTimes' /\ HistoryTypeOK'
   BY <1>5 DEF VegasRecords, history, CallTypeOK, OnlyVegasTimes, HistoryTypeOK, InFlight
 <2>5. QED  BY <1>1, <1>5, <2>3, <2>4 DEF VegasRecords, MachineTypeOK
<1>6. ASSUME NEW c \in Callers, Dropped(c) PROVE Types'
 <2>1. LatencyTypeOK' /\ MachineTypeOK' /\ HistoryTypeOK'
   BY <1>6 DEF Dropped, machine, latency, LatencyTypeOK, MachineTypeOK, HistoryTypeOK
 <2>2. CallTypeOK' /\ OnlyVegasTimes'  BY <1>6, CallsStep DEF Dropped, CallTypeOK
 <2>3. QED  BY <1>1, <2>1, <2>2
<1>7. CASE StateObserved \/ Close \/ Tick
 <2>1. LatencyTypeOK' /\ HistoryTypeOK'
   BY <1>7 DEF StateObserved, Close, Tick, latency, history, LatencyTypeOK, HistoryTypeOK
 <2>2. CallTypeOK' /\ OnlyVegasTimes'  BY <1>7 DEF StateObserved, Close, Tick, CallTypeOK, OnlyVegasTimes, InFlight
 <2>3. MachineTypeOK'
  <3>1. CASE StateObserved \/ Close  BY <3>1 DEF StateObserved, Close, machine, MachineTypeOK
  <3>2. CASE Tick  BY <3>2, ParametersType DEF Tick, SleptOn, MachineTypeOK
  <3>3. QED  BY <1>7, <3>1, <3>2
 <2>4. QED  BY <1>1, <2>1, <2>2, <2>3
<1>8. QED  BY <1>2, <1>3, <1>4, <1>5, <1>6, <1>7 DEF Next

LEMMA TypesAlways == Spec => []Types
BY TypesInit, TypesStep, PTL DEF Spec

\* Type correctness of the breaker and its window, for any parameters.
THEOREM TypeCorrect == Spec => []TypeOK
<1>1. Types => TypeOK  BY TypeParts DEF Types
<1>2. QED  BY <1>1, TypesAlways, PTL

-------------------------------------------------------------------------------
(* The half-open trial.                                                    *)

TrialInv ==
  /\ TrialCanStillDecide
  /\ OneTrialPerSleep
  /\ trying => flavor = "hystrix"
  /\ orphaned => trying
  /\ \A c \in Callers : role[c] = "trial" => trying /\ ~orphaned

LEMMA TrialStep == Types /\ TrialInv /\ [Next]_vars => TrialInv'
<1> SUFFICES ASSUME Types, TrialInv, [Next]_vars PROVE TrialInv'  OBVIOUS
<1> USE DEF TrialInv, TrialCanStillDecide, OneTrialPerSleep
<1>1. role \in [Callers -> Roles]  BY DEF Types, CallTypeOK
<1>2. CASE UNCHANGED vars  BY <1>2 DEF vars, machine, history
\* Somebody enters as anything but the trial, or is refused.
<1>3. ASSUME NEW c \in Callers, NEW as \in Roles \ {"trial"}, Idle(c),
             role' = [role EXCEPT ![c] = as], UNCHANGED <<machine, orphaned, flavor>>
      PROVE  TrialInv'  BY <1>1, <1>3 DEF machine, Idle
\* Somebody who is not the trial leaves a half-open state alone.
<1>4. ASSUME NEW c \in Callers, ~trying, role' = Returned(c), ~trying', ~orphaned',
             UNCHANGED flavor
      PROVE  TrialInv'  BY <1>1, <1>4 DEF Returned
\* The half-open state ends: no trial is left.
<1>5. ASSUME NEW c \in Callers, role' = TrialOver(Returned(c)), ~trying', ~orphaned'
      PROVE  TrialInv'  BY <1>1, <1>5 DEF Returned, TrialOver
<1>6. ASSUME NEW c \in Callers, Asks(c) PROVE TrialInv'
 <2>1. CASE HystrixTries(c)
  <3>1. ~trying /\ Idle(c) /\ flavor = "hystrix"  BY <2>1 DEF HystrixTries
  <3>2. role' = [role EXCEPT ![c] = "trial"] /\ trying' /\ state' = "half"
        /\ orphaned' = orphaned /\ flavor' = flavor  BY <2>1 DEF HystrixTries, Admit, history
  <3>3. QED  BY <1>1, <3>1, <3>2
 <2>2. CASE RefusedShut(c) \/ HystrixRefuses(c) \/ SresRefuses(c) \/ VegasRefuses(c)
   BY <1>3, <2>2 DEF RefusedShut, HystrixRefuses, SresRefuses, VegasRefuses, Refuse, history, Roles
 <2>3. CASE HystrixAdmits(c) \/ SresAdmits(c) \/ VegasAdmits(c)
   BY <1>3, <2>3 DEF HystrixAdmits, SresAdmits, VegasAdmits, Admit, history, Roles
 <2>4. QED  BY <1>6, <2>1, <2>2, <2>3 DEF Asks
<1>7. ASSUME NEW c \in Callers, Marks(c) PROVE TrialInv'
 <2>1. CASE HystrixRecovers(c) \/ HystrixRelapses(c)  BY <1>5, <2>1 DEF HystrixRecovers, HystrixRelapses
 <2>2. ASSUME NEW error \in {0, 1}, HystrixCounts(c, error) PROVE TrialInv'
  <3>1. ~trying /\ ~orphaned  BY <2>2 DEF HystrixCounts
  <3>2. QED  BY <1>4, <2>2, <3>1 DEF HystrixCounts
 <2>3. ASSUME flavor # "hystrix",
              VegasSucceeds(c) \/ VegasFails(c)
              \/ \E error \in {0, 1} : SresCounts(c, error)
       PROVE  TrialInv'
  <3>1. ~trying /\ ~orphaned  BY <2>3
  <3>2. role' = Returned(c) /\ trying' = trying /\ orphaned' = orphaned
        /\ flavor' = flavor
    BY <2>3 DEF VegasSucceeds, VegasFails, VegasReturns, SresCounts, record_latency, Feed, machine, history
  <3>3. QED  BY <1>4, <3>1, <3>2
 <2>4. QED  BY <1>7, <2>1, <2>2, <2>3 DEF Marks, VegasSucceeds, VegasFails, VegasReturns, SresCounts
<1>8. ASSUME NEW c \in Callers, VegasRecords(c) PROVE TrialInv'
 <2>1. ~trying  BY <1>8 DEF VegasRecords
 <2>2. role' = role /\ trying' = trying /\ orphaned' = orphaned /\ flavor' = flavor
   BY <1>8 DEF VegasRecords, record_latency, Feed, history
 <2>3. QED  BY <2>1, <2>2
<1>9. ASSUME NEW c \in Callers, Dropped(c) PROVE TrialInv'
 <2>1. role' = [role EXCEPT ![c] = "idle"] /\ trying' = trying /\ state' = state
       /\ flavor' = flavor /\ orphaned' = (orphaned \/ role[c] = "trial")  BY <1>9 DEF Dropped, Returned, machine
 <2>2. CASE role[c] = "trial"  BY <1>1, <2>1, <2>2
 <2>3. CASE role[c] # "trial"  BY <1>1, <2>1, <2>3
 <2>4. QED  BY <2>2, <2>3
<1>10. CASE StateObserved \/ Close \/ Tick
 <2>1. trying => state' = state  BY <1>10 DEF StateObserved, Close, Tick, machine
 <2>2. role' = role /\ trying' = trying /\ orphaned' = orphaned /\ flavor' = flavor
   BY <1>10 DEF StateObserved, Close, Tick, machine, history
 <2>3. QED  BY <2>1, <2>2
<1>11. QED  BY <1>2, <1>6, <1>7, <1>8, <1>9, <1>10 DEF Next

LEMMA TrialAlways == Spec => []TrialInv
<1>1. Init => TrialInv  BY DEF Init, TrialInv, TrialCanStillDecide, OneTrialPerSleep
<1>2. QED  BY <1>1, TypesAlways, TrialStep, PTL DEF Spec

\* Whatever the order of late outcomes, dropped futures and observers of the
\* state, a half-open hystrix breaker has at most one trial in flight.
THEOREM OneTrialAtATime == Spec => []OneTrialPerSleep
<1>1. TrialInv => OneTrialPerSleep  BY DEF TrialInv
<1>2. QED  BY <1>1, TrialAlways, PTL

\* half_open_in, which refuses everybody else, is never left set outside the
\* half-open state or after the call that set it has returned an outcome.
THEOREM TrialKeepsItsTurn == Spec => []TrialCanStillDecide
<1>1. TrialInv => TrialCanStillDecide  BY DEF TrialInv
<1>2. QED  BY <1>1, TrialAlways, PTL

-------------------------------------------------------------------------------
(* The latency.                                                            *)

\* Zero stands for "no sample yet" in both fields at once.
LatencyInv ==
  /\ InflationNotNegative
  /\ min_rtt > 0 => (base = 0 <=> cur = 0)

LEMMA SampleKeepsOrder ==
  ASSUME LatencyTypeOK, LatencyInv, min_rtt > 0, NEW rtt \in Nat
  PROVE  /\ Sampled(rtt).base <= Sampled(rtt).cur
         /\ Sampled(rtt).base = 0 <=> Sampled(rtt).cur = 0
BY ParametersType DEF LatencyTypeOK, LatencyInv, InflationNotNegative, Sampled

LEMMA FeedKeepsOrder ==
  ASSUME LatencyTypeOK, LatencyInv, NEW rtt \in Nat,
         \E from \in {"closed", "open", "half"} : Feed(from, rtt)
  PROVE  LatencyInv'
<1>1. base' = Sampled(rtt).base /\ cur' = Sampled(rtt).cur /\ min_rtt' = min_rtt  BY DEF Feed
<1>2. QED  BY <1>1, SampleKeepsOrder DEF LatencyInv, InflationNotNegative

LEMMA LatencyStep ==
  Types /\ LatencyInv /\ [Next]_vars => LatencyInv'
<1> SUFFICES ASSUME Types, LatencyInv, [Next]_vars PROVE LatencyInv'  OBVIOUS
<1>1. LatencyTypeOK /\ state \in {"closed", "open", "half"}  BY DEF Types, MachineTypeOK
<1>2. CASE UNCHANGED latency  BY <1>2 DEF latency, LatencyInv, InflationNotNegative
<1>3. CASE \E c \in Callers : VegasRecords(c)
 <2>1. PICK rtt \in Rtts : record_latency(rtt)  BY <1>3 DEF VegasRecords
 <2>2. \E from \in {"closed", "open", "half"} : Feed(from, rtt)  BY <1>1, <2>1 DEF record_latency
 <2>3. QED  BY <1>1, <2>2, FeedKeepsOrder, BreakerAssumption
<1>4. CASE \E c \in Callers : VegasSucceeds(c)
 <2>1. \E from \in {"closed", "open", "half"} : Feed(from, 0)  BY <1>1, <1>4 DEF VegasSucceeds, record_latency
 <2>2. QED  BY <1>1, <2>1, FeedKeepsOrder
<1>5. CASE \E c \in Callers : VegasFails(c)
 <2>1. CASE UNCHANGED latency  BY <1>2, <2>1
 <2>2. CASE Feed(state, MaxRtt)  BY <1>1, <2>2, FeedKeepsOrder, ParametersType
 <2>3. QED  BY <1>5, <2>1, <2>2 DEF VegasFails
<1>6. UNCHANGED latency
      \/ \E c \in Callers : VegasRecords(c) \/ VegasSucceeds(c) \/ VegasFails(c)
 <2>1. CASE UNCHANGED vars  BY <2>1 DEF vars
 <2>2. ASSUME NEW c \in Callers, Asks(c) PROVE UNCHANGED latency
   BY <2>2 DEF Asks, RefusedShut, HystrixAdmits, HystrixTries, HystrixRefuses,
      SresAdmits, SresRefuses, VegasAdmits, VegasRefuses, Admit, Refuse
 <2>3. ASSUME NEW c \in Callers, Marks(c)
       PROVE  UNCHANGED latency \/ VegasSucceeds(c) \/ VegasFails(c)
   BY <2>3 DEF Marks, HystrixRecovers, HystrixRelapses, HystrixCounts, SresCounts
 <2>4. CASE (\E c \in Callers : Dropped(c)) \/ StateObserved \/ Close \/ Tick
   BY <2>4 DEF Dropped, StateObserved, Close, Tick
 <2>5. QED  BY <2>1, <2>2, <2>3, <2>4 DEF Next
<1>7. QED  BY <1>2, <1>3, <1>4, <1>5, <1>6

\* For every min_rtt the code accepts: in a breaker whose min_rtt is above zero
\* the smoothed round-trip time never falls below the baseline, whatever samples
\* come in which order, those of zero that mark_success gives included
\* (VegasBreaker::update_rtt).
THEOREM InflationIsNotNegative == Spec => []InflationNotNegative
<1>1. Init => LatencyInv  BY DEF Init, LatencyInv, InflationNotNegative
<1>2. Types /\ LatencyInv /\ [Next]_vars => LatencyInv'  BY LatencyStep
<1>3. LatencyInv => InflationNotNegative  BY DEF LatencyInv
<1>4. QED  BY <1>1, <1>2, <1>3, TypesAlways, PTL DEF Spec

-------------------------------------------------------------------------------
(* The rate of a token bucket.                                             *)

\* What take_locked would find now.
Available == Replenished

\* tokens and accrued stay within the capacity each, as a bucket's level does,
\* and the meter leaves room for what is there.
Balanced ==
  /\ tokens <= burst
  /\ accrued <= burst
  /\ ~edge => meter + Available <= burst

BucketInv == BucketTypeOK /\ Balanced

\* The delay of a caller that lacks something is a whole number of ticks.
LEMMA WaitIsNat ==
  ASSUME BucketTypeOK, Replenished \in Nat
  PROVE  Wait \in Nat
<1>1. CASE Replenished >= Token  BY <1>1 DEF Wait
<1>2. CASE ~(Replenished >= Token)
 <2>1. Token - Replenished \in Nat  BY <1>2, BucketAssumption
 <2>2. 2 * (Token - Replenished) + Rate \in Nat /\ 2 * Rate \in Nat \ {0}  BY <2>1, BucketAssumption
 <2> QED  BY <1>2, <2>2, SMT DEF Wait
<1> QED  BY <1>1, <1>2

\* The level is a number no higher than the capacity.
LEMMA LevelIsNat ==
  ASSUME BucketTypeOK
  PROVE  Replenished \in Nat /\ Replenished <= burst
BY BucketAssumption DEF BucketTypeOK, Replenished, Least

\* Taking keeps the balance: a whole token moves from the level to the meter,
\* and who passes without one sets edge.
LEMMA TakeKeeps ==
  ASSUME BucketInv, TakeLocked, UNCHANGED burst
  PROVE  /\ tokens' \in Nat /\ accrued' \in Nat /\ meter' \in Nat /\ edge' \in BOOLEAN
         /\ Balanced'
<1>1. Replenished \in Nat /\ Replenished <= burst  BY LevelIsNat DEF BucketInv
<1>2. /\ burst \in Nat /\ meter \in Nat /\ edge \in BOOLEAN /\ Token \in Nat \ {0}
  BY BucketAssumption DEF BucketInv, BucketTypeOK
<1>3. /\ tokens' = (IF Replenished >= Token THEN Replenished - Token ELSE Replenished)
      /\ accrued' = 0
      /\ meter' = (IF Wait = 0 THEN meter + Token ELSE meter)
      /\ burst' = burst  BY DEF TakeLocked
<1>4. edge' = (edge \/ (Wait = 0 /\ Replenished < Token))  BY DEF TakeLocked
<1>5. tokens' \in Nat /\ tokens' <= burst /\ accrued' \in Nat /\ meter' \in Nat  BY <1>1, <1>2, <1>3
<1>6. edge' \in BOOLEAN  BY <1>4
<1>7. Available' = tokens'  BY <1>1, <1>2, <1>3, <1>5 DEF Available, Replenished, Least
<1>8. ASSUME ~edge'
      PROVE  meter' + Available' <= burst'
 <2>1. ~edge /\ ~(Wait = 0 /\ Replenished < Token)  BY <1>4, <1>8
 <2>2. meter + Replenished <= burst  BY <2>1 DEF BucketInv, Balanced, Available
 <2>3. CASE Wait = 0
  <3>1. Replenished >= Token  BY <1>1, <1>2, <2>1, <2>3
  <3> QED  BY <1>1, <1>2, <1>3, <1>7, <2>2, <2>3, <3>1
 <2>4. CASE Wait # 0
  <3>1. ~(Replenished >= Token)  BY <2>4 DEF Wait
  <3> QED  BY <1>1, <1>2, <1>3, <1>7, <2>2, <2>4, <3>1
 <2> QED  BY <2>3, <2>4
<1> QED  BY <1>2, <1>3, <1>5, <1>6, <1>8 DEF Balanced

\* A tick adds to the level no more than it takes off the meter.
LEMMA FlowKeeps ==
  ASSUME BucketInv, Flow
  PROVE  BucketInv'
<1>1. /\ burst \in Nat /\ tokens \in Nat /\ accrued \in Nat /\ meter \in Nat
      /\ Rate \in Nat /\ edge \in BOOLEAN /\ burst \in Bursts  BY BucketAssumption DEF BucketInv, BucketTypeOK
<1>2. /\ burst' = burst /\ tokens' = tokens /\ edge' = edge
      /\ accrued' = Least(accrued + Rate, burst)
      /\ meter' = (IF meter > Rate THEN meter - Rate ELSE 0)  BY DEF Flow
<1>3. delay' \in [Takers -> Nat]  BY DEF Flow, BucketInv, BucketTypeOK
<1>4. accrued' \in Nat /\ accrued' <= burst' /\ meter' \in Nat  BY <1>1, <1>2 DEF Least
<1>5. BucketTypeOK'  BY <1>1, <1>2, <1>3, <1>4 DEF Flow, BucketInv, BucketTypeOK
<1>8. ASSUME ~edge'
      PROVE  meter' + Available' <= burst'
 <2>1. meter + Available <= burst  BY <1>2, <1>8 DEF BucketInv, Balanced
 <2>a. burst \in Nat /\ meter \in Nat /\ Rate \in Nat /\ burst' = burst  BY <1>1, <1>2
 <2>b. meter' = (IF meter > Rate THEN meter - Rate ELSE 0)  BY <1>2
 <2>2. CASE meter > Rate
  <3>1. meter' = meter - Rate  BY <2>b, <2>2
  <3> QED  BY <1>1, <1>2, <2>a, <2>1, <2>2, <3>1 DEF Available, Replenished, Least
 <2>3. CASE ~(meter > Rate)
  <3>1. meter' = 0  BY <2>b, <2>3
  <3> QED  BY <1>1, <1>2, <1>4, <2>a, <3>1 DEF Available, Replenished, Least
 <2> QED  BY <2>2, <2>3
<1> QED  BY <1>2, <1>4, <1>5, <1>8 DEF BucketInv, Balanced

LEMMA InvInit == BucketInit => BucketInv
<1> SUFFICES ASSUME BucketInit PROVE BucketInv  OBVIOUS
<1>1. /\ burst \in Bursts /\ burst \in Nat /\ tokens = burst /\ accrued = 0 /\ meter = 0
      /\ takes = 0 /\ tbClosed = FALSE /\ edge = FALSE  BY BucketAssumption DEF BucketInit
<1>2. /\ waiter \in [Takers -> {"idle", "ready", "asleep"}]
      /\ delay \in [Takers -> Nat]  BY DEF BucketInit
<1>4. BucketTypeOK  BY <1>1, <1>2 DEF BucketTypeOK
<1>3. Available = burst  BY <1>1 DEF Available, Replenished, Least
<1> QED  BY <1>1, <1>3, <1>4 DEF BucketInv, Balanced

LEMMA InvNext == BucketInv /\ [BucketNext]_bucketVars => BucketInv'
<1> SUFFICES ASSUME BucketInv, [BucketNext]_bucketVars
             PROVE  BucketInv'  OBVIOUS
<1>a. /\ burst \in Bursts /\ tokens \in Nat /\ accrued \in Nat /\ meter \in Nat /\ takes \in Nat
      /\ tbClosed \in BOOLEAN /\ edge \in BOOLEAN
      /\ waiter \in [Takers -> {"idle", "ready", "asleep"}]
      /\ delay \in [Takers -> Nat]  BY DEF BucketInv, BucketTypeOK
<1>b. Balanced  BY DEF BucketInv
<1>1. ASSUME NEW c \in Takers, Allow(c)
      PROVE  BucketInv'
 <2>1. TakeLocked /\ UNCHANGED burst  BY <1>1 DEF Allow
 <2>2. takes' \in Nat /\ UNCHANGED <<burst, tbClosed, waiter, delay>>  BY <1>1, <1>a DEF Allow
 <2> QED  BY <1>a, <2>1, <2>2, TakeKeeps DEF BucketInv, BucketTypeOK
<1>2. ASSUME NEW c \in Takers, StartWait(c)
      PROVE  BucketInv'
  BY <1>2, <1>a, <1>b DEF StartWait, BucketInv, BucketTypeOK, Balanced, Available, Replenished
<1>3. ASSUME NEW c \in Takers, LookAgain(c)
      PROVE  BucketInv'
 <2>1. UNCHANGED <<burst, tbClosed, takes>>  BY <1>3 DEF LookAgain
 <2>2. CASE waiter' = [waiter EXCEPT ![c] = "idle"] /\ UNCHANGED <<tokens, accrued, delay, meter, edge>>
   BY <1>a, <1>b, <2>1, <2>2 DEF BucketInv, BucketTypeOK, Balanced, Available, Replenished
 <2>3. CASE /\ TakeLocked
            /\ waiter' = [waiter EXCEPT ![c] = IF Wait = 0 THEN "idle" ELSE "asleep"]
            /\ delay' = [delay EXCEPT ![c] = Wait]
  <3>1. Wait \in Nat  BY WaitIsNat, LevelIsNat DEF BucketInv
  <3>2. delay' \in [Takers -> Nat] /\ waiter' \in [Takers -> {"idle", "ready", "asleep"}]  BY <1>a, <2>3, <3>1
  <3> QED  BY <1>a, <2>1, <2>3, <3>2, TakeKeeps DEF BucketInv, BucketTypeOK
 <2> QED  BY <1>3, <2>2, <2>3 DEF LookAgain
<1>4. ASSUME NEW c \in Takers, Wake(c) \/ DropWait(c)
      PROVE  BucketInv'
 <2>1. /\ waiter' \in [Takers -> {"idle", "ready", "asleep"}]
       /\ delay' \in [Takers -> Nat]
       /\ UNCHANGED <<burst, tokens, accrued, tbClosed, takes, meter, edge>>  BY <1>4, <1>a DEF Wake, DropWait
 <2> QED  BY <1>a, <1>b, <2>1 DEF BucketInv, BucketTypeOK, Balanced, Available, Replenished
<1>5. CASE CloseBucket
  BY <1>5, <1>a, <1>b DEF CloseBucket, BucketInv, BucketTypeOK, Balanced, Available, Replenished
<1>6. CASE Flow  BY <1>6, FlowKeeps
<1>7. CASE UNCHANGED bucketVars
  BY <1>7, <1>a, <1>b DEF bucketVars, BucketInv, BucketTypeOK, Balanced, Available, Replenished
<1> QED  BY <1>1, <1>2, <1>3, <1>4, <1>5, <1>6, <1>7 DEF BucketNext

\* The meter alone stays below what level and meter make together.
LEMMA BucketKeepsRate == BucketInv => RateHolds
<1> SUFFICES ASSUME BucketInv, ~edge PROVE meter <= burst  BY DEF RateHolds
<1>1. Replenished \in Nat  BY LevelIsNat DEF BucketInv
<1>2. meter + Replenished <= burst  BY DEF BucketInv, Balanced, Available
<1>3. meter \in Nat /\ burst \in Nat  BY BucketAssumption DEF BucketInv, BucketTypeOK
<1> QED  BY <1>1, <1>2, <1>3

\* Over every stretch of time the callers of one bucket are handed no more than
\* one burst and what flowed in meanwhile, whatever their number, their order
\* and the moments at which they come (TokenBucket::take_locked).
THEOREM RateIsKept == BucketSpec => []RateHolds
BY BucketKeepsRate, InvInit, InvNext, PTL DEF BucketSpec

-------------------------------------------------------------------------------
(* What the BBR limiter counts in flight.                                  *)

\* The callers that hold a place: admitted, or dropped before done().
Placed == {c \in BbrCallers : request[c] \in {"admitted", "lost"}}

BbrInv ==
  /\ request \in [BbrCallers -> {"idle", "waiting", "admitted", "lost"}]
  /\ BbrAccounts

LEMMA PlacesAreFinite ==
  IsFiniteSet(Placed) /\ Cardinality(Placed) \in Nat
BY FS_Subset, FS_CardinalityType, BbrAssumption DEF Placed

\* An admission takes the place it counts, and a refusal takes none.
LEMMA AskKeeps ==
  ASSUME BbrInv, NEW c \in BbrCallers, NEW how \in {"idle", "waiting"},
         request[c] \in {"idle", "waiting"}, Ask(c, how)
  PROVE  BbrInv'
<1>1. CASE inflight >= max_inflight'
 <2>1. request' = [request EXCEPT ![c] = how] /\ inflight' = inflight  BY <1>1 DEF Ask
 <2>2. Placed' = Placed  BY <2>1 DEF BbrInv, Placed
 <2> QED  BY <2>1, <2>2 DEF BbrInv, BbrAccounts, Placed
<1>2. CASE ~(inflight >= max_inflight')
 <2>1. request' = [request EXCEPT ![c] = "admitted"] /\ inflight' = inflight + 1  BY <1>2 DEF Ask
 <2>2. Placed' = Placed \cup {c} /\ c \notin Placed  BY <2>1 DEF BbrInv, Placed
 <2>3. Cardinality(Placed') = Cardinality(Placed) + 1  BY <2>2, FS_AddElement, PlacesAreFinite
 <2> QED  BY <2>1, <2>3 DEF BbrInv, BbrAccounts, Placed
<1> QED  BY <1>1, <1>2

\* done() gives back the place of the caller that calls it, and only that one:
\* the count is above zero, so saturating_sub never swallows a return.
LEMMA DoneKeeps ==
  ASSUME BbrInv, NEW c \in BbrCallers, NEW rtt \in BbrRtts, Done(c, rtt)
  PROVE  BbrInv'
<1>1. /\ request[c] = "admitted" /\ request' = [request EXCEPT ![c] = "idle"]
      /\ inflight' = (IF inflight > 0 THEN inflight - 1 ELSE 0)  BY DEF Done, Finished
<1>2. Placed' = Placed \ {c} /\ c \in Placed  BY <1>1 DEF BbrInv, Placed
<1>3. Cardinality(Placed') = Cardinality(Placed) - 1  BY <1>2, FS_RemoveElement, PlacesAreFinite
<1>4. Cardinality(Placed') \in Nat  BY <1>2, FS_RemoveElement, FS_CardinalityType, PlacesAreFinite
<1>5. inflight = Cardinality(Placed)  BY DEF BbrInv, BbrAccounts, Placed
<1>6. inflight' = Cardinality(Placed')  BY <1>1, <1>3, <1>4, <1>5, PlacesAreFinite
<1> QED  BY <1>1, <1>6 DEF BbrInv, BbrAccounts, Placed

LEMMA BbrInvInit == BbrInit => BbrInv
<1> SUFFICES ASSUME BbrInit PROVE BbrInv  OBVIOUS
<1>1. request = [c \in BbrCallers |-> "idle"] /\ inflight = 0  BY DEF BbrInit
<1>2. Placed = {}  BY <1>1 DEF Placed
<1> QED  BY <1>1, <1>2, FS_EmptySet DEF BbrInv, BbrAccounts, Placed

LEMMA BbrInvNext == BbrInv /\ [BbrNext]_bbrVars => BbrInv'
<1> SUFFICES ASSUME BbrInv, [BbrNext]_bbrVars
             PROVE  BbrInv'  OBVIOUS
<1>1. ASSUME NEW c \in BbrCallers, BbrAllow(c)
      PROVE  BbrInv'  BY <1>1, AskKeeps DEF BbrAllow
<1>2. ASSUME NEW c \in BbrCallers, BbrWait(c)
      PROVE  BbrInv'
 <2>1. /\ request[c] = "idle" /\ request' = [request EXCEPT ![c] = "waiting"]
       /\ inflight' = inflight  BY <1>2 DEF BbrWait
 <2>2. Placed' = Placed  BY <2>1 DEF BbrInv, Placed
 <2> QED  BY <2>1, <2>2 DEF BbrInv, BbrAccounts, Placed
<1>3. ASSUME NEW c \in BbrCallers, BbrPoll(c)
      PROVE  BbrInv'
 <2>1. CASE Ask(c, "waiting")  BY <1>3, <2>1, AskKeeps DEF BbrPoll
 <2>2. CASE request' = [request EXCEPT ![c] = "idle"] /\ inflight' = inflight
  <3>1. Placed' = Placed  BY <1>3, <2>2 DEF BbrPoll, BbrInv, Placed
  <3> QED  BY <2>2, <3>1 DEF BbrInv, BbrAccounts, Placed
 <2> QED  BY <1>3, <2>1, <2>2 DEF BbrPoll
<1>4. ASSUME NEW c \in BbrCallers, Lose(c)
      PROVE  BbrInv'
 <2>1. /\ request[c] = "admitted" /\ request' = [request EXCEPT ![c] = "lost"]
       /\ inflight' = inflight  BY <1>4 DEF Lose
 <2>2. Placed' = Placed  BY <2>1 DEF BbrInv, Placed
 <2> QED  BY <2>1, <2>2 DEF BbrInv, BbrAccounts, Placed
<1>5. ASSUME NEW c \in BbrCallers, NEW rtt \in BbrRtts, Done(c, rtt)
      PROVE  BbrInv'  BY <1>5, DoneKeeps
<1>6. CASE BbrClose \/ BbrTick \/ UNCHANGED bbrVars  BY <1>6 DEF BbrClose, BbrTick, bbrVars, BbrInv, BbrAccounts
<1> QED  BY <1>1, <1>2, <1>3, <1>4, <1>5, <1>6 DEF BbrNext

\* Whoever asks two limiters at once, in whatever order, and however many callers
\* are dropped: a bucket hands out no more than its rate allows, and bbr counts
\* in flight exactly those it admitted and that have not come back
\* (TokenBucket::take_locked; BbrLimiter::allow and done).
THEOREM LimitsAreKept == ResilienceSpec => []LimitsHold
<1>1. ResilienceInit => BucketInv /\ BbrInv  BY InvInit, BbrInvInit DEF ResilienceInit
<1>2. BucketInv /\ BbrInv /\ [ResilienceNext]_resilienceVars => BucketInv' /\ BbrInv'
 <2> SUFFICES ASSUME BucketInv, BbrInv, [ResilienceNext]_resilienceVars
              PROVE  BucketInv' /\ BbrInv'  OBVIOUS
 <2>1. [BucketNext]_bucketVars /\ [BbrNext]_bbrVars
   BY DEF ResilienceNext, resilienceVars, InBreaker, InBucket, InBbr, InRetry, InHealth, InCache, InMetrics
 <2> QED  BY <2>1, InvNext, BbrInvNext
<1>3. BucketInv /\ BbrInv => LimitsHold  BY BucketKeepsRate DEF LimitsHold, BbrInv
<1> QED  BY <1>1, <1>2, <1>3, PTL DEF ResilienceSpec

-------------------------------------------------------------------------------
(* Retries.                                                                *)

\* A set of numbers that has an element has a least one.
LEMMA LeastElement ==
  ASSUME NEW T, T \subseteq Nat, T # {}
  PROVE  \E x \in T : \A y \in T : x <= y
<1> DEFINE Less == {ss \in Nat \X Nat : ss[1] < ss[2]}
<1>1. IsWellFoundedOn(Less, Nat)  BY NatLessThanWellFounded DEF OpToRel
<1>2. PICK x \in T : \A y \in T : ~ (<<y, x>> \in Less)
 <2> HIDE DEF Less
 <2> QED  BY <1>1, WFMin
<1>3. ASSUME NEW y \in T PROVE x <= y
 <2>1. ~(y < x)  BY <1>2
 <2> QED  BY <2>1
<1> QED  BY <1>3

\* A set that holds 0 and, with a number, the next holds every number.
LEMMA Induct ==
  ASSUME NEW T, 0 \in T, \A n \in Nat : n \in T => n + 1 \in T
  PROVE  Nat \subseteq T
<1> SUFFICES ASSUME NEW m \in Nat, m \notin T PROVE FALSE  OBVIOUS
<1>1. PICK x \in Nat \ T : \A y \in Nat \ T : x <= y  BY LeastElement
<1>2. x - 1 \in Nat /\ x - 1 \in T  BY <1>1
<1> QED  BY <1>1, <1>2

\* The powers of the factor exist, so the capped one is a delay.
LEMMA ExponentialIsCapped ==
  ASSUME NEW n \in Nat
  PROVE  R!Exponential(n) \in Nat /\ R!Exponential(n) <= Ceiling
<1> DEFINE Grows(g, k) == g = [i \in 0 .. k |-> IF i = 0 THEN Initial ELSE Factor * g[i - 1]]
           T == {k \in Nat : \E g \in [0 .. k -> Nat] : Grows(g, k)}
<1>1. Initial \in Nat /\ Factor \in Nat /\ Ceiling \in Nat  BY RetryAssumption
<1>2. 0 \in T
 <2> DEFINE g == [i \in 0 .. 0 |-> Initial]
 <2>1. g \in [0 .. 0 -> Nat] /\ Grows(g, 0)  BY <1>1
 <2> HIDE DEF g
 <2> QED  BY <2>1
<1>3. ASSUME NEW k \in Nat, k \in T PROVE k + 1 \in T
 <2>1. PICK g \in [0 .. k -> Nat] : Grows(g, k)  BY <1>3
 <2> DEFINE h == [i \in 0 .. k + 1 |-> IF i <= k THEN g[i] ELSE Factor * g[k]]
 <2>2. h \in [0 .. k + 1 -> Nat]  BY <1>1
 <2>3. ASSUME NEW i \in 0 .. k + 1 PROVE h[i] = IF i = 0 THEN Initial ELSE Factor * h[i - 1]
  <3>1. CASE i <= k
   <4>1. g[i] = IF i = 0 THEN Initial ELSE Factor * g[i - 1]  BY <2>1, <3>1
   <4> QED  BY <3>1, <4>1
  <3>2. CASE i = k + 1  BY <3>2
  <3> QED  BY <3>1, <3>2
 <2>4. Grows(h, k + 1)
  <3>1. h = [i \in 0 .. k + 1 |-> h[i]]  OBVIOUS
  <3> HIDE DEF h
  <3> QED  BY <2>3, <3>1
 <2> HIDE DEF h, Grows
 <2> QED  BY <2>2, <2>4
<1>4. n \in T
 <2> HIDE DEF T
 <2> QED  BY <1>2, <1>3, Induct
<1> DEFINE grown[i \in 0 .. n] == IF i = 0 THEN Initial ELSE Factor * grown[i - 1]
<1>5. grown = [i \in 0 .. n |-> IF i = 0 THEN Initial ELSE Factor * grown[i - 1]]  BY <1>4
<1>6. R!Exponential(n) = IF grown[n] < Ceiling THEN grown[n] ELSE Ceiling  BY DEF R!Exponential
<1> HIDE DEF grown
<1> DEFINE U == {i \in Nat : i <= n => grown[i] \in Nat}
<1>7. 0 \in U /\ \A i \in Nat : i \in U => i + 1 \in U
 <2>1. 0 \in U  BY <1>1, <1>5
 <2>2. ASSUME NEW i \in Nat, i \in U PROVE i + 1 \in U
  <3> SUFFICES ASSUME i + 1 <= n PROVE grown[i + 1] \in Nat  OBVIOUS
  <3>1. grown[i] \in Nat  BY <2>2
  <3>2. grown[i + 1] = Factor * grown[(i + 1) - 1] /\ (i + 1) - 1 = i  BY <1>5
  <3> QED  BY <1>1, <3>1, <3>2
 <2> QED  BY <2>1, <2>2
<1>8. grown[n] \in Nat
 <2>1. Nat \subseteq U
  <3> HIDE DEF U
  <3> QED  BY <1>7, Induct
 <2> QED  BY <2>1
<1> QED  BY <1>1, <1>6, <1>8

\* Where an execution is: what it slept is behind it, and what it sleeps for
\* ends within the budget.
RetryInv ==
  /\ config.tries \in Nat \ {0}
  /\ config.budget # NoBudget => config.budget \in Nat
  /\ config.backoff \in {"fixed", "exponential"}
  /\ config.jitter \in {"none", "full", "equal"}
  /\ attempt \in 0 .. config.tries
  /\ drawn \in Nat /\ elapsed \in Nat /\ rested \in Nat /\ rested <= elapsed
  /\ stage = "asleep" => attempt \in 1 .. config.tries - 1
  /\ stage = "asleep" /\ config.budget # NoBudget => elapsed + drawn < config.budget
  /\ R!RetryHolds

LEMMA RetryStart == R!RetryInit => RetryInv
<1> SUFFICES ASSUME R!RetryInit PROVE RetryInv  OBVIOUS
<1>1. config \in [tries : {R!Attempts(n) : n \in Tries}, budget : Budgets,
                  backoff : {"fixed", "exponential"}, jitter : Jitters]  BY DEF R!RetryInit
<1>2. /\ config.tries \in {R!Attempts(n) : n \in Tries} /\ config.budget \in Budgets
      /\ config.backoff \in {"fixed", "exponential"} /\ config.jitter \in Jitters  BY <1>1
<1>3. config.tries \in Nat \ {0}  BY <1>2, RetryAssumption DEF R!Attempts
<1>4. /\ attempt = 0 /\ stage = "backoff" /\ drawn = 0 /\ elapsed = 0 /\ rested = 0
      /\ refused = FALSE /\ Ceiling \in Nat  BY RetryAssumption DEF R!RetryInit
<1>5. /\ config.jitter \in {"none", "full", "equal"}
      /\ config.budget # NoBudget => config.budget \in Nat  BY <1>2, RetryAssumption
<1> QED  BY <1>2, <1>3, <1>4, <1>5 DEF RetryInv, R!RetryHolds

\* A retry waits no longer than its back-off and starts nothing its budget forbids.
LEMMA RetryStep == RetryInv /\ [R!RetryNext]_retryVars => RetryInv'
<1> SUFFICES ASSUME RetryInv, [R!RetryNext]_retryVars PROVE RetryInv'  OBVIOUS
<1>1. Initial \in Nat /\ Ceiling \in Nat /\ MaxCallTime \in Nat /\ MaxLag \in Nat  BY RetryAssumption
<1>2. CASE R!BackOff
 <2>1. UNCHANGED <<config, elapsed, rested, refused>> /\ stage = "backoff"  BY <1>2 DEF R!BackOff
 <2>2. CASE attempt = config.tries /\ stage' = "max attempts" /\ UNCHANGED <<attempt, drawn>>
   BY <2>1, <2>2 DEF RetryInv, R!RetryHolds
 <2>3. CASE attempt = 0 /\ attempt' = 1 /\ stage' = "calling" /\ UNCHANGED drawn
   BY <2>1, <2>3 DEF RetryInv, R!RetryHolds
 <2>4. ASSUME attempt \in 1 .. config.tries - 1, UNCHANGED attempt,
              NEW d \in R!Jittered(R!Backoff(attempt - 1)),
              IF R!Spent(R!SleepEnds(d))
              THEN stage' = "timeout" /\ UNCHANGED drawn
              ELSE stage' = "asleep" /\ drawn' = d
       PROVE  RetryInv'
  <3>1. R!Backoff(attempt - 1) \in Nat
        /\ (config.backoff = "exponential" => R!Backoff(attempt - 1) <= Ceiling)
    BY <1>1, <2>4, ExponentialIsCapped DEF R!Backoff, RetryInv
  <3>2. d \in Nat /\ d <= R!Backoff(attempt - 1)  BY <2>4, <3>1 DEF R!Jittered, RetryInv
  <3>3. CASE R!Spent(R!SleepEnds(d))  BY <2>1, <2>4, <3>3 DEF RetryInv, R!RetryHolds, R!Spent
  <3>4. CASE ~R!Spent(R!SleepEnds(d))
   <4>1. stage' = "asleep" /\ drawn' = d /\ attempt' = attempt  BY <2>4, <3>4
   <4>2. config.budget # NoBudget => elapsed + d < config.budget
     BY <3>2, <3>4 DEF RetryInv, R!Spent, R!SleepEnds
   <4>3. config.backoff = "exponential" => d <= Ceiling  BY <1>1, <3>1, <3>2
   <4> QED  BY <2>1, <2>4, <3>2, <4>1, <4>2, <4>3 DEF RetryInv, R!RetryHolds
  <3> QED  BY <3>3, <3>4
 <2> QED  BY <1>2, <2>2, <2>3, <2>4 DEF R!BackOff
<1>3. CASE R!Slept
 <2>1. PICK lag \in 0 .. MaxLag : elapsed' = elapsed + drawn + lag  BY <1>3 DEF R!Slept
 <2>2. /\ rested' = rested + drawn /\ drawn' = 0 /\ attempt' = attempt + 1
       /\ stage' = "calling" /\ stage = "asleep" /\ UNCHANGED <<config, refused>>  BY <1>3 DEF R!Slept
 <2>3. /\ elapsed' \in Nat /\ rested' \in Nat /\ rested' <= elapsed' /\ rested' <= elapsed + drawn
       /\ attempt' \in 0 .. config.tries  BY <1>1, <2>1, <2>2 DEF RetryInv
 <2>4. config.budget # NoBudget /\ config.budget > 0 => rested' < config.budget  BY <2>2, <2>3 DEF RetryInv
 <2>5. R!RetryHolds'  BY <1>1, <2>2, <2>4 DEF RetryInv, R!RetryHolds
 <2> QED  BY <2>2, <2>3, <2>5 DEF RetryInv
<1>4. CASE R!Attempted
 <2>1. PICK time \in 0 .. MaxCallTime : elapsed' = elapsed + time  BY <1>4 DEF R!Attempted
 <2>2. /\ elapsed' \in Nat /\ rested <= elapsed' /\ stage = "calling"
       /\ UNCHANGED <<config, attempt, drawn, rested>>
  <3>1. stage = "calling" /\ UNCHANGED <<config, attempt, drawn, rested>>  BY <1>4 DEF R!Attempted
  <3>2. elapsed \in Nat /\ rested \in Nat /\ rested <= elapsed  BY DEF RetryInv
  <3> QED  BY <1>1, <2>1, <3>1, <3>2
 <2>3. /\ stage' \in {"ok", "max attempts", "timeout", "backoff"}
       /\ stage' = "max attempts" => refused' = TRUE
       /\ stage' = "timeout" => config.budget # NoBudget
  <3>1. \/ stage' = "ok"
        \/ stage' = "max attempts" /\ refused' = TRUE
        \/ stage' = (IF R!Spent(elapsed') THEN "timeout" ELSE "backoff")  BY <1>4 DEF R!Attempted
  <3>2. R!Spent(elapsed') => config.budget # NoBudget  BY DEF R!Spent
  <3> QED  BY <3>1, <3>2
 <2>4. R!RetryHolds'  BY <2>2, <2>3 DEF RetryInv, R!RetryHolds
 <2> QED  BY <2>2, <2>3, <2>4 DEF RetryInv
<1>5. CASE UNCHANGED retryVars  BY <1>5 DEF retryVars, RetryInv, R!RetryHolds
<1> QED  BY <1>2, <1>3, <1>4, <1>5 DEF R!RetryNext

-------------------------------------------------------------------------------
(* Health checks.                                                          *)

\* What the answers a checker has heard say of the components since the check
\* began: a combinator goes on only past a child that did not decide it.
Ever(n, i, s) == s \in seen[Shapes[n].of[i]]
EverNot(n, i, s) == \E x \in seen[Shapes[n].of[i]] : x # s
HeardLeaf(n) ==
  /\ probe[n].result = "none" => probe[n].at = 1
  /\ probe[n].result \in H!Statuses => Ever(n, 1, probe[n].result)
HeardAll(n) ==
  /\ probe[n].result = "none" => \A i \in 1 .. probe[n].at - 1 : EverNot(n, i, "down")
  /\ probe[n].result = "down" => \E i \in 1 .. Len(Shapes[n].of) : Ever(n, i, "down")
  /\ probe[n].result = "up" => \A i \in 1 .. Len(Shapes[n].of) : EverNot(n, i, "down")
  /\ probe[n].result # "unknown"
HeardAny(n) ==
  /\ probe[n].result = "none" => \A i \in 1 .. probe[n].at - 1 : EverNot(n, i, "up")
  /\ probe[n].result = "up" => \E i \in 1 .. Len(Shapes[n].of) : Ever(n, i, "up")
  /\ probe[n].result = "down" => \A i \in 1 .. Len(Shapes[n].of) : EverNot(n, i, "up")
  /\ probe[n].result # "unknown"
Heard(n) ==
  /\ Shapes[n].kind = "leaf" => HeardLeaf(n)
  /\ Shapes[n].kind = "all" => HeardAll(n)
  /\ Shapes[n].kind = "any" => HeardAny(n)

Probe == [at : Nat, result : {"none", "up", "down", "unknown", "timed out", "panicked"}]

\* A probe that runs has a child to ask, and its check is there to hear it; the
\* verdict is of the probes that are there.
HealthInv ==
  /\ probe \in [H!Names -> Probe]
  /\ component \in [Parts -> H!Statuses]
  /\ seen \in [Parts -> SUBSET H!Statuses]
  /\ check \in {"idle", "running"}
  /\ check = "running" => verdict = "none" /\ \A p \in Parts : component[p] \in seen[p]
  /\ \A n \in H!Names : H!Running(n) => check = "running" /\ probe[n].at <= Len(Shapes[n].of)
  /\ \A n \in H!Names : probe[n].at > 0 => Heard(n)
  /\ check = "idle" /\ verdict # "none" =>
       verdict = H!Overall({probe[n].result : n \in {m \in H!Names : probe[m].at > 0}})

\* A probe is a record of where it is and what it found.
LEMMA ProbeOf ==
  ASSUME NEW a \in Nat, NEW r \in {"none", "up", "down", "unknown", "timed out", "panicked"}
  PROVE  [at |-> a, result |-> r] \in Probe
BY DEF Probe

\* The shapes, once.
LEMMA ShapeIs ==
  ASSUME NEW n \in H!Names
  PROVE  /\ Shapes[n].kind \in {"leaf", "all", "any"}
         /\ Len(Shapes[n].of) \in Nat \ {0} /\ DOMAIN Shapes[n].of = 1 .. Len(Shapes[n].of)
         /\ \A i \in 1 .. Len(Shapes[n].of) : Shapes[n].of[i] \in Parts
<1>1. Shapes[n].of \in Seq(Parts) /\ Shapes[n].of # <<>> /\ Shapes[n].kind \in {"leaf", "all", "any"}
  BY HealthAssumption DEF H!Names
<1> DEFINE of == Shapes[n].of
<1>2. of \in Seq(Parts) /\ of # <<>>  BY <1>1
<1> HIDE DEF of
<1>3. Len(of) \in Nat \ {0} /\ DOMAIN of = 1 .. Len(of) /\ \A i \in 1 .. Len(of) : of[i] \in Parts  BY <1>2
<1> QED  BY <1>1, <1>3 DEF of

\* What was heard stays heard while components change.
LEMMA HeardStays ==
  ASSUME HealthInv, NEW n \in H!Names, Heard(n), probe'[n] = probe[n],
         \A p \in Parts : seen[p] \subseteq seen'[p],
         probe[n].result = "none" => probe[n].at <= Len(Shapes[n].of)
  PROVE  Heard(n)'
<1>1. probe[n].at \in Nat  BY DEF HealthInv, Probe
<1>2. \A i \in 1 .. Len(Shapes[n].of) : seen[Shapes[n].of[i]] \subseteq seen'[Shapes[n].of[i]]  BY ShapeIs
<1>3. Len(Shapes[n].of) \in Nat \ {0} /\ DOMAIN Shapes[n].of = 1 .. Len(Shapes[n].of)  BY ShapeIs
<1> DEFINE L == Len(Shapes[n].of)
<1>4. /\ \A i \in 1 .. L : \A x : Ever(n, i, x) => Ever(n, i, x)'
      /\ \A i \in 1 .. L : \A x : EverNot(n, i, x) => EverNot(n, i, x)'  BY <1>2 DEF Ever, EverNot
<1>5. Shapes[n].kind = "leaf" => HeardLeaf(n)'  BY <1>3, <1>4 DEF Heard, HeardLeaf
<1>6. Shapes[n].kind = "all" => HeardAll(n)'  BY <1>1, <1>3, <1>4 DEF Heard, HeardAll
<1>7. Shapes[n].kind = "any" => HeardAny(n)'  BY <1>1, <1>3, <1>4 DEF Heard, HeardAny
<1> QED  BY <1>5, <1>6, <1>7 DEF Heard

\* The next answer of a component is heard.
LEMMA HearsNext ==
  ASSUME HealthInv, NEW n \in H!Names, H!ProbeNext(n)
  PROVE  /\ probe'[n] \in Probe /\ probe'[n].at > 0
         /\ Heard(n)'
         /\ probe'[n].result = "none" => probe'[n].at <= Len(Shapes[n].of)
<1> DEFINE i == probe[n].at
           s == component[Shapes[n].of[i]]
           result == H!Folded(Shapes[n], i, s)
<1>1. /\ i \in Nat /\ i > 0 /\ i <= Len(Shapes[n].of) /\ Heard(n)
      /\ probe[n].result = "none" /\ check = "running"  BY DEF HealthInv, H!ProbeNext, H!Running, Probe
<1>2. probe' = [probe EXCEPT ![n] = [at |-> i + 1, result |-> result]] /\ UNCHANGED seen  BY DEF H!ProbeNext
<1>3. /\ Shapes[n].kind \in {"leaf", "all", "any"} /\ Len(Shapes[n].of) \in Nat \ {0}
      /\ DOMAIN Shapes[n].of = 1 .. Len(Shapes[n].of) /\ Shapes[n].of[i] \in Parts  BY <1>1, ShapeIs
<1>4. s \in H!Statuses /\ s \in seen[Shapes[n].of[i]]  BY <1>1, <1>3 DEF HealthInv
<1>5. probe'[n] = [at |-> i + 1, result |-> result]  BY <1>2 DEF HealthInv
<1>6. result = CASE Shapes[n].kind = "leaf" -> s
                 [] Shapes[n].kind = "all" -> IF s = "down" THEN "down"
                                              ELSE IF i = Len(Shapes[n].of) THEN "up" ELSE "none"
                 [] Shapes[n].kind = "any" -> IF s = "up" THEN "up"
                                              ELSE IF i = Len(Shapes[n].of) THEN "down" ELSE "none"  BY DEF H!Folded
<1> HIDE DEF i, s, result
<1>7. probe'[n].at = i + 1 /\ probe'[n].result = result  BY <1>5
<1>8. CASE Shapes[n].kind = "leaf"
 <2>1. i = 1 /\ result = s  BY <1>1, <1>6, <1>8 DEF Heard, HeardLeaf, HeardAll, HeardAny, EverNot, i
 <2>2. Heard(n)'
   BY <1>2, <1>4, <1>7, <1>8, <2>1 DEF Heard, HeardLeaf, HeardAll, HeardAny, Ever, EverNot, H!Statuses
 <2>3. result \in {"up", "down", "unknown"} /\ i + 1 \in Nat /\ i + 1 > 0  BY <1>1, <1>4, <2>1 DEF H!Statuses
 <2>4. probe'[n] \in Probe  BY <1>5, <2>3, ProbeOf
 <2> QED  BY <1>7, <2>2, <2>3, <2>4
<1>9. CASE Shapes[n].kind = "all"
 <2>1. \A j \in 1 .. i - 1 : \E x \in seen[Shapes[n].of[j]] : x # "down"
   BY <1>1, <1>9 DEF Heard, HeardLeaf, HeardAll, HeardAny, EverNot, i
 <2>2. result = IF s = "down" THEN "down" ELSE IF i = Len(Shapes[n].of) THEN "up" ELSE "none"  BY <1>6, <1>9
 <2>3. s # "down" => \A j \in 1 .. i : \E x \in seen[Shapes[n].of[j]] : x # "down"  BY <1>1, <1>4, <2>1
 <2>4. Heard(n)'
   BY <1>1, <1>2, <1>3, <1>4, <1>7, <1>9, <2>2, <2>3, SMTT(60) DEF Heard, HeardLeaf, HeardAll, HeardAny, Ever, EverNot
 <2> QED  BY <1>1, <1>3, <1>5, <1>7, <2>2, <2>4 DEF Probe
<1>10. CASE Shapes[n].kind = "any"
 <2>1. \A j \in 1 .. i - 1 : \E x \in seen[Shapes[n].of[j]] : x # "up"
   BY <1>1, <1>10 DEF Heard, HeardLeaf, HeardAll, HeardAny, EverNot, i
 <2>2. result = IF s = "up" THEN "up" ELSE IF i = Len(Shapes[n].of) THEN "down" ELSE "none"  BY <1>6, <1>10
 <2>3. s # "up" => \A j \in 1 .. i : \E x \in seen[Shapes[n].of[j]] : x # "up"  BY <1>1, <1>4, <2>1
 <2>4. Heard(n)'
   BY <1>1, <1>2, <1>3, <1>4, <1>7, <1>10, <2>2, <2>3 DEF Heard, HeardLeaf, HeardAll, HeardAny, Ever, EverNot
 <2> QED  BY <1>1, <1>3, <1>5, <1>7, <2>2, <2>4 DEF Probe
<1> QED  BY <1>3, <1>8, <1>9, <1>10

LEMMA HealthStart == H!HealthInit => HealthInv
<1> SUFFICES ASSUME H!HealthInit PROVE HealthInv  OBVIOUS
<1>1. /\ component \in [Parts -> H!Statuses] /\ check = "idle" /\ verdict = "none"
      /\ probe = [n \in H!Names |-> H!NoProbe] /\ seen = [p \in Parts |-> {}]  BY DEF H!HealthInit
<1>2. \A n \in H!Names : probe[n].at = 0 /\ probe[n] \in Probe  BY <1>1 DEF H!NoProbe, Probe
<1>3. seen \in [Parts -> SUBSET H!Statuses]  BY <1>1
<1>4. probe \in [H!Names -> Probe]  BY <1>1, <1>2
<1> QED  BY <1>1, <1>2, <1>3, <1>4 DEF HealthInv, H!Running

LEMMA HealthStep == HealthInv /\ [H!HealthNext]_healthVars => HealthInv'
<1> SUFFICES ASSUME HealthInv, [H!HealthNext]_healthVars PROVE HealthInv'  OBVIOUS
<1> DEFINE results == {probe[n].result : n \in {m \in H!Names : probe[m].at > 0}}
<1>1. /\ probe \in [H!Names -> Probe] /\ component \in [Parts -> H!Statuses]
      /\ seen \in [Parts -> SUBSET H!Statuses] /\ check \in {"idle", "running"}
      /\ \A n \in H!Names : probe[n].at \in Nat  BY DEF HealthInv, Probe
<1>2. ASSUME UNCHANGED <<probe, component, seen, check, verdict>> PROVE HealthInv'
  BY <1>2, ZenonT(60) DEF HealthInv, Heard, HeardLeaf, HeardAll, HeardAny, Ever, EverNot, H!Running
<1>3. ASSUME NEW n \in H!Names, H!Register(n) \/ H!Deregister(n) PROVE HealthInv'
  BY <1>2, <1>3 DEF H!Register, H!Deregister
<1>4. ASSUME NEW p \in Parts, NEW s \in H!Statuses, H!Change(p, s) PROVE HealthInv'
 <2>1. /\ component' = [component EXCEPT ![p] = s] /\ seen' = [seen EXCEPT ![p] = @ \cup {s}]
       /\ UNCHANGED <<probe, check, verdict>>  BY <1>4 DEF H!Change
 <2>2. /\ component' \in [Parts -> H!Statuses] /\ seen' \in [Parts -> SUBSET H!Statuses]
       /\ \A q \in Parts : seen[q] \subseteq seen'[q]
       /\ \A q \in Parts : component[q] \in seen[q] => component'[q] \in seen'[q]  BY <1>1, <2>1
 <2>3. ASSUME NEW n \in H!Names, probe[n].at > 0 PROVE Heard(n)'
  <3>1. Heard(n) /\ probe'[n] = probe[n]  BY <2>1, <2>3 DEF HealthInv
  <3>2. probe[n].result = "none" => probe[n].at <= Len(Shapes[n].of)  BY <2>3 DEF HealthInv, H!Running
  <3> QED  BY <2>2, <3>1, <3>2, HeardStays
 <2> QED  BY <1>1, <2>1, <2>2, <2>3 DEF HealthInv, H!Running
<1>5. CASE H!Check
 <2>1. /\ seen' = [p \in Parts |-> {component[p]}] /\ UNCHANGED component
       /\ probe' = [n \in H!Names |-> [at |-> IF n \in registered THEN 1 ELSE 0, result |-> "none"]]
       /\ IF registered = {} THEN verdict' = "up" /\ check' = check ELSE verdict' = "none" /\ check' = "running"
       /\ check = "idle"  BY <1>5 DEF H!Check
 <2>2. seen' \in [Parts -> SUBSET H!Statuses]  BY <1>1, <2>1
 <2>3. /\ \A n \in H!Names : /\ probe'[n].at = (IF n \in registered THEN 1 ELSE 0)
                             /\ probe'[n].result = "none" /\ probe'[n] \in Probe
       /\ probe' \in [H!Names -> Probe]  BY <2>1 DEF Probe
 <2>4. ASSUME NEW n \in H!Names, probe'[n].at > 0 PROVE Heard(n)'
  <3>1. probe'[n].at = 1 /\ probe'[n].result = "none"  BY <2>3, <2>4
  <3> QED  BY <3>1, ShapeIs DEF Heard, HeardLeaf, HeardAll, HeardAny, Ever, EverNot, H!Statuses
 <2>5. ASSUME NEW n \in H!Names, H!Running(n)'
       PROVE  check' = "running" /\ probe'[n].at <= Len(Shapes[n].of)
  <3>1. n \in registered /\ probe'[n].at = 1  BY <2>3, <2>5 DEF H!Running
  <3> QED  BY <2>1, <3>1, ShapeIs
 <2>6. check' = "idle" => results' = {} /\ verdict' = "up"  BY <2>1, <2>3
 <2>7. check' = "idle" => verdict' = H!Overall(results')  BY <2>6 DEF H!Overall
 <2>8. check' \in {"idle", "running"} /\ (check' = "running" => verdict' = "none")
       /\ \A p \in Parts : component'[p] \in seen'[p]  BY <1>1, <2>1
 <2> QED  BY <1>1, <2>1, <2>2, <2>3, <2>4, <2>5, <2>7, <2>8 DEF HealthInv
<1>6. ASSUME NEW n \in H!Names, H!Running(n), probe' = [probe EXCEPT ![n] = probe'[n]], probe'[n] \in Probe,
             UNCHANGED <<component, check, verdict, seen>>, Heard(n)',
             H!Running(n)' => probe'[n].at <= Len(Shapes[n].of)
      PROVE  HealthInv'
 <2>1. check = "running" /\ probe' \in [H!Names -> Probe] /\ \A m \in H!Names : m # n => probe'[m] = probe[m]
   BY <1>1, <1>6 DEF HealthInv
 <2>2. ASSUME NEW m \in H!Names, m # n, probe'[m].at > 0 PROVE Heard(m)'
  <3>1. Heard(m) /\ probe'[m] = probe[m]  BY <2>1, <2>2 DEF HealthInv
  <3>2. probe[m].result = "none" => probe[m].at <= Len(Shapes[m].of)  BY <2>1, <2>2 DEF HealthInv, H!Running
  <3> QED  BY <1>1, <1>6, <3>1, <3>2, HeardStays
 <2>3. ASSUME NEW m \in H!Names, H!Running(m)' PROVE probe'[m].at <= Len(Shapes[m].of)
   BY <1>6, <2>1, <2>3 DEF HealthInv, H!Running
 <2> QED  BY <1>1, <1>6, <2>1, <2>2, <2>3 DEF HealthInv
<1>7. ASSUME NEW n \in H!Names, H!ProbeNext(n) PROVE HealthInv'
 <2>1. /\ probe'[n] \in Probe /\ Heard(n)' /\ probe'[n].at > 0
       /\ probe'[n].result = "none" => probe'[n].at <= Len(Shapes[n].of)  BY <1>7, HearsNext
 <2>2. probe' = [probe EXCEPT ![n] = probe'[n]] /\ UNCHANGED <<component, check, verdict, seen>> /\ H!Running(n)
   BY <1>1, <1>7 DEF H!ProbeNext
 <2> QED  BY <1>6, <2>1, <2>2 DEF H!Running
<1>8. ASSUME NEW n \in H!Names, H!ProbeTimesOut(n) \/ H!ProbePanics(n) PROVE HealthInv'
 <2>1. PICK r \in {"timed out", "panicked"} : probe' = [probe EXCEPT ![n].result = r]
   BY <1>8 DEF H!ProbeTimesOut, H!ProbePanics
 <2>2. UNCHANGED <<component, check, verdict, seen>> /\ H!Running(n)  BY <1>8 DEF H!ProbeTimesOut, H!ProbePanics
 <2>3. probe'[n] \in Probe /\ probe'[n].result = r /\ probe' = [probe EXCEPT ![n] = probe'[n]]
   BY <1>1, <2>1 DEF Probe
 <2>4. Heard(n)' /\ ~H!Running(n)'
   BY <2>3, ShapeIs DEF Heard, HeardLeaf, HeardAll, HeardAny, H!Running, H!Statuses
 <2> QED  BY <1>6, <2>2, <2>3, <2>4
<1>9. CASE H!Aggregate
 <2>1. /\ verdict' = H!Overall(results) /\ check' = "idle" /\ UNCHANGED <<component, probe, seen>>
       /\ \A n \in H!Names : ~H!Running(n)  BY <1>9 DEF H!Aggregate
 <2>2. results' = results /\ \A n \in H!Names : (H!Running(n)' <=> H!Running(n)) /\ (Heard(n)' <=> Heard(n))
   BY <2>1 DEF H!Running, Heard, HeardLeaf, HeardAll, HeardAny, Ever, EverNot
 <2> QED  BY <1>1, <2>1, <2>2 DEF HealthInv
<1>10. CASE H!DropCheck
 <2>1. /\ check' = "idle" /\ probe' = [n \in H!Names |-> H!NoProbe] /\ UNCHANGED <<component, verdict, seen>>
       /\ check = "running"  BY <1>10 DEF H!DropCheck
 <2>2. verdict' = "none"  BY <2>1 DEF HealthInv
 <2>3. \A n \in H!Names : probe'[n].at = 0 /\ probe'[n] \in Probe  BY <2>1 DEF H!NoProbe, Probe
 <2>4. probe' \in [H!Names -> Probe]  BY <2>1, <2>3
 <2> QED  BY <1>1, <2>1, <2>2, <2>3, <2>4 DEF HealthInv, H!Running
<1>11. CASE UNCHANGED healthVars  BY <1>2, <1>11 DEF healthVars
<1> QED  BY <1>3, <1>4, <1>5, <1>7, <1>8, <1>9, <1>10, <1>11 DEF H!HealthNext

\* A checker that must fail, or must pass, as its shape reads.
LEMMA MustMeans ==
  ASSUME NEW n \in H!Names
  PROVE  /\ H!MustFail(n) =>
              /\ Shapes[n].kind = "leaf" => seen[Shapes[n].of[1]] = {"down"}
              /\ Shapes[n].kind = "all" => \E i \in 1 .. Len(Shapes[n].of) : seen[Shapes[n].of[i]] = {"down"}
              /\ Shapes[n].kind = "any" => \A i \in 1 .. Len(Shapes[n].of) : "up" \notin seen[Shapes[n].of[i]]
         /\ H!MustPass(n) =>
              /\ Shapes[n].kind = "leaf" => seen[Shapes[n].of[1]] = {"up"}
              /\ Shapes[n].kind = "all" => \A i \in 1 .. Len(Shapes[n].of) : "down" \notin seen[Shapes[n].of[i]]
              /\ Shapes[n].kind = "any" => \E i \in 1 .. Len(Shapes[n].of) : seen[Shapes[n].of[i]] = {"up"}
<1> DEFINE of == Shapes[n].of
           heard == [i \in DOMAIN of |-> seen[of[i]]]
           kind == Shapes[n].kind
<1>1. /\ H!MustFail(n) => /\ kind = "leaf" => heard[1] = {"down"}
                          /\ kind = "all" => \E i \in DOMAIN heard : heard[i] = {"down"}
                          /\ kind = "any" => \A i \in DOMAIN heard : "up" \notin heard[i]
      /\ H!MustPass(n) => /\ kind = "leaf" => heard[1] = {"up"}
                          /\ kind = "all" => \A i \in DOMAIN heard : "down" \notin heard[i]
                          /\ kind = "any" => \E i \in DOMAIN heard : heard[i] = {"up"}
  BY DEF H!MustFail, H!MustPass
<1>2. DOMAIN heard = 1 .. Len(of) /\ 1 \in 1 .. Len(of) /\ \A i \in 1 .. Len(of) : heard[i] = seen[of[i]]
  BY ShapeIs
<1> HIDE DEF heard
<1> QED  BY <1>1, <1>2 DEF of, kind

\* What the run checks of a verdict.
LEMMA HealthInvGives == HealthInv => H!VerdictSpeaks
<1> DEFINE checked == {n \in H!Names : probe[n].at > 0}
           results == {probe[n].result : n \in checked}
<1> SUFFICES ASSUME HealthInv, check = "idle", verdict # "none"
             PROVE  /\ \A n \in checked : H!MustFail(n) /\ probe[n].result # "panicked" => H!StatusCode = 503
                    /\ (\A n \in checked : H!MustPass(n) /\ probe[n].result # "timed out") => H!StatusCode = 200
  BY DEF H!VerdictSpeaks
<1>1. verdict = H!Overall(results)  BY DEF HealthInv
<1>2. ASSUME NEW n \in checked
      PROVE  /\ Heard(n) /\ probe[n].result \in {"up", "down", "unknown", "timed out", "panicked"}
             /\ probe[n].result \in results /\ n \in H!Names
 <2>1. Heard(n) /\ probe[n] \in Probe /\ ~H!Running(n)  BY <1>2 DEF HealthInv
 <2> QED  BY <2>1 DEF Probe, H!Running
<1>3. ASSUME NEW n \in checked, H!MustFail(n), probe[n].result # "panicked"
      PROVE  probe[n].result \in {"down", "timed out"}
 <2>1. Heard(n) /\ n \in H!Names /\ probe[n].result \in {"up", "down", "unknown", "timed out"}  BY <1>2, <1>3
 <2> HIDE DEF checked
 <2>2. CASE Shapes[n].kind = "leaf"  BY <1>3, <2>1, <2>2, MustMeans DEF Heard, HeardLeaf, Ever, H!Statuses
 <2>3. CASE Shapes[n].kind = "all"  BY <1>3, <2>1, <2>3, MustMeans DEF Heard, HeardAll, EverNot
 <2>4. CASE Shapes[n].kind = "any"  BY <1>3, <2>1, <2>4, MustMeans DEF Heard, HeardAny, Ever
 <2> QED  BY <2>1, <2>2, <2>3, <2>4, ShapeIs
<1>4. ASSUME NEW n \in checked, H!MustPass(n), probe[n].result # "timed out"
      PROVE  probe[n].result \notin {"down", "timed out"}
 <2>1. Heard(n) /\ n \in H!Names  BY <1>2
 <2> HIDE DEF checked
 <2>2. CASE Shapes[n].kind = "leaf"  BY <1>4, <2>1, <2>2, MustMeans DEF Heard, HeardLeaf, Ever, H!Statuses
 <2>3. CASE Shapes[n].kind = "all"  BY <1>4, <2>1, <2>3, MustMeans DEF Heard, HeardAll, Ever
 <2>4. CASE Shapes[n].kind = "any"  BY <1>4, <2>1, <2>4, MustMeans DEF Heard, HeardAny, EverNot
 <2> QED  BY <2>1, <2>2, <2>3, <2>4, ShapeIs
<1>5. ASSUME NEW n \in checked, H!MustFail(n) /\ probe[n].result # "panicked" PROVE H!StatusCode = 503
 <2>1. results \cap {"down", "timed out"} # {}  BY <1>2, <1>3, <1>5
 <2> QED  BY <1>1, <2>1 DEF H!Overall, H!StatusCode
<1>6. ASSUME \A n \in checked : H!MustPass(n) /\ probe[n].result # "timed out" PROVE H!StatusCode = 200
 <2>1. results \cap {"down", "timed out"} = {}  BY <1>4, <1>6
 <2> QED  BY <1>1, <2>1 DEF H!Overall, H!StatusCode
<1> HIDE DEF checked
<1>7. \A n \in checked : H!MustFail(n) /\ probe[n].result # "panicked" => H!StatusCode = 503  BY <1>5
<1>8. (\A n \in checked : H!MustPass(n) /\ probe[n].result # "timed out") => H!StatusCode = 200  BY <1>6
<1> QED  BY <1>7, <1>8, Zenon

-------------------------------------------------------------------------------
(* Caches: functions defined by recursion, the eviction order.             *)

Chained(g, n, first, next) == g[0] = first /\ \A i \in 1 .. n : g[i] = next[i][g[i - 1]]

\* A function given by its first value and by each from the one before it.
LEMMA Recursion ==
  ASSUME NEW n \in Nat, NEW V, NEW first \in V, NEW next, \A i \in 1 .. n : \A v \in V : next[i][v] \in V
  PROVE  \E g \in [0 .. n -> V] : Chained(g, n, first, next)
<1> DEFINE Upto(g, k) == g[0] = first /\ \A i \in 1 .. k : g[i] = next[i][g[i - 1]]
           T == {k \in Nat : k <= n => \E g \in [0 .. k -> V] : Upto(g, k)}
<1>1. 0 \in T
 <2> DEFINE g == [i \in 0 .. 0 |-> first]
 <2>1. g \in [0 .. 0 -> V] /\ Upto(g, 0)  OBVIOUS
 <2> HIDE DEF g, Upto
 <2> QED  BY <2>1
<1>2. ASSUME NEW k \in Nat, k \in T PROVE k + 1 \in T
 <2> SUFFICES ASSUME k + 1 <= n PROVE \E g \in [0 .. k + 1 -> V] : Upto(g, k + 1)  OBVIOUS
 <2>1. PICK g \in [0 .. k -> V] : Upto(g, k)  BY <1>2
 <2>2. g[k] \in V /\ k + 1 \in 1 .. n  BY <2>1
 <2>3. next[k + 1][g[k]] \in V  BY <2>2
 <2> DEFINE h == [i \in 0 .. k + 1 |-> IF i <= k THEN g[i] ELSE next[k + 1][g[k]]]
 <2>4. h \in [0 .. k + 1 -> V]  BY <2>3
 <2>5. h[0] = first  BY <2>1
 <2>6. ASSUME NEW i \in 1 .. k + 1 PROVE h[i] = next[i][h[i - 1]]
  <3>1. CASE i <= k
   <4>1. i \in 1 .. k /\ i - 1 \in 0 .. k /\ h[i - 1] = g[i - 1] /\ h[i] = g[i]  BY <3>1
   <4> QED  BY <2>1, <4>1
  <3>2. CASE i = k + 1
   <4>1. i - 1 = k /\ h[k] = g[k] /\ h[k + 1] = next[k + 1][g[k]]  BY <3>2
   <4> HIDE DEF h
   <4> QED  BY <3>2, <4>1
  <3> QED  BY <3>1, <3>2
 <2> HIDE DEF h
 <2>7. Upto(h, k + 1)  BY <2>5, <2>6
 <2> HIDE DEF Upto
 <2> QED  BY <2>4, <2>7
<1>3. n \in T
 <2> HIDE DEF T
 <2> QED  BY <1>1, <1>2, Induct
<1> QED  BY <1>3 DEF Chained

\* A list of keys, each once.
Spread(es) == es \in Seq(Keys) /\ \A i, j \in 1 .. Len(es) : es[i] = es[j] => i = j
Within(es) == {es[i] : i \in 1 .. Len(es)}

\* A key at the end of the order, or the first of it taken away.
LEMMA SpreadAppend ==
  ASSUME NEW es, Spread(es), NEW k \in Keys, k \notin Within(es)
  PROVE  /\ Spread(Append(es, k)) /\ Within(Append(es, k)) = Within(es) \cup {k}
         /\ Len(Append(es, k)) = Len(es) + 1
BY SMTT(60) DEF Spread, Within

LEMMA SpreadTail ==
  ASSUME NEW es, Spread(es), NEW a \in 1 .. Len(es) + 1
  PROVE  /\ Spread(SubSeq(es, a, Len(es))) /\ Within(SubSeq(es, a, Len(es))) \subseteq Within(es)
         /\ Len(SubSeq(es, a, Len(es))) = Len(es) - a + 1
BY DEF Spread, Within

\* What is left of a list without some keys.
LEMMA WithoutIs ==
  ASSUME NEW es, Spread(es), NEW ks
  PROVE  /\ Spread(Q!Without(es, ks)) /\ Within(Q!Without(es, ks)) = Within(es) \ ks
         /\ Len(Q!Without(es, ks)) \in Nat /\ Len(Q!Without(es, ks)) <= Len(es)
         /\ Within(es) \cap ks # {} => Len(Q!Without(es, ks)) < Len(es)
<1> DEFINE n == Len(es)
           Grows(g) == g = [i \in 0 .. n |-> IF i = 0 THEN <<>>
                                             ELSE IF es[i] \in ks THEN g[i - 1] ELSE Append(g[i - 1], es[i])]
           next == [i \in 1 .. n |-> [v \in Seq(Keys) |-> IF es[i] \in ks THEN v ELSE Append(v, es[i])]]
<1>1. n \in Nat /\ es \in Seq(Keys) /\ \A i \in 1 .. n : es[i] \in Keys  BY DEF Spread
<1>2. \A i \in 1 .. n : \A v \in Seq(Keys) : next[i][v] \in Seq(Keys)  BY <1>1
<1>3. \E g : Grows(g)
 <2> DEFINE V == Seq(Keys)
            empty == <<>>
 <2>0. empty \in V /\ \A i \in 1 .. n : \A v \in V : next[i][v] \in V  BY <1>2
 <2>1. PICK g \in [0 .. n -> Seq(Keys)] : g[0] = <<>> /\ \A i \in 1 .. n : g[i] = next[i][g[i - 1]]
  <3> HIDE DEF V, empty, next, n
  <3>1. \E g \in [0 .. n -> V] : Chained(g, n, empty, next)  BY <1>1, <2>0, Recursion
  <3> QED  BY <3>1 DEF V, empty, Chained
 <2> HIDE DEF next, n
 <2>2. ASSUME NEW i \in 1 .. n PROVE g[i] = IF es[i] \in ks THEN g[i - 1] ELSE Append(g[i - 1], es[i])
  <3>1. g[i - 1] \in Seq(Keys)  BY <1>1, <2>1
  <3> QED  BY <1>1, <2>1, <3>1 DEF next
 <2>3. ASSUME NEW i \in 0 .. n
       PROVE  g[i] = IF i = 0 THEN <<>> ELSE IF es[i] \in ks THEN g[i - 1] ELSE Append(g[i - 1], es[i])
  <3>1. CASE i = 0  BY <2>1, <3>1
  <3>2. CASE i # 0
   <4>1. i \in 1 .. n  BY <1>1, <3>2
   <4> QED  BY <2>2, <3>2, <4>1
  <3> QED  BY <3>1, <3>2
 <2>4. g = [i \in 0 .. n |-> g[i]]  BY <2>1
 <2>5. Grows(g)  BY <2>3, <2>4, ZenonT(60)
 <2> QED  BY <2>5
<1> DEFINE kept[i \in 0 .. Len(es)] == IF i = 0 THEN <<>>
                                       ELSE IF es[i] \in ks THEN kept[i - 1] ELSE Append(kept[i - 1], es[i])
<1>4. kept = [i \in 0 .. n |-> IF i = 0 THEN <<>>
                               ELSE IF es[i] \in ks THEN kept[i - 1] ELSE Append(kept[i - 1], es[i])]
  BY <1>3, ZenonT(60)
<1>5. Q!Without(es, ks) = kept[n]  BY DEF Q!Without
<1> HIDE DEF kept
<1> DEFINE Good(i) == /\ Spread(kept[i]) /\ Within(kept[i]) = {es[j] : j \in 1 .. i} \ ks
                      /\ Len(kept[i]) <= i
                      /\ (\E j \in 1 .. i : es[j] \in ks) => Len(kept[i]) < i
           T == {i \in Nat : i <= n => Good(i)}
<1>6. 0 \in T  BY <1>1, <1>4 DEF Spread, Within
<1>7. ASSUME NEW i \in Nat, i \in T PROVE i + 1 \in T
 <2> SUFFICES ASSUME i + 1 <= n PROVE Good(i + 1)  OBVIOUS
 <2>1. Good(i)  BY <1>1, <1>7
 <2>2. kept[i + 1] = IF es[i + 1] \in ks THEN kept[i] ELSE Append(kept[i], es[i + 1])
  <3> DEFINE a == i + 1
  <3>1. a \in 0 .. n /\ a # 0 /\ a - 1 = i  BY <1>1
  <3> HIDE DEF a
  <3>2. kept[a] = IF es[a] \in ks THEN kept[a - 1] ELSE Append(kept[a - 1], es[a])  BY <1>4, <3>1
  <3> QED  BY <3>1, <3>2 DEF a
 <2>3. es[i + 1] \in Keys /\ Len(kept[i]) \in Nat  BY <1>1, <2>1 DEF Spread
 <2>4. CASE es[i + 1] \in ks
  <3>1. {es[j] : j \in 1 .. i + 1} \ ks = {es[j] : j \in 1 .. i} \ ks  BY <2>4
  <3>2. kept[i + 1] = kept[i]  BY <2>2, <2>4
  <3>3. Spread(kept[i + 1]) /\ Within(kept[i + 1]) = {es[j] : j \in 1 .. i + 1} \ ks  BY <2>1, <3>1, <3>2
  <3> QED  BY <2>1, <2>3, <3>2, <3>3
 <2>5. CASE es[i + 1] \notin ks
  <3>1. \A j \in 1 .. i : es[j] # es[i + 1]  BY <1>1 DEF Spread
  <3>2. es[i + 1] \notin Within(kept[i])  BY <2>1, <3>1
  <3>3. /\ Spread(kept[i + 1]) /\ Within(kept[i + 1]) = Within(kept[i]) \cup {es[i + 1]}
        /\ Len(kept[i + 1]) = Len(kept[i]) + 1  BY <2>1, <2>2, <2>3, <2>5, <3>2, SpreadAppend
  <3>4. Within(kept[i + 1]) = {es[j] : j \in 1 .. i + 1} \ ks  BY <2>1, <2>5, <3>3
  <3> QED  BY <2>1, <2>3, <2>5, <3>3, <3>4, SMTT(60)
 <2> QED  BY <2>4, <2>5
<1>8. Good(n)
 <2>1. n \in T
  <3> HIDE DEF T
  <3> QED  BY <1>1, <1>6, <1>7, Induct
 <2> QED  BY <1>1, <2>1
<1> QED  BY <1>1, <1>5, <1>8, SMTT(60) DEF Spread, Within

\* What is in the eviction order.
LEMMA ToSetIs == ASSUME NEW es \in Seq(Keys) PROVE Q!ToSet(es) = Within(es)
BY DEF Q!ToSet, Within

\* Room is made by the dead first, then by the oldest.
LEMMA EvictedIs ==
  ASSUME NEW es, Spread(es), NEW dead
  PROVE  /\ Spread(Q!Evicted(es, dead)) /\ Within(Q!Evicted(es, dead)) \subseteq Within(es) \ dead
         /\ Len(Q!Evicted(es, dead)) \in Nat
         /\ Len(Q!Evicted(es, dead)) <= (IF Capacity > 0 THEN Capacity - 1 ELSE 0)
<1> DEFINE live == Q!Without(es, dead)
           room == IF Capacity > 0 THEN Capacity - 1 ELSE 0
           a == Len(live) - room + 1
<1>1. Spread(live) /\ Within(live) = Within(es) \ dead /\ Len(live) \in Nat  BY WithoutIs
<1>2. room \in Nat  BY KvAssumption
<1>3. Q!Evicted(es, dead) = IF Len(live) > room THEN SubSeq(live, a, Len(live)) ELSE live  BY DEF Q!Evicted
<1>4. CASE Len(live) > room
 <2> HIDE DEF live, room
 <2>1. a \in 1 .. Len(live) + 1  BY <1>1, <1>2, <1>4
 <2> HIDE DEF a
 <2>2. /\ Spread(SubSeq(live, a, Len(live))) /\ Within(SubSeq(live, a, Len(live))) \subseteq Within(live)
       /\ Len(SubSeq(live, a, Len(live))) = Len(live) - a + 1  BY <1>1, <2>1, SpreadTail
 <2>3. Len(live) - a + 1 = room  BY <1>1, <1>2 DEF a
 <2>4. Q!Evicted(es, dead) = SubSeq(live, a, Len(live))  BY <1>3, <1>4
 <2>5. room = IF Capacity > 0 THEN Capacity - 1 ELSE 0  BY DEF room
 <2> DEFINE kept == SubSeq(live, a, Len(live))
 <2>6. Spread(kept) /\ Within(kept) \subseteq Within(es) \ dead /\ Len(kept) = room  BY <1>1, <2>2, <2>3
 <2> HIDE DEF kept
 <2> QED  BY <1>2, <2>4, <2>5, <2>6 DEF kept
<1>5. CASE ~(Len(live) > room)
 <2> HIDE DEF live, room
 <2>1. Len(live) <= room /\ Q!Evicted(es, dead) = live  BY <1>1, <1>2, <1>3, <1>5
 <2> QED  BY <1>1, <2>1 DEF room
<1> QED  BY <1>4, <1>5

Roomy(es) == engine = "local" => Len(es) <= Capacity \/ Len(es) <= 1

\* Room is made before a key is put in.
LEMMA InsertedIs ==
  ASSUME NEW es, Spread(es), Roomy(es), NEW k \in Keys, NEW dead
  PROVE  LET e == Q!Inserted(es, k, dead)
         IN  /\ Spread(e) /\ Roomy(e) /\ k \in Within(e) /\ Within(e) \subseteq Within(es) \cup {k}
             /\ Within(es) \subseteq Within(e) \/ Within(e) \subseteq (Within(es) \ dead) \cup {k}
<1> DEFINE full == engine = "local" /\ k \notin Q!ToSet(es) /\ Len(es) >= Capacity
           b == IF full THEN Q!Evicted(es, dead) ELSE es
           w == Q!Without(b, {k})
           e == Append(w, k)
<1>1. Q!Inserted(es, k, dead) = e  BY DEF Q!Inserted
<1>2. /\ Spread(b) /\ Within(b) \subseteq Within(es) /\ Len(b) \in Nat
      /\ full => Within(b) \subseteq Within(es) \ dead /\ Len(b) <= (IF Capacity > 0 THEN Capacity - 1 ELSE 0)
      /\ ~full => b = es  BY EvictedIs DEF Spread
<1>3. full <=> engine = "local" /\ k \notin Within(es) /\ Len(es) >= Capacity  BY ToSetIs DEF Spread
<1> HIDE DEF full, b
<1>4. /\ Spread(w) /\ Within(w) = Within(b) \ {k} /\ Len(w) \in Nat /\ Len(w) <= Len(b)
      /\ k \in Within(b) => Len(w) < Len(b)  BY <1>2, WithoutIs
<1> HIDE DEF w
<1>5. Spread(e) /\ Within(e) = Within(w) \cup {k} /\ Len(e) = Len(w) + 1  BY <1>4, SpreadAppend
<1> HIDE DEF e
<1>6. Roomy(e)
 <2> SUFFICES ASSUME engine = "local" PROVE Len(e) <= Capacity \/ Len(e) <= 1  BY DEF Roomy
 <2>1. Capacity \in Nat /\ Len(es) \in Nat  BY KvAssumption DEF Spread
 <2>2. CASE full  BY <1>2, <1>4, <1>5, <2>1, <2>2
 <2>3. CASE ~full  BY <1>2, <1>3, <1>4, <1>5, <2>1, <2>3 DEF Roomy
 <2> QED  BY <2>2, <2>3
<1>7. Within(es) \subseteq Within(e) \/ Within(e) \subseteq (Within(es) \ dead) \cup {k}  BY <1>2, <1>4, <1>5
<1> QED  BY <1>1, <1>2, <1>4, <1>5, <1>6, <1>7

\* Keys written in turn: the last one is there, and where one that was fresh had to
\* go, nothing expired is left but what was written.
LEMMA InsertedAllIs ==
  ASSUME NEW es, Spread(es), Roomy(es), NEW ks \in Seq(Keys), NEW ttl
  PROVE  LET e == Q!InsertedAll(es, ks, ttl)
         IN  /\ Spread(e) /\ Roomy(e) /\ Within(e) \subseteq Within(es) \cup Within(ks)
             /\ Len(ks) > 0 => ks[Len(ks)] \in Within(e)
             /\ \/ {k \in Within(es) : ~Q!Expired(k)} \subseteq Within(e)
                \/ {k \in Within(e) : Q!Expired(k)} \subseteq Within(ks)
<1> DEFINE n == Len(ks)
           written(i) == {ks[j] : j \in 1 .. (i - 1)}
           dead(i) == ({k \in Keys : Q!Expired(k)} \ written(i)) \cup IF ttl = 0 THEN written(i) ELSE {}
           V == {v \in Seq(Keys) : Spread(v) /\ Roomy(v)}
           next == [i \in 1 .. n |-> [v \in V |-> Q!Inserted(v, ks[i], dead(i))]]
           after[i \in 0 .. n] == IF i = 0 THEN es ELSE Q!Inserted(after[i - 1], ks[i], dead(i))
<1>1. n \in Nat /\ es \in V /\ \A i \in 1 .. n : ks[i] \in Keys  BY DEF Spread
<1>2. Q!InsertedAll(es, ks, ttl) = after[n]  BY DEF Q!InsertedAll
<1> HIDE DEF dead, n
<1>3. \A i \in 1 .. n : \A v \in V : Q!Inserted(v, ks[i], dead(i)) \in V
 <2> SUFFICES ASSUME NEW i \in 1 .. n, NEW v \in V PROVE Q!Inserted(v, ks[i], dead(i)) \in V  OBVIOUS
 <2>1. Spread(Q!Inserted(v, ks[i], dead(i))) /\ Roomy(Q!Inserted(v, ks[i], dead(i)))  BY <1>1, InsertedIs
 <2> QED  BY <2>1 DEF Spread
<1>4. after = [i \in 0 .. n |-> IF i = 0 THEN es ELSE Q!Inserted(after[i - 1], ks[i], dead(i))]
 <2>1. \A i \in 1 .. n : \A v \in V : next[i][v] = Q!Inserted(v, ks[i], dead(i))  OBVIOUS
 <2> HIDE DEF next, V
 <2>10. n \in Nat /\ es \in V /\ \A i \in 1 .. n : \A v \in V : next[i][v] \in V  BY <1>1, <1>3, <2>1
 <2>2. PICK g \in [0 .. n -> V] : Chained(g, n, es, next)  BY <2>10, Recursion, Zenon
 <2>3. ASSUME NEW i \in 0 .. n PROVE g[i] = IF i = 0 THEN es ELSE Q!Inserted(g[i - 1], ks[i], dead(i))
  <3>1. CASE i = 0  BY <2>2, <3>1 DEF Chained
  <3>2. CASE i # 0
   <4>1. i \in 1 .. n /\ i - 1 \in 0 .. n  BY <1>1, <3>2
   <4>2. g[i - 1] \in V /\ g[i] = next[i][g[i - 1]]  BY <2>2, <4>1 DEF Chained
   <4> QED  BY <2>1, <3>2, <4>1, <4>2
  <3> QED  BY <3>1, <3>2
 <2>4. g = [i \in 0 .. n |-> g[i]]  OBVIOUS
 <2>5. g = [i \in 0 .. n |-> IF i = 0 THEN es ELSE Q!Inserted(g[i - 1], ks[i], dead(i))]  BY <2>3, <2>4
 <2>6. \E f : f = [i \in 0 .. n |-> IF i = 0 THEN es ELSE Q!Inserted(f[i - 1], ks[i], dead(i))]  BY <2>5
 <2> QED  BY <2>6
<1> HIDE DEF after
<1> DEFINE Good(i) == /\ Spread(after[i]) /\ Roomy(after[i])
                      /\ i > 0 => ks[i] \in Within(after[i])
                      /\ Within(after[i]) \subseteq Within(es) \cup {ks[j] : j \in 1 .. i}
                      /\ \/ {k \in Within(es) : ~Q!Expired(k)} \subseteq Within(after[i])
                         \/ {k \in Within(after[i]) : Q!Expired(k)} \subseteq {ks[j] : j \in 1 .. i}
           T == {i \in Nat : i <= n => Good(i)}
<1>5. 0 \in T
 <2>1. after[0] = es  BY <1>1, <1>4
 <2> QED  BY <1>1, <2>1
<1>6. ASSUME NEW i \in Nat, i \in T PROVE i + 1 \in T
 <2> DEFINE a == i + 1
            k == ks[a]
            d == dead(a)
 <2> SUFFICES ASSUME a <= n PROVE Good(a)  OBVIOUS
 <2>1. Good(i) /\ a \in 1 .. n /\ a # 0 /\ a - 1 = i /\ k \in Keys /\ a \in Nat
  <3>1. i <= n /\ a \in 1 .. n /\ a # 0 /\ a - 1 = i /\ a \in Nat  BY <1>1
  <3>2. Good(i)  BY <1>6, <3>1
  <3> QED  BY <1>1, <3>1, <3>2
 <2>2. {ks[j] : j \in 1 .. a} = {ks[j] : j \in 1 .. i} \cup {k}  BY <2>1
 <2>3. {x \in Keys : Q!Expired(x)} \ {ks[j] : j \in 1 .. i} \subseteq d  BY <2>1 DEF dead
 <2> HIDE DEF a, k, d
 <2>4. after[a] = Q!Inserted(after[i], k, d)
  <3>1. a \in 0 .. n  BY <1>1, <2>1
  <3>2. after[a] = IF a = 0 THEN es ELSE Q!Inserted(after[a - 1], ks[a], dead(a))  BY <1>4, <3>1
  <3> QED  BY <2>1, <3>2 DEF k, d
 <2>5. /\ Spread(after[a]) /\ Roomy(after[a]) /\ k \in Within(after[a])
       /\ Within(after[a]) \subseteq Within(after[i]) \cup {k}
       /\ Within(after[i]) \subseteq Within(after[a]) \/ Within(after[a]) \subseteq (Within(after[i]) \ d) \cup {k}
   BY <2>1, <2>4, InsertedIs
 <2>6. \A x \in Within(after[i]) : x \in Keys  BY <2>1 DEF Spread, Within
 <2> DEFINE old == {ks[j] : j \in 1 .. i}
            now == {ks[j] : j \in 1 .. a}
            w == Within(after[i])
            x == Within(after[a])
 <2>7. /\ now = old \cup {k} /\ w \subseteq Within(es) \cup old
       /\ k \in x /\ x \subseteq w \cup {k} /\ (w \subseteq x \/ x \subseteq (w \ d) \cup {k})
       /\ {y \in Keys : Q!Expired(y)} \ old \subseteq d /\ w \subseteq Keys
       /\ \/ {y \in Within(es) : ~Q!Expired(y)} \subseteq w
          \/ {y \in w : Q!Expired(y)} \subseteq old  BY <2>1, <2>2, <2>3, <2>5, <2>6
 <2> HIDE DEF old, now, w, x
 <2>8. x \subseteq Within(es) \cup now  BY <2>7
 <2>9. \/ {y \in Within(es) : ~Q!Expired(y)} \subseteq x
       \/ {y \in x : Q!Expired(y)} \subseteq now  BY <2>7
 <2> QED  BY <2>5, <2>8, <2>9 DEF now, x, k
<1>7. Good(n)
 <2>1. n \in T
  <3> HIDE DEF T
  <3> QED  BY <1>1, <1>5, <1>6, Induct
 <2> QED  BY <1>1, <2>1
<1>8. Within(ks) = {ks[j] : j \in 1 .. n}  BY DEF Within, n
<1> QED  BY <1>1, <1>2, <1>7, <1>8 DEF n

\* What the caches hold: the time left is the time asked for, and a lock that
\* was not evicted is on a fresh key and the only one on it.
KvInv ==
  /\ engine \in {"local", "redis"} /\ default_ttl \in DefaultTtls
  /\ Spread(entries) /\ Roomy(entries)
  /\ value \in [Keys -> Callers \cup {"nobody"}]
  /\ left \in [Keys -> Nat \cup {NoTtl}] /\ leftFor = left
  /\ locks \subseteq Callers \X Keys
  /\ ~hasty
  /\ \A l \in locks : l[2] \notin evicted => l[2] \in Within(entries) /\ left[l[2]] # 0
  /\ \A l, m \in locks : l[2] = m[2] /\ l[2] \notin evicted => l = m

\* The time to live of a call is a number, none, or past the end of the clock.
LEMMA ResolvedIs ==
  ASSUME KvInv, NEW t \in Ttls, ~Q!Refused(Q!ResolveTtl(t))
  PROVE  Q!ResolveTtl(t) \in Nat \cup {NoTtl}
BY KvAssumption DEF KvInv, Q!ResolveTtl, Q!Refused

\* A write of keys over what is left of the entries.
LEMMA PutKeeps ==
  ASSUME KvInv, NEW es, Spread(es), Roomy(es), Within(es) \subseteq Within(entries),
         \A k \in Within(entries) : left[k] # 0 => k \in Within(es),
         NEW ks \in Seq(Keys), Len(ks) > 0, NEW c \in Callers, NEW t \in Ttls,
         ~Q!Refused(Q!ResolveTtl(t)), Q!Put(es, ks, c, t), UNCHANGED <<engine, default_ttl>>
  PROVE  /\ Spread(entries') /\ Roomy(entries)' /\ ks[Len(ks)] \in Within(entries')
         /\ value' \in [Keys -> Callers \cup {"nobody"}]
         /\ left' \in [Keys -> Nat \cup {NoTtl}] /\ leftFor' = left'
         /\ \A k \in Keys : left'[k] = IF k \in Within(ks) THEN Q!ResolveTtl(t) ELSE left[k]
         /\ ~hasty' /\ evicted \subseteq evicted'
         /\ \A k \in Within(entries) : left[k] # 0 /\ k \notin evicted' => k \in Within(entries')
<1> DEFINE ttl == Q!ResolveTtl(t)
           e == Q!InsertedAll(es, ks, ttl)
           gone == {k \in Keys : Q!Fresh(k) /\ k \notin Q!ToSet(entries')}
<1>1. /\ Spread(e) /\ Roomy(e) /\ Within(e) \subseteq Within(es) \cup Within(ks) /\ ks[Len(ks)] \in Within(e)
      /\ \/ {k \in Within(es) : ~Q!Expired(k)} \subseteq Within(e)
         \/ {k \in Within(e) : Q!Expired(k)} \subseteq Within(ks)  BY InsertedAllIs
<1>2. /\ Q!ToSet(ks) = Within(ks) /\ Q!ToSet(entries) = Within(entries) /\ Q!ToSet(e) = Within(e)
      /\ Within(entries) \subseteq Keys  BY <1>1, ToSetIs DEF KvInv, Spread, Within
<1>3. /\ entries' = e
      /\ value' = [k \in Keys |-> IF k \in Within(ks) THEN c ELSE value[k]]
      /\ left' = [k \in Keys |-> IF k \in Within(ks) THEN ttl ELSE left[k]]
      /\ leftFor' = [k \in Keys |->
           IF k \notin Within(ks) THEN leftFor[k]
           ELSE IF t = NoTtl /\ engine = "local" THEN default_ttl ELSE t]
      /\ evicted' = evicted \cup gone
      /\ hasty' = (hasty \/ (gone # {} /\ \E k \in (Q!ToSet(entries') \cap Q!Present) \ Q!ToSet(ks) : Q!Expired(k)))
  BY <1>2 DEF Q!Put
<1>4. ttl \in Nat \cup {NoTtl} /\ ttl = IF t = NoTtl /\ engine = "local" THEN default_ttl ELSE t
  BY ResolvedIs DEF Q!ResolveTtl
<1> HIDE DEF e, ttl
<1>5. gone = {k \in Keys : k \in Within(entries) /\ left[k] # 0 /\ k \notin Within(e)}
  BY <1>2, <1>3 DEF Q!Fresh, Q!Present, Q!Expired
<1>6. ~hasty'
 <2>1. ~hasty  BY DEF KvInv
 <2>2. CASE {k \in Within(es) : ~Q!Expired(k)} \subseteq Within(e)
  <3>1. gone = {}  BY <1>5, <2>2 DEF Q!Expired
  <3> QED  BY <1>3, <2>1, <3>1
 <2>3. CASE {k \in Within(e) : Q!Expired(k)} \subseteq Within(ks)  BY <1>2, <1>3, <2>1, <2>3
 <2> QED  BY <1>1, <2>2, <2>3
<1>7. value' \in [Keys -> Callers \cup {"nobody"}] /\ left' \in [Keys -> Nat \cup {NoTtl}]  BY <1>3, <1>4 DEF KvInv
<1>8. leftFor' = left'  BY <1>3, <1>4 DEF KvInv
<1>9. \A k \in Within(entries) : left[k] # 0 /\ k \notin evicted' => k \in Within(entries')  BY <1>2, <1>3, <1>5
<1>10. Roomy(entries)'  BY <1>1, <1>3 DEF Roomy
<1> QED  BY <1>1, <1>3, <1>6, <1>7, <1>8, <1>9, <1>10 DEF ttl

LEMMA SubSeqIs ==
  ASSUME NEW s \in Seq(Keys), NEW n \in 1 .. Len(s)
  PROVE  SubSeq(s, 1, n) \in Seq(Keys) /\ Len(SubSeq(s, 1, n)) = n
OBVIOUS

\* The instance counts with the same Cardinality.
LEMMA CardinalityIs == ASSUME NEW S PROVE Q!Cardinality(S) = Cardinality(S)
BY DEF Q!Cardinality, Cardinality

LEMMA KvStart == Q!KvInit => KvInv
BY DEF Q!KvInit, KvInv, Spread, Roomy, Within, Q!Nobody

\* A call that writes does so, or leaves all but its count and the poison.
LEMMA KvStep == KvInv /\ [Q!KvNext]_kvVars => KvInv'
<1> SUFFICES ASSUME KvInv, [Q!KvNext]_kvVars PROVE KvInv'  OBVIOUS
<1>1. ASSUME UNCHANGED <<engine, default_ttl, entries, value, left, locks, leftFor, evicted, hasty>> PROVE KvInv'
 <2>1. Roomy(entries)'  BY <1>1 DEF KvInv, Roomy
 <2> QED  BY <1>1, <2>1 DEF KvInv
<1>2. ASSUME NEW es, Spread(es), Roomy(es), Within(es) \subseteq Within(entries),
             \A k \in Within(entries) : left[k] # 0 => k \in Within(es),
             NEW ks \in Seq(Keys), Len(ks) > 0, NEW c \in Callers, NEW t \in Ttls,
             ~Q!Refused(Q!ResolveTtl(t)), Q!Put(es, ks, c, t), UNCHANGED <<engine, default_ttl>>,
             locks' = Q!Unlocked(Within(ks))
      PROVE  KvInv'
 <2>1. /\ Spread(entries') /\ Roomy(entries)' /\ value' \in [Keys -> Callers \cup {"nobody"}]
       /\ left' \in [Keys -> Nat \cup {NoTtl}] /\ leftFor' = left'
       /\ \A k \in Keys : left'[k] = IF k \in Within(ks) THEN Q!ResolveTtl(t) ELSE left[k]
       /\ ~hasty' /\ evicted \subseteq evicted'
       /\ \A k \in Within(entries) : left[k] # 0 /\ k \notin evicted' => k \in Within(entries')  BY <1>2, PutKeeps
 <2>2. locks' = {l \in locks : l[2] \notin Within(ks)} /\ locks' \subseteq Callers \X Keys
   BY <1>2 DEF Q!Unlocked, KvInv
 <2>3. ASSUME NEW l \in locks', l[2] \notin evicted' PROVE l[2] \in Within(entries') /\ left'[l[2]] # 0
  <3>1. l \in locks /\ l[2] \in Keys /\ l[2] \notin Within(ks) /\ l[2] \notin evicted  BY <2>1, <2>2, <2>3
  <3> QED  BY <2>1, <2>3, <3>1 DEF KvInv
 <2>4. \A l, m \in locks' : l[2] = m[2] /\ l[2] \notin evicted' => l = m  BY <2>1, <2>2 DEF KvInv
 <2>5. engine' \in {"local", "redis"} /\ default_ttl' \in DefaultTtls  BY <1>2 DEF KvInv
 <2> QED  BY <2>1, <2>2, <2>3, <2>4, <2>5 DEF KvInv
<1>3. Spread(entries) /\ Roomy(entries) /\ Within(entries) \subseteq Keys  BY DEF KvInv, Spread, Within
<1>4. ASSUME NEW c \in Callers, NEW k \in Keys, NEW t \in Ttls, Q!Set(c, k, t) PROVE KvInv'
 <2> DEFINE ks == <<k>>
 <2>1. ks \in Seq(Keys) /\ Len(ks) > 0 /\ Within(ks) = {k}  BY DEF Within
 <2>2. CASE UNCHANGED <<entries, value, left, locks, leftFor, evicted, hasty, engine, default_ttl>>  BY <1>1, <2>2
 <2>3. CASE /\ ~Q!Refused(Q!ResolveTtl(t)) /\ Q!Put(entries, ks, c, t) /\ UNCHANGED <<engine, default_ttl>>
            /\ locks' = Q!Unlocked({k})
  <3> HIDE DEF ks
  <3> QED  BY <1>2, <1>3, <2>1, <2>3
 <2> QED  BY <1>4, <2>2, <2>3 DEF Q!Set, Q!Write
<1>5. ASSUME NEW c \in Callers, NEW k \in Keys, NEW t \in Ttls, Q!SetNx(c, k, t) PROVE KvInv'
 <2> DEFINE ks == <<k>>
            es == Q!Without(entries, {k})
 <2>1. ks \in Seq(Keys) /\ Len(ks) = 1 /\ Within(ks) = {k} /\ ks[1] = k  BY DEF Within
 <2>2. CASE UNCHANGED <<entries, value, left, locks, leftFor, evicted, hasty, engine, default_ttl>>  BY <1>1, <2>2
 <2>3. CASE /\ ~Q!Refused(Q!ResolveTtl(t)) /\ Q!Put(es, ks, c, t) /\ UNCHANGED <<engine, default_ttl>>
            /\ \/ locks' = locks
               \/ Q!ResolveTtl(t) # 0 /\ locks' = locks \cup {<<c, k>>}
            /\ ~Q!Fresh(k)
  <3>1. Spread(es) /\ Within(es) = Within(entries) \ {k} /\ Len(es) \in Nat /\ Len(es) <= Len(entries)
    BY <1>3, WithoutIs
  <3>2. Len(entries) \in Nat /\ Capacity \in Nat  BY <1>3, KvAssumption DEF Spread
  <3>3. Roomy(es)  BY <1>3, <3>1, <3>2 DEF Roomy
  <3>4. k \in Within(entries) => left[k] = 0  BY <1>3, <2>3, ToSetIs DEF Q!Fresh, Q!Present, Q!Expired, Spread
  <3> HIDE DEF es, ks
  <3>5. /\ Spread(entries') /\ Roomy(entries)' /\ value' \in [Keys -> Callers \cup {"nobody"}]
        /\ k \in Within(entries')
        /\ left' \in [Keys -> Nat \cup {NoTtl}] /\ leftFor' = left'
        /\ \A x \in Keys : left'[x] = IF x = k THEN Q!ResolveTtl(t) ELSE left[x]
        /\ ~hasty' /\ evicted \subseteq evicted'
        /\ \A x \in Within(entries) : left[x] # 0 /\ x \notin evicted' => x \in Within(entries')
    BY <2>1, <2>3, <3>1, <3>3, <3>4, PutKeeps
  <3>6. \A l \in locks : l[2] = k => l[2] \in evicted  BY <3>4 DEF KvInv
  <3>7. locks \subseteq Callers \X Keys /\ locks' \subseteq Callers \X Keys /\ \A l \in locks : l[2] \in Keys
    BY <2>3 DEF KvInv
  <3>8. ASSUME NEW l \in locks', l[2] \notin evicted' PROVE l[2] \in Within(entries') /\ left'[l[2]] # 0
   <4>1. CASE l \in locks
    <5>1. l[2] \notin evicted /\ l[2] # k /\ l[2] \in Keys  BY <3>5, <3>6, <3>7, <3>8, <4>1
    <5> QED  BY <3>5, <3>8, <4>1, <5>1 DEF KvInv
   <4>2. CASE l \notin locks
    <5>1. l = <<c, k>> /\ Q!ResolveTtl(t) # 0  BY <2>3, <3>8, <4>2
    <5> QED  BY <3>5, <5>1
   <4> QED  BY <4>1, <4>2
  <3>9. ASSUME NEW l \in locks', NEW m \in locks', l[2] = m[2], l[2] \notin evicted' PROVE l = m
   <4>1. l[2] \notin evicted  BY <3>5, <3>9
   <4>2. l \in locks <=> m \in locks  BY <2>3, <3>6, <3>9, <4>1
   <4>3. l \notin locks => l = m  BY <2>3, <3>9, <4>2
   <4> QED  BY <3>9, <4>1, <4>2, <4>3 DEF KvInv
  <3>10. engine' \in {"local", "redis"} /\ default_ttl' \in DefaultTtls  BY <2>3 DEF KvInv
  <3> QED  BY <3>5, <3>7, <3>8, <3>9, <3>10 DEF KvInv
 <2> QED  BY <1>5, <2>2, <2>3 DEF Q!SetNx, Q!Write, Q!Taken
<1>6. ASSUME NEW c \in Callers, NEW k \in Keys, NEW l \in Keys, NEW t \in Ttls, Q!SetMulti(c, <<k, l>>, t) PROVE KvInv'
 <2> DEFINE all == <<k, l>>
 <2>1. PICK n \in 1 .. 2 : \/ UNCHANGED <<entries, value, left, locks, leftFor, evicted, hasty, engine, default_ttl>>
                           \/ /\ ~Q!Refused(Q!ResolveTtl(t)) /\ Q!Put(entries, SubSeq(all, 1, n), c, t)
                              /\ locks' = Q!Unlocked(Q!ToSet(SubSeq(all, 1, n)))
                              /\ UNCHANGED <<engine, default_ttl>>  BY <1>6 DEF Q!SetMulti, Q!Write
 <2> DEFINE ks == SubSeq(all, 1, n)
 <2>2. ks \in Seq(Keys) /\ Len(ks) > 0
  <3>1. all \in Seq(Keys) /\ Len(all) = 2  OBVIOUS
  <3> HIDE DEF all
  <3>2. n \in 1 .. Len(all)  BY <3>1
  <3>3. SubSeq(all, 1, n) \in Seq(Keys) /\ Len(SubSeq(all, 1, n)) = n  BY <3>1, <3>2, SubSeqIs
  <3> QED  BY <3>3
 <2>3. Q!ToSet(ks) = Within(ks)  BY <2>2, ToSetIs
 <2> HIDE DEF ks
 <2>4. CASE UNCHANGED <<entries, value, left, locks, leftFor, evicted, hasty, engine, default_ttl>>  BY <1>1, <2>4
 <2>5. CASE /\ ~Q!Refused(Q!ResolveTtl(t)) /\ Q!Put(entries, ks, c, t) /\ locks' = Q!Unlocked(Q!ToSet(ks))
            /\ UNCHANGED <<engine, default_ttl>>  BY <1>2, <1>3, <2>2, <2>3, <2>5
 <2> QED  BY <2>1, <2>4, <2>5 DEF ks
<1>7. ASSUME NEW ks, Q!Clear(ks) PROVE KvInv'
 <2> DEFINE es == Q!Without(entries, ks)
 <2>1. CASE UNCHANGED <<entries, value, left, locks, leftFor, evicted, hasty, engine, default_ttl>>  BY <1>1, <2>1
 <2>2. CASE /\ entries' = es /\ locks' = {l \in locks : l[2] \notin ks}
            /\ UNCHANGED <<value, left, leftFor, evicted, hasty, engine, default_ttl>>
  <3>1. /\ Spread(es) /\ Within(es) = Within(entries) \ ks /\ Len(es) \in Nat /\ Len(es) <= Len(entries)
        /\ Len(entries) \in Nat /\ Capacity \in Nat  BY <1>3, WithoutIs, KvAssumption DEF Spread
  <3> HIDE DEF es
  <3>2. Spread(entries') /\ Roomy(entries)'  BY <1>3, <2>2, <3>1 DEF Roomy
  <3> QED  BY <2>2, <3>1, <3>2 DEF KvInv
 <2> QED  BY <1>7, <2>1, <2>2 DEF Q!Clear, Q!Write, Q!Unlocked
<1>8. ASSUME NEW k \in Keys, Q!ReadEntry(k) PROVE KvInv'
 <2> DEFINE ks == {k}
            es == Q!Without(entries, ks)
 <2>1. /\ entries' = es /\ left[k] = 0
       /\ UNCHANGED <<value, left, leftFor, evicted, hasty, engine, default_ttl, locks>>
   BY <1>8 DEF Q!ReadEntry, Q!Expired
 <2> HIDE DEF ks
 <2>2. /\ Spread(es) /\ Within(es) = Within(entries) \ ks /\ Len(es) \in Nat /\ Len(es) <= Len(entries)
       /\ Len(entries) \in Nat /\ Capacity \in Nat  BY <1>3, WithoutIs, KvAssumption DEF Spread
 <2> HIDE DEF es
 <2>3. Spread(entries') /\ Roomy(entries)'  BY <1>3, <2>1, <2>2 DEF Roomy
 <2> QED  BY <2>1, <2>2, <2>3 DEF KvInv, ks
<1>9. CASE Q!KvTick
 <2>1. /\ left' = [k \in Keys |-> IF left[k] \in {NoTtl, 0} THEN left[k] ELSE left[k] - 1]
       /\ leftFor' = [k \in Keys |-> IF leftFor[k] \in {NoTtl, 0} THEN leftFor[k] ELSE leftFor[k] - 1]
       /\ locks' = {l \in locks : l[2] \notin {k \in Keys : leftFor'[k] = 0}}
       /\ UNCHANGED <<engine, default_ttl, entries, value, evicted, hasty>>
   BY <1>9 DEF Q!KvTick, Q!Elapse, Q!Unlocked
 <2>2. left' \in [Keys -> Nat \cup {NoTtl}] /\ leftFor' = left'  BY <2>1 DEF KvInv
 <2>3. locks' \subseteq locks /\ \A l \in locks' : l[2] \in Keys /\ left'[l[2]] # 0  BY <2>1, <2>2 DEF KvInv
 <2> QED  BY <2>1, <2>2, <2>3 DEF KvInv, Roomy
<1>10. CASE UNCHANGED kvVars  BY <1>1, <1>10 DEF kvVars
<1> QED  BY <1>4, <1>5, <1>6, <1>7, <1>8, <1>9, <1>10 DEF Q!KvNext, Q!Delete, Q!Close

\* What the run checks of the caches.
LEMMA KvInvGives == KvInv => Q!KvTypeOK /\ Q!CacheHolds
<1> SUFFICES ASSUME KvInv PROVE Q!KvTypeOK /\ Q!CacheHolds  OBVIOUS
<1>1. Q!Present = Within(entries) /\ Q!Present \subseteq Keys  BY ToSetIs DEF KvInv, Spread, Within, Q!Present
<1>2. Q!KvTypeOK  BY <1>1 DEF KvInv, Spread, Roomy, Q!KvTypeOK, Q!IsInjective, Q!Nobody
<1>3. ASSUME NEW k \in Keys \ evicted PROVE Q!Cardinality({l \in locks : l[2] = k}) <= 1
 <2> DEFINE mine == {l \in locks : l[2] = k}
 <2>0. Q!Cardinality(mine) = Cardinality(mine)  BY CardinalityIs
 <2>1. \A l, m \in mine : l = m  BY <1>3 DEF KvInv
 <2>2. CASE mine = {}  BY <2>0, <2>2, FS_EmptySet
 <2>3. CASE mine # {}
  <3>1. PICK l \in mine : TRUE  BY <2>3
  <3>2. mine = {l}  BY <2>1, <3>1
  <3>3. Cardinality({l}) = 1  BY FS_Singleton
  <3> HIDE DEF mine
  <3>4. Q!Cardinality(mine) <= 1  BY <2>0, <3>2, <3>3
  <3> QED  BY <3>4 DEF mine
 <2> QED  BY <2>2, <2>3
<1>4. \A k \in Keys : Q!Get(k) # "nobody" => leftFor[k] # 0  BY <1>1 DEF KvInv, Q!Get, Q!Fresh, Q!Expired, Q!Nobody
<1>5. ~hasty  BY DEF KvInv
<1> QED  BY <1>2, <1>3, <1>4, <1>5 DEF Q!CacheHolds, Q!Nobody

-------------------------------------------------------------------------------
(* The windows of bbr.                                                     *)

\* The total of the buckets: a number, and zero unless one of them counts.
LEMMA RingSum ==
  ASSUME NEW f \in [Ring!Slots -> Nat]
  PROVE  /\ Ring!Sum(f) \in Nat
         /\ Ring!Sum(f) # 0 => \E i \in Ring!Slots : f[i] > 0
<1> DEFINE n == BbrBuckets
           next == [i \in 1 .. n |-> [v \in Nat |-> v + f[i - 1]]]
           upto[i \in 0 .. BbrBuckets] == IF i = 0 THEN 0 ELSE upto[i - 1] + f[i - 1]
<1>1. n \in Nat /\ 0 \in Nat /\ \A i \in 1 .. n : f[i - 1] \in Nat /\ i - 1 \in Ring!Slots
  BY BbrAssumption DEF Ring!Slots
<1>2. Ring!Sum(f) = upto[n]  BY DEF Ring!Sum
<1> HIDE DEF n
<1>3. \A i \in 1 .. n : \A v \in Nat : next[i][v] \in Nat /\ next[i][v] = v + f[i - 1]  BY <1>1
<1>4. upto = [i \in 0 .. n |-> IF i = 0 THEN 0 ELSE upto[i - 1] + f[i - 1]]
 <2> DEFINE V == Nat
            first == 0
 <2>1. first \in V /\ \A i \in 1 .. n : \A v \in V : next[i][v] \in V  BY <1>3
 <2>2. PICK g \in [0 .. n -> Nat] : Chained(g, n, 0, next)
  <3> HIDE DEF next, V, first
  <3>1. \E g \in [0 .. n -> V] : Chained(g, n, first, next)  BY <1>1, <2>1, Recursion
  <3> QED  BY <3>1 DEF V, first
 <2>3. ASSUME NEW i \in 0 .. n PROVE g[i] = IF i = 0 THEN 0 ELSE g[i - 1] + f[i - 1]
  <3> HIDE DEF next
  <3>1. CASE i = 0  BY <2>2, <3>1 DEF Chained
  <3>2. CASE i # 0
   <4>1. i \in 1 .. n /\ i - 1 \in 0 .. n  BY <1>1, <3>2
   <4>2. g[i - 1] \in Nat /\ g[i] = next[i][g[i - 1]]  BY <2>2, <4>1 DEF Chained
   <4> QED  BY <1>3, <3>2, <4>1, <4>2
  <3> QED  BY <3>1, <3>2
 <2>4. g = [i \in 0 .. n |-> g[i]]  OBVIOUS
 <2>5. g = [i \in 0 .. n |-> IF i = 0 THEN 0 ELSE g[i - 1] + f[i - 1]]  BY <2>3, <2>4
 <2>6. \E h : h = [i \in 0 .. n |-> IF i = 0 THEN 0 ELSE h[i - 1] + f[i - 1]]  BY <2>5
 <2> QED  BY <2>6 DEF n
<1> HIDE DEF upto, next
<1> DEFINE Good(i) == upto[i] \in Nat /\ (upto[i] # 0 => \E j \in Ring!Slots : f[j] > 0)
           T == {i \in Nat : i <= n => Good(i)}
<1>5. 0 \in T  BY <1>1, <1>4
<1>6. ASSUME NEW i \in Nat, i \in T PROVE i + 1 \in T
 <2> DEFINE a == i + 1
 <2> SUFFICES ASSUME a <= n PROVE Good(a)  OBVIOUS
 <2>1. a \in 0 .. n /\ a \in 1 .. n /\ a # 0 /\ a - 1 = i /\ i <= n  BY <1>1
 <2>2. Good(i)  BY <1>6, <2>1
 <2> HIDE DEF a
 <2>3. upto[a] = upto[a - 1] + f[a - 1]  BY <1>4, <2>1
 <2> QED  BY <1>1, <2>1, <2>2, <2>3
<1>7. n \in T
 <2> HIDE DEF T
 <2> QED  BY <1>1, <1>5, <1>6, Induct
<1> QED  BY <1>1, <1>2, <1>7

\* The figures that bbr computes are numbers.
LEMMA ShareIs ==
  ASSUME NEW num \in Nat, NEW den \in Nat \ {0} PROVE Share(num, den) \in Nat
<1>1. num * ThresholdNum \in Nat /\ den * ThresholdDen \in Nat \ {0}  BY BbrAssumption
<1> DEFINE a == num * ThresholdNum
           b == den * ThresholdDen
<1>2. a \in Nat /\ b \in Nat \ {0}  BY <1>1
<1> HIDE DEF a, b
<1>3. a \div b \in Nat  BY <1>2
<1> QED  BY <1>3 DEF Share, a, b

LEMMA ShortestIs ==
  ASSUME NEW c \in [Ring!Slots -> Nat], NEW r \in [Ring!Slots -> Nat], Ring!Sum(c) # 0
  PROVE  ShortestRtt(c, r) \in Nat
<1> DEFINE busy == {i \in Ring!Slots : c[i] > 0}
           times == {r[i] \div c[i] : i \in busy}
<1>1. \A i \in busy : r[i] \div c[i] \in Nat
 <2> SUFFICES ASSUME NEW i \in busy PROVE r[i] \div c[i] \in Nat  OBVIOUS
 <2>1. r[i] \in Nat /\ c[i] \in Nat \ {0}  OBVIOUS
 <2> QED  BY <2>1
<1>2. times \subseteq Nat /\ times # {}  BY <1>1, RingSum
<1>3. PICK m \in times : \A y \in times : m <= y
 <2> HIDE DEF times
 <2> QED  BY <1>2, LeastElement
<1>4. \E x \in times : \A i \in busy : x <= r[i] \div c[i]  BY <1>3
<1>5. ShortestRtt(c, r) = CHOOSE x \in times : \A i \in busy : x <= r[i] \div c[i]  BY DEF ShortestRtt
<1>6. ShortestRtt(c, r) \in times  BY <1>4, <1>5
<1> QED  BY <1>2, <1>6

LEMMA LimitIs ==
  ASSUME NEW c \in [Ring!Slots -> Nat], NEW r \in [Ring!Slots -> Nat]
  PROVE  Limit(c, r) \in Nat
<1>1. Share(MinQps, 1) \in Nat  BY ShareIs, BbrAssumption
<1>2. BbrWindow \in Nat \ {0}  BY BbrAssumption DEF BbrWindow
<1>3. Estimate(c, r) \in Nat
 <2>1. CASE Ring!Sum(c) = 0 \/ ShortestRtt(c, r) = 0  BY <1>1, <2>1 DEF Estimate
 <2>2. CASE ~(Ring!Sum(c) = 0 \/ ShortestRtt(c, r) = 0)
  <3> DEFINE total == Ring!Sum(c)
             shortest == ShortestRtt(c, r)
  <3>1. total \in Nat /\ shortest \in Nat \ {0}  BY <2>2, RingSum, ShortestIs
  <3> HIDE DEF total, shortest
  <3>2. Share(total, BbrWindow) \in Nat /\ Share(BbrWindow, shortest) \in Nat  BY <1>2, <3>1, ShareIs
  <3> QED  BY <1>1, <2>2, <3>2 DEF Estimate, Larger, total, shortest
 <2> QED  BY <2>1, <2>2
<1> QED  BY <1>3 DEF Limit, Larger

\* The ring and the counts are numbers.
BbrTyped ==
  /\ Ring!RingTypeOK
  /\ max_inflight \in Nat /\ bbrAsked \in 0 .. MaxBbrAsked

LEMMA BbrWindowIs == Ring!Window \in Nat \ {0}
BY BbrAssumption DEF Ring!Window

\* A step of the clock or an answer leaves a ring.
LEMMA RingKeeps ==
  ASSUME Ring!RingTypeOK,
         \/ Ring!Rotate \/ Ring!RingTick \/ \E rtt \in Nat, between \in BOOLEAN : Ring!Count(rtt, between)
  PROVE  Ring!RingTypeOK'
<1> USE BbrWindowIs
<1>1. \A f \in [Ring!Slots -> Nat] : Ring!Rotated(f) \in [Ring!Slots -> Nat]  BY DEF Ring!Rotated
<1>2. Ring!SinceRotated \in 0 .. Ring!Window  BY DEF Ring!RingTypeOK, Ring!SinceRotated
<1>3. CASE Ring!Rotate  BY <1>1, <1>2, <1>3 DEF Ring!Rotate, Ring!RingTypeOK
<1>4. (bbrPhase + 1) % Ring!Window \in 0 .. (Ring!Window - 1)
 <2>1. bbrPhase + 1 \in Nat  BY DEF Ring!RingTypeOK
 <2> QED  BY <2>1, RemainderType
<1>5. CASE Ring!RingTick  BY <1>4, <1>5 DEF Ring!RingTick, Ring!RingTypeOK
<1>7. ASSUME NEW rtt \in Nat, NEW between \in BOOLEAN, Ring!Count(rtt, between) PROVE Ring!RingTypeOK'
 <2>1. Ring!Rotated(counts) \in [Ring!Slots -> Nat] /\ Ring!Rotated(rtts) \in [Ring!Slots -> Nat]
   BY <1>1 DEF Ring!RingTypeOK
 <2>2. \A i : [Ring!Rotated(counts) EXCEPT ![i] = @ + 1] \in [Ring!Slots -> Nat]  BY <2>1, AddedType
 <2>3. \A i : [Ring!Rotated(rtts) EXCEPT ![i] = @ + rtt] \in [Ring!Slots -> Nat]  BY <2>1, AddedType
 <2>4. Ring!SinceRotated + 1 \in 0 .. Ring!Window
   BY BbrAssumption, RotatedAndTicked DEF Ring!RingTypeOK, Ring!SinceRotated, Ring!Steps, Ring!Window
 <2>5. counts' \in [Ring!Slots -> Nat] /\ rtts' \in [Ring!Slots -> Nat]  BY <1>7, <2>2, <2>3 DEF Ring!Count
 <2>6. bbrPhase' \in 0 .. (Ring!Window - 1) /\ bbrSince' \in 0 .. Ring!Window
   BY <1>2, <1>4, <1>7, <2>4 DEF Ring!Count, Ring!RingTypeOK
 <2> QED  BY <2>5, <2>6 DEF Ring!RingTypeOK
<1> QED  BY <1>3, <1>5, <1>7

LEMMA BbrTypedInit == BbrInit => BbrTyped
BY BbrWindowIs, BbrAssumption DEF BbrInit, BbrTyped, Ring!RingInit, Ring!RingTypeOK

LEMMA BbrTypedNext == BbrTyped /\ [BbrNext]_bbrVars => BbrTyped'
<1> SUFFICES ASSUME BbrTyped, [BbrNext]_bbrVars PROVE BbrTyped'  OBVIOUS
<1>0. /\ Ring!RingTypeOK /\ max_inflight \in Nat /\ bbrAsked \in 0 .. MaxBbrAsked
      /\ MaxBbrAsked \in Nat /\ BbrRtts \subseteq Nat  BY BbrAssumption DEF BbrTyped
<1>1. ASSUME NEW c \in BbrCallers, NEW how, Ask(c, how) PROVE Ring!RingTypeOK' /\ max_inflight' \in Nat
 <2>1. Ring!Rotate /\ max_inflight' = Limit(counts', rtts')  BY <1>1 DEF Ask
 <2>2. Ring!RingTypeOK'  BY <1>0, <2>1, RingKeeps
 <2>3. counts' \in [Ring!Slots -> Nat] /\ rtts' \in [Ring!Slots -> Nat]  BY <2>2 DEF Ring!RingTypeOK
 <2> QED  BY <2>1, <2>2, <2>3, LimitIs
<1>2. ASSUME UNCHANGED <<bbrPhase, bbrSince, counts, rtts, max_inflight>> PROVE Ring!RingTypeOK' /\ max_inflight' \in Nat
  BY <1>0, <1>2 DEF Ring!RingTypeOK
<1>3. ASSUME NEW c \in BbrCallers, BbrAllow(c) \/ BbrWait(c) PROVE BbrTyped'
 <2>1. bbrAsked' \in 0 .. MaxBbrAsked  BY <1>0, <1>3 DEF BbrAllow, BbrWait
 <2> QED  BY <1>1, <1>2, <1>3, <2>1 DEF BbrAllow, BbrWait, BbrTyped
<1>4. ASSUME NEW c \in BbrCallers, BbrPoll(c) \/ Lose(c) PROVE BbrTyped'
  BY <1>0, <1>1, <1>2, <1>4 DEF BbrPoll, Lose, BbrTyped
<1>5. ASSUME NEW c \in BbrCallers, NEW rtt \in BbrRtts, Done(c, rtt) PROVE BbrTyped'
 <2>1. UNCHANGED <<max_inflight, bbrAsked>>  BY <1>5 DEF Done
 <2>2. Ring!RingTypeOK'
   BY <1>0, <1>5, RingKeeps DEF Done
 <2> QED  BY <1>0, <2>1, <2>2 DEF BbrTyped
<1>6. CASE BbrTick  BY <1>0, <1>6, RingKeeps DEF BbrTick, BbrTyped
<1>7. CASE BbrClose \/ UNCHANGED bbrVars  BY <1>0, <1>2, <1>7 DEF BbrClose, bbrVars, BbrTyped
<1> QED  BY <1>3, <1>4, <1>5, <1>6, <1>7 DEF BbrNext

LEMMA BbrInvGives == BbrTyped /\ BbrInv => BbrTypeOK
<1> SUFFICES ASSUME BbrTyped, BbrInv PROVE BbrTypeOK  OBVIOUS
<1>1. inflight \in Nat  BY PlacesAreFinite DEF BbrInv, BbrAccounts, Placed
<1> QED  BY <1>1 DEF BbrTyped, BbrInv, BbrTypeOK

-------------------------------------------------------------------------------
(* Metrics: the datagrams of the datadog engine, one after the other.      *)

\* The lists flattened one by one.
LEMMA FlatChain ==
  ASSUME NEW ss \in Seq(Seq(Nat))
  PROVE  \E g \in [0 .. Len(ss) -> Seq(Nat)] :
           /\ g[0] = <<>> /\ \A i \in 1 .. Len(ss) : g[i] = g[i - 1] \o ss[i]
           /\ M!FlattenSeq(ss) = g[Len(ss)]
<1> DEFINE n == Len(ss)
           V == Seq(Nat)
           empty == <<>>
           next == [i \in 1 .. n |-> [v \in V |-> v \o ss[i]]]
<1>1. n \in Nat /\ empty \in V /\ \A i \in 1 .. n : ss[i] \in V  OBVIOUS
<1>2. \A i \in 1 .. n : \A v \in V : next[i][v] = v \o ss[i] /\ next[i][v] \in V  BY <1>1, SMTT(60)
<1> HIDE DEF next, V, empty, n
<1>3. PICK g \in [0 .. n -> V] : Chained(g, n, empty, next)  BY <1>1, <1>2, Recursion
<1>4. g[0] = <<>> /\ \A i \in 1 .. n : g[i] = g[i - 1] \o ss[i]
 <2>1. g[0] = <<>>  BY <1>3 DEF Chained, empty
 <2>2. ASSUME NEW i \in 1 .. n PROVE g[i] = g[i - 1] \o ss[i]
  <3>1. i - 1 \in 0 .. n  BY <1>1
  <3>2. g[i - 1] \in V /\ g[i] = next[i][g[i - 1]]  BY <1>3, <3>1 DEF Chained
  <3> QED  BY <1>2, <3>2
 <2> QED  BY <2>1, <2>2
<1>7. \A x \in Seq(Nat) : <<>> \o x = x  OBVIOUS
<1>5. CASE n = 0
 <2>1. ss = <<>>  BY <1>5 DEF n
 <2>2. M!FlattenSeq(ss) = ss  BY <1>5 DEF M!FlattenSeq, n
 <2> QED  BY <1>3, <1>4, <1>5, <2>1, <2>2 DEF n, V
<1>6. CASE n # 0
 <2> DEFINE flatten[i \in 1 .. Len(ss)] == IF i = 1 THEN ss[i] ELSE flatten[i - 1] \o ss[i]
            f == [i \in 1 .. n |-> g[i]]
 <2>1. ASSUME NEW i \in 1 .. n PROVE f[i] = IF i = 1 THEN ss[i] ELSE f[i - 1] \o ss[i]
  <3>1. CASE i = 1
   <4>1. i - 1 = 0 /\ ss[i] \in V  BY <1>1, <3>1
   <4>2. g[i] = g[i - 1] \o ss[i]  BY <1>4
   <4>3. g[i] = ss[i]
    <5>1. g[i - 1] = <<>> /\ <<>> \o ss[i] = ss[i]  BY <1>4, <4>1, <1>7 DEF V
    <5> QED  BY <4>2, <5>1
   <4>4. f[i] = g[i]  OBVIOUS
   <4> HIDE DEF f
   <4> QED  BY <3>1, <4>3, <4>4
  <3>2. CASE i # 1
   <4>1. i - 1 \in 1 .. n  BY <1>1, <3>2
   <4> QED  BY <1>4, <3>2, <4>1
  <3> QED  BY <3>1, <3>2
 <2>2. f = [i \in 1 .. n |-> f[i]]  OBVIOUS
 <2> HIDE DEF f
 <2>3. f = [i \in 1 .. n |-> IF i = 1 THEN ss[i] ELSE f[i - 1] \o ss[i]]  BY <2>1, <2>2
 <2>4. \E h : h = [i \in 1 .. n |-> IF i = 1 THEN ss[i] ELSE h[i - 1] \o ss[i]]  BY <2>3, ZenonT(60)
 <2>5. flatten = [i \in 1 .. n |-> IF i = 1 THEN ss[i] ELSE flatten[i - 1] \o ss[i]]  BY <2>4, ZenonT(60) DEF n
 <2>6. M!FlattenSeq(ss) = flatten[n]  BY <1>6 DEF M!FlattenSeq, n
 <2> HIDE DEF flatten
 <2> DEFINE T == {i \in Nat : i >= 1 /\ i <= n => flatten[i] = g[i]}
 <2>7. 0 \in T  OBVIOUS
 <2>8. ASSUME NEW i \in Nat, i \in T PROVE i + 1 \in T
  <3> DEFINE a == i + 1
  <3> SUFFICES ASSUME a <= n PROVE flatten[a] = g[a]  OBVIOUS
  <3>1. a \in 1 .. n /\ a - 1 = i  BY <1>1
  <3>2. CASE i = 0
   <4>1. a = 1 /\ a - 1 = 0  BY <3>2
   <4> HIDE DEF a
   <4>2. ss[a] \in V /\ g[a] = g[a - 1] \o ss[a]  BY <1>1, <1>4, <3>1
   <4>3. flatten[a] = ss[a]  BY <2>5, <3>1, <4>1
   <4>4. g[a] = ss[a]
    <5>1. g[a - 1] = <<>> /\ <<>> \o ss[a] = ss[a]  BY <1>4, <4>1, <4>2, <1>7 DEF V
    <5> QED  BY <4>2, <5>1
   <4> QED  BY <4>3, <4>4
  <3>3. CASE i # 0
   <4>1. flatten[i] = g[i] /\ a # 1  BY <1>1, <2>8, <3>1, <3>3
   <4> HIDE DEF a
   <4>2. flatten[a] = flatten[a - 1] \o ss[a] /\ g[a] = g[a - 1] \o ss[a]  BY <1>4, <2>5, <3>1, <4>1
   <4> QED  BY <3>1, <4>1, <4>2
  <3> QED  BY <3>2, <3>3
 <2>9. n \in T
  <3> HIDE DEF T
  <3> QED  BY <1>1, <2>7, <2>8, Induct
 <2>10. flatten[n] = g[n]  BY <1>1, <1>6, <2>9
 <2> QED  BY <1>3, <1>4, <2>6, <2>10 DEF n, V
<1> QED  BY <1>5, <1>6

\* One more list at the end.
LEMMA FlatAppend ==
  ASSUME NEW ss \in Seq(Seq(Nat)), NEW x \in Seq(Nat)
  PROVE  /\ M!FlattenSeq(ss) \in Seq(Nat) /\ Append(ss, x) \in Seq(Seq(Nat))
         /\ M!FlattenSeq(Append(ss, x)) = M!FlattenSeq(ss) \o x
<1> DEFINE tt == Append(ss, x)
           n == Len(ss)
<1>1. /\ tt \in Seq(Seq(Nat)) /\ n \in Nat /\ Len(tt) = n + 1
      /\ \A i \in 1 .. n : tt[i] = ss[i]
      /\ tt[n + 1] = x  OBVIOUS
<1> HIDE DEF tt
<1>2. PICK g \in [0 .. n -> Seq(Nat)] : /\ g[0] = <<>> /\ \A i \in 1 .. n : g[i] = g[i - 1] \o ss[i]
                                        /\ M!FlattenSeq(ss) = g[n]  BY FlatChain
<1>3. PICK h \in [0 .. n + 1 -> Seq(Nat)] : /\ h[0] = <<>> /\ \A i \in 1 .. n + 1 : h[i] = h[i - 1] \o tt[i]
                                            /\ M!FlattenSeq(tt) = h[n + 1]
 <2>1. \E h \in [0 .. Len(tt) -> Seq(Nat)] : /\ h[0] = <<>> /\ \A i \in 1 .. Len(tt) : h[i] = h[i - 1] \o tt[i]
                                             /\ M!FlattenSeq(tt) = h[Len(tt)]  BY <1>1, FlatChain
 <2> QED  BY <1>1, <2>1
<1> HIDE DEF n
<1> DEFINE T == {i \in Nat : i <= n => h[i] = g[i]}
<1>4. 0 \in T  BY <1>2, <1>3
<1>5. ASSUME NEW i \in Nat, i \in T PROVE i + 1 \in T
 <2> DEFINE a == i + 1
 <2> SUFFICES ASSUME a <= n PROVE h[a] = g[a]  OBVIOUS
 <2>1. a \in 1 .. n /\ a \in 1 .. n + 1 /\ a - 1 = i /\ h[i] = g[i]  BY <1>1, <1>5
 <2> HIDE DEF a
 <2> QED  BY <1>1, <1>2, <1>3, <2>1
<1>6. h[n] = g[n]
 <2>1. n \in T
  <3> HIDE DEF T
  <3> QED  BY <1>1, <1>4, <1>5, Induct
 <2> QED  BY <1>1, <2>1
<1>7. h[n + 1] = h[n] \o x
 <2> DEFINE a == n + 1
 <2>1. a \in 1 .. n + 1 /\ a - 1 = n  BY <1>1
 <2> HIDE DEF a
 <2>2. h[a] = h[a - 1] \o tt[a]  BY <1>3, <2>1
 <2> QED  BY <1>1, <2>1, <2>2 DEF a
<1>8. g[n] \in Seq(Nat)  BY <1>1, <1>2
<1> QED  BY <1>1, <1>2, <1>3, <1>6, <1>7, <1>8 DEF tt

\* A pile for each place; every line up to n is in one pile, once.
Held(piles, p, i) == \E k \in 1 .. Len(piles[p]) : piles[p][k] = i
Sorted(piles, n) ==
  /\ \A p \in DOMAIN piles : piles[p] \in Seq(Nat)
  /\ \A p \in DOMAIN piles : \A k \in 1 .. Len(piles[p]) : piles[p][k] \in 1 .. n
  /\ \A p \in DOMAIN piles : \A k, l \in 1 .. Len(piles[p]) : piles[p][k] = piles[p][l] => k = l
  /\ \A p, q \in DOMAIN piles : \A i \in 1 .. n : Held(piles, p, i) /\ Held(piles, q, i) => p = q
  /\ \A i \in 1 .. n : \E p \in DOMAIN piles : Held(piles, p, i)

\* No lines at all.
LEMMA NoPiles ==
  ASSUME NEW old, \A p \in DOMAIN old : old[p] = <<>>
  PROVE  Sorted(old, 0)
<1>1. \A p \in DOMAIN old : /\ old[p] \in Seq(Nat) /\ Len(old[p]) = 0
                            /\ \A k \in 1 .. Len(old[p]) : FALSE
 <2>1. <<>> \in Seq(Nat) /\ Len(<<>>) = 0 /\ \A k \in 1 .. 0 : FALSE  OBVIOUS
 <2> QED  BY <2>1
<1>2. \A i : i \notin 1 .. 0  OBVIOUS
<1>3. \A p \in DOMAIN old : \A k, l \in 1 .. Len(old[p]) : old[p][k] = old[p][l] => k = l  BY <1>1
<1> QED  BY <1>1, <1>2, <1>3 DEF Sorted

\* The same piles.
LEMMA SamePiles ==
  ASSUME NEW n, NEW old, Sorted(old, n), NEW new, DOMAIN new = DOMAIN old,
         \A p \in DOMAIN old : new[p] = old[p]
  PROVE  Sorted(new, n)
<1>1. \A p \in DOMAIN old : \A i : Held(new, p, i) <=> Held(old, p, i)  BY DEF Held
<1>2. \A p \in DOMAIN old : /\ new[p] \in Seq(Nat) /\ \A k \in 1 .. Len(new[p]) : new[p][k] \in 1 .. n
                            /\ \A k, l \in 1 .. Len(new[p]) : new[p][k] = new[p][l] => k = l  BY DEF Sorted
<1>3. \A p, q \in DOMAIN old : \A i \in 1 .. n : Held(new, p, i) /\ Held(new, q, i) => p = q  BY <1>1 DEF Sorted
<1>4. \A i \in 1 .. n : \E p \in DOMAIN old : Held(new, p, i)  BY <1>1 DEF Sorted
<1> QED  BY <1>2, <1>3, <1>4 DEF Sorted

\* One pile is put on another.
LEMMA PileMoved ==
  ASSUME NEW n \in Nat, NEW old, Sorted(old, n), NEW new, DOMAIN new = DOMAIN old,
         NEW p \in DOMAIN old, NEW q \in DOMAIN old, p # q,
         new[p] = <<>>, new[q] = old[q] \o old[p],
         \A r \in DOMAIN old : r # p /\ r # q => new[r] = old[r]
  PROVE  Sorted(new, n)
<1> DEFINE x == old[p]
           y == old[q]
           z == new[q]
<1>1. x \in Seq(Nat) /\ y \in Seq(Nat) /\ z = y \o x  BY DEF Sorted
<1>2. /\ Len(x) \in Nat /\ Len(y) \in Nat /\ z \in Seq(Nat) /\ Len(z) = Len(y) + Len(x)
      /\ \A k \in 1 .. Len(y) : z[k] = y[k]
      /\ \A k \in 1 .. Len(z) : k > Len(y) => k - Len(y) \in 1 .. Len(x) /\ z[k] = x[k - Len(y)]
      /\ \A k \in 1 .. Len(x) : k + Len(y) \in 1 .. Len(z) /\ z[k + Len(y)] = x[k]
 <2> HIDE DEF x, y, z
 <2> QED  BY <1>1
<1>3. /\ \A k \in 1 .. Len(x) : x[k] \in 1 .. n /\ Held(old, p, x[k])
      /\ \A k \in 1 .. Len(y) : y[k] \in 1 .. n /\ Held(old, q, y[k])  BY DEF Sorted, Held
<1>4. \A k \in 1 .. Len(x), l \in 1 .. Len(y) : x[k] # y[l]  BY <1>3 DEF Sorted
<1>5. \A k, l \in 1 .. Len(z) : z[k] = z[l] => k = l
 <2>1. /\ \A k, l \in 1 .. Len(x) : x[k] = x[l] => k = l
       /\ \A k, l \in 1 .. Len(y) : y[k] = y[l] => k = l  BY DEF Sorted
 <2> HIDE DEF x, y, z
 <2> SUFFICES ASSUME NEW k \in 1 .. Len(z), NEW l \in 1 .. Len(z), z[k] = z[l] PROVE k = l  OBVIOUS
 <2>2. CASE k <= Len(y) /\ l <= Len(y)  BY <1>2, <2>1, <2>2
 <2>3. CASE k > Len(y) /\ l > Len(y)
  <3>1. k - Len(y) \in 1 .. Len(x) /\ l - Len(y) \in 1 .. Len(x) /\ x[k - Len(y)] = x[l - Len(y)]  BY <1>2, <2>3
  <3>2. k - Len(y) = l - Len(y)  BY <2>1, <3>1
  <3> QED  BY <1>2, <3>2
 <2>4. CASE k <= Len(y) /\ l > Len(y)
  <3>1. k \in 1 .. Len(y) /\ l - Len(y) \in 1 .. Len(x) /\ z[k] = y[k] /\ z[l] = x[l - Len(y)]
    BY <1>2, <2>4, SMTT(60)
  <3> QED  BY <1>4, <3>1
 <2>5. CASE k > Len(y) /\ l <= Len(y)
  <3>1. l \in 1 .. Len(y) /\ k - Len(y) \in 1 .. Len(x) /\ z[l] = y[l] /\ z[k] = x[k - Len(y)]
    BY <1>2, <2>5, SMTT(60)
  <3> QED  BY <1>4, <3>1
 <2> QED  BY <1>2, <2>2, <2>3, <2>4, <2>5, SMTT(60)
<1>6. /\ \A i : ~Held(new, p, i)
      /\ \A i : Held(new, q, i) <=> Held(old, q, i) \/ Held(old, p, i)
      /\ \A r \in DOMAIN old : r # p /\ r # q => \A i : Held(new, r, i) <=> Held(old, r, i)
 <2>1. \A i : ~Held(new, p, i)  BY DEF Held
 <2>2. ASSUME NEW i, Held(new, q, i) PROVE Held(old, q, i) \/ Held(old, p, i)
  <3>1. PICK k \in 1 .. Len(z) : z[k] = i  BY <2>2 DEF Held
  <3>2. k <= Len(y) \/ k > Len(y)  BY <1>2, <3>1
  <3>3. CASE k <= Len(y)
   <4>1. k \in 1 .. Len(y) /\ y[k] = i  BY <1>2, <3>1, <3>3
   <4> QED  BY <4>1 DEF Held
  <3>4. CASE k > Len(y)
   <4>1. k - Len(y) \in 1 .. Len(x) /\ x[k - Len(y)] = i  BY <1>2, <3>1, <3>4
   <4> QED  BY <4>1 DEF Held
  <3> QED  BY <3>2, <3>3, <3>4
 <2>3. ASSUME NEW i, Held(old, q, i) \/ Held(old, p, i) PROVE Held(new, q, i)
  <3>1. CASE Held(old, q, i)
   <4>1. PICK k \in 1 .. Len(y) : y[k] = i  BY <3>1 DEF Held
   <4>2. k \in 1 .. Len(z) /\ z[k] = i  BY <1>2, <4>1
   <4> QED  BY <4>2 DEF Held
  <3>2. CASE Held(old, p, i)
   <4>1. PICK k \in 1 .. Len(x) : x[k] = i  BY <3>2 DEF Held
   <4>2. k + Len(y) \in 1 .. Len(z) /\ z[k + Len(y)] = i  BY <1>2, <4>1
   <4> QED  BY <4>2 DEF Held
  <3> QED  BY <2>3, <3>1, <3>2
 <2>4. \A r \in DOMAIN old : r # p /\ r # q => \A i : Held(new, r, i) <=> Held(old, r, i)  BY DEF Held
 <2> QED  BY <2>1, <2>2, <2>3, <2>4
<1>7. /\ \A r \in DOMAIN new : new[r] \in Seq(Nat)
      /\ \A r \in DOMAIN new : \A k \in 1 .. Len(new[r]) : new[r][k] \in 1 .. n
      /\ \A r \in DOMAIN new : \A k, l \in 1 .. Len(new[r]) : new[r][k] = new[r][l] => k = l
 <2> SUFFICES ASSUME NEW r \in DOMAIN new
              PROVE  /\ new[r] \in Seq(Nat) /\ \A k \in 1 .. Len(new[r]) : new[r][k] \in 1 .. n
                     /\ \A k, l \in 1 .. Len(new[r]) : new[r][k] = new[r][l] => k = l  OBVIOUS
 <2>1. CASE r = p  BY <2>1
 <2>2. CASE r = q
  <3>1. \A k \in 1 .. Len(z) : z[k] \in 1 .. n
   <4> SUFFICES ASSUME NEW k \in 1 .. Len(z) PROVE z[k] \in 1 .. n  OBVIOUS
   <4>1. k \in 1 .. Len(y) \/ k > Len(y)  BY <1>2
   <4> QED  BY <1>2, <1>3, <4>1
  <3> QED  BY <1>2, <1>5, <2>2, <3>1
 <2>3. CASE r # p /\ r # q  BY <2>3 DEF Sorted
 <2> QED  BY <2>1, <2>2, <2>3
<1>8. \A r, s \in DOMAIN new : \A i \in 1 .. n : Held(new, r, i) /\ Held(new, s, i) => r = s
 <2> SUFFICES ASSUME NEW r \in DOMAIN new, NEW s \in DOMAIN new, NEW i \in 1 .. n,
                     Held(new, r, i), Held(new, s, i)
              PROVE  r = s  OBVIOUS
 <2>1. r # p /\ s # p  BY <1>6
 <2>2. \A a, b \in DOMAIN old : Held(old, a, i) /\ Held(old, b, i) => a = b  BY DEF Sorted
 <2> QED  BY <1>6, <2>1, <2>2
<1>9. \A i \in 1 .. n : \E r \in DOMAIN new : Held(new, r, i)
 <2> SUFFICES ASSUME NEW i \in 1 .. n PROVE \E r \in DOMAIN new : Held(new, r, i)  OBVIOUS
 <2>1. PICK r \in DOMAIN old : Held(old, r, i)  BY DEF Sorted
 <2> QED  BY <1>6, <2>1
<1> QED  BY <1>7, <1>8, <1>9 DEF Sorted

\* The next line is put on a pile.
LEMMA PileGrows ==
  ASSUME NEW n \in Nat, NEW old, Sorted(old, n), NEW new, DOMAIN new = DOMAIN old,
         NEW q \in DOMAIN old, new[q] = Append(old[q], n + 1),
         \A r \in DOMAIN old : r # q => new[r] = old[r]
  PROVE  Sorted(new, n + 1)
<1> DEFINE y == old[q]
           z == new[q]
           a == n + 1
<1>1. y \in Seq(Nat) /\ a \in Nat /\ a > n /\ z = Append(y, a)  BY DEF Sorted
<1>2. /\ Len(y) \in Nat /\ z \in Seq(Nat) /\ Len(z) = Len(y) + 1 /\ z[Len(z)] = a
      /\ \A k \in 1 .. Len(y) : z[k] = y[k] /\ k \in 1 .. Len(z)
 <2> HIDE DEF y, z, a
 <2> QED  BY <1>1
<1>3. \A r \in DOMAIN old : \A k \in 1 .. Len(old[r]) : old[r][k] \in 1 .. n  BY DEF Sorted
<1>4. /\ \A i : Held(new, q, i) <=> Held(old, q, i) \/ i = a
      /\ \A r \in DOMAIN old : r # q => \A i : Held(new, r, i) <=> Held(old, r, i)
      /\ \A r \in DOMAIN old : \A i : Held(old, r, i) => i \in 1 .. n
 <2>1. ASSUME NEW i, Held(new, q, i) PROVE Held(old, q, i) \/ i = a
  <3>1. PICK k \in 1 .. Len(z) : z[k] = i  BY <2>1 DEF Held
  <3>2. k \in 1 .. Len(y) \/ k = Len(z)  BY <1>2, <3>1
  <3> QED  BY <1>2, <3>1, <3>2 DEF Held
 <2>2. ASSUME NEW i, Held(old, q, i) \/ i = a PROVE Held(new, q, i)
  <3>1. CASE Held(old, q, i)
   <4>1. PICK k \in 1 .. Len(y) : y[k] = i  BY <3>1 DEF Held
   <4>2. k \in 1 .. Len(z) /\ z[k] = i  BY <1>2, <4>1
   <4> QED  BY <4>2 DEF Held
  <3>2. CASE i = a
   <4>1. Len(z) \in 1 .. Len(z) /\ z[Len(z)] = i  BY <1>2, <3>2
   <4> QED  BY <4>1 DEF Held
  <3> QED  BY <2>2, <3>1, <3>2
 <2>3. \A r \in DOMAIN old : r # q => \A i : Held(new, r, i) <=> Held(old, r, i)  BY DEF Held
 <2>4. \A r \in DOMAIN old : \A i : Held(old, r, i) => i \in 1 .. n  BY <1>3 DEF Held
 <2> QED  BY <2>1, <2>2, <2>3, <2>4
<1>5. \A r \in DOMAIN new : /\ new[r] \in Seq(Nat) /\ \A k \in 1 .. Len(new[r]) : new[r][k] \in 1 .. a
                            /\ \A k, l \in 1 .. Len(new[r]) : new[r][k] = new[r][l] => k = l
 <2> SUFFICES ASSUME NEW r \in DOMAIN new
              PROVE  /\ new[r] \in Seq(Nat) /\ \A k \in 1 .. Len(new[r]) : new[r][k] \in 1 .. a
                     /\ \A k, l \in 1 .. Len(new[r]) : new[r][k] = new[r][l] => k = l  OBVIOUS
 <2>0. \A k \in 1 .. n : k \in 1 .. a  OBVIOUS
 <2>1. CASE r = q
  <3>1. \A k \in 1 .. Len(z) : k \in 1 .. Len(y) \/ k = Len(z)  BY <1>2
  <3>2. \A k \in 1 .. Len(y) : z[k] \in 1 .. n  BY <1>2, <1>3
  <3>3. a \in 1 .. a /\ a \notin 1 .. n  BY <1>1
  <3>4. \A k, l \in 1 .. Len(y) : y[k] = y[l] => k = l  BY DEF Sorted
  <3> HIDE DEF a, y, z
  <3>5. \A k \in 1 .. Len(z) : z[k] \in 1 .. a  BY <1>2, <2>0, <3>1, <3>2, <3>3
  <3>6. \A k, l \in 1 .. Len(z) : z[k] = z[l] => k = l  BY <1>2, <3>1, <3>2, <3>3, <3>4, SMTT(60)
  <3> QED  BY <1>2, <2>1, <3>5, <3>6 DEF z, a
 <2>2. CASE r # q  BY <2>0, <2>2 DEF Sorted
 <2> QED  BY <2>1, <2>2
<1>6. ASSUME NEW r \in DOMAIN new, NEW s \in DOMAIN new, NEW i \in 1 .. a, Held(new, r, i), Held(new, s, i) PROVE r = s
 <2>1. CASE i = a
  <3>1. i \notin 1 .. n  BY <1>1, <2>1
  <3> QED  BY <1>4, <1>6, <3>1
 <2>2. CASE i # a
  <3>1. i \in 1 .. n  BY <1>1, <2>2
  <3>2. \A b, c \in DOMAIN old : Held(old, b, i) /\ Held(old, c, i) => b = c  BY <3>1 DEF Sorted
  <3>3. Held(old, r, i) /\ Held(old, s, i)  BY <1>4, <1>6, <2>2
  <3> QED  BY <3>2, <3>3
 <2> QED  BY <2>1, <2>2
<1>7. ASSUME NEW i \in 1 .. a PROVE \E r \in DOMAIN new : Held(new, r, i)
 <2>1. CASE i = a  BY <1>4, <2>1
 <2>2. CASE i # a
  <3>1. i \in 1 .. n  BY <1>1, <2>2
  <3>2. PICK r \in DOMAIN old : Held(old, r, i)  BY <3>1 DEF Sorted
  <3> QED  BY <1>4, <3>2
 <2> QED  BY <2>1, <2>2
<1> QED  BY <1>5, <1>6, <1>7 DEF Sorted

\* Where the lines of the datadog engine are.
PlaceNames == {"idle", "full", "sending", "check", "sleep", "last", "send", "last_send", "done", "shared",
               "dropping", "stopping", "gone"}
Hand == [place : PlaceNames, lines : Seq(Nat)]
Buffered == <<"buffer", 0>>
Out == <<"sent", 0>>
Flushed == <<"flusher", 0>>
Provided == <<"provider", 0>>
Spots == {Buffered, Out, Flushed, Provided} \cup {<<"caller", c>> : c \in Callers}
Pile(p) ==
  IF p = Buffered THEN buffer
  ELSE IF p = Out THEN M!FlattenSeq(sent)
  ELSE IF p = Flushed THEN flusher.lines
  ELSE IF p = Provided THEN provider.lines
  ELSE at[p[2]].lines
Piles == [p \in Spots |-> Pile(p)]

LinesTyped ==
  /\ told \in Seq(Samples) /\ buffer \in Seq(Nat) /\ sent \in Seq(Seq(Nat))
  /\ at \in [Callers -> Hand] /\ flusher \in Hand /\ provider \in Hand
  /\ flusher.place \in {"send", "last_send"} \/ flusher.lines = <<>>
  /\ provider.place = "sending" \/ provider.lines = <<>>
  /\ \A c \in Callers : at[c].place = "sending" \/ at[c].lines = <<>>

LinesInv == LinesTyped /\ (backend = "datadog" => Sorted(Piles, Len(told)))

\* The spots are told apart.
LEMMA SpotsDiffer ==
  /\ Buffered # Out /\ Buffered # Flushed /\ Buffered # Provided
  /\ Out # Flushed /\ Out # Provided /\ Flushed # Provided
  /\ \A c \in Callers : /\ <<"caller", c>> # Buffered /\ <<"caller", c>> # Out
                        /\ <<"caller", c>> # Flushed /\ <<"caller", c>> # Provided
                        /\ <<"caller", c>> \in Spots
  /\ Buffered \in Spots /\ Out \in Spots /\ Flushed \in Spots /\ Provided \in Spots
BY DEF Buffered, Out, Flushed, Provided, Spots

\* What lies where, now and after the step.
LEMMA PilesAre ==
  /\ DOMAIN Piles = Spots
  /\ Piles[Buffered] = buffer /\ Piles[Out] = M!FlattenSeq(sent)
  /\ Piles[Flushed] = flusher.lines /\ Piles[Provided] = provider.lines
  /\ \A c \in Callers : Piles[<<"caller", c>>] = at[c].lines
  /\ (DOMAIN Piles)' = Spots
  /\ (Piles[Buffered])' = buffer' /\ (Piles[Out])' = M!FlattenSeq(sent')
  /\ (Piles[Flushed])' = flusher'.lines /\ (Piles[Provided])' = provider'.lines
  /\ \A c \in Callers : (Piles[<<"caller", c>>])' = at'[c].lines
<1>1. ASSUME NEW c \in Callers PROVE /\ Piles[<<"caller", c>>] = at[c].lines /\ (Piles[<<"caller", c>>])' = at'[c].lines
  BY SpotsDiffer DEF Piles, Pile
<1>2. /\ Piles[Buffered] = buffer /\ Piles[Out] = M!FlattenSeq(sent)
      /\ Piles[Flushed] = flusher.lines /\ Piles[Provided] = provider.lines  BY SpotsDiffer DEF Piles, Pile
<1>3. /\ (Piles[Buffered])' = buffer' /\ (Piles[Out])' = M!FlattenSeq(sent')
      /\ (Piles[Flushed])' = flusher'.lines /\ (Piles[Provided])' = provider'.lines  BY SpotsDiffer DEF Piles, Pile
<1> QED  BY <1>1, <1>2, <1>3 DEF Piles

\* A hand with nothing in it, and one with the lines it took.
LEMMA HereIs ==
  \A x \in PlaceNames :
    /\ M!Here(x) \in Hand /\ M!Here(x).place = x /\ M!Here(x).lines = <<>>
    /\ \A l \in Seq(Nat) :
        M!Holding(x, l) \in Hand /\ M!Holding(x, l).place = x /\ M!Holding(x, l).lines = l
BY DEF M!Here, M!Holding, Hand

LEMMA LinesStart == M!MetricsInit => LinesInv
<1> SUFFICES ASSUME M!MetricsInit PROVE LinesInv  OBVIOUS
<1>1. /\ told = <<>> /\ buffer = <<>> /\ sent = <<>> /\ at = [c \in Callers |-> M!Here("idle")]
      /\ provider = M!Here("shared") /\ (flusher = M!Here("check") \/ flusher = M!Here("done"))
  BY DEF M!MetricsInit
<1>2. LinesTyped
 <2>1. /\ provider \in Hand /\ provider.lines = <<>> /\ flusher \in Hand /\ flusher.lines = <<>>
       /\ M!Here("idle") \in Hand /\ M!Here("idle").lines = <<>>  BY <1>1, HereIs DEF PlaceNames
 <2>2. told \in Seq(Samples) /\ buffer \in Seq(Nat) /\ sent \in Seq(Seq(Nat))  BY <1>1
 <2>3. at \in [Callers -> Hand] /\ \A c \in Callers : at[c].lines = <<>>  BY <1>1, <2>1
 <2> QED  BY <2>1, <2>2, <2>3 DEF LinesTyped
<1>7. /\ provider.lines = <<>> /\ flusher.lines = <<>>
      /\ \A c \in Callers : at[c].lines = <<>>
 <2>1. M!Here("idle").lines = <<>> /\ M!Here("check").lines = <<>> /\ M!Here("done").lines = <<>> /\ M!Here("shared").lines = <<>>
   BY HereIs DEF PlaceNames
 <2> QED  BY <1>1, <2>1
<1>3. M!FlattenSeq(<<>>) = <<>>  BY DEF M!FlattenSeq
<1>4. Len(told) = 0  BY <1>1
<1>5. \A p \in Spots : Piles[p] = <<>>
 <2> SUFFICES ASSUME NEW p \in Spots PROVE Piles[p] = <<>>  OBVIOUS
 <2>1. CASE p \in {Buffered, Out, Flushed, Provided}  BY <1>1, <1>3, <1>7, <2>1, PilesAre
 <2>2. CASE \E c \in Callers : p = <<"caller", c>>  BY <1>1, <1>7, <2>2, PilesAre
 <2> QED  BY <2>1, <2>2 DEF Spots
<1>6. Sorted(Piles, 0)
 <2> DEFINE piles == Piles
 <2>1. DOMAIN piles = Spots /\ \A p \in Spots : piles[p] = <<>>  BY <1>5, PilesAre
 <2> HIDE DEF piles
 <2>2. Sorted(piles, 0)  BY <2>1, NoPiles
 <2> QED  BY <2>2 DEF piles
<1> QED  BY <1>2, <1>4, <1>6 DEF LinesInv

\* Nothing moved.
LEMMA LinesStay ==
  ASSUME LinesTyped, LinesTyped', backend' = backend, told' = told,
         \A p \in Spots : (Piles[p])' = Piles[p], LinesInv
  PROVE  LinesInv'
<1> DEFINE new == (Piles)'
           old == Piles
<1>1. \A p \in Spots : new[p] = old[p]  OBVIOUS
<1>2. DOMAIN new = Spots /\ DOMAIN old = Spots  BY PilesAre
<1>3. backend = "datadog" => Sorted(old, Len(told))  BY DEF LinesInv
<1> HIDE DEF new, old
<1>4. backend = "datadog" => Sorted(new, Len(told))  BY <1>1, <1>2, <1>3, SamePiles
<1> QED  BY <1>4 DEF LinesInv, new

\* A whole pile moved.
LEMMA LinesMove ==
  ASSUME NEW p \in Spots, NEW q \in Spots, p # q,
         LinesTyped, LinesTyped', backend' = backend, told' = told,
         (Piles[p])' = <<>>, (Piles[q])' = Piles[q] \o Piles[p],
         \A r \in Spots : r # p /\ r # q => (Piles[r])' = Piles[r], LinesInv
  PROVE  LinesInv'
<1> DEFINE new == (Piles)'
           old == Piles
<1>1. new[p] = <<>> /\ new[q] = old[q] \o old[p] /\ \A r \in Spots : r # p /\ r # q => new[r] = old[r]  OBVIOUS
<1>2. DOMAIN new = Spots /\ DOMAIN old = Spots  BY PilesAre
<1>3. (backend = "datadog" => Sorted(old, Len(told))) /\ Len(told) \in Nat  BY DEF LinesInv, LinesTyped
<1> HIDE DEF new, old
<1>4. backend = "datadog" => Sorted(new, Len(told))  BY <1>1, <1>2, <1>3, PileMoved
<1> QED  BY <1>4 DEF LinesInv, new

\* The next line was put on a pile.
LEMMA LinesGrow ==
  ASSUME NEW q \in Spots, LinesTyped, LinesTyped', backend' = backend, Len(told') = Len(told) + 1,
         (Piles[q])' = Append(Piles[q], Len(told) + 1),
         \A r \in Spots : r # q => (Piles[r])' = Piles[r], LinesInv
  PROVE  LinesInv'
<1> DEFINE new == (Piles)'
           old == Piles
           n == Len(told)
<1>1. new[q] = Append(old[q], n + 1) /\ \A r \in Spots : r # q => new[r] = old[r]  OBVIOUS
<1>2. DOMAIN new = Spots /\ DOMAIN old = Spots  BY PilesAre
<1>3. (backend = "datadog" => Sorted(old, n)) /\ n \in Nat  BY DEF LinesInv, LinesTyped
<1> HIDE DEF new, old, n
<1>4. backend = "datadog" => Sorted(new, n + 1)  BY <1>1, <1>2, <1>3, PileGrows
<1> QED  BY <1>4 DEF LinesInv, new, n

\* A spot is one of the four or a caller's hand.
LEMMA EverySpot ==
  ASSUME NEW r \in Spots
  PROVE  r \in {Buffered, Out, Flushed, Provided} \/ \E c \in Callers : r = <<"caller", c>>
BY DEF Spots

\* A report is a sample of Samples; whatever is written of the instruments,
\* the lines stay where they are.
LEMMA LinesRecord ==
  ASSUME LinesInv, NEW c \in Callers, NEW s \in Samples, M!Record(c, s) \/ M!RecordOtel(c, s)
  PROVE  LinesInv'
<1>1. /\ told' = Append(told, s) /\ backend' = backend /\ backend # "datadog"
      /\ buffer' = buffer /\ sent' = sent /\ at' = at /\ flusher' = flusher /\ provider' = provider
  BY DEF M!Record, M!RecordOtel, M!Reports, M!wire
<1>2. LinesTyped  BY DEF LinesInv
<1>3. told' \in Seq(Samples)
 <2>1. told \in Seq(Samples)  BY <1>2 DEF LinesTyped
 <2> QED  BY <1>1, <2>1
<1>4. LinesTyped'  BY <1>1, <1>2, <1>3 DEF LinesTyped
<1> QED  BY <1>1, <1>4 DEF LinesInv

\* A line is sent at once or put in the buffer.
LEMMA LinesSend ==
  ASSUME LinesInv, NEW c \in Callers, NEW s \in Samples, M!send(c, s)
  PROVE  LinesInv'
<1>1. /\ told' = Append(told, s) /\ backend' = backend /\ at[c] = M!Here("idle")
      /\ flusher' = flusher /\ provider' = provider
      /\ \/ sent' = Append(sent, <<Len(told')>>) /\ buffer' = buffer /\ at' = at
         \/ /\ buffer' = Append(buffer, Len(told')) /\ sent' = sent
            /\ \/ at' = [at EXCEPT ![c] = M!Here("full")]
               \/ at' = [at EXCEPT ![c] = M!Here("idle")]  BY DEF M!send, M!Reports
<1>2. LinesTyped  BY DEF LinesInv
<1>3. told' \in Seq(Samples) /\ Len(told') = Len(told) + 1 /\ Len(told) \in Nat
 <2>1. told \in Seq(Samples)  BY <1>2 DEF LinesTyped
 <2> QED  BY <1>1, <2>1
<1>4. CASE sent' = Append(sent, <<Len(told')>>) /\ buffer' = buffer /\ at' = at
 <2> DEFINE x == <<Len(told')>>
            flat == M!FlattenSeq(sent)
 <2>1. x \in Seq(Nat) /\ sent \in Seq(Seq(Nat))  BY <1>2, <1>3 DEF LinesTyped
 <2>2. sent' = Append(sent, x)  BY <1>4
 <2>3. flat \in Seq(Nat) /\ sent' \in Seq(Seq(Nat)) /\ M!FlattenSeq(sent') = flat \o x
  <3> HIDE DEF x
  <3> QED  BY <2>1, <2>2, FlatAppend
 <2>4. M!FlattenSeq(sent') = Append(flat, Len(told) + 1)
  <3> HIDE DEF flat
  <3> QED  BY <1>3, <2>1, <2>3
 <2>5. LinesTyped'  BY <1>1, <1>2, <1>3, <1>4, <2>3 DEF LinesTyped
 <2>6. \A r \in Spots : r # Out => (Piles[r])' = Piles[r]  BY <1>1, <1>4, PilesAre, EverySpot, SMTT(60)
 <2>7. (Piles[Out])' = Append(Piles[Out], Len(told) + 1)  BY <2>4, PilesAre
 <2> QED  BY <1>1, <1>2, <1>3, <2>5, <2>6, <2>7, SpotsDiffer, LinesGrow
<1>5. CASE /\ buffer' = Append(buffer, Len(told')) /\ sent' = sent
           /\ \/ at' = [at EXCEPT ![c] = M!Here("full")]
              \/ at' = [at EXCEPT ![c] = M!Here("idle")]
 <2>1. /\ M!Here("full") \in Hand /\ M!Here("full").lines = <<>>
       /\ M!Here("idle") \in Hand /\ M!Here("idle").lines = <<>>  BY HereIs DEF PlaceNames
 <2>2. at \in [Callers -> Hand] /\ buffer \in Seq(Nat)  BY <1>2 DEF LinesTyped
 <2>3. /\ at' \in [Callers -> Hand] /\ \A d \in Callers : at'[d].lines = at[d].lines
       /\ \A d \in Callers : at'[d] = at[d] \/ at'[d].lines = <<>>  BY <1>1, <1>5, <2>1, <2>2
 <2>4. buffer' \in Seq(Nat) /\ buffer' = Append(buffer, Len(told) + 1)  BY <1>3, <1>5, <2>2
 <2>5. LinesTyped'  BY <1>1, <1>2, <1>3, <1>5, <2>3, <2>4 DEF LinesTyped
 <2>6. \A r \in Spots : r # Buffered => (Piles[r])' = Piles[r]  BY <1>1, <1>5, <2>3, PilesAre, EverySpot, SMTT(60)
 <2>7. (Piles[Buffered])' = Append(Piles[Buffered], Len(told) + 1)  BY <2>4, PilesAre
 <2> QED  BY <1>1, <1>2, <1>3, <2>5, <2>6, <2>7, SpotsDiffer, LinesGrow
<1> QED  BY <1>1, <1>4, <1>5

\* The buffer is taken, or what was taken goes out.
LEMMA LinesFlushFull ==
  ASSUME LinesInv, NEW c \in Callers, M!FlushFull(c)
  PROVE  LinesInv'
<1>1. /\ at[c] = M!Here("full") /\ buffer' = <<>> /\ sent' = sent /\ told' = told
      /\ backend' = backend /\ flusher' = flusher /\ provider' = provider
      /\ buffer = <<>> => at' = [at EXCEPT ![c] = M!Here("idle")]
      /\ buffer # <<>> => at' = [at EXCEPT ![c] = M!Holding("sending", buffer)]  BY DEF M!FlushFull, M!Take
<1>2. LinesTyped  BY DEF LinesInv
<1>3. at \in [Callers -> Hand] /\ buffer \in Seq(Nat)  BY <1>2 DEF LinesTyped
<1>4. /\ M!Here("idle") \in Hand /\ M!Here("idle").lines = <<>> /\ M!Here("full").lines = <<>>
      /\ M!Holding("sending", buffer) \in Hand /\ M!Holding("sending", buffer).lines = buffer
      /\ M!Holding("sending", buffer).place = "sending"  BY <1>3, HereIs DEF PlaceNames
<1>5. /\ at' \in [Callers -> Hand] /\ at[c].lines = <<>> /\ at'[c].lines = buffer
      /\ \A d \in Callers : d # c => at'[d] = at[d]
      /\ at'[c].place = "sending" \/ at'[c].lines = <<>>  BY <1>1, <1>3, <1>4
<1>6. LinesTyped'
 <2>1. <<>> \in Seq(Nat)  OBVIOUS
 <2> QED  BY <1>1, <1>2, <1>5, <2>1 DEF LinesTyped
<1>7. \A r \in Spots : r # Buffered /\ r # <<"caller", c>> => (Piles[r])' = Piles[r]
 <2> SUFFICES ASSUME NEW r \in Spots, r # Buffered, r # <<"caller", c>> PROVE (Piles[r])' = Piles[r]  OBVIOUS
 <2>1. CASE r \in {Buffered, Out, Flushed, Provided}  BY <1>1, <2>1, PilesAre
 <2>2. CASE \E d \in Callers : r = <<"caller", d>>
  <3>1. PICK d \in Callers : r = <<"caller", d>>  BY <2>2
  <3> QED  BY <1>5, <3>1, PilesAre
 <2> QED  BY <2>1, <2>2, EverySpot
<1>8. (Piles[<<"caller", c>>])' = Piles[<<"caller", c>>] \o Piles[Buffered] /\ (Piles[Buffered])' = <<>>
 <2>1. \A x \in Seq(Nat) : <<>> \o x = x  OBVIOUS
 <2>2. Piles[<<"caller", c>>] = <<>> /\ Piles[Buffered] = buffer /\ (Piles[<<"caller", c>>])' = buffer
   BY <1>5, PilesAre
 <2> QED  BY <1>1, <1>3, <2>1, <2>2, PilesAre
<1> QED  BY <1>1, <1>2, <1>6, <1>7, <1>8, SpotsDiffer, LinesMove

LEMMA LinesSendFull ==
  ASSUME LinesInv, NEW c \in Callers, M!SendFull(c)
  PROVE  LinesInv'
<1>1. /\ sent' = Append(sent, at[c].lines) /\ at' = [at EXCEPT ![c] = M!Here("idle")]
      /\ buffer' = buffer /\ told' = told
      /\ backend' = backend /\ flusher' = flusher /\ provider' = provider  BY DEF M!SendFull
<1>2. LinesTyped  BY DEF LinesInv
<1>3. at \in [Callers -> Hand] /\ sent \in Seq(Seq(Nat)) /\ at[c].lines \in Seq(Nat)  BY <1>2 DEF LinesTyped, Hand
<1>4. M!Here("idle") \in Hand /\ M!Here("idle").lines = <<>>  BY HereIs DEF PlaceNames
<1>5. /\ at' \in [Callers -> Hand] /\ at'[c].lines = <<>>
      /\ \A d \in Callers : d # c => at'[d] = at[d]  BY <1>1, <1>3, <1>4
<1>6. sent' \in Seq(Seq(Nat)) /\ M!FlattenSeq(sent') = M!FlattenSeq(sent) \o at[c].lines  BY <1>1, <1>3, FlatAppend
<1>7. LinesTyped'  BY <1>1, <1>2, <1>5, <1>6 DEF LinesTyped
<1>8. \A r \in Spots : r # Out /\ r # <<"caller", c>> => (Piles[r])' = Piles[r]
 <2> SUFFICES ASSUME NEW r \in Spots, r # Out, r # <<"caller", c>> PROVE (Piles[r])' = Piles[r]  OBVIOUS
 <2>1. CASE r \in {Buffered, Out, Flushed, Provided}  BY <1>1, <2>1, PilesAre
 <2>2. CASE \E d \in Callers : r = <<"caller", d>>
  <3>1. PICK d \in Callers : r = <<"caller", d>>  BY <2>2
  <3> QED  BY <1>5, <3>1, PilesAre
 <2> QED  BY <2>1, <2>2, EverySpot
<1>9. (Piles[Out])' = Piles[Out] \o Piles[<<"caller", c>>] /\ (Piles[<<"caller", c>>])' = <<>>
  BY <1>5, <1>6, PilesAre
<1> QED  BY <1>1, <1>2, <1>7, <1>8, <1>9, SpotsDiffer, LinesMove

\* The same of one hand that is not a caller's: h is the hand before the
\* step, l what is in it after.
LEMMA LinesFlusher ==
  ASSUME LinesInv, M!FlusherStep
  PROVE  LinesInv'
<1>1. told' = told /\ backend' = backend /\ at' = at /\ provider' = provider  BY DEF M!FlusherStep
<1>2. LinesTyped  BY DEF LinesInv
<1>3. /\ flusher \in Hand /\ buffer \in Seq(Nat) /\ sent \in Seq(Seq(Nat)) /\ flusher.lines \in Seq(Nat)
      /\ flusher.place \in {"send", "last_send"} \/ flusher.lines = <<>>  BY <1>2 DEF LinesTyped, Hand
<1>4. /\ \A x \in {"last", "sleep", "done", "check"} : M!Here(x) \in Hand /\ M!Here(x).lines = <<>>
      /\ \A x \in {"last_send", "send"} : /\ M!Holding(x, buffer) \in Hand /\ M!Holding(x, buffer).lines = buffer
                                          /\ M!Holding(x, buffer).place = x  BY <1>3, HereIs DEF PlaceNames
<1>5. CASE /\ flusher.place = "check" /\ flusher' \in {M!Here("last"), M!Here("sleep")}
           /\ buffer' = buffer /\ sent' = sent
 <2>1. flusher.lines = <<>> /\ flusher' \in Hand /\ flusher'.lines = <<>>  BY <1>3, <1>4, <1>5
 <2>2. LinesTyped'  BY <1>1, <1>2, <1>5, <2>1 DEF LinesTyped
 <2>3. \A r \in Spots : (Piles[r])' = Piles[r]  BY <1>1, <1>5, <2>1, PilesAre, EverySpot
 <2> QED  BY <1>1, <1>2, <2>2, <2>3, LinesStay
<1>6. CASE /\ flusher.place \in {"sleep", "last"} /\ buffer # <<>> /\ buffer' = <<>> /\ sent' = sent
           /\ flusher' \in {M!Holding("last_send", buffer), M!Holding("send", buffer)}
 <2>1. /\ flusher.lines = <<>> /\ flusher' \in Hand /\ flusher'.lines = buffer
       /\ flusher'.place \in {"send", "last_send"} /\ buffer' \in Seq(Nat)  BY <1>3, <1>4, <1>6
 <2>2. LinesTyped'  BY <1>1, <1>2, <1>6, <2>1 DEF LinesTyped
 <2>3. \A r \in Spots : r # Buffered /\ r # Flushed => (Piles[r])' = Piles[r]  BY <1>1, <1>6, PilesAre, EverySpot
 <2>4. (Piles[Flushed])' = Piles[Flushed] \o Piles[Buffered] /\ (Piles[Buffered])' = <<>>
  <3>1. \A x \in Seq(Nat) : <<>> \o x = x  OBVIOUS
  <3> QED  BY <1>3, <1>6, <2>1, <3>1, PilesAre
 <2> QED  BY <1>1, <1>2, <2>2, <2>3, <2>4, SpotsDiffer, LinesMove
<1>7. CASE /\ flusher.place \in {"sleep", "last"} /\ buffer = <<>> /\ buffer' = <<>> /\ sent' = sent
           /\ flusher' \in {M!Here("done"), M!Here("check")}
 <2>1. /\ flusher.lines = <<>> /\ flusher' \in Hand /\ flusher'.lines = <<>> /\ buffer' = buffer
   BY <1>3, <1>4, <1>7
 <2>2. LinesTyped'  BY <1>1, <1>2, <1>7, <2>1 DEF LinesTyped
 <2>3. \A r \in Spots : (Piles[r])' = Piles[r]  BY <1>1, <1>7, <2>1, PilesAre, EverySpot
 <2> QED  BY <1>1, <1>2, <2>2, <2>3, LinesStay
<1>8. CASE /\ sent' = Append(sent, flusher.lines) /\ buffer' = buffer
           /\ flusher' \in {M!Here("done"), M!Here("check")}
 <2>1. flusher' \in Hand /\ flusher'.lines = <<>>  BY <1>4, <1>8
 <2>2. sent' \in Seq(Seq(Nat)) /\ M!FlattenSeq(sent') = M!FlattenSeq(sent) \o flusher.lines
   BY <1>3, <1>8, FlatAppend
 <2>3. LinesTyped'  BY <1>1, <1>2, <1>8, <2>1, <2>2 DEF LinesTyped
 <2>4. \A r \in Spots : r # Out /\ r # Flushed => (Piles[r])' = Piles[r]  BY <1>1, <1>8, PilesAre, EverySpot
 <2>5. (Piles[Out])' = Piles[Out] \o Piles[Flushed] /\ (Piles[Flushed])' = <<>>  BY <2>1, <2>2, PilesAre
 <2> QED  BY <1>1, <1>2, <2>3, <2>4, <2>5, SpotsDiffer, LinesMove
<1> QED  BY <1>5, <1>6, <1>7, <1>8 DEF M!FlusherStep, M!Flushes, M!Take

\* The drop of the provider does the same as the flush thread.
LEMMA LinesDrop ==
  ASSUME LinesInv, M!Drop
  PROVE  LinesInv'
<1>1. told' = told /\ backend' = backend /\ at' = at /\ flusher' = flusher  BY DEF M!Drop
<1>2. LinesTyped  BY DEF LinesInv
<1>3. /\ provider \in Hand /\ buffer \in Seq(Nat) /\ sent \in Seq(Seq(Nat)) /\ provider.lines \in Seq(Nat)
      /\ provider.place = "sending" \/ provider.lines = <<>>  BY <1>2 DEF LinesTyped, Hand
<1>4. /\ \A x \in {"shared", "dropping", "stopping", "gone"} : M!Here(x) \in Hand /\ M!Here(x).lines = <<>>
      /\ M!Holding("sending", buffer) \in Hand /\ M!Holding("sending", buffer).lines = buffer
      /\ M!Holding("sending", buffer).place = "sending"  BY <1>3, HereIs DEF PlaceNames
<1>5. CASE /\ provider \in {M!Here("shared"), M!Here("stopping"), M!Here("dropping")}
           /\ provider' \in {M!Here("dropping"), M!Here("gone"), M!Here("stopping")}
           /\ buffer' = buffer /\ sent' = sent
 <2>1. provider.lines = <<>> /\ provider' \in Hand /\ provider'.lines = <<>>  BY <1>4, <1>5
 <2>2. LinesTyped'  BY <1>1, <1>2, <1>5, <2>1 DEF LinesTyped
 <2>3. \A r \in Spots : (Piles[r])' = Piles[r]  BY <1>1, <1>5, <2>1, PilesAre, EverySpot
 <2> QED  BY <1>1, <1>2, <2>2, <2>3, LinesStay
<1>6. CASE /\ provider = M!Here("dropping") /\ buffer' = <<>> /\ sent' = sent
           /\ provider' = M!Holding("sending", buffer)
 <2>1. /\ provider.lines = <<>> /\ provider' \in Hand /\ provider'.lines = buffer
       /\ provider'.place = "sending" /\ buffer' \in Seq(Nat)  BY <1>4, <1>6
 <2>2. LinesTyped'  BY <1>1, <1>2, <1>6, <2>1 DEF LinesTyped
 <2>3. \A r \in Spots : r # Buffered /\ r # Provided => (Piles[r])' = Piles[r]  BY <1>1, <1>6, PilesAre, EverySpot
 <2>4. (Piles[Provided])' = Piles[Provided] \o Piles[Buffered] /\ (Piles[Buffered])' = <<>>
  <3>1. \A x \in Seq(Nat) : <<>> \o x = x  OBVIOUS
  <3> QED  BY <1>3, <1>6, <2>1, <3>1, PilesAre
 <2> QED  BY <1>1, <1>2, <2>2, <2>3, <2>4, SpotsDiffer, LinesMove
<1>7. CASE sent' = Append(sent, provider.lines) /\ buffer' = buffer /\ provider' = M!Here("stopping")
 <2>1. provider' \in Hand /\ provider'.lines = <<>>  BY <1>4, <1>7
 <2>2. sent' \in Seq(Seq(Nat)) /\ M!FlattenSeq(sent') = M!FlattenSeq(sent) \o provider.lines
   BY <1>3, <1>7, FlatAppend
 <2>3. LinesTyped'  BY <1>1, <1>2, <1>7, <2>1, <2>2 DEF LinesTyped
 <2>4. \A r \in Spots : r # Out /\ r # Provided => (Piles[r])' = Piles[r]  BY <1>1, <1>7, PilesAre, EverySpot
 <2>5. (Piles[Out])' = Piles[Out] \o Piles[Provided] /\ (Piles[Provided])' = <<>>  BY <2>1, <2>2, PilesAre
 <2> QED  BY <1>1, <1>2, <2>3, <2>4, <2>5, SpotsDiffer, LinesMove
<1> QED  BY <1>5, <1>6, <1>7 DEF M!Drop, M!Take

LEMMA LinesStep ==
  ASSUME LinesInv, [M!MetricsNext]_metricsVars
  PROVE  LinesInv'
<1>1. CASE UNCHANGED metricsVars
 <2>1. /\ told' = told /\ backend' = backend /\ at' = at /\ flusher' = flusher /\ provider' = provider
       /\ buffer' = buffer /\ sent' = sent  BY <1>1 DEF metricsVars
 <2>2. LinesTyped /\ LinesTyped'  BY <2>1 DEF LinesTyped, LinesInv
 <2>3. \A r \in Spots : (Piles[r])' = Piles[r]  BY <2>1, PilesAre, EverySpot
 <2> QED  BY <2>1, <2>2, <2>3, LinesStay
<1>2. CASE M!Exit
 <2>1. /\ told' = told /\ backend' = backend /\ at' = at /\ flusher' = flusher /\ provider' = provider
       /\ buffer' = buffer /\ sent' = sent  BY <1>2 DEF M!Exit
 <2>2. LinesTyped /\ LinesTyped'  BY <2>1 DEF LinesTyped, LinesInv
 <2>3. \A r \in Spots : (Piles[r])' = Piles[r]  BY <2>1, PilesAre, EverySpot
 <2> QED  BY <2>1, <2>2, <2>3, LinesStay
<1> QED
  BY <1>1, <1>2, LinesRecord, LinesSend, LinesFlushFull, LinesSendFull, LinesFlusher, LinesDrop DEF M!MetricsNext

\* The instance counts with the same Cardinality.
LEMMA CountingIs == ASSUME NEW S PROVE M!Cardinality(S) = Cardinality(S)
BY DEF M!Cardinality, Cardinality

\* One pile holds a line, and once.
LEMMA LinesInvGives == LinesInv => M!LinesLeaveOnce
<1> SUFFICES ASSUME LinesInv, backend = "datadog", NEW i \in DOMAIN told
             PROVE  /\ \A p \in M!Places : M!Cardinality({k \in DOMAIN p[2] : p[2][k] = i}) <= 1
                    /\ M!Cardinality({p \in M!Places : \E k \in DOMAIN p[2] : p[2][k] = i}) = 1
  BY DEF M!LinesLeaveOnce
<1> DEFINE name(r) == IF r = Buffered THEN "buffer" ELSE IF r = Out THEN "sent"
                      ELSE IF r = Flushed THEN "flusher" ELSE IF r = Provided THEN "provider" ELSE r[2]
           pair(r) == <<name(r), Piles[r]>>
<1>1. i \in 1 .. Len(told) /\ Len(told) \in Nat  BY DEF LinesInv, LinesTyped
<1>2. Sorted(Piles, Len(told)) /\ DOMAIN Piles = Spots  BY PilesAre DEF LinesInv
<1>3. M!Places = {pair(r) : r \in Spots}
 <2>1. /\ pair(Buffered) = <<"buffer", buffer>> /\ pair(Out) = <<"sent", M!FlattenSeq(sent)>>
       /\ pair(Flushed) = <<"flusher", flusher.lines>> /\ pair(Provided) = <<"provider", provider.lines>>
       /\ \A c \in Callers : pair(<<"caller", c>>) = <<c, at[c].lines>>  BY PilesAre, SpotsDiffer
 <2> HIDE DEF pair
 <2> QED  BY <2>1, ZenonT(60) DEF M!Places, Spots
<1>4. \A r \in Spots : Piles[r] \in Seq(Nat) /\ DOMAIN (Piles[r]) = 1 .. Len(Piles[r])  BY <1>2 DEF Sorted
<1>5. /\ \A r \in Spots : \A k, l \in DOMAIN (Piles[r]) : Piles[r][k] = Piles[r][l] => k = l
      /\ \A r, s \in Spots : \A k \in DOMAIN (Piles[r]), l \in DOMAIN (Piles[s]) :
            Piles[r][k] = i /\ Piles[s][l] = i => r = s
      /\ \E r \in Spots : \E k \in DOMAIN (Piles[r]) : Piles[r][k] = i
 <2>1. \A r \in Spots : \A k, l \in DOMAIN (Piles[r]) : Piles[r][k] = Piles[r][l] => k = l
   BY <1>2, <1>4, SMTT(60) DEF Sorted
 <2>2. \A r \in Spots : \A j \in 1 .. Len(told) : Held(Piles, r, j) <=> \E k \in DOMAIN (Piles[r]) : Piles[r][k] = j
   BY <1>4 DEF Held
 <2>3. \E r \in Spots : Held(Piles, r, i)  BY <1>1, <1>2 DEF Sorted
 <2>4. \A r, s \in Spots : Held(Piles, r, i) /\ Held(Piles, s, i) => r = s  BY <1>1, <1>2 DEF Sorted
 <2> QED  BY <1>1, <2>1, <2>2, <2>3, <2>4
<1>6. \A r \in Spots : pair(r)[2] = Piles[r]  OBVIOUS
<1> HIDE DEF pair
<1>7. ASSUME NEW p \in M!Places PROVE M!Cardinality({k \in DOMAIN p[2] : p[2][k] = i}) <= 1
 <2>1. PICK r \in Spots : p = pair(r)  BY <1>3
 <2>2. p[2] = Piles[r]  BY <1>6, <2>1
 <2> DEFINE ks == {k \in DOMAIN p[2] : p[2][k] = i}
 <2>3. \A k, l \in ks : k = l  BY <1>5, <2>2
 <2> HIDE DEF ks
 <2>0. M!Cardinality(ks) = Cardinality(ks)  BY CountingIs
 <2>4. ASSUME ks = {} PROVE M!Cardinality(ks) <= 1  BY <2>0, <2>4, FS_EmptySet
 <2>5. ASSUME ks # {} PROVE M!Cardinality(ks) <= 1
  <3>1. PICK k : ks = {k}  BY <2>3, <2>5
  <3>2. Cardinality(ks) = 1  BY <3>1, FS_Singleton
  <3> QED  BY <2>0, <3>2
 <2>6. M!Cardinality(ks) <= 1  BY <2>4, <2>5
 <2> QED  BY <2>6 DEF ks
<1>8. M!Cardinality({p \in M!Places : \E k \in DOMAIN p[2] : p[2][k] = i}) = 1
 <2> DEFINE ps == {p \in M!Places : \E k \in DOMAIN p[2] : p[2][k] = i}
 <2>1. PICK r \in Spots : \E k \in DOMAIN (Piles[r]) : Piles[r][k] = i  BY <1>5
 <2>2. ps = {pair(r)}
  <3>1. ASSUME NEW p \in ps PROVE p = pair(r)
   <4>1. PICK s \in Spots : p = pair(s)  BY <1>3
   <4>2. s = r  BY <1>5, <1>6, <2>1, <4>1
   <4> QED  BY <4>1, <4>2
  <3>2. pair(r) \in ps  BY <1>3, <1>6, <2>1
  <3> QED  BY <3>1, <3>2
 <2> HIDE DEF ps
 <2>0. M!Cardinality(ps) = Cardinality(ps)  BY CountingIs
 <2>3. M!Cardinality(ps) = 1  BY <2>0, <2>2, FS_Singleton
 <2> QED  BY <2>3 DEF ps
<1> QED  BY <1>7, <1>8

-------------------------------------------------------------------------------
(* Metrics: the canonical order of labels and the sums of samples.         *)

\* The order of labels, by key and then by value.
Pair == Nat \X Nat
Leq(a, b) == ~M!Precedes(b, a)

\* It is a total order of pairs of numbers.
LEMMA LeqIs ==
  ASSUME NEW a \in Pair, NEW b \in Pair, NEW c \in Pair
  PROVE  /\ Leq(a, b) \/ Leq(b, a)
         /\ Leq(a, b) /\ Leq(b, c) => Leq(a, c)
         /\ a[1] \in Nat /\ a[2] \in Nat
         /\ Leq(a, b) /\ a[1] = b[1] => a[2] <= b[2]
         /\ Leq(a, a)
BY DEF Leq, M!Precedes, Pair

\* Among the first labels one is the last in that order.
LEMMA LastOfLabels ==
  ASSUME NEW n \in Nat, NEW f \in [1 .. n + 1 -> Pair]
  PROVE  \E m \in 1 .. n + 1 : \A i \in 1 .. n + 1 : Leq(f[i], f[m])
<1> DEFINE T == {k \in Nat : k <= n => \E m \in 1 .. k + 1 : \A i \in 1 .. k + 1 : Leq(f[i], f[m])}
<1>1. 0 \in T
 <2>1. 1 \in 1 .. n + 1 /\ \A i \in 1 .. 1 : i = 1  OBVIOUS
 <2>2. f[1] \in Pair  BY <2>1
 <2>3. Leq(f[1], f[1])  BY <2>2, LeqIs
 <2>4. \A i \in 1 .. 0 + 1 : Leq(f[i], f[1])  BY <2>1, <2>3
 <2>5. 1 \in 1 .. 0 + 1  OBVIOUS
 <2> QED  BY <2>4, <2>5
<1>2. ASSUME NEW k \in Nat, k \in T PROVE k + 1 \in T
 <2> DEFINE a == k + 2
 <2> SUFFICES ASSUME k + 1 <= n PROVE \E m \in 1 .. a : \A i \in 1 .. a : Leq(f[i], f[m])  OBVIOUS
 <2>1. PICK m \in 1 .. k + 1 : \A i \in 1 .. k + 1 : Leq(f[i], f[m])  BY <1>2
 <2>2. a \in 1 .. n + 1 /\ m \in 1 .. n + 1 /\ a \in 1 .. a /\ m \in 1 .. a
       /\ \A i \in 1 .. a : i \in 1 .. n + 1 /\ (i = a \/ i \in 1 .. k + 1)  OBVIOUS
 <2> HIDE DEF a
 <2>3. f[a] \in Pair /\ f[m] \in Pair /\ \A i \in 1 .. a : f[i] \in Pair  BY <2>2
 <2>4. CASE Leq(f[a], f[m])
  <3>1. \A i \in 1 .. a : Leq(f[i], f[m])  BY <2>1, <2>2, <2>4
  <3> QED  BY <2>2, <3>1
 <2>5. CASE Leq(f[m], f[a])
  <3>1. \A i \in 1 .. a : Leq(f[i], f[a])
   <4> SUFFICES ASSUME NEW i \in 1 .. a PROVE Leq(f[i], f[a])  OBVIOUS
   <4>1. CASE i = a  BY <2>3, <4>1, LeqIs
   <4>2. CASE i # a
    <5>1. Leq(f[i], f[m])  BY <2>1, <2>2, <4>2
    <5> QED  BY <2>3, <2>5, <5>1, LeqIs
   <4> QED  BY <4>1, <4>2
  <3> QED  BY <2>2, <3>1
 <2> QED  BY <2>3, <2>4, <2>5, LeqIs
<1>3. n \in T
 <2> HIDE DEF T
 <2> QED  BY <1>1, <1>2, Induct
<1> QED  BY <1>3

\* Labels can be sorted.
InOrder(f, p, n) == \A i, j \in 1 .. n : i < j => Leq(f[p[i]], f[p[j]])
Shuffles(p, n) ==
  /\ p \in [1 .. n -> 1 .. n]
  /\ \A i, j \in 1 .. n : p[i] = p[j] => i = j
  /\ \A j \in 1 .. n : \E i \in 1 .. n : p[i] = j

\* By taking the last of them off, one after the other.
LEMMA LabelsSort ==
  ASSUME NEW n \in Nat, NEW f \in [1 .. n -> Pair]
  PROVE  \E p : Shuffles(p, n) /\ InOrder(f, p, n)
<1> DEFINE T == {k \in Nat : \A g \in [1 .. k -> Pair] : \E p : Shuffles(p, k) /\ InOrder(g, p, k)}
<1>1. 0 \in T
 <2> SUFFICES ASSUME NEW g \in [1 .. 0 -> Pair] PROVE \E p : Shuffles(p, 0) /\ InOrder(g, p, 0)  OBVIOUS
 <2> DEFINE p == [i \in 1 .. 0 |-> i]
 <2>1. \A i \in 1 .. 0 : FALSE  OBVIOUS
 <2>2. Shuffles(p, 0) /\ InOrder(g, p, 0)  BY <2>1 DEF Shuffles, InOrder
 <2> QED  BY <2>2
<1>2. ASSUME NEW k \in Nat, k \in T PROVE k + 1 \in T
 <2> DEFINE a == k + 1
 <2> SUFFICES ASSUME NEW g \in [1 .. a -> Pair] PROVE \E q : Shuffles(q, a) /\ InOrder(g, q, a)  OBVIOUS
 <2>1. PICK m \in 1 .. a : \A i \in 1 .. a : Leq(g[i], g[m])  BY LastOfLabels
 <2>2. /\ a \in Nat /\ a \in 1 .. a /\ a \notin 1 .. k
       /\ \A i \in 1 .. k : i \in 1 .. a /\ i # a /\ i < a
       /\ \A i \in 1 .. a : i = a \/ i \in 1 .. k  OBVIOUS
 <2> HIDE DEF a
 <2> DEFINE h == [i \in 1 .. k |-> IF i = m THEN g[a] ELSE g[i]]
 <2>3. h \in [1 .. k -> Pair]  BY <2>2
 <2>4. \A i \in 1 .. k : h[i] = IF i = m THEN g[a] ELSE g[i]  OBVIOUS
 <2> HIDE DEF h
 <2>5. PICK p : Shuffles(p, k) /\ InOrder(h, p, k)  BY <1>2, <2>3
 <2> DEFINE q == [i \in 1 .. a |-> IF i = a THEN m ELSE IF p[i] = m THEN a ELSE p[i]]
 <2>6. \A i \in 1 .. a : q[i] = IF i = a THEN m ELSE IF p[i] = m THEN a ELSE p[i]  OBVIOUS
 <2>7. \A i \in 1 .. k : p[i] \in 1 .. k /\ p[i] \in 1 .. a /\ p[i] # a  BY <2>2, <2>5 DEF Shuffles
 <2>8. q \in [1 .. a -> 1 .. a]  BY <2>2, <2>7
 <2> HIDE DEF q
 <2>9. \A i, j \in 1 .. a : q[i] = q[j] => i = j
  <3> SUFFICES ASSUME NEW i \in 1 .. a, NEW j \in 1 .. a, q[i] = q[j] PROVE i = j  OBVIOUS
  <3>1. \A v, w \in 1 .. k : p[v] = p[w] => v = w  BY <2>5 DEF Shuffles
  <3>2. CASE i = a  BY <2>2, <2>6, <2>7, <3>2
  <3>3. CASE j = a  BY <2>2, <2>6, <2>7, <3>3
  <3>4. CASE i # a /\ j # a  BY <2>2, <2>6, <2>7, <3>1, <3>4
  <3> QED  BY <3>2, <3>3, <3>4
 <2>10. \A j \in 1 .. a : \E i \in 1 .. a : q[i] = j
  <3> SUFFICES ASSUME NEW j \in 1 .. a PROVE \E i \in 1 .. a : q[i] = j  OBVIOUS
  <3>1. \A v \in 1 .. k : \E i \in 1 .. k : p[i] = v  BY <2>5 DEF Shuffles
  <3>2. CASE j = m  BY <2>2, <2>6, <3>2
  <3>3. CASE j # m /\ j # a  BY <2>2, <2>6, <3>1, <3>3
  <3>4. CASE j # m /\ j = a
   <4>1. m \in 1 .. k  BY <2>2, <3>4
   <4>2. PICK i \in 1 .. k : p[i] = m  BY <3>1, <4>1
   <4> QED  BY <2>2, <2>6, <3>4, <4>2
  <3> QED  BY <3>2, <3>3, <3>4
 <2>11. \A i \in 1 .. k : g[q[i]] = h[p[i]]  BY <2>2, <2>4, <2>6, <2>7
 <2>12. InOrder(g, q, a)
  <3> SUFFICES ASSUME NEW i \in 1 .. a, NEW j \in 1 .. a, i < j PROVE Leq(g[q[i]], g[q[j]])  BY DEF InOrder
  <3>1. i \in 1 .. k  BY <2>2
  <3>2. CASE j = a  BY <2>1, <2>6, <2>8, <3>2
  <3>3. CASE j # a
   <4>1. j \in 1 .. k  BY <2>2, <3>3
   <4>2. Leq(h[p[i]], h[p[j]])  BY <2>5, <3>1, <4>1 DEF InOrder
   <4> QED  BY <2>11, <3>1, <4>1, <4>2
  <3> QED  BY <3>2, <3>3
 <2> QED  BY <2>8, <2>9, <2>10, <2>12 DEF Shuffles
<1>3. n \in T
 <2> HIDE DEF T
 <2> QED  BY <1>1, <1>2, Induct
<1> QED  BY <1>3

\* The canonical labels are the labels, sorted.
LEMMA CanonicalIs ==
  ASSUME NEW labels \in Seq(Pair)
  PROVE  \E c : /\ M!canonical_labels(labels) = c /\ c \in Seq(Pair) /\ Len(c) = Len(labels)
                /\ \A i \in 1 .. Len(c) : \E j \in 1 .. Len(labels) : c[i] = labels[j]
                /\ \A j \in 1 .. Len(labels) : \E i \in 1 .. Len(c) : c[i] = labels[j]
                /\ \A i, j \in 1 .. Len(c) : i < j => Leq(c[i], c[j])
<1> DEFINE n == Len(labels)
           sorts(p) == \A i, j \in DOMAIN labels : i < j => ~M!Precedes(labels[p[j]], labels[p[i]])
           ps == M!Bijection(DOMAIN labels, DOMAIN labels)
           order == CHOOSE p \in ps : sorts(p)
           c == [i \in DOMAIN labels |-> labels[order[i]]]
<1>1. n \in Nat /\ DOMAIN labels = 1 .. n /\ labels \in [1 .. n -> Pair]  OBVIOUS
<1>2. \A p : p \in ps <=> Shuffles(p, n)
  BY <1>1 DEF M!Bijection, M!Injection, M!Surjection, M!IsInjective, Shuffles
<1>3. \A p : sorts(p) <=> InOrder(labels, p, n)  BY <1>1 DEF InOrder, Leq
<1>4. M!canonical_labels(labels) = c  BY DEF M!canonical_labels
<1> HIDE DEF n, ps, sorts
<1>5. \E p \in ps : sorts(p)  BY <1>1, <1>2, <1>3, LabelsSort
<1>6. order \in ps /\ sorts(order)  BY <1>5
<1>7. Shuffles(order, n) /\ InOrder(labels, order, n)  BY <1>2, <1>3, <1>6
<1> HIDE DEF order
<1>8. /\ \A i \in 1 .. n : order[i] \in 1 .. n /\ c[i] = labels[order[i]]
      /\ \A j \in 1 .. n : \E i \in 1 .. n : order[i] = j  BY <1>1, <1>7 DEF Shuffles
<1>9. c \in Seq(Pair) /\ Len(c) = n
 <2>1. c = [i \in 1 .. n |-> labels[order[i]]]  BY <1>1
 <2>2. \A i \in 1 .. n : labels[order[i]] \in Pair  BY <1>1, <1>8
 <2> HIDE DEF c
 <2> QED  BY <1>1, <2>1, <2>2
<1> HIDE DEF c
<1>10. \A i, j \in 1 .. n : i < j => Leq(c[i], c[j])  BY <1>7, <1>8 DEF InOrder
<1>11. /\ \A i \in 1 .. n : \E j \in 1 .. n : c[i] = labels[j]
       /\ \A j \in 1 .. n : \E i \in 1 .. n : c[i] = labels[j]  BY <1>8, SMTT(60)
<1> QED  BY <1>4, <1>9, <1>10, <1>11 DEF n

\* The value a label set gives a key: the least of those it was given.
ValueIn(labels, key) ==
  LET vs == {l[2] : l \in {l \in M!Range(labels) : l[1] = key}}
  IN  IF vs = {} THEN 0 ELSE CHOOSE v \in vs : \A w \in vs : v <= w

\* The first of the sorted labels of a key has its least value.
LEMMA ValueFound ==
  ASSUME NEW labels \in Seq(Pair), NEW keys, NEW k \in DOMAIN keys
  PROVE  M!label_values(M!canonical_labels(labels), keys)[k] = ValueIn(labels, keys[k])
<1> DEFINE key == keys[k]
<1>1. PICK c : /\ M!canonical_labels(labels) = c /\ c \in Seq(Pair) /\ Len(c) = Len(labels)
               /\ \A i \in 1 .. Len(c) : \E j \in 1 .. Len(labels) : c[i] = labels[j]
               /\ \A j \in 1 .. Len(labels) : \E i \in 1 .. Len(c) : c[i] = labels[j]
               /\ \A i, j \in 1 .. Len(c) : i < j => Leq(c[i], c[j])  BY CanonicalIs
<1> DEFINE I == {i \in 1 .. Len(c) : c[i][1] = key}
           place == IF I # {} THEN CHOOSE x \in I : \A y \in I : x <= y ELSE 0
           vs == {l[2] : l \in {l \in M!Range(labels) : l[1] = key}}
<1>2. M!label_values(c, keys)[k] = IF place = 0 THEN 0 ELSE c[place][2]  BY DEF M!label_values, M!SelectInSeq, M!Min
<1>3. \A w : w \in vs <=> \E i \in I : w = c[i][2]
 <2>1. \A w : w \in vs <=> \E j \in 1 .. Len(labels) : labels[j][1] = key /\ w = labels[j][2]
  <3>1. DOMAIN labels = 1 .. Len(labels)  OBVIOUS
  <3> QED  BY <3>1 DEF M!Range
 <2> HIDE DEF vs
 <2>2. ASSUME NEW j \in 1 .. Len(labels), labels[j][1] = key PROVE \E i \in I : labels[j][2] = c[i][2]
  <3>1. PICK i \in 1 .. Len(c) : c[i] = labels[j]  BY <1>1
  <3> QED  BY <2>2, <3>1
 <2>3. ASSUME NEW i \in I
       PROVE  \E j \in 1 .. Len(labels) : labels[j][1] = key /\ c[i][2] = labels[j][2]
  <3>1. i \in 1 .. Len(c) /\ c[i][1] = key  OBVIOUS
  <3>2. PICK j \in 1 .. Len(labels) : c[i] = labels[j]  BY <1>1, <3>1
  <3> QED  BY <3>1, <3>2
 <2> HIDE DEF I, key
 <2> QED  BY <2>1, <2>2, <2>3, SMTT(60)
<1>4. ValueIn(labels, key) = IF vs = {} THEN 0 ELSE CHOOSE v \in vs : \A w \in vs : v <= w  BY DEF ValueIn
<1> HIDE DEF vs
<1>5. CASE I = {}
 <2>1. vs = {}  BY <1>3, <1>5
 <2> QED  BY <1>1, <1>2, <1>4, <1>5, <2>1
<1>6. CASE I # {}
 <2>1. I \subseteq Nat /\ \A i \in I : i \in 1 .. Len(c) /\ i > 0 /\ c[i][1] = key  BY <1>1
 <2> HIDE DEF I
 <2>2. \E x \in I : \A y \in I : x <= y  BY <1>6, <2>1, LeastElement
 <2>3. place \in I /\ \A y \in I : place <= y  BY <1>6, <2>2
 <2> HIDE DEF place
 <2> DEFINE v == c[place][2]
 <2>4. \A i \in 1 .. Len(c) : c[i] \in Pair  BY <1>1
 <2>5. v \in vs /\ v \in Nat /\ c[place] \in Pair  BY <1>3, <2>1, <2>3, <2>4, LeqIs
 <2>6. \A w \in vs : w \in Nat /\ v <= w
  <3> SUFFICES ASSUME NEW w \in vs PROVE w \in Nat /\ v <= w  OBVIOUS
  <3>1. PICK i \in I : w = c[i][2]  BY <1>3
  <3>2. c[i] \in Pair /\ i \in 1 .. Len(c) /\ c[i][1] = c[place][1]  BY <2>1, <2>3, <2>4
  <3>3. Leq(c[place], c[i])
   <4>1. CASE place = i  BY <2>5, <4>1, LeqIs
   <4>2. CASE place # i
    <5>1. place < i /\ place \in 1 .. Len(c)  BY <1>1, <2>1, <2>3, <4>2
    <5> QED  BY <1>1, <3>2, <5>1
   <4> QED  BY <4>1, <4>2
  <3> QED  BY <2>5, <3>1, <3>2, <3>3, LeqIs
 <2> HIDE DEF v
 <2>7. (CHOOSE u \in vs : \A w \in vs : u <= w) = v
  <3> DEFINE u == CHOOSE u \in vs : \A w \in vs : u <= w
  <3>1. u \in vs /\ \A w \in vs : u <= w  BY <2>5, <2>6
  <3> HIDE DEF u
  <3>2. u = v  BY <2>5, <2>6, <3>1
  <3> QED  BY <3>2 DEF u
 <2>8. vs # {} /\ place # 0  BY <2>1, <2>3, <2>5
 <2> QED  BY <1>1, <1>2, <1>4, <2>7, <2>8 DEF v
<1> QED  BY <1>5, <1>6

LEMMA ValuesFound ==
  ASSUME NEW labels \in Seq(Pair), NEW keys
  PROVE  M!label_values(M!canonical_labels(labels), keys) = [i \in DOMAIN keys |-> ValueIn(labels, keys[i])]
<1>1. ASSUME NEW i \in DOMAIN keys
      PROVE  M!label_values(M!canonical_labels(labels), keys)[i] = ValueIn(labels, keys[i])  BY ValueFound
<1>2. M!label_values(M!canonical_labels(labels), keys)
        = [i \in DOMAIN keys |-> M!label_values(M!canonical_labels(labels), keys)[i]]  BY DEF M!label_values
<1> QED  BY <1>1, <1>2

\* What the values of a sequence add up to.
LEMMA SummedChain ==
  ASSUME NEW s \in Seq(Nat)
  PROVE  \E g \in [0 .. Len(s) -> Nat] :
           /\ g[0] = 0 /\ \A i \in 1 .. Len(s) : g[i] = g[i - 1] + s[i]
           /\ M!Summed(s) = g[Len(s)]
<1> DEFINE n == Len(s)
           V == Nat
           zero == 0
           next == [i \in 1 .. n |-> [v \in V |-> v + s[i]]]
<1>1. n \in Nat /\ zero \in V /\ \A i \in 1 .. n : s[i] \in V  OBVIOUS
<1>2. \A i \in 1 .. n : \A v \in V : next[i][v] = v + s[i] /\ next[i][v] \in V  BY <1>1
<1> HIDE DEF next, n, V, zero
<1>3. PICK g \in [0 .. n -> V] : Chained(g, n, zero, next)  BY <1>1, <1>2, Recursion
<1>4. g[0] = 0 /\ \A i \in 1 .. n : g[i] = g[i - 1] + s[i]
 <2>1. g[0] = 0  BY <1>3 DEF Chained, zero
 <2>2. ASSUME NEW i \in 1 .. n PROVE g[i] = g[i - 1] + s[i]
  <3>1. i - 1 \in 0 .. n  BY <1>1
  <3>2. g[i - 1] \in V /\ g[i] = next[i][g[i - 1]]  BY <1>3, <3>1 DEF Chained
  <3> QED  BY <1>2, <3>2
 <2> QED  BY <2>1, <2>2
<1> DEFINE upto[i \in 0 .. Len(s)] == IF i = 0 THEN 0 ELSE upto[i - 1] + s[i]
<1>5. g = [i \in 0 .. n |-> IF i = 0 THEN 0 ELSE g[i - 1] + s[i]]
 <2>1. g = [i \in 0 .. n |-> g[i]]  BY <1>3
 <2>2. ASSUME NEW i \in 0 .. n PROVE g[i] = IF i = 0 THEN 0 ELSE g[i - 1] + s[i]
  <3>1. i = 0 \/ i \in 1 .. n  BY <1>1
  <3> QED  BY <1>4, <3>1
 <2> QED  BY <2>1, <2>2
<1>6. \E h : h = [i \in 0 .. n |-> IF i = 0 THEN 0 ELSE h[i - 1] + s[i]]  BY <1>5
<1>7. upto = [i \in 0 .. n |-> IF i = 0 THEN 0 ELSE upto[i - 1] + s[i]]  BY <1>6 DEF n
<1>8. M!Summed(s) = upto[n]  BY DEF M!Summed, n
<1> HIDE DEF upto
<1> DEFINE T == {i \in Nat : i <= n => upto[i] = g[i]}
<1>9. 0 \in T  BY <1>1, <1>4, <1>7
<1>10. ASSUME NEW i \in Nat, i \in T PROVE i + 1 \in T
 <2> DEFINE a == i + 1
 <2> SUFFICES ASSUME a <= n PROVE upto[a] = g[a]  OBVIOUS
 <2>1. a \in 1 .. n /\ a \in 0 .. n /\ a # 0 /\ a - 1 = i /\ upto[i] = g[i]  BY <1>1, <1>10
 <2> HIDE DEF a
 <2> QED  BY <1>4, <1>7, <2>1, ZenonT(60)
<1>11. n \in T
 <2> HIDE DEF T
 <2> QED  BY <1>1, <1>9, <1>10, Induct
<1>12. upto[n] = g[n]  BY <1>1, <1>11
<1> QED  BY <1>3, <1>4, <1>8, <1>12 DEF n, V

\* One more value at the end.
LEMMA SummedIs ==
  ASSUME NEW s \in Seq(Nat), NEW x \in Nat
  PROVE  /\ M!Summed(s) \in Nat /\ M!Summed(<<>>) = 0
         /\ M!Summed(Append(s, x)) = M!Summed(s) + x
<1> DEFINE tt == Append(s, x)
           n == Len(s)
<1>1. /\ tt \in Seq(Nat) /\ n \in Nat /\ Len(tt) = n + 1
      /\ \A i \in 1 .. n : tt[i] = s[i]
      /\ tt[n + 1] = x  OBVIOUS
<1> HIDE DEF tt
<1>2. PICK g \in [0 .. n -> Nat] : /\ g[0] = 0 /\ \A i \in 1 .. n : g[i] = g[i - 1] + s[i]
                                   /\ M!Summed(s) = g[n]  BY SummedChain
<1>3. PICK h \in [0 .. n + 1 -> Nat] : /\ h[0] = 0 /\ \A i \in 1 .. n + 1 : h[i] = h[i - 1] + tt[i]
                                       /\ M!Summed(tt) = h[n + 1]
 <2>1. \E h \in [0 .. Len(tt) -> Nat] : /\ h[0] = 0 /\ \A i \in 1 .. Len(tt) : h[i] = h[i - 1] + tt[i]
                                        /\ M!Summed(tt) = h[Len(tt)]  BY <1>1, SummedChain
 <2> QED  BY <1>1, <2>1
<1> HIDE DEF n
<1> DEFINE T == {i \in Nat : i <= n => h[i] = g[i]}
<1>4. 0 \in T  BY <1>2, <1>3
<1>5. ASSUME NEW i \in Nat, i \in T PROVE i + 1 \in T
 <2> DEFINE a == i + 1
 <2> SUFFICES ASSUME a <= n PROVE h[a] = g[a]  OBVIOUS
 <2>1. a \in 1 .. n /\ a \in 1 .. n + 1 /\ a - 1 = i /\ h[i] = g[i]  BY <1>1, <1>5
 <2> HIDE DEF a
 <2> QED  BY <1>1, <1>2, <1>3, <2>1
<1>6. h[n] = g[n]
 <2>1. n \in T
  <3> HIDE DEF T
  <3> QED  BY <1>1, <1>4, <1>5, Induct
 <2> QED  BY <1>1, <2>1
<1>7. h[n + 1] = h[n] + x
 <2> DEFINE a == n + 1
 <2>1. a \in 1 .. n + 1 /\ a - 1 = n  BY <1>1
 <2> HIDE DEF a
 <2>2. h[a] = h[a - 1] + tt[a]  BY <1>3, <2>1
 <2> QED  BY <1>1, <2>1, <2>2 DEF a
<1>8. g[n] \in Nat  BY <1>1, <1>2
<1>9. M!Summed(<<>>) = 0
 <2> DEFINE e == <<>>
 <2>1. e \in Seq(Nat) /\ Len(e) = 0  OBVIOUS
 <2> HIDE DEF e
 <2>2. \E f \in [0 .. Len(e) -> Nat] : f[0] = 0 /\ M!Summed(e) = f[Len(e)]  BY <2>1, SummedChain
 <2> QED  BY <2>1, <2>2 DEF e
<1> QED  BY <1>1, <1>2, <1>3, <1>6, <1>7, <1>8, <1>9 DEF tt

-------------------------------------------------------------------------------
(* Metrics: what prometheus should show, read off the history.             *)

\* What the history of samples t says of a name, a sample and a series.
LeastOf(is) == IF is = {} THEN 0 ELSE CHOOSE i \in is : \A j \in is : i <= j
Labelled(t, x) == {i \in DOMAIN t : t[i].name = x /\ ~(t[i].labels = <<>>)}
KeysFixed(t, x) ==
  IF LeastOf(Labelled(t, x)) = 0 THEN <<>>
  ELSE M!KeysOf(M!canonical_labels(t[LeastOf(Labelled(t, x))].labels))
Takes(t, x) == {i \in DOMAIN t : t[i].name = x /\ (t[i].labels = <<>> \/ M!IsInjective(KeysFixed(t, x)))}
OwnerIn(t, x) == LeastOf(Takes(t, x))
ValuesIn(t, s) ==
  IF s.labels = <<>> THEN <<>>
  ELSE [j \in DOMAIN KeysFixed(t, s.name) |-> ValueIn(s.labels, KeysFixed(t, s.name)[j])]
Counts(t, i, k, x, vs) ==
  /\ t[i].kind = k /\ t[i].name = x /\ i >= OwnerIn(t, x)
  /\ (t[i].labels = <<>>) <=> (t[OwnerIn(t, x)].labels = <<>>)
  /\ vs = ValuesIn(t, t[i])
TotalIn(t, is) == M!Summed([i \in DOMAIN t |-> IF i \in is THEN t[i].value ELSE 0])

\* They are the definitions of the component, with the history as a parameter.
LEMMA HistoryIs ==
  /\ \A x : M!FixedKeys(x) = KeysFixed(told, x) /\ M!Owner(x) = OwnerIn(told, x)
  /\ \A i, k, x, vs : M!InSeries(i, k, x, vs) <=> Counts(told, i, k, x, vs)
  /\ \A is : M!Total(is) = TotalIn(told, is)
<1>1. ASSUME NEW x PROVE M!FixedKeys(x) = KeysFixed(told, x)
  BY DEF M!FixedKeys, M!FirstOf, M!Plain, KeysFixed, Labelled, LeastOf
<1>2. ASSUME NEW x PROVE M!Owner(x) = OwnerIn(told, x)
 <2>1. M!FixedKeys(x) = KeysFixed(told, x)  BY <1>1
 <2> QED  BY <2>1 DEF M!Owner, M!FirstOf, M!Plain, OwnerIn, Takes, LeastOf
<1>3. ASSUME NEW s, NEW key PROVE M!ValueOf(s, key) = ValueIn(s.labels, key)  BY DEF M!ValueOf, ValueIn
<1>4. ASSUME NEW i, NEW k, NEW x, NEW vs PROVE M!InSeries(i, k, x, vs) <=> Counts(told, i, k, x, vs)
 <2>1. /\ M!FixedKeys(x) = KeysFixed(told, x) /\ M!Owner(x) = OwnerIn(told, x)
       /\ \A s, key : M!ValueOf(s, key) = ValueIn(s.labels, key)  BY <1>1, <1>2, <1>3
 <2> QED  BY <2>1 DEF M!InSeries, M!Plain, Counts, ValuesIn
<1>5. ASSUME NEW is PROVE M!Total(is) = TotalIn(told, is)  BY DEF M!Total, TotalIn
<1> QED  BY <1>1, <1>2, <1>4, <1>5

LEMMA LeastIs ==
  ASSUME NEW is, \A i \in is : i \in Nat /\ i > 0
  PROVE  /\ LeastOf(is) \in Nat /\ (LeastOf(is) = 0 <=> is = {})
         /\ is # {} => LeastOf(is) \in is /\ \A j \in is : LeastOf(is) <= j
<1>1. CASE is = {}  BY <1>1 DEF LeastOf
<1>2. CASE is # {}
 <2>1. \E i \in is : \A j \in is : i <= j  BY <1>2, LeastElement
 <2>2. LeastOf(is) \in is /\ \A j \in is : LeastOf(is) <= j  BY <1>2, <2>1 DEF LeastOf
 <2> QED  BY <1>2, <2>2
<1> QED  BY <1>1, <1>2

LEMMA LeastSame ==
  ASSUME NEW is, \A i \in is : i \in Nat /\ i > 0, NEW least, least \in is, \A j \in is : least <= j
  PROVE  LeastOf(is) = least
<1>1. LeastOf(is) \in is /\ LeastOf(is) <= least  BY LeastIs
<1> QED  BY <1>1

\* Indexes of the history.
LEMMA TakesIs ==
  ASSUME NEW t \in Seq(Samples), NEW x
  PROVE  /\ \A i \in Labelled(t, x) : i \in Nat /\ i > 0 /\ i \in 1 .. Len(t)
         /\ \A i \in Takes(t, x) : i \in Nat /\ i > 0 /\ i \in 1 .. Len(t)
         /\ OwnerIn(t, x) \in Nat
         /\ OwnerIn(t, x) # 0 => /\ OwnerIn(t, x) \in 1 .. Len(t) /\ t[OwnerIn(t, x)].name = x
                                 /\ OwnerIn(t, x) \in Takes(t, x) /\ \A j \in Takes(t, x) : OwnerIn(t, x) <= j
         /\ OwnerIn(t, x) = 0 <=> Takes(t, x) = {}
<1>1. DOMAIN t = 1 .. Len(t) /\ Len(t) \in Nat  OBVIOUS
<1>2. \A i \in 1 .. Len(t) : i \in Nat /\ i > 0  BY <1>1
<1>3. /\ \A i \in Labelled(t, x) : i \in 1 .. Len(t)
      /\ \A i \in Takes(t, x) : i \in 1 .. Len(t) /\ t[i].name = x  BY <1>1 DEF Labelled, Takes
<1> QED  BY <1>2, <1>3, LeastIs DEF OwnerIn

\* The keys of a name once the sample s is told too.
LEMMA KeysStep ==
  ASSUME NEW t \in Seq(Samples), NEW s \in Samples, NEW x
  PROVE  LET u == Append(t, s)
         IN  /\ Labelled(t, x) # {} => KeysFixed(u, x) = KeysFixed(t, x)
             /\ ~(s.name = x /\ s.labels # <<>>) => KeysFixed(u, x) = KeysFixed(t, x)
             /\ s.name = x /\ s.labels # <<>> /\ Labelled(t, x) = {} =>
                  KeysFixed(u, x) = M!KeysOf(M!canonical_labels(s.labels))
             /\ Labelled(u, x) # {} <=> Labelled(t, x) # {} \/ (s.name = x /\ s.labels # <<>>)
<1> DEFINE u == Append(t, s)
           m == Len(t) + 1
           old == Labelled(t, x)
           new == Labelled(u, x)
<1>1. /\ u \in Seq(Samples) /\ DOMAIN u = 1 .. m /\ DOMAIN t = 1 .. Len(t) /\ Len(t) \in Nat
      /\ u[m] = s /\ \A i \in 1 .. Len(t) : u[i] = t[i]  OBVIOUS
<1>2. m \in Nat /\ m > 0 /\ m \in 1 .. m /\ \A i \in 1 .. m : i = m \/ i \in 1 .. Len(t)  BY <1>1
<1>3. \A i \in 1 .. Len(t) : i \in 1 .. m /\ i < m  BY <1>1
<1> HIDE DEF u, m
<1>4. /\ \A i \in old : i \in new /\ i < m /\ u[i] = t[i]
      /\ \A i \in new : i \in old \/ i = m
      /\ m \in new <=> s.name = x /\ s.labels # <<>>  BY <1>1, <1>2, <1>3 DEF Labelled
<1>5. /\ \A i \in old : i \in Nat /\ i > 0
      /\ \A i \in new : i \in Nat /\ i > 0  BY <1>1, TakesIs
<1> HIDE DEF old, new
<1>6. CASE old # {}
 <2> DEFINE l == LeastOf(old)
 <2>1. l \in old /\ \A j \in old : l <= j  BY <1>5, <1>6, LeastIs
 <2> HIDE DEF l
 <2>2. l \in new /\ \A j \in new : l <= j  BY <1>2, <1>4, <1>5, <2>1
 <2>3. LeastOf(new) = l  BY <1>5, <2>2, LeastSame
 <2>4. KeysFixed(u, x) = KeysFixed(t, x)  BY <1>4, <2>1, <2>3 DEF KeysFixed, old, new, l
 <2> QED  BY <1>4, <1>6, <2>4 DEF u, old, new
<1>7. CASE old = {} /\ m \in new
 <2>1. \A j \in new : m <= j  BY <1>2, <1>4, <1>7
 <2>2. LeastOf(new) = m  BY <1>5, <1>7, <2>1, LeastSame
 <2>3. KeysFixed(u, x) = M!KeysOf(M!canonical_labels(s.labels))  BY <1>1, <1>2, <2>2 DEF KeysFixed, new
 <2> QED  BY <1>4, <1>7, <2>3 DEF u, old, new
<1>8. CASE old = {} /\ m \notin new
 <2>1. new = {}  BY <1>4, <1>8
 <2>2. KeysFixed(u, x) = KeysFixed(t, x)  BY <1>8, <2>1 DEF KeysFixed, old, new, LeastOf
 <2> QED  BY <1>4, <1>8, <2>1, <2>2 DEF u, old, new
<1> QED  BY <1>6, <1>7, <1>8

\* Its owner once the sample s is told too.
LEMMA OwnerStep ==
  ASSUME NEW t \in Seq(Samples), NEW s \in Samples, NEW x
  PROVE  LET u == Append(t, s)
         IN  /\ OwnerIn(t, x) # 0 => OwnerIn(u, x) = OwnerIn(t, x)
             /\ OwnerIn(t, x) = 0 =>
                  IF s.name = x /\ (s.labels = <<>> \/ M!IsInjective(KeysFixed(u, x)))
                  THEN OwnerIn(u, x) = Len(t) + 1 ELSE OwnerIn(u, x) = 0
<1> DEFINE u == Append(t, s)
           m == Len(t) + 1
           old == Takes(t, x)
           new == Takes(u, x)
<1>1. /\ u \in Seq(Samples) /\ DOMAIN u = 1 .. m /\ DOMAIN t = 1 .. Len(t) /\ Len(t) \in Nat
      /\ u[m] = s /\ \A i \in 1 .. Len(t) : u[i] = t[i]  OBVIOUS
<1>2. m \in Nat /\ m > 0 /\ m \in 1 .. m /\ \A i \in 1 .. m : i = m \/ i \in 1 .. Len(t)  BY <1>1
<1>3. \A i \in 1 .. Len(t) : i \in 1 .. m /\ i < m  BY <1>1
<1>0. Labelled(t, x) # {} => KeysFixed(u, x) = KeysFixed(t, x)  BY KeysStep
<1> HIDE DEF u, m
<1>4. /\ \A i \in 1 .. Len(t) : i \in old <=> i \in new
      /\ m \in new <=> s.name = x /\ (s.labels = <<>> \/ M!IsInjective(KeysFixed(u, x)))
 <2>1. ASSUME NEW i \in 1 .. Len(t) PROVE i \in old <=> i \in new
  <3>1. CASE t[i].name = x /\ t[i].labels # <<>>
   <4>1. Labelled(t, x) # {}  BY <1>1, <3>1 DEF Labelled
   <4> QED  BY <1>0, <1>1, <1>3, <4>1 DEF Takes
  <3>2. CASE ~(t[i].name = x /\ t[i].labels # <<>>)  BY <1>1, <1>3, <3>2 DEF Takes
  <3> QED  BY <3>1, <3>2
 <2>2. m \in new <=> s.name = x /\ (s.labels = <<>> \/ M!IsInjective(KeysFixed(u, x)))  BY <1>1, <1>2 DEF Takes
 <2> QED  BY <2>1, <2>2
<1>5. /\ \A i \in old : i \in Nat /\ i > 0 /\ i \in 1 .. Len(t)
      /\ \A i \in new : i \in Nat /\ i > 0 /\ i \in 1 .. m  BY <1>1, TakesIs DEF Takes
<1>6. OwnerIn(t, x) = LeastOf(old) /\ OwnerIn(u, x) = LeastOf(new)  BY DEF OwnerIn
<1> HIDE DEF old, new
<1>7. CASE old # {}
 <2> DEFINE l == LeastOf(old)
 <2>1. l \in old /\ \A j \in old : l <= j  BY <1>5, <1>7, LeastIs
 <2> HIDE DEF l
 <2>2. l \in new /\ \A j \in new : l <= j  BY <1>2, <1>3, <1>4, <1>5, <2>1
 <2>3. LeastOf(new) = l  BY <1>5, <2>2, LeastSame
 <2>4. l # 0  BY <1>5, <2>1
 <2> QED  BY <1>6, <2>3, <2>4 DEF u, l
<1>8. CASE old = {} /\ m \in new
 <2>1. \A j \in new : m <= j  BY <1>2, <1>4, <1>5, <1>8
 <2>2. LeastOf(new) = m /\ LeastOf(old) = 0  BY <1>5, <1>8, <2>1, LeastSame, LeastIs
 <2> QED  BY <1>4, <1>6, <1>8, <2>2 DEF u, m
<1>9. CASE old = {} /\ m \notin new
 <2>1. new = {}  BY <1>2, <1>4, <1>5, <1>9
 <2>2. LeastOf(new) = 0 /\ LeastOf(old) = 0  BY <1>9, <2>1 DEF LeastOf
 <2> QED  BY <1>4, <1>6, <1>9, <2>2 DEF u
<1> QED  BY <1>7, <1>8, <1>9

\* An earlier sample of an owned name counts where it counted.
LEMMA CountsStep ==
  ASSUME NEW t \in Seq(Samples), NEW s \in Samples, NEW i \in 1 .. Len(t), NEW k, NEW x, NEW vs,
         OwnerIn(t, x) # 0
  PROVE  Counts(Append(t, s), i, k, x, vs) <=> Counts(t, i, k, x, vs)
<1> DEFINE u == Append(t, s)
           o == OwnerIn(t, x)
<1>1. OwnerIn(u, x) = o /\ o \in 1 .. Len(t)  BY OwnerStep, TakesIs
<1>2. u[i] = t[i] /\ u[o] = t[o] /\ i \in DOMAIN t
 <2> HIDE DEF o
 <2>1. \A j \in 1 .. Len(t) : u[j] = t[j]  OBVIOUS
 <2> QED  BY <1>1, <2>1
<1>3. t[i].name = x /\ t[i].labels # <<>> => KeysFixed(u, x) = KeysFixed(t, x)
 <2> SUFFICES ASSUME t[i].name = x, t[i].labels # <<>> PROVE KeysFixed(u, x) = KeysFixed(t, x)  OBVIOUS
 <2>1. Labelled(t, x) # {}  BY <1>2 DEF Labelled
 <2> QED  BY <2>1, KeysStep
<1>4. t[i].name = x => ValuesIn(u, t[i]) = ValuesIn(t, t[i])  BY <1>3 DEF ValuesIn
<1> HIDE DEF u, o
<1>5. Counts(u, i, k, x, vs) <=> Counts(t, i, k, x, vs)  BY <1>1, <1>2, <1>4 DEF Counts, o
<1> QED  BY <1>5 DEF u

\* Nothing adds up to nothing.
LEMMA SummedNothing ==
  ASSUME NEW s \in Seq(Nat), \A i \in 1 .. Len(s) : s[i] = 0
  PROVE  M!Summed(s) = 0
<1> DEFINE n == Len(s)
<1>1. PICK g \in [0 .. n -> Nat] : /\ g[0] = 0 /\ \A i \in 1 .. n : g[i] = g[i - 1] + s[i]
                                   /\ M!Summed(s) = g[n]  BY SummedChain
<1>2. n \in Nat /\ \A i \in 1 .. n : s[i] = 0  OBVIOUS
<1> HIDE DEF n
<1> DEFINE T == {i \in Nat : i <= n => g[i] = 0}
<1>3. 0 \in T  BY <1>1
<1>4. ASSUME NEW i \in Nat, i \in T PROVE i + 1 \in T
 <2> DEFINE a == i + 1
 <2> SUFFICES ASSUME a <= n PROVE g[a] = 0  OBVIOUS
 <2>1. a \in 1 .. n /\ a - 1 = i /\ g[i] = 0  BY <1>2, <1>4
 <2> HIDE DEF a
 <2>2. g[a] = g[a - 1] + s[a] /\ s[a] = 0  BY <1>1, <1>2, <2>1
 <2> QED  BY <2>1, <2>2
<1>5. n \in T
 <2> HIDE DEF T
 <2> QED  BY <1>2, <1>3, <1>4, Induct
<1> QED  BY <1>1, <1>2, <1>5

\* What samples add up to once the sample s is told too.
LEMMA TotalStep ==
  ASSUME NEW t \in Seq(Samples), NEW s \in Samples, NEW is, \A i \in is : i \in 1 .. Len(t)
  PROVE  /\ TotalIn(t, is) \in Nat /\ TotalIn(Append(t, s), is) = TotalIn(t, is)
         /\ TotalIn(Append(t, s), is \cup {Len(t) + 1}) = TotalIn(t, is) + s.value
         /\ TotalIn(t, {}) = 0
<1> DEFINE u == Append(t, s)
           n == Len(t)
           m == n + 1
           a(js) == [i \in DOMAIN t |-> IF i \in js THEN t[i].value ELSE 0]
           b(js) == [i \in DOMAIN u |-> IF i \in js THEN u[i].value ELSE 0]
<1>1. /\ DOMAIN u = 1 .. m /\ DOMAIN t = 1 .. n /\ n \in Nat /\ u[m] = s /\ m \in 1 .. m
      /\ \A i \in 1 .. n : u[i] = t[i] /\ t[i] \in Samples /\ i # m /\ i \in 1 .. m
      /\ \A i \in 1 .. m : i = m \/ i \in 1 .. n  OBVIOUS
<1>2. \A x \in Samples : x.value \in Nat  BY MetricsAssumption
<1> HIDE DEF u
<1>3. ASSUME NEW js PROVE a(js) \in Seq(Nat) /\ Len(a(js)) = n /\ \A i \in 1 .. n : a(js)[i] = IF i \in js THEN t[i].value ELSE 0
 <2> DEFINE f == a(js)
 <2>1. f = [i \in 1 .. n |-> IF i \in js THEN t[i].value ELSE 0]  BY <1>1
 <2>2. \A i \in 1 .. n : t[i].value \in Nat  BY <1>1, <1>2
 <2> HIDE DEF f
 <2>3. f \in Seq(Nat) /\ Len(f) = n /\ \A i \in 1 .. n : f[i] = IF i \in js THEN t[i].value ELSE 0
   BY <1>1, <2>1, <2>2
 <2> QED  BY <2>3 DEF f
<1>4. b(is) = Append(a(is), 0)
 <2> DEFINE f == a(is)
            g == Append(f, 0)
            h == b(is)
 <2>1. f \in Seq(Nat) /\ Len(f) = n /\ \A i \in 1 .. n : f[i] = IF i \in is THEN t[i].value ELSE 0  BY <1>3
 <2>2. h = [i \in 1 .. m |-> IF i \in is THEN u[i].value ELSE 0]  BY <1>1
 <2> HIDE DEF f, h
 <2>3. g = [i \in 1 .. m |-> g[i]] /\ g[m] = 0 /\ \A i \in 1 .. n : g[i] = f[i]
  <3>1. g \in Seq(Nat) /\ Len(g) = m /\ g[m] = 0 /\ \A i \in 1 .. n : g[i] = f[i]  BY <1>1, <1>2, <2>1
  <3> HIDE DEF g, m
  <3>2. g = [i \in 1 .. Len(g) |-> g[i]]  BY <3>1
  <3> QED  BY <3>1, <3>2
 <2> HIDE DEF g, m
 <2>4. \A i \in 1 .. m : g[i] = IF i \in is THEN u[i].value ELSE 0  BY <1>1, <2>1, <2>3
 <2>5. h = g  BY <2>2, <2>3, <2>4
 <2> QED  BY <2>5 DEF f, g, h
<1>5. b(is \cup {m}) = Append(a(is), s.value)
 <2> DEFINE f == a(is)
            g == Append(f, s.value)
            h == b(is \cup {m})
 <2>1. f \in Seq(Nat) /\ Len(f) = n /\ \A i \in 1 .. n : f[i] = IF i \in is THEN t[i].value ELSE 0  BY <1>3
 <2>2. h = [i \in 1 .. m |-> IF i \in is \cup {m} THEN u[i].value ELSE 0]  BY <1>1
 <2> HIDE DEF f, h
 <2>3. g = [i \in 1 .. m |-> g[i]] /\ g[m] = s.value /\ \A i \in 1 .. n : g[i] = f[i]
  <3>1. g \in Seq(Nat) /\ Len(g) = m /\ g[m] = s.value /\ \A i \in 1 .. n : g[i] = f[i]  BY <1>1, <1>2, <2>1
  <3> HIDE DEF g, m
  <3>2. g = [i \in 1 .. Len(g) |-> g[i]]  BY <3>1
  <3> QED  BY <3>1, <3>2
 <2> HIDE DEF g, m
 <2>4. \A i \in 1 .. m : g[i] = IF i \in is \cup {m} THEN u[i].value ELSE 0  BY <1>1, <2>1, <2>3
 <2>5. h = g  BY <2>2, <2>3, <2>4
 <2> QED  BY <2>5 DEF f, g, h
<1>6. M!Summed(a({})) = 0
 <2>1. a({}) \in Seq(Nat) /\ \A i \in 1 .. Len(a({})) : a({})[i] = 0  BY <1>3
 <2> HIDE DEF a
 <2> QED  BY <2>1, SummedNothing
<1>7. a(is) \in Seq(Nat) /\ s.value \in Nat  BY <1>2, <1>3
<1>8. /\ TotalIn(t, is) = M!Summed(a(is)) /\ TotalIn(t, {}) = M!Summed(a({}))
      /\ TotalIn(u, is) = M!Summed(b(is)) /\ TotalIn(u, is \cup {m}) = M!Summed(b(is \cup {m}))  BY DEF TotalIn
<1> HIDE DEF a, b
<1>9. /\ M!Summed(a(is)) \in Nat /\ M!Summed(Append(a(is), 0)) = M!Summed(a(is))
      /\ M!Summed(Append(a(is), s.value)) = M!Summed(a(is)) + s.value
 <2>1. M!Summed(a(is)) \in Nat /\ M!Summed(Append(a(is), 0)) = M!Summed(a(is)) + 0  BY <1>7, SummedIs
 <2> QED  BY <1>7, <2>1, SummedIs
<1> HIDE DEF m
<1>10. /\ TotalIn(t, is) \in Nat /\ TotalIn(u, is) = TotalIn(t, is) /\ TotalIn(t, {}) = 0
       /\ TotalIn(u, is \cup {m}) = TotalIn(t, is) + s.value  BY <1>4, <1>5, <1>6, <1>8, <1>9
<1> QED  BY <1>10 DEF u, m, n

\* What a series of some samples shows.
ShownIn(t, kind, is, v) ==
  /\ kind \in {"counter", "gauge", "histogram"}
  /\ kind = "counter" => v \in Nat /\ v = TotalIn(t, is)
  /\ kind = "gauge" => \A i \in is : (\A j \in is : j <= i) => v = t[i].value
  /\ kind = "histogram" => v \in Seq(Nat) /\ Len(v) = Cardinality(is) /\ M!Summed(v) = TotalIn(t, is)

\* A series without s shows what it showed.
LEMMA ShownStays ==
  ASSUME NEW t \in Seq(Samples), NEW s \in Samples, NEW is, \A i \in is : i \in 1 .. Len(t), NEW kind, NEW v,
         ShownIn(t, kind, is, v)
  PROVE  ShownIn(Append(t, s), kind, is, v)
<1>1. TotalIn(Append(t, s), is) = TotalIn(t, is)  BY TotalStep
<1>2. \A i \in is : Append(t, s)[i] = t[i]  OBVIOUS
<1> QED  BY <1>1, <1>2 DEF ShownIn

\* A series that gets a sample, and one that starts with it.
LEMMA ShownGrows ==
  ASSUME NEW t \in Seq(Samples), NEW s \in Samples, NEW is, \A i \in is : i \in 1 .. Len(t), NEW v, NEW w,
         ShownIn(t, s.kind, is, v) \/ (is = {} /\ (s.kind = "counter" => v = 0) /\ (s.kind = "histogram" => v = <<>>)),
         s.kind = "counter" => w = v + s.value,
         s.kind = "histogram" => w = Append(v, s.value),
         s.kind = "gauge" => w = s.value
  PROVE  ShownIn(Append(t, s), s.kind, is \cup {Len(t) + 1}, w)
<1> DEFINE u == Append(t, s)
           m == Len(t) + 1
           js == is \cup {m}
<1>1. /\ TotalIn(t, is) \in Nat /\ TotalIn(t, {}) = 0 /\ TotalIn(u, js) = TotalIn(t, is) + s.value  BY TotalStep
<1>2. s.value \in Nat /\ s.kind \in {"counter", "gauge", "histogram"}  BY MetricsAssumption
<1>3. u[m] = s /\ m \in Nat /\ \A i \in is : i < m /\ i \in Nat  OBVIOUS
<1> HIDE DEF u, m
<1>4. CASE s.kind = "counter"
 <2>1. v \in Nat /\ v = TotalIn(t, is)  BY <1>1, <1>4 DEF ShownIn
 <2>2. w \in Nat /\ w = TotalIn(u, js)  BY <1>1, <1>2, <1>4, <2>1
 <2> QED  BY <1>2, <1>4, <2>2 DEF ShownIn, u, m
<1>5. CASE s.kind = "gauge"
 <2>1. w = s.value  BY <1>5
 <2>2. \A i \in js : (\A j \in js : j <= i) => i = m
  <3>1. m \in js /\ \A i \in js : i = m \/ (i < m /\ i \in Nat)  BY <1>3
  <3> HIDE DEF js
  <3> QED  BY <1>3, <3>1
 <2> QED  BY <1>2, <1>3, <1>5, <2>1, <2>2 DEF ShownIn, u, m
<1>6. CASE s.kind = "histogram"
 <2>1. v \in Seq(Nat) /\ M!Summed(v) = TotalIn(t, is) /\ Len(v) = Cardinality(is)
  <3>1. CASE ShownIn(t, s.kind, is, v)  BY <1>6, <3>1 DEF ShownIn
  <3>2. CASE is = {} /\ v = <<>>
   <4>1. M!Summed(<<>>) = 0
    <5>1. <<>> \in Seq(Nat) /\ 0 \in Nat  OBVIOUS
    <5> QED  BY <5>1, SummedIs
   <4>2. Cardinality(is) = 0  BY <3>2, FS_EmptySet
   <4> QED  BY <1>1, <3>2, <4>1, <4>2
  <3> QED  BY <1>6, <3>1, <3>2
 <2>2. w = Append(v, s.value) /\ w \in Seq(Nat) /\ Len(w) = Len(v) + 1  BY <1>2, <1>6, <2>1, SMTT(60)
 <2>3. M!Summed(w) = TotalIn(u, js)  BY <1>1, <1>2, <2>1, <2>2, SummedIs
 <2>4. IsFiniteSet(is)
  <3>1. Len(t) \in Nat /\ is \subseteq 1 .. Len(t)  OBVIOUS
  <3>2. IsFiniteSet(1 .. Len(t))  BY <3>1, FS_Interval
  <3> QED  BY <3>1, <3>2, FS_Subset
 <2>5. m \notin is  BY <1>3
 <2>6. Cardinality(js) = Cardinality(is) + 1  BY <2>4, <2>5, FS_AddElement
 <2> QED  BY <1>2, <1>6, <2>1, <2>2, <2>3, <2>6 DEF ShownIn, u, m
<1> QED  BY <1>2, <1>4, <1>5, <1>6

\* Of finitely many indexes one is the last.
LEMMA GreatestElement ==
  ASSUME NEW n \in Nat, NEW is, is # {}, \A i \in is : i \in 1 .. n
  PROVE  \E i \in is : \A j \in is : j <= i
<1> DEFINE T == {d \in Nat : n - d \in is}
<1>1. PICK i0 \in is : TRUE  OBVIOUS
<1>2. n - i0 \in Nat /\ n - (n - i0) = i0  BY <1>1
<1>3. T # {}  BY <1>1, <1>2
<1>4. PICK d \in T : \A e \in T : d <= e  BY <1>3, LeastElement
<1>5. ASSUME NEW j \in is PROVE j <= n - d
 <2>1. j \in 1 .. n /\ n - j \in Nat /\ n - (n - j) = j  OBVIOUS
 <2>2. d <= n - j  BY <1>4, <2>1
 <2> QED  BY <2>1, <2>2
<1> QED  BY <1>4, <1>5

LEMMA ShownMeans ==
  ASSUME told \in Seq(Samples), NEW is, is # {}, \A i \in is : i \in 1 .. Len(told), NEW kind, NEW v,
         ShownIn(told, kind, is, v)
  PROVE  M!Shown(kind, is, v)
<1>1. M!Total(is) = TotalIn(told, is) /\ M!Cardinality(is) = Cardinality(is)  BY HistoryIs, CountingIs
<1>2. CASE kind = "counter"  BY <1>1, <1>2 DEF ShownIn, M!Shown
<1>3. CASE kind = "gauge"
 <2> DEFINE i == CHOOSE i \in is : \A j \in is : j <= i
 <2>1. Len(told) \in Nat  OBVIOUS
 <2>2. \E x \in is : \A j \in is : j <= x  BY <2>1, GreatestElement
 <2>3. i \in is /\ \A j \in is : j <= i  BY <2>2
 <2>4. v = told[i].value  BY <1>3, <2>3 DEF ShownIn
 <2> QED  BY <1>3, <2>4 DEF M!Shown
<1>4. CASE kind = "histogram"  BY <1>1, <1>4 DEF ShownIn, M!Shown
<1> QED  BY <1>2, <1>3, <1>4 DEF ShownIn

\* What the tables (label keys lk, instruments tb, registry rg, series sr) of
\* prometheus say of the history t.
FormOf(s) == IF s.labels = <<>> THEN "plain" ELSE "labelled"
IsEntry(t, e) ==
  /\ OwnerIn(t, e[3]) # 0
  /\ e = <<t[OwnerIn(t, e[3])].kind, FormOf(t[OwnerIn(t, e[3])]), e[3]>>
SeriesOf(t, key) == {i \in 1 .. Len(t) : Counts(t, i, key[1], key[2], key[3])}
Fits(t, i) ==
  LET o == OwnerIn(t, t[i].name)
  IN  t[i].kind = t[o].kind /\ i >= o /\ FormOf(t[i]) = FormOf(t[o])
KeysKept(t, lk) ==
  /\ \A x : x \in DOMAIN lk <=> Labelled(t, x) # {}
  /\ \A x \in DOMAIN lk : lk[x] = KeysFixed(t, x)
NamesKept(t, rg) == \A x : OwnerIn(t, x) # 0 => x \in rg
EntriesKept(t, tb, rg) == \A e \in tb : IsEntry(t, e) /\ e[3] \in rg
KeyShown(t, tb, key, v) ==
  /\ key = <<key[1], key[2], key[3]>>
  /\ \E e \in tb : e[1] = key[1] /\ e[3] = key[2]
  /\ SeriesOf(t, key) # {} /\ ShownIn(t, key[1], SeriesOf(t, key), v)
SeriesKept(t, tb, sr) == \A key \in DOMAIN sr : KeyShown(t, tb, key, sr[key])
Found(t, i, sr) == \E key \in DOMAIN sr : Counts(t, i, key[1], key[2], key[3])
SamplesKept(t, tb, sr) ==
  \A i \in 1 .. Len(t) : (\E e \in tb : e[3] = t[i].name) /\ Fits(t, i) => Found(t, i, sr)
Kept(t, lk, tb, rg, sr) ==
  KeysKept(t, lk) /\ NamesKept(t, rg) /\ EntriesKept(t, tb, rg) /\ SeriesKept(t, tb, sr) /\ SamplesKept(t, tb, sr)

\* The keys a report of s uses, and what it leaves of the label keys.
KeysUsed(lk, s) ==
  IF s.labels = <<>> THEN <<>>
  ELSE IF s.name \in DOMAIN lk THEN lk[s.name] ELSE M!KeysOf(M!canonical_labels(s.labels))
KeysAfter(lk, s) ==
  IF s.labels = <<>> THEN lk
  ELSE [x \in DOMAIN lk \cup {s.name} |-> IF x \in DOMAIN lk THEN lk[x] ELSE M!KeysOf(M!canonical_labels(s.labels))]
EntryOf(s) == <<s.kind, FormOf(s), s.name>>

\* The label keys in the tables are those of the first labelled report.
LEMMA KeysKeptStep ==
  ASSUME NEW t \in Seq(Samples), NEW s \in Samples, NEW lk, KeysKept(t, lk)
  PROVE  /\ KeysKept(Append(t, s), KeysAfter(lk, s))
         /\ s.labels # <<>> => KeysUsed(lk, s) = KeysFixed(Append(t, s), s.name)
<1> DEFINE u == Append(t, s)
<1>1. \A x : /\ Labelled(t, x) # {} => KeysFixed(u, x) = KeysFixed(t, x)
             /\ ~(s.name = x /\ s.labels # <<>>) => KeysFixed(u, x) = KeysFixed(t, x)
             /\ s.name = x /\ s.labels # <<>> /\ Labelled(t, x) = {} =>
                  KeysFixed(u, x) = M!KeysOf(M!canonical_labels(s.labels))
             /\ Labelled(u, x) # {} <=> Labelled(t, x) # {} \/ (s.name = x /\ s.labels # <<>>)  BY KeysStep
<1> HIDE DEF u
<1>2. CASE s.labels = <<>>
 <2>1. KeysAfter(lk, s) = lk  BY <1>2 DEF KeysAfter
 <2>2. KeysKept(u, lk)  BY <1>1, <1>2 DEF KeysKept
 <2> QED  BY <1>2, <2>1, <2>2 DEF u
<1>3. CASE s.labels # <<>>
 <2> DEFINE new == KeysAfter(lk, s)
 <2>1. /\ DOMAIN new = DOMAIN lk \cup {s.name}
       /\ \A x \in DOMAIN new : new[x] = IF x \in DOMAIN lk THEN lk[x] ELSE M!KeysOf(M!canonical_labels(s.labels))
   BY <1>3 DEF KeysAfter
 <2> HIDE DEF new
 <2>2. \A x : x \in DOMAIN new <=> Labelled(u, x) # {}  BY <1>1, <1>3, <2>1 DEF KeysKept
 <2>3. ASSUME NEW x \in DOMAIN new PROVE new[x] = KeysFixed(u, x)
  <3>1. CASE x \in DOMAIN lk  BY <1>1, <2>1, <3>1 DEF KeysKept
  <3>2. CASE x \notin DOMAIN lk
   <4>1. x = s.name /\ Labelled(t, x) = {}  BY <2>1, <3>2 DEF KeysKept
   <4> QED  BY <1>1, <1>3, <2>1, <3>2, <4>1
  <3> QED  BY <3>1, <3>2
 <2>4. KeysUsed(lk, s) = new[s.name] /\ s.name \in DOMAIN new  BY <1>3, <2>1 DEF KeysUsed
 <2> QED  BY <1>3, <2>2, <2>3, <2>4 DEF KeysKept, u, new
<1> QED  BY <1>2, <1>3

\* An entry stays that of its name's owner, and a series keeps its samples.
LEMMA EntryStays ==
  ASSUME NEW t \in Seq(Samples), NEW s \in Samples, NEW e, IsEntry(t, e)
  PROVE  IsEntry(Append(t, s), e)
<1> DEFINE u == Append(t, s)
           o == OwnerIn(t, e[3])
<1>1. OwnerIn(u, e[3]) = o /\ o \in 1 .. Len(t)  BY OwnerStep, TakesIs DEF IsEntry
<1>2. \A j \in 1 .. Len(t) : u[j] = t[j]  OBVIOUS
<1> HIDE DEF u, o
<1>3. u[o] = t[o]  BY <1>1, <1>2
<1>4. IsEntry(u, e)  BY <1>1, <1>3 DEF IsEntry, o
<1> QED  BY <1>4 DEF u

\* What s counts in: the series its label set selects.
LEMMA LastCounts ==
  ASSUME NEW t \in Seq(Samples), NEW s \in Samples, NEW k, NEW x, NEW vs
  PROVE  LET u == Append(t, s)
             m == Len(t) + 1
         IN  Counts(u, m, k, x, vs) <=> /\ s.kind = k /\ s.name = x
                                        /\ (s.labels = <<>>) <=> (u[OwnerIn(u, x)].labels = <<>>)
                                        /\ vs = ValuesIn(u, s)
<1> DEFINE u == Append(t, s)
           m == Len(t) + 1
<1>1. u \in Seq(Samples) /\ Len(u) = m /\ m \in Nat /\ u[m] = s  OBVIOUS
<1> HIDE DEF u, m
<1>2. OwnerIn(u, x) \in Nat /\ (OwnerIn(u, x) # 0 => OwnerIn(u, x) \in 1 .. m)  BY <1>1, TakesIs
<1>3. m >= OwnerIn(u, x)
 <2> DEFINE o == OwnerIn(u, x)
 <2>1. o \in Nat /\ (o # 0 => o \in 1 .. m)  BY <1>2
 <2> HIDE DEF o
 <2>2. m >= o  BY <1>1, <2>1
 <2> QED  BY <2>2 DEF o
<1>4. Counts(u, m, k, x, vs) <=> /\ s.kind = k /\ s.name = x
                                 /\ (s.labels = <<>>) <=> (u[OwnerIn(u, x)].labels = <<>>)
                                 /\ vs = ValuesIn(u, s)  BY <1>1, <1>3 DEF Counts
<1> QED  BY <1>4 DEF u, m

\* The samples of a series whose name is owned, after s.
LEMMA SeriesStep ==
  ASSUME NEW t \in Seq(Samples), NEW s \in Samples, NEW key, OwnerIn(t, key[2]) # 0
  PROVE  LET u == Append(t, s)
             m == Len(t) + 1
         IN  /\ Counts(u, m, key[1], key[2], key[3]) => SeriesOf(u, key) = SeriesOf(t, key) \cup {m}
             /\ ~Counts(u, m, key[1], key[2], key[3]) => SeriesOf(u, key) = SeriesOf(t, key)
<1> DEFINE u == Append(t, s)
           m == Len(t) + 1
           n == Len(t)
<1>1. /\ n \in Nat /\ Len(u) = m /\ m \in 1 .. m
      /\ \A i \in 1 .. n : i \in 1 .. m /\ i # m
      /\ \A i \in 1 .. m : i = m \/ i \in 1 .. n  OBVIOUS
<1>2. \A i \in 1 .. n : Counts(u, i, key[1], key[2], key[3]) <=> Counts(t, i, key[1], key[2], key[3])  BY CountsStep
<1> HIDE DEF u, m, n
<1>3. Counts(u, m, key[1], key[2], key[3]) => SeriesOf(u, key) = SeriesOf(t, key) \cup {m}
  BY <1>1, <1>2 DEF SeriesOf, n
<1>4. ~Counts(u, m, key[1], key[2], key[3]) => SeriesOf(u, key) = SeriesOf(t, key)  BY <1>1, <1>2 DEF SeriesOf, n
<1> QED  BY <1>3, <1>4 DEF u, m

\* An earlier sample fits its name's owner as it did, once there is one.
LEMMA FitsStep ==
  ASSUME NEW t \in Seq(Samples), NEW s \in Samples, NEW i \in 1 .. Len(t), OwnerIn(t, t[i].name) # 0
  PROVE  Fits(Append(t, s), i) <=> Fits(t, i)
<1> DEFINE u == Append(t, s)
           o == OwnerIn(t, t[i].name)
<1>1. OwnerIn(u, t[i].name) = o /\ o \in 1 .. Len(t)  BY OwnerStep, TakesIs
<1>2. \A j \in 1 .. Len(t) : u[j] = t[j]  OBVIOUS
<1> HIDE DEF u, o
<1>3. Fits(u, i) <=> Fits(t, i)  BY <1>1, <1>2 DEF Fits, o
<1> QED  BY <1>3 DEF u

\* A name that gets an owner with s gets it from a report the registry could
\* take.
LEMMA NamesStep ==
  ASSUME NEW t \in Seq(Samples), NEW s \in Samples, NEW lk, KeysKept(t, lk), NEW x, OwnerIn(Append(t, s), x) # 0
  PROVE  OwnerIn(t, x) # 0 \/ (x = s.name /\ M!IsInjective(KeysUsed(lk, s)) /\ OwnerIn(Append(t, s), x) = Len(t) + 1)
<1> DEFINE u == Append(t, s)
<1>1. OwnerIn(t, x) = 0 => IF s.name = x /\ (s.labels = <<>> \/ M!IsInjective(KeysFixed(u, x)))
                           THEN OwnerIn(u, x) = Len(t) + 1 ELSE OwnerIn(u, x) = 0  BY OwnerStep
<1>2. s.labels # <<>> => KeysUsed(lk, s) = KeysFixed(u, s.name)  BY KeysKeptStep
<1>3. s.labels = <<>> => M!IsInjective(KeysUsed(lk, s))  BY DEF KeysUsed, M!IsInjective
<1>4. OwnerIn(u, x) # 0  OBVIOUS
<1> HIDE DEF u
<1>5. OwnerIn(t, x) # 0 \/ (x = s.name /\ M!IsInjective(KeysUsed(lk, s)) /\ OwnerIn(u, x) = Len(t) + 1)
  BY <1>1, <1>2, <1>3, <1>4
<1> QED  BY <1>5 DEF u

\* A sample of an entry's name, kind and form is that entry's.
LEMMA EntryFits ==
  ASSUME NEW u, NEW e, IsEntry(u, e), NEW s, s.kind = u[OwnerIn(u, e[3])].kind, s.name = e[3],
         (s.labels = <<>>) <=> (u[OwnerIn(u, e[3])].labels = <<>>)
  PROVE  EntryOf(s) = e
<1> DEFINE o == u[OwnerIn(u, e[3])]
<1>1. FormOf(s) = FormOf(o)  BY DEF FormOf
<1>2. e = <<o.kind, FormOf(o), e[3]>>  BY DEF IsEntry
<1> HIDE DEF o
<1>3. s.kind = o.kind  BY DEF o
<1> QED  BY <1>1, <1>2, <1>3 DEF EntryOf

\* A series that s does not count in shows what it showed.
LEMMA KeyStays ==
  ASSUME NEW t \in Seq(Samples), NEW s \in Samples, NEW tb, NEW rg, EntriesKept(t, tb, rg), NEW tb2, tb \subseteq tb2,
         NEW key, NEW v, KeyShown(t, tb, key, v),
         ~Counts(Append(t, s), Len(t) + 1, key[1], key[2], key[3])
  PROVE  KeyShown(Append(t, s), tb2, key, v)
<1> DEFINE u == Append(t, s)
<1>1. PICK e \in tb : e[1] = key[1] /\ e[3] = key[2]  BY DEF KeyShown
<1>2. OwnerIn(t, key[2]) # 0  BY <1>1 DEF EntriesKept, IsEntry
<1>3. SeriesOf(u, key) = SeriesOf(t, key)  BY <1>2, SeriesStep
<1>4. \A i \in SeriesOf(t, key) : i \in 1 .. Len(t)  BY DEF SeriesOf
<1>5. ShownIn(t, key[1], SeriesOf(t, key), v)  BY DEF KeyShown
<1>6. ShownIn(u, key[1], SeriesOf(t, key), v)  BY <1>4, <1>5, ShownStays
<1> HIDE DEF u
<1>7. KeyShown(u, tb2, key, v)  BY <1>1, <1>3, <1>6 DEF KeyShown
<1> QED  BY <1>7 DEF u

\* An earlier sample that is shown stays so.
LEMMA FoundStays ==
  ASSUME NEW t \in Seq(Samples), NEW s \in Samples, NEW tb, NEW rg, EntriesKept(t, tb, rg), NEW sr, SeriesKept(t, tb, sr),
         SamplesKept(t, tb, sr), NEW sr2, DOMAIN sr \subseteq DOMAIN sr2, NEW i \in 1 .. Len(t),
         \E e \in tb : e[3] = t[i].name, Fits(Append(t, s), i)
  PROVE  Found(Append(t, s), i, sr2)
<1> DEFINE u == Append(t, s)
<1>1. OwnerIn(t, t[i].name) # 0  BY DEF EntriesKept, IsEntry
<1>2. Fits(t, i)  BY <1>1, FitsStep
<1>3. PICK key \in DOMAIN sr : Counts(t, i, key[1], key[2], key[3])  BY <1>2 DEF SamplesKept, Found
<1>4. OwnerIn(t, key[2]) # 0
 <2>1. key[2] = t[i].name  BY <1>3 DEF Counts
 <2> QED  BY <1>1, <2>1
<1>5. Counts(u, i, key[1], key[2], key[3])  BY <1>3, <1>4, CountsStep
<1> HIDE DEF u
<1>6. Found(u, i, sr2)  BY <1>3, <1>5 DEF Found
<1> QED  BY <1>6 DEF u

\* A report the registry refuses leaves the tables in order.
LEMMA KeptDropped ==
  ASSUME NEW t \in Seq(Samples), NEW s \in Samples, NEW lk, NEW tb, NEW rg, NEW sr, Kept(t, lk, tb, rg, sr),
         ~(EntryOf(s) \in tb \/ (M!IsInjective(KeysUsed(lk, s)) /\ s.name \notin rg))
  PROVE  Kept(Append(t, s), KeysAfter(lk, s), tb, rg, sr)
<1> DEFINE u == Append(t, s)
           m == Len(t) + 1
<1>1. /\ KeysKept(t, lk) /\ NamesKept(t, rg) /\ EntriesKept(t, tb, rg) /\ SeriesKept(t, tb, sr)
      /\ SamplesKept(t, tb, sr)  BY DEF Kept
<1>2. KeysKept(u, KeysAfter(lk, s))  BY <1>1, KeysKeptStep
<1>3. \A x : OwnerIn(u, x) # 0 => OwnerIn(t, x) # 0 \/ (x = s.name /\ M!IsInjective(KeysUsed(lk, s)))
  BY <1>1, NamesStep
<1>4. \A e \in tb : IsEntry(u, e) /\ e[3] \in rg  BY <1>1, EntryStays DEF EntriesKept
<1>5. /\ Len(u) = m /\ u[m] = s /\ Len(t) \in Nat /\ \A i \in 1 .. Len(t) : u[i] = t[i]
      /\ \A i \in 1 .. m : i = m \/ i \in 1 .. Len(t)  OBVIOUS
<1>6. ASSUME NEW key \in DOMAIN sr PROVE KeyShown(u, tb, key, sr[key])
 <2>1. KeyShown(t, tb, key, sr[key])  BY <1>1 DEF SeriesKept
 <2>2. PICK e \in tb : e[1] = key[1] /\ e[3] = key[2]  BY <2>1 DEF KeyShown
 <2>3. ASSUME Counts(u, m, key[1], key[2], key[3]) PROVE FALSE
  <3>1. s.kind = key[1] /\ s.name = key[2] /\ ((s.labels = <<>>) <=> (u[OwnerIn(u, key[2])].labels = <<>>))
   <4>1. \A k, x, vs : Counts(u, m, k, x, vs) <=> /\ s.kind = k /\ s.name = x
                                                  /\ (s.labels = <<>>) <=> (u[OwnerIn(u, x)].labels = <<>>)
                                                  /\ vs = ValuesIn(u, s)  BY LastCounts
   <4> HIDE DEF u, m
   <4> QED  BY <2>3, <4>1
  <3>2. IsEntry(u, e)  BY <1>4
  <3> HIDE DEF u
  <3>3. e[1] = u[OwnerIn(u, e[3])].kind  BY <3>2 DEF IsEntry
  <3>4. EntryOf(s) = e  BY <2>2, <3>1, <3>2, <3>3, EntryFits
  <3> QED  BY <3>4
 <2> QED  BY <1>1, <2>1, <2>3, KeyStays
<1>7. ASSUME NEW i \in 1 .. m, NEW e \in tb, e[3] = u[i].name, Fits(u, i) PROVE Found(u, i, sr)
 <2>1. CASE i = m
  <3>1. s.kind = u[OwnerIn(u, e[3])].kind /\ FormOf(s) = FormOf(u[OwnerIn(u, e[3])]) /\ s.name = e[3]
   <4> HIDE DEF u, m
   <4> QED  BY <1>5, <1>7, <2>1 DEF Fits
  <3>2. (s.labels = <<>>) <=> (u[OwnerIn(u, e[3])].labels = <<>>)  BY <3>1 DEF FormOf
  <3>3. IsEntry(u, e)  BY <1>4
  <3> HIDE DEF u
  <3>4. EntryOf(s) = e  BY <3>1, <3>2, <3>3, EntryFits
  <3> QED  BY <3>4
 <2>2. CASE i # m
  <3>1. i \in 1 .. Len(t) /\ e[3] = t[i].name
   <4> HIDE DEF u, m
   <4> QED  BY <1>5, <1>7, <2>2
  <3> QED  BY <1>1, <1>7, <3>1, FoundStays
 <2> QED  BY <2>1, <2>2
<1> HIDE DEF u, m
<1>8. NamesKept(u, rg)  BY <1>1, <1>3 DEF NamesKept
<1>9. EntriesKept(u, tb, rg) /\ SeriesKept(u, tb, sr) /\ SamplesKept(u, tb, sr)
  BY <1>4, <1>5, <1>6, <1>7 DEF EntriesKept, SeriesKept, SamplesKept
<1> QED  BY <1>2, <1>8, <1>9 DEF Kept, u

\* A report the registry takes is added to the series its labels select.
LEMMA KeptRecorded ==
  ASSUME NEW t \in Seq(Samples), NEW s \in Samples, NEW lk, NEW tb, NEW rg, NEW sr, Kept(t, lk, tb, rg, sr),
         EntryOf(s) \in tb \/ (M!IsInjective(KeysUsed(lk, s)) /\ s.name \notin rg),
         NEW key0, key0 = <<s.kind, s.name, ValuesIn(Append(t, s), s)>>,
         NEW sr2, DOMAIN sr2 = DOMAIN sr \cup {key0}, \A key \in DOMAIN sr : key # key0 => sr2[key] = sr[key],
         s.kind = "counter" => sr2[key0] = (IF key0 \in DOMAIN sr THEN sr[key0] ELSE 0) + s.value,
         s.kind = "histogram" => sr2[key0] = Append(IF key0 \in DOMAIN sr THEN sr[key0] ELSE <<>>, s.value),
         s.kind = "gauge" => sr2[key0] = s.value
  PROVE  Kept(Append(t, s), KeysAfter(lk, s), tb \cup {EntryOf(s)}, rg \cup {s.name}, sr2)
<1> DEFINE u == Append(t, s)
           m == Len(t) + 1
           entry == EntryOf(s)
           tb2 == tb \cup {entry}
           x0 == s.name
<1>1. /\ KeysKept(t, lk) /\ NamesKept(t, rg) /\ EntriesKept(t, tb, rg) /\ SeriesKept(t, tb, sr)
      /\ SamplesKept(t, tb, sr)  BY DEF Kept
<1>2. KeysKept(u, KeysAfter(lk, s))  BY <1>1, KeysKeptStep
<1>3. \A x : OwnerIn(u, x) # 0 => OwnerIn(t, x) # 0 \/ (x = x0 /\ M!IsInjective(KeysUsed(lk, s)) /\ OwnerIn(u, x) = m)
  BY <1>1, NamesStep
<1>4. /\ Len(u) = m /\ u[m] = s /\ Len(t) \in Nat /\ \A i \in 1 .. Len(t) : u[i] = t[i] /\ i < m
      /\ m \in 1 .. m /\ m # 0
      /\ \A i \in 1 .. m : i = m \/ i \in 1 .. Len(t)  OBVIOUS
<1>5. entry[1] = s.kind /\ entry[2] = FormOf(s) /\ entry[3] = x0 /\ entry = <<s.kind, FormOf(s), x0>>
  BY DEF EntryOf
<1>6. entry \in tb => OwnerIn(t, x0) # 0  BY <1>1, <1>5 DEF EntriesKept, IsEntry
<1>7. entry \notin tb => OwnerIn(t, x0) = 0 /\ OwnerIn(u, x0) = m
 <2> SUFFICES ASSUME entry \notin tb PROVE OwnerIn(t, x0) = 0 /\ OwnerIn(u, x0) = m  OBVIOUS
 <2>1. M!IsInjective(KeysUsed(lk, s)) /\ x0 \notin rg  OBVIOUS
 <2>2. OwnerIn(t, x0) = 0  BY <1>1, <2>1 DEF NamesKept
 <2>3. s.labels = <<>> \/ M!IsInjective(KeysFixed(u, x0))  BY <1>1, <2>1, KeysKeptStep
 <2>4. OwnerIn(u, x0) = m  BY <2>2, <2>3, OwnerStep
 <2> QED  BY <2>2, <2>4
<1>8. IsEntry(u, entry)
 <2>1. CASE entry \in tb
  <3>1. IsEntry(t, entry)  BY <1>1, <2>1 DEF EntriesKept
  <3> QED  BY <3>1, EntryStays
 <2>2. CASE entry \notin tb
  <3> HIDE DEF u, m, entry
  <3> QED  BY <1>4, <1>5, <1>7, <2>2 DEF IsEntry
 <2> QED  BY <2>1, <2>2
<1>9. \A e \in tb2 : IsEntry(u, e) /\ e[3] \in rg \cup {x0}
 <2>1. \A e \in tb : IsEntry(u, e) /\ e[3] \in rg  BY <1>1, EntryStays DEF EntriesKept
 <2> HIDE DEF entry, u
 <2> QED  BY <1>5, <1>8, <2>1
<1>10. \A k, x, vs : Counts(u, m, k, x, vs) <=> /\ s.kind = k /\ x0 = x
                                                /\ (s.labels = <<>>) <=> (u[OwnerIn(u, x)].labels = <<>>)
                                                /\ vs = ValuesIn(u, s)  BY LastCounts
<1>11. (s.labels = <<>>) <=> (u[OwnerIn(u, x0)].labels = <<>>)
 <2> HIDE DEF u
 <2>1. FormOf(s) = FormOf(u[OwnerIn(u, x0)])  BY <1>5, <1>8 DEF IsEntry
 <2> QED  BY <2>1 DEF FormOf
<1>12. key0[1] = s.kind /\ key0[2] = x0 /\ key0[3] = ValuesIn(u, s) /\ key0 = <<key0[1], key0[2], key0[3]>>  OBVIOUS
<1>13. Counts(u, m, key0[1], key0[2], key0[3])
 <2> HIDE DEF u, m, x0
 <2> QED  BY <1>10, <1>11, <1>12
<1>14. ASSUME NEW key \in DOMAIN sr, key # key0 PROVE KeyShown(u, tb2, key, sr2[key])
 <2>1. KeyShown(t, tb, key, sr[key])  BY <1>1 DEF SeriesKept
 <2>2. key = <<key[1], key[2], key[3]>>  BY <2>1 DEF KeyShown
 <2>3. ~Counts(u, m, key[1], key[2], key[3])
  <3> HIDE DEF u, m, x0
  <3> QED  BY <1>10, <1>12, <1>14, <2>2
 <2>4. KeyShown(u, tb2, key, sr[key])  BY <1>1, <2>1, <2>3, KeyStays
 <2> QED  BY <1>14, <2>4
<1>15. KeyShown(u, tb2, key0, sr2[key0])
 <2> DEFINE w == sr2[key0]
            is == IF key0 \in DOMAIN sr THEN SeriesOf(t, key0) ELSE {}
            v == IF key0 \in DOMAIN sr THEN sr[key0] ELSE IF s.kind = "counter" THEN 0 ELSE <<>>
 <2>1. \A i \in is : i \in 1 .. Len(t)  BY DEF SeriesOf
 <2>2. SeriesOf(u, key0) = is \cup {m}
  <3>1. CASE key0 \in DOMAIN sr
   <4>1. KeyShown(t, tb, key0, sr[key0])  BY <1>1, <3>1 DEF SeriesKept
   <4>2. OwnerIn(t, key0[2]) # 0  BY <1>1, <4>1 DEF KeyShown, EntriesKept, IsEntry
   <4> QED  BY <1>13, <3>1, <4>2, SeriesStep
  <3>2. CASE key0 \notin DOMAIN sr
   <4>1. ASSUME NEW i \in 1 .. Len(t), Counts(u, i, key0[1], key0[2], key0[3]) PROVE FALSE
    <5>1. u[i] = t[i] /\ u[i].name = x0 /\ u[i].kind = s.kind /\ i >= OwnerIn(u, x0)
     <6> HIDE DEF u, x0
     <6> QED  BY <1>4, <1>12, <4>1 DEF Counts
    <5>2. entry \in tb
     <6> HIDE DEF u, m, entry
     <6> QED  BY <1>4, <1>7, <5>1
    <5>3. OwnerIn(t, x0) # 0  BY <1>6, <5>2
    <5>4. Counts(t, i, key0[1], key0[2], key0[3])  BY <1>12, <4>1, <5>3, CountsStep
    <5>5. IsEntry(t, entry)  BY <1>1, <5>2 DEF EntriesKept
    <5>6. Fits(t, i)
     <6> DEFINE o == t[OwnerIn(t, x0)]
     <6>1. o.kind = s.kind  BY <1>5, <5>5 DEF IsEntry
     <6>2. t[i].kind = s.kind /\ t[i].name = x0 /\ i >= OwnerIn(t, x0) /\ ((t[i].labels = <<>>) <=> (o.labels = <<>>))
       BY <1>12, <5>4 DEF Counts
     <6>3. FormOf(t[i]) = FormOf(o)  BY <6>2 DEF FormOf
     <6> HIDE DEF x0
     <6> QED  BY <6>1, <6>2, <6>3 DEF Fits
    <5>7. PICK key \in DOMAIN sr : Counts(t, i, key[1], key[2], key[3])
     <6>1. t[i].name = x0  BY <5>1
     <6> HIDE DEF entry, x0
     <6> QED  BY <1>1, <1>5, <5>2, <5>6, <6>1 DEF SamplesKept, Found
    <5>8. key = <<key[1], key[2], key[3]>>  BY <1>1 DEF SeriesKept, KeyShown
    <5>9. key[1] = key0[1] /\ key[2] = key0[2] /\ key[3] = key0[3]  BY <5>4, <5>7 DEF Counts
    <5> QED  BY <1>12, <3>2, <5>8, <5>9
   <4> HIDE DEF u, m
   <4>2. SeriesOf(u, key0) = {m}  BY <1>4, <1>13, <4>1 DEF SeriesOf
   <4> QED  BY <3>2, <4>2
  <3> QED  BY <3>1, <3>2
 <2>3. ShownIn(t, s.kind, is, v) \/ (is = {} /\ (s.kind = "counter" => v = 0) /\ (s.kind = "histogram" => v = <<>>))
  <3>1. CASE key0 \in DOMAIN sr
   <4>1. ShownIn(t, key0[1], SeriesOf(t, key0), sr[key0])  BY <1>1, <3>1 DEF SeriesKept, KeyShown
   <4> QED  BY <1>12, <3>1, <4>1
  <3>2. CASE key0 \notin DOMAIN sr  BY <3>2
  <3> QED  BY <3>1, <3>2
 <2>4. /\ s.kind = "counter" => w = v + s.value
       /\ s.kind = "histogram" => w = Append(v, s.value)
       /\ s.kind = "gauge" => w = s.value  OBVIOUS
 <2> HIDE DEF is, v, w
 <2>5. ShownIn(u, s.kind, is \cup {m}, w)  BY <2>1, <2>3, <2>4, ShownGrows
 <2> HIDE DEF u, m, entry, x0
 <2> QED  BY <1>5, <1>12, <2>2, <2>5 DEF KeyShown, w
<1>16. ASSUME NEW i \in 1 .. m, NEW e \in tb2, e[3] = u[i].name, Fits(u, i) PROVE Found(u, i, sr2)
 <2>1. CASE i = m
  <3> HIDE DEF u, m
  <3> QED  BY <1>13, <2>1 DEF Found
 <2>2. CASE i # m
  <3>1. i \in 1 .. Len(t) /\ e[3] = t[i].name /\ i < m
   <4> HIDE DEF u, m
   <4> QED  BY <1>4, <1>16, <2>2
  <3>2. e \in tb
   <4>1. CASE e = entry /\ entry \notin tb
    <5>1. i >= OwnerIn(u, x0)
     <6> HIDE DEF u, x0, entry
     <6> QED  BY <1>5, <1>16, <4>1 DEF Fits
    <5> HIDE DEF u, m, entry, x0
    <5> QED  BY <1>4, <1>7, <3>1, <4>1, <5>1
   <4> QED  BY <4>1
  <3> QED  BY <1>1, <1>16, <3>1, <3>2, FoundStays
 <2> QED  BY <2>1, <2>2
<1>17. NamesKept(u, rg \cup {x0})
 <2>1. \A x : OwnerIn(t, x) # 0 => x \in rg  BY <1>1 DEF NamesKept
 <2> HIDE DEF u, x0
 <2> QED  BY <1>3, <2>1 DEF NamesKept
<1> HIDE DEF u, m, entry, x0
<1>18. EntriesKept(u, tb2, rg \cup {x0}) /\ SeriesKept(u, tb2, sr2) /\ SamplesKept(u, tb2, sr2)
  BY <1>4, <1>9, <1>14, <1>15, <1>16 DEF EntriesKept, SeriesKept, SamplesKept
<1> QED  BY <1>2, <1>17, <1>18 DEF Kept, u, entry, x0

SamplesInv ==
  told \in Seq(Samples) /\ (backend = "prometheus" => Kept(told, labelKeys, tables, registry, series))

LEMMA SamplesStart == M!MetricsInit => SamplesInv
<1> SUFFICES ASSUME M!MetricsInit PROVE SamplesInv  OBVIOUS
<1>1. told = <<>> /\ labelKeys = <<>> /\ tables = {} /\ series = <<>>  BY DEF M!MetricsInit
<1>2. \A x : Labelled(<<>>, x) = {} /\ Takes(<<>>, x) = {}  BY DEF Labelled, Takes
<1>3. \A x : OwnerIn(<<>>, x) = 0  BY <1>2 DEF OwnerIn, LeastOf
<1>4. DOMAIN <<>> = {} /\ Len(<<>>) = 0 /\ \A i \in 1 .. 0 : FALSE  OBVIOUS
<1>5. Kept(<<>>, <<>>, {}, registry, <<>>)
  BY <1>2, <1>3, <1>4 DEF Kept, KeysKept, NamesKept, EntriesKept, SeriesKept, SamplesKept
<1> QED  BY <1>1, <1>5 DEF SamplesInv

\* A report to prometheus.
LEMMA SamplesRecord ==
  ASSUME SamplesInv, NEW c \in Callers, NEW s \in Samples, M!Record(c, s)
  PROVE  SamplesInv'
<1> DEFINE labels == M!canonical_labels(s.labels)
           u == Append(told, s)
           keys == KeysUsed(labelKeys, s)
           key0 == <<s.kind, s.name, ValuesIn(u, s)>>
           sr2 == M!Recorded(series, key0, s.kind, s.value, {"counter"})
<1>1. told \in Seq(Samples) /\ backend = "prometheus" /\ backend' = backend /\ told' = u
  BY DEF SamplesInv, M!Record, M!Reports
<1>2. u \in Seq(Samples)  BY <1>1
<1>3. Kept(told, labelKeys, tables, registry, series)  BY <1>1 DEF SamplesInv
<1>4. s.labels \in Seq(Pair) /\ s.kind \in {"counter", "gauge", "histogram"}  BY MetricsAssumption DEF Pair
<1>5. labels = <<>> <=> s.labels = <<>>
 <2>1. labels \in Seq(Pair) /\ Len(labels) = Len(s.labels)  BY <1>4, CanonicalIs
 <2> HIDE DEF labels
 <2>2. \A q \in Seq(Pair) : q = <<>> <=> Len(q) = 0  OBVIOUS
 <2> QED  BY <1>4, <2>1, <2>2
<1>6. M!label_values(labels, keys) = ValuesIn(u, s)
 <2>1. CASE s.labels = <<>>
  <3>1. keys = <<>>  BY <2>1 DEF KeysUsed
  <3>2. M!label_values(labels, <<>>) = <<>>  BY DEF M!label_values
  <3> QED  BY <2>1, <3>1, <3>2 DEF ValuesIn
 <2>2. CASE s.labels # <<>>
  <3>1. keys = KeysFixed(u, s.name)  BY <1>1, <1>3, <2>2, KeysKeptStep DEF Kept
  <3>2. M!label_values(labels, keys) = [i \in DOMAIN keys |-> ValueIn(s.labels, keys[i])]  BY <1>4, ValuesFound
  <3> HIDE DEF keys, u
  <3> QED  BY <2>2, <3>1, <3>2 DEF ValuesIn
 <2> QED  BY <2>1, <2>2
<1>7. labelKeys' = KeysAfter(labelKeys, s)  BY <1>5 DEF M!Record, M!cached_label_keys, KeysAfter
<1>8. IF EntryOf(s) \in tables \/ (M!IsInjective(keys) /\ s.name \notin registry)
      THEN /\ tables' = tables \cup {EntryOf(s)} /\ registry' = registry \cup {s.name}
           /\ series' = M!Recorded(series, <<s.kind, s.name, M!label_values(labels, keys)>>, s.kind, s.value, {"counter"})
      ELSE tables' = tables /\ registry' = registry /\ series' = series
 <2>1. keys = IF s.labels = <<>> THEN <<>> ELSE M!cached_label_keys(s.name, labels)
   BY DEF KeysUsed, M!cached_label_keys
 <2>2. EntryOf(s) = <<s.kind, IF s.labels = <<>> THEN "plain" ELSE "labelled", s.name>>  BY DEF EntryOf, FormOf
 <2> HIDE DEF keys, labels
 <2>3. CASE s.labels = <<>>  BY <1>5, <2>1, <2>2, <2>3 DEF M!Record, M!registered, labels
 <2>4. CASE s.labels # <<>>  BY <1>5, <2>1, <2>2, <2>4 DEF M!Record, M!registered, labels
 <2> QED  BY <2>3, <2>4
<1>9. CASE EntryOf(s) \in tables \/ (M!IsInjective(keys) /\ s.name \notin registry)
 <2>1. tables' = tables \cup {EntryOf(s)} /\ registry' = registry \cup {s.name} /\ series' = sr2
   BY <1>6, <1>8, <1>9
 <2>2. /\ DOMAIN sr2 = DOMAIN series \cup {key0} /\ \A key \in DOMAIN series : key # key0 => sr2[key] = series[key]
       /\ s.kind = "counter" => sr2[key0] = (IF key0 \in DOMAIN series THEN series[key0] ELSE 0) + s.value
       /\ s.kind = "histogram" => sr2[key0] = Append(IF key0 \in DOMAIN series THEN series[key0] ELSE <<>>, s.value)
       /\ s.kind = "gauge" => sr2[key0] = s.value
  <3> DEFINE k == s.kind
             a == s.value
             r == M!Recorded(series, key0, k, a, {"counter"})
  <3> HIDE DEF key0, k, a
  <3>1. /\ DOMAIN r = DOMAIN series \cup {key0} /\ \A key \in DOMAIN series : key # key0 => r[key] = series[key]
        /\ k = "counter" => r[key0] = (IF key0 \in DOMAIN series THEN series[key0] ELSE 0) + a
        /\ k = "histogram" => r[key0] = Append(IF key0 \in DOMAIN series THEN series[key0] ELSE <<>>, a)
        /\ k = "gauge" => r[key0] = a  BY DEF M!Recorded
  <3> QED  BY <3>1 DEF k, a
 <2> HIDE DEF sr2, keys
 <2>3. Kept(u, KeysAfter(labelKeys, s), tables \cup {EntryOf(s)}, registry \cup {s.name}, sr2)
   BY <1>1, <1>3, <1>9, <2>2, KeptRecorded DEF keys
 <2> QED  BY <1>1, <1>2, <1>7, <2>1, <2>3 DEF SamplesInv
<1>10. CASE ~(EntryOf(s) \in tables \/ (M!IsInjective(keys) /\ s.name \notin registry))
 <2>1. tables' = tables /\ registry' = registry /\ series' = series  BY <1>8, <1>10
 <2>2. Kept(u, KeysAfter(labelKeys, s), tables, registry, series)  BY <1>1, <1>3, <1>10, KeptDropped
 <2> QED  BY <1>1, <1>2, <1>7, <2>1, <2>2 DEF SamplesInv
<1> QED  BY <1>9, <1>10

LEMMA SamplesStep ==
  ASSUME SamplesInv, [M!MetricsNext]_metricsVars
  PROVE  SamplesInv'
<1>1. ASSUME NEW c \in Callers, NEW s \in Samples, M!RecordOtel(c, s) \/ M!send(c, s) PROVE SamplesInv'
 <2>1. told' = Append(told, s) /\ backend' = backend /\ backend # "prometheus"
   BY <1>1 DEF M!RecordOtel, M!send, M!Reports
 <2>2. told' \in Seq(Samples)  BY <2>1 DEF SamplesInv
 <2> QED  BY <2>1, <2>2 DEF SamplesInv
<1>2. ASSUME \/ \E c \in Callers : M!FlushFull(c) \/ M!SendFull(c)
             \/ M!FlusherStep \/ M!Drop \/ M!Exit \/ UNCHANGED metricsVars
      PROVE  SamplesInv'
 <2>1. /\ told' = told /\ backend' = backend /\ labelKeys' = labelKeys /\ tables' = tables
       /\ registry' = registry /\ series' = series
   BY <1>2 DEF M!FlushFull, M!SendFull, M!FlusherStep, M!Drop, M!Exit, metricsVars, M!instruments
 <2> QED  BY <2>1 DEF SamplesInv
<1> QED  BY <1>1, <1>2, SamplesRecord DEF M!MetricsNext

LEMMA SamplesInvGives == SamplesInv => M!SamplesAddUp
<1> SUFFICES ASSUME SamplesInv, backend = "prometheus"
             PROVE  /\ \A key \in DOMAIN series :
                         LET is == {i \in DOMAIN told : M!InSeries(i, key[1], key[2], key[3])}
                         IN  is # {} /\ M!Shown(key[1], is, series[key])
                    /\ \A i \in DOMAIN told :
                         LET s == told[i]
                         IN  s.name \in registry /\ s.name \in {t[3] : t \in tables} /\ M!Owner(s.name) # 0
                             /\ s.kind = told[M!Owner(s.name)].kind /\ i >= M!Owner(s.name)
                             /\ (M!Plain(s) <=> M!Plain(told[M!Owner(s.name)]))
                             => \E key \in DOMAIN series : M!InSeries(i, key[1], key[2], key[3])
  BY DEF M!SamplesAddUp
<1>1. /\ told \in Seq(Samples) /\ DOMAIN told = 1 .. Len(told)
      /\ SeriesKept(told, tables, series) /\ SamplesKept(told, tables, series)  BY DEF SamplesInv, Kept
<1>2. /\ \A i, k, x, vs : M!InSeries(i, k, x, vs) <=> Counts(told, i, k, x, vs)
      /\ \A x : M!Owner(x) = OwnerIn(told, x)  BY HistoryIs
<1>3. ASSUME NEW key \in DOMAIN series
      PROVE  LET is == {i \in DOMAIN told : M!InSeries(i, key[1], key[2], key[3])}
             IN  is # {} /\ M!Shown(key[1], is, series[key])
 <2> DEFINE is == {i \in DOMAIN told : M!InSeries(i, key[1], key[2], key[3])}
 <2>1. is = SeriesOf(told, key)  BY <1>1, <1>2 DEF SeriesOf
 <2>2. SeriesOf(told, key) # {} /\ ShownIn(told, key[1], SeriesOf(told, key), series[key])
   BY <1>1 DEF SeriesKept, KeyShown
 <2>3. \A i \in SeriesOf(told, key) : i \in 1 .. Len(told)  BY DEF SeriesOf
 <2>4. M!Shown(key[1], SeriesOf(told, key), series[key])  BY <1>1, <2>2, <2>3, ShownMeans
 <2> HIDE DEF is
 <2>5. is # {} /\ M!Shown(key[1], is, series[key])  BY <2>1, <2>2, <2>4
 <2> QED  BY <2>5 DEF is
<1>4. ASSUME NEW i \in DOMAIN told, told[i].name \in {t[3] : t \in tables},
             told[i].kind = told[M!Owner(told[i].name)].kind, i >= M!Owner(told[i].name),
             M!Plain(told[i]) <=> M!Plain(told[M!Owner(told[i].name)])
      PROVE  \E key \in DOMAIN series : M!InSeries(i, key[1], key[2], key[3])
 <2>1. \E e \in tables : e[3] = told[i].name  BY <1>4
 <2>2. Fits(told, i)
  <3> DEFINE o == OwnerIn(told, told[i].name)
  <3>1. told[i].kind = told[o].kind /\ i >= o /\ (told[i].labels = <<>> <=> told[o].labels = <<>>)
    BY <1>2, <1>4 DEF M!Plain
  <3> QED  BY <3>1 DEF Fits, FormOf
 <2>3. Found(told, i, series)  BY <1>1, <2>1, <2>2 DEF SamplesKept
 <2> QED  BY <1>2, <2>3 DEF Found
<1> QED  BY <1>3, <1>4

-------------------------------------------------------------------------------
(* All of them together.                                                   *)

\* The retries, health checks, caches and metrics keep their books.
GuardsInv ==
  /\ RetryInv /\ HealthInv /\ KvInv /\ BbrTyped /\ BbrInv
  /\ LinesInv /\ SamplesInv

LEMMA GuardsStart == ResilienceInit => GuardsInv
BY RetryStart, HealthStart, KvStart, BbrTypedInit, BbrInvInit, LinesStart, SamplesStart DEF ResilienceInit, GuardsInv

LEMMA GuardsStep == GuardsInv /\ [ResilienceNext]_resilienceVars => GuardsInv'
<1> SUFFICES ASSUME GuardsInv, [ResilienceNext]_resilienceVars PROVE GuardsInv'  OBVIOUS
<1>1. /\ [R!RetryNext]_retryVars /\ [H!HealthNext]_healthVars /\ [Q!KvNext]_kvVars /\ [BbrNext]_bbrVars
      /\ [M!MetricsNext]_metricsVars
  BY DEF ResilienceNext, resilienceVars, InBreaker, InBucket, InBbr, InRetry, InHealth, InCache, InMetrics
<1>2. RetryInv'  BY <1>1, RetryStep DEF GuardsInv
<1>3. HealthInv'  BY <1>1, HealthStep DEF GuardsInv
<1>4. KvInv'  BY <1>1, KvStep DEF GuardsInv
<1>5. BbrTyped' /\ BbrInv'  BY <1>1, BbrTypedNext, BbrInvNext DEF GuardsInv
<1>6. LinesInv' /\ SamplesInv'  BY <1>1, LinesStep, SamplesStep DEF GuardsInv
<1> QED  BY <1>2, <1>3, <1>4, <1>5, <1>6 DEF GuardsInv

LEMMA GuardsGive == GuardsInv /\ InflationNotNegative => GuardsAccount
<1>1. RetryInv => R!RetryHolds  BY DEF RetryInv
<1> QED
  BY <1>1, HealthInvGives, KvInvGives, BbrInvGives, LinesInvGives, SamplesInvGives DEF GuardsInv, GuardsAccount

\* Whatever happens in whatever order: a retry stays within its attempts and its
\* budget; a health verdict speaks for the components it covers; a cache answers
\* what is in force, stays within its capacity and gives a lock to one owner; a
\* datadog line is in one place and leaves once; and a prometheus series shows
\* what the samples of its label set add up to (retry, Health::aggregate, the
\* cache engines, the metrics engines); a vegas breaker whose min_rtt is above
\* zero has no negative inflation.
THEOREM GuardsAreKept == ResilienceSpec => []GuardsAccount
<1>1. ResilienceInit => Types /\ LatencyInv /\ GuardsInv
 <2>1. Init => LatencyInv  BY DEF Init, LatencyInv, InflationNotNegative
 <2> QED  BY <2>1, TypesInit, GuardsStart DEF ResilienceInit
<1>2. Types /\ LatencyInv /\ GuardsInv /\ [ResilienceNext]_resilienceVars => Types' /\ LatencyInv' /\ GuardsInv'
 <2>1. [ResilienceNext]_resilienceVars => [Next]_vars
   BY DEF ResilienceNext, resilienceVars, InBreaker, InBucket, InBbr, InRetry, InHealth, InCache, InMetrics
 <2> QED  BY <2>1, TypesStep, LatencyStep, GuardsStep
<1>3. LatencyInv /\ GuardsInv => GuardsAccount  BY GuardsGive DEF LatencyInv
<1> QED  BY <1>1, <1>2, <1>3, PTL DEF ResilienceSpec
===============================================================================
