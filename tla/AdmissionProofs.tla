--------------------------- MODULE AdmissionProofs ---------------------------
(***************************************************************************)
(* Proofs about RateLimiter and Admission, for every set of callers, every *)
(* configuration and every bound.                                          *)
(*                                                                         *)
(* The limiter: the inductive invariant is the accounting of periods; each *)
(* claimed period pays for at most one token, in the bucket, granted or in *)
(* flight.  Each step of an admission is a step of the limiter or leaves   *)
(* it alone, so that the limiter's theorems carry over.  The governor's    *)
(* memory samples are at least an interval apart, by the times that were   *)
(* read before their compare-and-swaps.  The average of a reading stays    *)
(* within the latencies recorded, and a Schedule that nobody has disturbed *)
(* is judged by the reading it has taken itself.                           *)
(***************************************************************************)
EXTENDS Admission, FiniteSetTheorems, TLAPS

\* A caller holds claimed periods only between its two compare-and-swaps.
PeriodsHeld == \A c \in Callers : pc[c] # "add" => periods[c] = 0

\* No caller read a time that is still to come.
ReadPast == \A c \in Callers : read[c] <= now

Accounted ==
  /\ IsFiniteSet(InFlight)
  /\ granted + tokens + Cardinality(InFlight) <= MaxTokens + claimed
  /\ CreditedOnce

LimiterInv == TypeOK /\ PeriodsHeld /\ ReadPast /\ RefillAligned /\ Accounted

\* Most steps are first-order reasoning, which Zenon does; the others name SMT.
USE Zenon

\* A batch of n periods has n elements.
LEMMA BatchSize ==
  ASSUME NEW c, NEW n \in Nat
  PROVE  IsFiniteSet(Batch(c, n)) /\ Cardinality(Batch(c, n)) = n
<1> DEFINE f == [i \in 1..n |-> <<c, i>>]
<1>1. f \in Bijection(1..n, Batch(c, n))
  <2>1. f \in [1..n -> Batch(c, n)]
    BY DEF Batch
  <2>2. \A i, k \in 1..n : f[i] = f[k] => i = k
    OBVIOUS
  <2>3. \A x \in Batch(c, n) : \E i \in 1..n : f[i] = x
    BY DEF Batch
  <2> HIDE DEF f
  <2> QED BY <2>1, <2>2, <2>3 DEF Bijection, Injection, IsInjective, Surjection
<1>2. ExistsBijection(1..n, Batch(c, n))
  BY <1>1 DEF ExistsBijection
<1>3. IsFiniteSet(1..n) /\ Cardinality(1..n) = n
  BY SMT, FS_Interval
<1> QED BY <1>2, <1>3, FS_Bijection

\* The whole number of periods in an elapsed time of at least one.
LEMMA WholePeriods ==
  ASSUME NEW e \in Nat, e >= RefillRate
  PROVE  /\ e \div RefillRate \in Nat
         /\ (e \div RefillRate) * RefillRate <= e
BY SMT, LimiterAssumption

\* What a caller in flight contributes, and what the others do.
LEMMA Replace ==
  ASSUME NEW c \in Callers, NEW n \in Nat, periods \in [Callers -> Nat],
         periods' = [periods EXCEPT ![c] = n], IsFiniteSet(InFlight)
  PROVE  /\ IsFiniteSet(InFlight')
         /\ Cardinality(InFlight') = Cardinality(InFlight) - periods[c] + n
<1> DEFINE Others == UNION {Batch(d, periods[d]) : d \in Callers \ {c}}
<1>1. InFlight = Others \cup Batch(c, periods[c])
  BY DEF InFlight
<1>2. InFlight' = Others \cup Batch(c, n)
  BY DEF InFlight
<1>3. \A m \in Nat : Others \cap Batch(c, m) = {}
  BY DEF Batch
<1>4. IsFiniteSet(Others)
  BY SMT, <1>1, FS_Subset
<1>5. \A m \in Nat : /\ IsFiniteSet(Others \cup Batch(c, m))
                     /\ Cardinality(Others \cup Batch(c, m)) = Cardinality(Others) + m
  <2> TAKE m \in Nat
  <2>1. IsFiniteSet(Batch(c, m)) /\ Cardinality(Batch(c, m)) = m
    BY BatchSize
  <2>2. Cardinality(Others \cap Batch(c, m)) = 0
    BY <1>3, FS_EmptySet
  <2>3. Cardinality(Others) \in Nat
    BY <1>4, FS_CardinalityType
  <2> HIDE DEF Others
  <2> QED BY SMT, <2>1, <2>2, <2>3, <1>4, FS_Union
<1>6. Cardinality(Others) \in Nat /\ periods[c] \in Nat
  BY <1>4, FS_CardinalityType
<1> HIDE DEF Others
<1> QED BY SMT, <1>1, <1>2, <1>5, <1>6

\* It holds initially.
LEMMA LimiterInit == Init => LimiterInv
<1> SUFFICES ASSUME Init PROVE LimiterInv
  OBVIOUS
<1>1. InFlight = {}
  BY SMT DEF InFlight, Batch, Init
<1>2. IsFiniteSet(InFlight) /\ Cardinality(InFlight) = 0
  BY <1>1, FS_EmptySet
<1>3. TypeOK /\ PeriodsHeld /\ ReadPast
  <2>1. capped \in BOOLEAN
    BY ZenonT(30) DEF Init
  <2> QED BY SMT, <2>1, LimiterAssumption DEF Init, TypeOK, PeriodsHeld, ReadPast
<1>4. RefillAligned
  BY SMT, LimiterAssumption DEF Init, RefillAligned
<1>5. Accounted
  BY SMT, <1>2, LimiterAssumption DEF Init, Accounted, CreditedOnce
<1> QED BY <1>3, <1>4, <1>5 DEF LimiterInv

\* The steps that leave the batches in flight alone.
LEMMA SameInFlight == periods' = periods => InFlight' = InFlight
BY DEF InFlight

\* Taking a token keeps it.
LEMMA TakeKeeps ==
  ASSUME LimiterInv, NEW c \in Callers, Take(c)
  PROVE  LimiterInv'
<1> USE DEF LimiterInv
<1>1. TypeOK' /\ PeriodsHeld' /\ ReadPast' /\ RefillAligned'
  BY SMT, LimiterAssumption DEF Take, TypeOK, PeriodsHeld, ReadPast, RefillAligned
<1>2. Accounted'
  <2>1. InFlight' = InFlight
    BY SameInFlight DEF Take
  <2>2. Cardinality(InFlight) \in Nat
    BY FS_CardinalityType DEF Accounted
  <2>3. granted' + tokens' = granted + tokens
    BY SMT, LimiterAssumption DEF Take, TypeOK
  <2>4. granted' \in Nat /\ tokens' \in Nat /\ claimed \in Nat /\ claimed' = claimed
         /\ capped' = capped /\ granted \in Nat /\ tokens \in Nat
    BY SMT, <1>1, LimiterAssumption DEF Take, TypeOK
  <2> QED BY ZenonT(30), <2>1, <2>2, <2>3, <2>4, LimiterAssumption DEF Accounted, CreditedOnce
<1> QED BY <1>1, <1>2

\* So does adding the tokens of a claimed refill.
LEMMA AddKeeps ==
  ASSUME LimiterInv, NEW c \in Callers, Add(c)
  PROVE  LimiterInv'
<1> USE DEF LimiterInv
<1>1. TypeOK' /\ PeriodsHeld' /\ ReadPast' /\ RefillAligned'
  <2>1. TypeOK'
    BY SMT, LimiterAssumption DEF Add, TypeOK, Refilled
  <2>2. PeriodsHeld' /\ ReadPast' /\ RefillAligned'
    BY DEF Add, TypeOK, PeriodsHeld, ReadPast, RefillAligned, Refilled
  <2> QED BY <2>1, <2>2
<1>2. Accounted'
  <2>1. IsFiniteSet(InFlight') /\ Cardinality(InFlight') = Cardinality(InFlight) - periods[c]
    <3>1. periods' = [periods EXCEPT ![c] = 0] /\ periods \in [Callers -> Nat]
      BY DEF Add, TypeOK
    <3>2. Cardinality(InFlight) \in Nat /\ periods[c] \in Nat
      BY <3>1, FS_CardinalityType DEF Accounted
    <3>3. IsFiniteSet(InFlight)
      BY DEF Accounted
    <3> HIDE DEF LimiterInv
    <3>4. /\ IsFiniteSet(InFlight')
          /\ Cardinality(InFlight') = Cardinality(InFlight) - periods[c] + 0
      BY ZenonT(30), <3>1, <3>3, Replace
    <3> QED BY SMT, <3>2, <3>4
  <2>2. Cardinality(InFlight) \in Nat /\ periods[c] \in Nat
    BY FS_CardinalityType DEF Accounted, TypeOK
  <2>3. /\ granted' = granted /\ claimed' = claimed
        /\ granted \in Nat /\ claimed \in Nat /\ tokens \in Nat /\ tokens' \in Nat
    BY SMT, <1>1, LimiterAssumption DEF Add, TypeOK
  <2>4. tokens' <= tokens + periods[c]
    BY SMT, <2>2, <2>3, LimiterAssumption DEF Add
  <2>5. ~capped' => ~capped /\ tokens' = tokens + periods[c]
    BY ZenonT(30) DEF Add
  <2> QED BY SMT, <2>1, <2>2, <2>3, <2>4, <2>5, LimiterAssumption DEF Accounted, CreditedOnce
<1> QED BY <1>1, <1>2

\* So does claiming the refill of the periods that have passed.
LEMMA ClaimKeeps ==
  ASSUME LimiterInv, NEW c \in Callers, Claim(c)
  PROVE  LimiterInv'
<1> USE DEF LimiterInv
<1>0. /\ pc[c] = "claim"
      /\ read' = [read EXCEPT ![c] = 0]
      /\ UNCHANGED <<tokens, now, limits, granted, capped>>
  BY DEF Claim
<1>1. CASE Elapsed(c) < RefillRate
  <2>1. /\ pc' = [pc EXCEPT ![c] = Refilled(c)]
        /\ UNCHANGED <<lastRefill, periods, claimed>>
    BY <1>1 DEF Claim
  <2>2. InFlight' = InFlight
    BY <2>1, SameInFlight
  <2>3. TypeOK' /\ PeriodsHeld'
    BY <1>0, <2>1 DEF TypeOK, PeriodsHeld, Refilled
  <2>4. ReadPast' /\ RefillAligned'
    BY SMT, <1>0, <2>1 DEF TypeOK, ReadPast, RefillAligned
  <2>5. Accounted'
    BY <1>0, <2>1, <2>2 DEF Accounted, CreditedOnce
  <2> QED BY <2>3, <2>4, <2>5
<1>2. CASE ~(Elapsed(c) < RefillRate)
  <2>1. /\ Elapsed(c) \in Nat /\ Elapsed(c) >= RefillRate
        /\ read[c] \in Nat /\ lastRefill \in Nat /\ claimed \in Nat /\ now \in Nat
        /\ read[c] <= now
    BY SMT, <1>2, LimiterAssumption DEF TypeOK, Elapsed, ReadPast
  <2>2. PICK n \in Nat : n = Elapsed(c) \div RefillRate /\ n * RefillRate <= Elapsed(c)
    BY <2>1, WholePeriods
  <2>3. /\ periods' = [periods EXCEPT ![c] = n]
        /\ claimed' = claimed + n
        /\ lastRefill' = lastRefill + n * RefillRate
        /\ pc' = [pc EXCEPT ![c] = "add"]
    BY <1>2, <2>2 DEF Claim
  <2>4. n * RefillRate \in Nat
    BY SMT, <2>2, LimiterAssumption
  <2>5. lastRefill' \in Nat /\ lastRefill' <= now
    BY SMT, <2>1, <2>2, <2>3, <2>4 DEF Elapsed
  <2>6. TypeOK'
    BY SMT, <1>0, <2>1, <2>3, <2>5 DEF TypeOK
  <2>7. PeriodsHeld'
    BY <2>3 DEF PeriodsHeld, TypeOK
  <2>8. ReadPast'
    BY SMT, <1>0, <2>1 DEF ReadPast, TypeOK
  <2>9. RefillAligned'
    <3>1. (claimed + n) * RefillRate = claimed * RefillRate + n * RefillRate
      BY SMT, <2>1, <2>2, LimiterAssumption
    <3> QED BY <1>0, <2>3, <2>5, <3>1 DEF RefillAligned
  <2>10. Accounted'
    <3>1. periods \in [Callers -> Nat] /\ periods[c] = 0
      BY <1>0 DEF TypeOK, PeriodsHeld
    <3>2. Cardinality(InFlight) \in Nat
      BY FS_CardinalityType DEF Accounted
    <3>3. IsFiniteSet(InFlight') /\ Cardinality(InFlight') = Cardinality(InFlight) + n
      <4>1. IsFiniteSet(InFlight)
        BY DEF Accounted
      <4> HIDE DEF LimiterInv
      <4>2. /\ IsFiniteSet(InFlight')
            /\ Cardinality(InFlight') = Cardinality(InFlight) - periods[c] + n
        BY ZenonT(30), <2>3, <3>1, <4>1, Replace
      <4> QED BY SMT, <3>1, <3>2, <4>2
    <3>4. granted \in Nat /\ tokens \in Nat
      BY SMT, LimiterAssumption DEF TypeOK
    <3> QED BY SMT, <1>0, <2>1, <2>3, <3>2, <3>3, <3>4, LimiterAssumption DEF Accounted, CreditedOnce
  <2> QED BY <2>6, <2>7, <2>8, <2>9, <2>10
<1> QED BY <1>1, <1>2

\* So do the steps of a call that write nothing shared.
LEMMA CallKeeps ==
  ASSUME LimiterInv, NEW c \in Callers, Limit(c) \/ Renormalize(c)
  PROVE  LimiterInv'
<1> USE DEF LimiterInv
<1>1. /\ pc' = [pc EXCEPT ![c] = "claim"]
      /\ read' = [read EXCEPT ![c] = now]
      /\ limits' \subseteq Callers
      /\ pc[c] = "idle"
      /\ UNCHANGED <<tokens, lastRefill, now, periods, granted, claimed, capped>>
  BY DEF Limit, Renormalize, Call, TypeOK
<1>2. InFlight' = InFlight
  BY <1>1, SameInFlight
<1>3. TypeOK' /\ PeriodsHeld'
  BY <1>1 DEF TypeOK, PeriodsHeld
<1>4. ReadPast' /\ RefillAligned'
  BY SMT, <1>1 DEF TypeOK, ReadPast, RefillAligned
<1>5. Accounted'
  BY <1>1, <1>2 DEF Accounted, CreditedOnce
<1> QED BY <1>3, <1>4, <1>5

\* Hence every step does.
LEMMA LimiterStep == LimiterInv /\ [Next]_vars => LimiterInv'
<1> SUFFICES ASSUME LimiterInv, [Next]_vars PROVE LimiterInv'
  OBVIOUS
<1>1. CASE Tick
  <2>1. InFlight' = InFlight
    BY <1>1, SameInFlight DEF Tick
  <2>2. TypeOK' /\ PeriodsHeld' /\ ReadPast' /\ RefillAligned'
    BY SMT, <1>1 DEF LimiterInv, Tick, TypeOK, PeriodsHeld, ReadPast, RefillAligned
  <2>3. Accounted'
    BY <1>1, <2>1 DEF LimiterInv, Tick, Accounted, CreditedOnce
  <2> QED BY <2>2, <2>3 DEF LimiterInv
<1>2. ASSUME NEW c \in Callers,
             Limit(c) \/ Renormalize(c) \/ Claim(c) \/ Add(c) \/ Take(c)
      PROVE  LimiterInv'
  BY <1>2, CallKeeps, ClaimKeeps, AddKeeps, TakeKeeps
<1>3. CASE UNCHANGED vars
  <2>1. InFlight' = InFlight
    BY <1>3, SameInFlight DEF vars
  <2>2. TypeOK' /\ PeriodsHeld' /\ ReadPast' /\ RefillAligned'
    BY <1>3 DEF LimiterInv, vars, TypeOK, PeriodsHeld, ReadPast, RefillAligned
  <2>3. Accounted'
    BY <1>3, <2>1 DEF LimiterInv, vars, Accounted, CreditedOnce
  <2> QED BY <2>2, <2>3 DEF LimiterInv
<1> QED BY <1>1, <1>2, <1>3 DEF Next

\* It implies the bound on the rate.
LEMMA KeepsRate == LimiterInv => RateKept
<1> SUFFICES ASSUME LimiterInv PROVE RateKept
  OBVIOUS
<1>1. /\ granted \in Nat /\ claimed \in Nat /\ tokens \in Nat /\ now \in Nat
      /\ Cardinality(InFlight) \in Nat
  BY SMT, FS_CardinalityType, LimiterAssumption DEF LimiterInv, TypeOK, Accounted
<1>2. granted - MaxTokens <= claimed
  BY SMT, <1>1, LimiterAssumption DEF LimiterInv, Accounted
<1>3. claimed * RefillRate <= now
  BY DEF LimiterInv, RefillAligned
<1>4. (granted - MaxTokens) * RefillRate <= claimed * RefillRate
  <2>1. PICK d \in Nat : claimed = (granted - MaxTokens) + d
    BY SMT, <1>1, <1>2, LimiterAssumption
  <2>2. d * RefillRate \in Nat
    BY SMT, LimiterAssumption
  <2>3. ((granted - MaxTokens) + d) * RefillRate
          = (granted - MaxTokens) * RefillRate + d * RefillRate
    BY SMT, <1>1, LimiterAssumption
  <2>4. (granted - MaxTokens) * RefillRate \in Int
    BY SMT, <1>1, LimiterAssumption
  <2> QED BY SMT, <2>1, <2>2, <2>3, <2>4
<1>5. (granted - MaxTokens) * RefillRate \in Int /\ claimed * RefillRate \in Int
  BY SMT, <1>1, LimiterAssumption
<1> QED BY SMT, <1>1, <1>3, <1>4, <1>5 DEF RateKept

\* The token bucket keeps its rate for any number of concurrent callers: no
\* interleaving of Limit and Renormalize lets through more than the burst and one
\* call per elapsed period.
THEOREM LimiterKeepsRate == Spec => []RateKept
<1>1. Init => LimiterInv
  BY LimiterInit
<1>2. LimiterInv /\ [Next]_vars => LimiterInv'
  BY LimiterStep
<1>3. LimiterInv => RateKept
  BY KeepsRate
<1> QED BY <1>1, <1>2, <1>3, PTL DEF Spec

\* No period is credited twice and none is lost except to the capacity.
THEOREM LimiterCreditsOnce == Spec => []CreditedOnce
<1>1. Init => LimiterInv
  BY LimiterInit
<1>2. LimiterInv /\ [Next]_vars => LimiterInv'
  BY LimiterStep
<1>3. LimiterInv => CreditedOnce
  BY DEF LimiterInv, Accounted
<1> QED BY <1>1, <1>2, <1>3, PTL DEF Spec

-----------------------------------------------------------------------------
(* The limiter inside an admission *)

\* Every step of an admission is a step of the limiter, or none.
LEMMA LimiterStepOrNone == [ANext]_avars => [Next]_vars
<1> SUFFICES ASSUME [ANext]_avars PROVE Next \/ UNCHANGED vars
  OBVIOUS
<1>1. CASE UNCHANGED avars
  BY <1>1 DEF avars
<1>2. CASE ATick
  BY <1>2 DEF ATick, Next
<1>3. CASE StartJob \/ CountOutcome \/ AddLatency
  BY <1>3 DEF StartJob, CountOutcome, AddLatency
<1>4. CASE RenormalizeAll
  <2>1. CASE RenormalizeLimiter
    BY <2>1, AdmissionAssumption DEF RenormalizeLimiter, Next
  <2> QED BY <1>4, <2>1 DEF RenormalizeAll, TickerFires, RenormalizeBalancer,
            RenormalizePressure, LoadPressure, Bleed, RenormalizeGovernor, ElectRenormalize
<1>5. CASE \E c \in Callers : Observe(c)
  BY <1>5 DEF Observe, ObserveNothing, StoreReading, ApplyPressure, ApplyUtilization,
              TrySample, SwapSample, SampleMemory
<1>6. CASE \E c \in Callers : RefillTokens(c)
  BY <1>6 DEF RefillTokens, Next
<1>7. CASE \E s \in Schedulers : Schedule(s) \/ CollectReading(s)
  BY <1>7 DEF Schedule, CollectReading
<1>8. CASE \E s \in Schedulers : Ask(s)
  BY <1>8 DEF Ask, Schedulers, AskRegulator, AskLimiter, TakeToken, Reject, Enqueue, Next
<1> QED BY <1>1, <1>2, <1>3, <1>4, <1>5, <1>6, <1>7, <1>8 DEF ANext

\* The limiter inside an admission behaves as the limiter specified by itself.
THEOREM AdmissionImplementsLimiter == ASpec => Spec
<1>1. AInit => Init
  BY DEF AInit
<1> QED BY <1>1, LimiterStepOrNone, PTL DEF ASpec, Spec

\* The rate is kept whatever the other regulators, Schedule and the scaler do.
THEOREM AdmissionKeepsRate == ASpec => []RateKept
BY AdmissionImplementsLimiter, LimiterKeepsRate, PTL
-----------------------------------------------------------------------------

IsCall(r) ==
  r = [at |-> r.at, turn |-> r.turn, reading |-> r.reading, local |-> r.local,
       clock |-> r.clock]

Calls == call = [c \in Callers |-> call[c]] /\ \A c \in Callers : IsCall(call[c])

\* The time that a caller compares with was read before; once it is to swap, the
\* value it loaded is at least an interval older.
ClockPast(r, time) ==
  /\ r.at \in {"trySample", "swapSample"} => r.clock \in 1..(time + 1)
  /\ r.at = "swapSample" => r.local \in Nat /\ (r.local = 0 \/ r.clock - r.local >= CheckInterval)

Spaced ==
  /\ samples \in Nat /\ lastMemSample \in Nat
  /\ samples = 0 => lastMemSample = 0
  /\ samples > 0 => 1 + (samples - 1) * CheckInterval <= lastMemSample
  /\ lastMemSample <= now + 1

SampleInv ==
  now \in Nat /\ Calls /\ Spaced /\ \A c \in Callers : ClockPast(call[c], now)

LEMMA SampleInit == AInit => SampleInv
BY SMT DEF AInit, Init, SampleInv, Calls, IsCall, Idle, Stand, Spaced, ClockPast

\* c moves on, to a place where it holds no time to compare with.
Passes(c) ==
  \E r : /\ IsCall(r) /\ r.at \notin {"trySample", "swapSample"}
         /\ call' = [call EXCEPT ![c] = r]

LEMMA GotoPasses ==
  ASSUME Calls, NEW c \in Callers, NEW label,
         label \notin {"trySample", "swapSample"}, Goto(c, label)
  PROVE  Passes(c)
<1> DEFINE r == [call[c] EXCEPT !.at = label]
<1>1. IsCall(call[c])
  BY DEF Calls
<1>2. IsCall(r) /\ r.at = label
  BY SMT, <1>1 DEF IsCall
<1>3. call' = [call EXCEPT ![c] = r]
  BY DEF Goto
<1> QED BY <1>2, <1>3 DEF Passes

LEMMA TurnPasses ==
  ASSUME NEW c \in Callers, NEW loop, NEW last, Turn(c, loop, last),
         loop \notin {"trySample", "swapSample"}, IsCall(last),
         last.at \notin {"trySample", "swapSample"}
  PROVE  Passes(c)
<1> DEFINE next == Stand(loop, call[c].turn + 1, call[c].reading)
<1>1. IsCall(next) /\ next.at = loop
  BY DEF Stand, IsCall
<1>2. call' = [call EXCEPT ![c] = next] \/ call' = [call EXCEPT ![c] = last]
  BY DEF Turn
<1> HIDE DEF next
<1> QED BY <1>1, <1>2 DEF Passes

LEMMA ObservedPasses ==
  ASSUME NEW c \in Callers, Observed(c)
  PROVE  Passes(c)
<1> DEFINE last == Stand("limit", 1, call[c].reading)
<1>1. IsCall(last) /\ last.at = "limit"
  BY DEF Stand, IsCall
<1>2. Turn(c, "renormalize", Idle) \/ Turn(c, "observe", last)
  BY DEF Observed
<1>3. IsCall(Idle) /\ Idle.at = "idle"
  BY DEF Idle, Stand, IsCall
<1> HIDE DEF last
<1> QED BY <1>1, <1>2, <1>3, TurnPasses

LEMMA VerdictPasses ==
  ASSUME Calls, NEW c \in Callers, NEW rejects, Verdict(c, rejects)
  PROVE  Passes(c)
<1> DEFINE last == [call[c] EXCEPT !.at = "admitted"]
<1>1. IsCall(last) /\ last.at = "admitted"
  BY SMT DEF Calls, IsCall
<1>2. Goto(c, "rejected") \/ Turn(c, "limit", last)
  BY DEF Verdict
<1> HIDE DEF last
<1> QED BY <1>1, <1>2, TurnPasses, GotoPasses

\* A step of one caller keeps the invariant when what it comes to hold does.
LEMMA OneMoves ==
  ASSUME SampleInv, NEW c \in Callers, NEW r, IsCall(r), ClockPast(r, now),
         call' = [call EXCEPT ![c] = r], now' = now, Spaced'
  PROVE  SampleInv'
<1>1. call = [d \in Callers |-> call[d]]
  BY DEF SampleInv, Calls
<1>2. \A d \in Callers : call'[d] = IF d = c THEN r ELSE call[d]
  BY <1>1
<1>3. call' = [d \in Callers |-> call'[d]]
  BY <1>1
<1>4. \A d \in Callers : IsCall(call'[d]) /\ ClockPast(call'[d], now)
  BY <1>2 DEF SampleInv, Calls
<1> QED BY <1>3, <1>4 DEF SampleInv, Calls

LEMMA PassingKeeps ==
  ASSUME SampleInv, NEW c \in Callers, Passes(c), UNCHANGED <<now, samples, lastMemSample>>
  PROVE  SampleInv'
<1>1. PICK r : /\ IsCall(r) /\ r.at \notin {"trySample", "swapSample"}
               /\ call' = [call EXCEPT ![c] = r]
  BY DEF Passes
<1>2. ClockPast(r, now)
  BY <1>1 DEF ClockPast
<1>3. Spaced'
  BY DEF SampleInv, Spaced
<1> QED BY <1>1, <1>2, <1>3, OneMoves

LEMMA ObserveKeeps ==
  ASSUME SampleInv, NEW c \in Callers, Observe(c)
  PROVE  SampleInv'
<1>1. Calls /\ now \in Nat /\ IsCall(call[c]) /\ ClockPast(call[c], now) /\ Spaced
  BY DEF SampleInv, Calls
<1>2. now' = now
  BY DEF Observe, vars, ObserveNothing, StoreReading, ApplyPressure, ApplyUtilization,
         TrySample, SwapSample, SampleMemory
<1>3. CASE ObserveNothing(c) \/ ApplyPressure(c) \/ SampleMemory(c)
  <2>1. Observed(c) /\ UNCHANGED <<samples, lastMemSample>>
    BY <1>3 DEF ObserveNothing, ApplyPressure, SampleMemory, sampled
  <2> QED BY <1>2, <2>1, ObservedPasses, PassingKeeps
<1>4. CASE StoreReading(c)
  <2>1. (Observed(c) \/ Goto(c, "apply")) /\ UNCHANGED <<samples, lastMemSample>>
    BY <1>4 DEF StoreReading, sampled
  <2> QED BY <1>1, <1>2, <2>1, ObservedPasses, GotoPasses, PassingKeeps
<1>5. CASE ApplyUtilization(c)
  <2> DEFINE r == [at |-> "trySample", turn |-> call[c].turn, reading |-> call[c].reading,
                   local |-> 0, clock |-> now + 1]
  <2>1. call' = [call EXCEPT ![c] = r]
    BY <1>5 DEF ApplyUtilization, Hold
  <2>2. IsCall(r) /\ r.at = "trySample" /\ r.clock = now + 1
    BY DEF IsCall
  <2>3. ClockPast(r, now)
    BY SMT, <1>1, <2>2 DEF ClockPast
  <2>4. Spaced'
    BY <1>1, <1>2, <1>5 DEF ApplyUtilization, sampled, Spaced
  <2> QED BY <1>2, <2>1, <2>2, <2>3, <2>4, OneMoves
<1>6. CASE TrySample(c)
  <2>1. Spaced'
    BY <1>1, <1>2, <1>6 DEF TrySample, sampled, Spaced
  <2>2. CASE Observed(c)
    BY <1>2, <1>6, <2>2, ObservedPasses, PassingKeeps DEF TrySample, sampled
  <2>3. CASE ~Observed(c)
    <3> DEFINE r == [at |-> "swapSample", turn |-> call[c].turn, reading |-> call[c].reading,
                     local |-> lastMemSample, clock |-> call[c].clock]
    <3>1. call' = [call EXCEPT ![c] = r] /\ ~Recent(c, lastMemSample) /\ call[c].at = "trySample"
      BY <1>6, <2>3 DEF TrySample, Hold
    <3>2. IsCall(r) /\ r.at = "swapSample" /\ r.local = lastMemSample /\ r.clock = call[c].clock
      BY DEF IsCall
    <3>3. ClockPast(r, now)
      BY SMT, <1>1, <3>1, <3>2, AdmissionAssumption DEF ClockPast, Recent, Spaced
    <3> QED BY <1>2, <2>1, <3>1, <3>2, <3>3, OneMoves
  <2> QED BY <2>2, <2>3
<1>7. CASE SwapSample(c)
  <2>1. CASE lastMemSample # call[c].local
    <3>1. Observed(c) /\ UNCHANGED <<samples, lastMemSample>>
      BY <1>7, <2>1 DEF SwapSample
    <3> QED BY <1>2, <3>1, ObservedPasses, PassingKeeps
  <2>2. CASE lastMemSample = call[c].local
    <3>1. lastMemSample' = call[c].clock /\ samples' = samples + 1 /\ Goto(c, "sample")
      BY <1>7, <2>2 DEF SwapSample
    <3>2. call[c].clock \in 1..(now + 1)
          /\ (lastMemSample = 0 \/ call[c].clock - lastMemSample >= CheckInterval)
      BY <1>1, <1>7, <2>2 DEF SwapSample, ClockPast
    <3>3. CheckInterval \in Nat \ {0}
      BY AdmissionAssumption
    <3>4. Spaced'
      <4>1. CASE samples = 0
        BY SMT, <1>1, <1>2, <3>1, <3>2, <3>3, <4>1 DEF Spaced
      <4>2. CASE samples > 0
        <5>1. samples * CheckInterval = (samples - 1) * CheckInterval + CheckInterval
          BY SMT, <1>1, <3>3, <4>2 DEF Spaced
        <5>2. (samples - 1) * CheckInterval \in Nat
          BY SMT, <1>1, <3>3, <4>2 DEF Spaced
        <5>3. 1 + (samples - 1) * CheckInterval <= lastMemSample
          BY <1>1, <4>2 DEF Spaced
        <5>4. 1 + samples * CheckInterval <= call[c].clock
          BY SMT, <1>1, <3>2, <3>3, <5>1, <5>2, <5>3 DEF Spaced
        <5>5. samples' - 1 = samples
          BY SMT, <1>1, <3>1 DEF Spaced
        <5> QED BY SMT, <1>1, <1>2, <3>1, <3>2, <5>4, <5>5 DEF Spaced
      <4> QED BY SMT, <1>1, <4>1, <4>2 DEF Spaced
    <3>5. Passes(c)
      BY <1>1, <3>1, GotoPasses
    <3>6. PICK r : /\ IsCall(r) /\ r.at \notin {"trySample", "swapSample"}
                   /\ call' = [call EXCEPT ![c] = r]
      BY <3>5 DEF Passes
    <3>7. ClockPast(r, now)
      BY <3>6 DEF ClockPast
    <3> QED BY <1>2, <3>4, <3>6, <3>7, OneMoves
  <2> QED BY <2>1, <2>2
<1> QED BY <1>3, <1>4, <1>5, <1>6, <1>7 DEF Observe

LEMMA RenormalizeKeeps ==
  ASSUME SampleInv, RenormalizeAll
  PROVE  SampleInv'
<1>1. Calls /\ IsCall(call[Scaler]) /\ Scaler \in Callers /\ IsCall(Idle) /\ Idle.at = "idle"
  BY AdmissionAssumption DEF SampleInv, Calls, Idle, Stand, IsCall
<1>2. UNCHANGED <<now, samples, lastMemSample>>
  BY DEF RenormalizeAll, vars, sampled, TickerFires, RenormalizeLimiter, RenormalizeBalancer,
         Renormalize, RenormalizePressure, LoadPressure, Bleed, RenormalizeGovernor,
         ElectRenormalize
<1>3. CASE LoadPressure
  <2> DEFINE r == [at |-> "bleed", turn |-> call[Scaler].turn,
                   reading |-> call[Scaler].reading, local |-> pressure, clock |-> 0]
  <2>1. IsCall(r) /\ r.at = "bleed" /\ call' = [call EXCEPT ![Scaler] = r]
    BY <1>3 DEF LoadPressure, Hold, IsCall
  <2> QED BY <1>1, <1>2, <2>1, PassingKeeps DEF Passes
<1>4. CASE RenormalizeGovernor
  <2> DEFINE r == Stand("elect", call[Scaler].turn, lastReading["governor"])
  <2>1. IsCall(r) /\ r.at = "elect"
    BY DEF Stand, IsCall
  <2>2. Turn(Scaler, "renormalize", Idle) \/ call' = [call EXCEPT ![Scaler] = r]
    BY <1>4 DEF RenormalizeGovernor
  <2>3. Passes(Scaler)
    BY <1>1, <2>1, <2>2, TurnPasses DEF Passes
  <2> QED BY <1>1, <1>2, <2>3, PassingKeeps
<1>5. CASE ~LoadPressure /\ ~RenormalizeGovernor
  <2>1. \/ Turn(Scaler, "renormalize", Idle)
        \/ \E l \in {"renormalize", "refill", "loadPressure", "observe"} : Goto(Scaler, l)
    BY <1>5 DEF RenormalizeAll, TickerFires, RenormalizeLimiter, RenormalizeBalancer,
                RenormalizePressure, Bleed, ElectRenormalize
  <2>2. Passes(Scaler)
    BY <1>1, <2>1, TurnPasses, GotoPasses
  <2> QED BY <1>1, <1>2, <2>2, PassingKeeps
<1> QED BY <1>3, <1>4, <1>5

LEMMA RefillKeeps ==
  ASSUME SampleInv, NEW c \in Callers, RefillTokens(c)
  PROVE  SampleInv'
<1>1. UNCHANGED <<now, samples, lastMemSample>>
  BY DEF RefillTokens, Claim, Add, sampled
<1>2. CASE Turn(c, "renormalize", Idle)
  <2>1. IsCall(Idle) /\ Idle.at = "idle"
    BY DEF Idle, Stand, IsCall
  <2> QED BY <1>1, <1>2, <2>1, TurnPasses, PassingKeeps
<1>3. CASE UNCHANGED call
  BY <1>1, <1>3 DEF SampleInv, Calls, Spaced
<1> QED BY <1>2, <1>3 DEF RefillTokens

LEMMA ScheduleKeeps ==
  ASSUME SampleInv, NEW s \in Schedulers, Schedule(s) \/ CollectReading(s) \/ Ask(s)
  PROVE  SampleInv'
<1>1. s \in Callers /\ Calls /\ UNCHANGED <<now, samples, lastMemSample>>
  BY DEF Schedulers, SampleInv, Schedule, CollectReading, Ask, vars, sampled, AskRegulator,
         AskLimiter, Limit, TakeToken, Take, Reject, Enqueue
<1> SUFFICES Passes(s)
  BY <1>1, PassingKeeps
<1>2. CASE Schedule(s)
  BY <1>2 DEF Schedule, Hold, Passes, IsCall
<1>3. CASE CollectReading(s)
  <2>1. PICK q : call' = [call EXCEPT ![s] = Stand("observe", 1, q)]
    BY <1>3 DEF CollectReading
  <2> QED BY <2>1 DEF Passes, Stand, IsCall
<1>4. CASE AskRegulator(s) \/ TakeToken(s)
  <2>1. \E rejects : Verdict(s, rejects)
    BY <1>4 DEF AskRegulator, TakeToken
  <2> QED BY <1>1, <2>1, VerdictPasses
<1>5. CASE AskLimiter(s)
  BY <1>1, <1>5, GotoPasses DEF AskLimiter
<1>6. CASE Reject(s) \/ Enqueue(s)
  BY <1>6 DEF Reject, Enqueue, Passes, Idle, Stand, IsCall
<1> QED BY <1>2, <1>3, <1>4, <1>5, <1>6 DEF Ask

LEMMA SampleStep == SampleInv /\ [ANext]_avars => SampleInv'
<1> SUFFICES ASSUME SampleInv, [ANext]_avars PROVE SampleInv'
  OBVIOUS
<1>1. CASE UNCHANGED avars
  BY <1>1 DEF avars, vars, sampled, SampleInv, Calls, Spaced
<1>2. CASE ATick
  <2>1. now' = now + 1 /\ UNCHANGED <<call, samples, lastMemSample>>
    BY <1>2 DEF ATick, Tick, sampled
  <2>2. \A c \in Callers : ClockPast(call[c], now) => ClockPast(call[c], now + 1)
    BY SMT DEF ClockPast, SampleInv
  <2> QED BY SMT, <2>1, <2>2 DEF SampleInv, Calls, Spaced
<1>3. CASE StartJob \/ CountOutcome \/ AddLatency
  BY <1>3 DEF StartJob, CountOutcome, AddLatency, vars, sampled, SampleInv, Calls, Spaced
<1> QED BY <1>1, <1>2, <1>3, RenormalizeKeeps, ObserveKeeps, RefillKeeps, ScheduleKeeps
        DEF ANext

\* The governor samples the memory at most once per interval, whatever times its
\* callers read before their compare-and-swap (Observe, tryStartMemorySample).
THEOREM MemorySampledOncePerInterval == ASpec => []SampledOncePerInterval
<1>1. SampleInv => SampledOncePerInterval
  <2> SUFFICES ASSUME SampleInv PROVE (samples - 1) * CheckInterval <= now
    BY DEF SampledOncePerInterval
  <2>1. CheckInterval \in Nat \ {0}
    BY AdmissionAssumption
  <2>2. CASE samples = 0
    BY SMT, <2>1, <2>2 DEF SampleInv, Spaced
  <2>3. CASE samples > 0
    <3>1. (samples - 1) * CheckInterval \in Nat
      BY SMT, <2>1, <2>3 DEF SampleInv, Spaced
    <3> QED BY SMT, <2>3, <3>1 DEF SampleInv, Spaced
  <2> QED BY SMT, <2>2, <2>3 DEF SampleInv, Spaced
<1> QED BY <1>1, SampleInit, SampleStep, PTL DEF ASpec
-----------------------------------------------------------------------------
(* What a step makes of a call *)

Kinds == {"balancer", "pressure", "governor"}

\* c comes to stand there, with that reading; the others stay where they are.
Becomes(c, at, turn, reading) ==
  /\ call'[c].at = at /\ call'[c].turn = turn /\ call'[c].reading = reading
  /\ \A d \in Callers \ {c} : call'[d] = call[d]

LEMMA RecordBecomes ==
  ASSUME Calls, NEW c \in Callers, NEW r, call' = [call EXCEPT ![c] = r]
  PROVE  Becomes(c, r.at, r.turn, r.reading)
<1>1. call = [d \in Callers |-> call[d]]
  BY DEF Calls
<1>2. call'[c] = r /\ \A d \in Callers \ {c} : call'[d] = call[d]
  BY <1>1
<1> QED BY <1>2 DEF Becomes

LEMMA GotoBecomes ==
  ASSUME Calls, NEW c \in Callers, NEW label, Goto(c, label)
  PROVE  Becomes(c, label, call[c].turn, call[c].reading)
<1> DEFINE r == [call[c] EXCEPT !.at = label]
<1>1. r.at = label /\ r.turn = call[c].turn /\ r.reading = call[c].reading
  BY SMT DEF Calls, IsCall
<1>2. call' = [call EXCEPT ![c] = r]
  BY DEF Goto
<1> HIDE DEF r
<1> QED BY <1>1, <1>2, RecordBecomes

LEMMA HoldBecomes ==
  ASSUME Calls, NEW c \in Callers, NEW label, NEW local, NEW clock,
         Hold(c, label, local, clock)
  PROVE  Becomes(c, label, call[c].turn, call[c].reading)
<1> DEFINE r == [at |-> label, turn |-> call[c].turn, reading |-> call[c].reading,
                 local |-> local, clock |-> clock]
<1>1. r.at = label /\ r.turn = call[c].turn /\ r.reading = call[c].reading
  OBVIOUS
<1>2. call' = [call EXCEPT ![c] = r]
  BY DEF Hold
<1> HIDE DEF r
<1> QED BY <1>1, <1>2, RecordBecomes

LEMMA StandBecomes ==
  ASSUME Calls, NEW c \in Callers, NEW label, NEW turn, NEW reading,
         call' = [call EXCEPT ![c] = Stand(label, turn, reading)]
  PROVE  Becomes(c, label, turn, reading)
<1> DEFINE r == Stand(label, turn, reading)
<1>1. r.at = label /\ r.turn = turn /\ r.reading = reading
  BY DEF Stand
<1> HIDE DEF r
<1> QED BY <1>1, RecordBecomes DEF r

LEMMA TurnBecomes ==
  ASSUME Calls, NEW c \in Callers, NEW loop, NEW last, Turn(c, loop, last)
  PROVE  IF call[c].turn < Len(Regulators)
           THEN Becomes(c, loop, call[c].turn + 1, call[c].reading)
           ELSE Becomes(c, last.at, last.turn, last.reading)
<1>1. CASE call[c].turn < Len(Regulators)
  BY <1>1, StandBecomes DEF Turn
<1>2. CASE ~(call[c].turn < Len(Regulators))
  BY <1>2, RecordBecomes DEF Turn
<1> QED BY <1>1, <1>2

LEMMA ScalerTurns ==
  ASSUME Calls, NEW c \in Callers, Turn(c, "renormalize", Idle)
  PROVE  \E at, turn, reading : Becomes(c, at, turn, reading)
                                /\ reading \in {call[c].reading, None}
<1>1. Idle.reading = None
  BY DEF Idle, Stand
<1> QED BY <1>1, TurnBecomes

\* The return from Observe in Schedule.
LEMMA ObservedBecomes ==
  ASSUME Calls, NEW s \in Schedulers, Observed(s)
  PROVE  IF call[s].turn < Len(Regulators)
           THEN Becomes(s, "observe", call[s].turn + 1, call[s].reading)
           ELSE Becomes(s, "limit", 1, call[s].reading)
<1> DEFINE last == Stand("limit", 1, call[s].reading)
<1>1. last.at = "limit" /\ last.turn = 1 /\ last.reading = call[s].reading
  BY DEF Stand
<1>2. s \in Callers /\ Turn(s, "observe", last)
  BY DEF Observed, Schedulers
<1> HIDE DEF last
<1> QED BY <1>1, <1>2, TurnBecomes

\* The return from Limit.
LEMMA VerdictBecomes ==
  ASSUME Calls, NEW s \in Callers, NEW rejects, Verdict(s, rejects)
  PROVE  IF rejects THEN Becomes(s, "rejected", call[s].turn, call[s].reading)
         ELSE IF call[s].turn < Len(Regulators)
           THEN Becomes(s, "limit", call[s].turn + 1, call[s].reading)
           ELSE Becomes(s, "admitted", call[s].turn, call[s].reading)
<1> DEFINE last == [call[s] EXCEPT !.at = "admitted"]
<1>1. last.at = "admitted" /\ last.turn = call[s].turn /\ last.reading = call[s].reading
  BY SMT DEF Calls, IsCall
<1>2. IF rejects THEN Goto(s, "rejected") ELSE Turn(s, "limit", last)
  BY DEF Verdict
<1> HIDE DEF last
<1>3. CASE rejects
  BY <1>2, <1>3, GotoBecomes
<1>4. CASE ~rejects
  BY <1>1, <1>2, <1>4, TurnBecomes
<1> QED BY <1>3, <1>4
-----------------------------------------------------------------------------
(* The average of a reading *)

\* The average of a reading taken while no job was counted.
Bounded(r) == r.whole => \E l \in Latencies \cup {0} : r.avg <= l

\* The sum of the latencies is that of at most the jobs counted and timed; and no
\* reading that a caller or the governor holds breaks the bound.
AverageInv ==
  /\ jobCount \in Nat /\ untimed \in Nat /\ untimed <= jobCount /\ totalLatency \in Nat
  /\ \E l \in Latencies \cup {0} : totalLatency <= l * (jobCount - untimed)
  /\ \A c \in Callers : Bounded(call[c].reading)
  /\ lastReading = [k \in Kinds |-> lastReading[k]] /\ Bounded(lastReading["governor"])

\* Apart from CollectReading, a call goes on with the reading it has, with none, or
\* with the governor's.
ReadingsKept ==
  \A d \in Callers :
    call'[d].reading \in {call[d].reading, None, lastReading["governor"]}

LEMMA BecomesKept ==
  ASSUME NEW c \in Callers, NEW at, NEW turn, NEW reading, Becomes(c, at, turn, reading),
         reading \in {call[c].reading, None, lastReading["governor"]}
  PROVE  ReadingsKept
BY DEF Becomes, ReadingsKept

LEMMA ObserveKept ==
  ASSUME Calls, NEW c \in Callers, Observe(c)
  PROVE  ReadingsKept
<1>1. CASE Observed(c)
  <2>1. CASE c = Scaler
    BY <1>1, <2>1, ScalerTurns, BecomesKept DEF Observed
  <2>2. CASE c # Scaler
    BY <1>1, <2>2, ObservedBecomes, BecomesKept DEF Schedulers
  <2> QED BY <2>1, <2>2
<1>2. CASE \E label : Goto(c, label)
  BY <1>2, GotoBecomes, BecomesKept
<1>3. CASE \E label, local, clock : Hold(c, label, local, clock)
  BY <1>3, HoldBecomes, BecomesKept
<1> QED BY <1>1, <1>2, <1>3 DEF Observe, ObserveNothing, StoreReading, ApplyPressure,
              ApplyUtilization, TrySample, SwapSample, SampleMemory

LEMMA RenormalizeKept ==
  ASSUME Calls, RenormalizeAll
  PROVE  ReadingsKept
<1>0. Scaler \in Callers
  BY AdmissionAssumption
<1>1. CASE Turn(Scaler, "renormalize", Idle)
  BY <1>0, <1>1, ScalerTurns, BecomesKept
<1>2. CASE \E label : Goto(Scaler, label)
  BY <1>0, <1>2, GotoBecomes, BecomesKept
<1>3. CASE LoadPressure
  BY <1>0, <1>3, HoldBecomes, BecomesKept DEF LoadPressure
<1>4. CASE \E label, turn :
             call' = [call EXCEPT ![Scaler] = Stand(label, turn, lastReading["governor"])]
  BY <1>0, <1>4, StandBecomes, BecomesKept
<1> QED BY <1>1, <1>2, <1>3, <1>4 DEF RenormalizeAll, TickerFires, RenormalizeLimiter,
              RenormalizeBalancer, RenormalizePressure, Bleed, RenormalizeGovernor,
              ElectRenormalize

LEMMA AskKept ==
  ASSUME Calls, NEW s \in Schedulers, Schedule(s) \/ Ask(s)
  PROVE  ReadingsKept
<1>0. s \in Callers
  BY DEF Schedulers
<1>1. CASE Schedule(s)
  BY <1>0, <1>1, HoldBecomes, BecomesKept DEF Schedule
<1>2. CASE \E rejects \in BOOLEAN : Verdict(s, rejects)
  BY <1>0, <1>2, VerdictBecomes, BecomesKept
<1>3. CASE AskLimiter(s)
  BY <1>0, <1>3, GotoBecomes, BecomesKept DEF AskLimiter
<1>4. CASE Reject(s) \/ Enqueue(s)
  BY <1>0, <1>4, StandBecomes, BecomesKept DEF Reject, Enqueue, Idle
<1>5. CASE AskRegulator(s) \/ TakeToken(s)
  <2>1. \E rejects : Verdict(s, rejects)
    BY <1>5 DEF AskRegulator, TakeToken
  <2>2. PICK rejects : Verdict(s, rejects)
    BY <2>1
  <2>3. Verdict(s, TRUE) \/ Verdict(s, FALSE)
    BY <2>2 DEF Verdict
  <2> QED BY <1>2, <2>3
<1> QED BY <1>1, <1>3, <1>4, <1>5 DEF Ask

\* Every reading in use stays within the bound when the readings are kept.
LEMMA KeptBounded ==
  ASSUME AverageInv, ReadingsKept
  PROVE  \A c \in Callers : Bounded(call'[c].reading)
<1>1. Bounded(None)
  BY SMT DEF Bounded, None
<1> QED BY <1>1 DEF AverageInv, ReadingsKept

\* The average is at most a bound on the latencies.
LEMMA Quotient ==
  ASSUME NEW a \in Nat, NEW n \in Nat \ {0}, NEW m \in Nat, m <= n, NEW l \in Nat,
         a <= l * m
  PROVE  a \div n <= l
<1>1. l * m <= l * n
  <2>1. PICK d \in Nat : n = m + d
    BY SMT, n - m \in Nat
  <2>2. l * n = l * m + l * d /\ l * d \in Nat /\ l * m \in Nat
    BY SMT, <2>1
  <2> QED BY SMT, <2>2
<1> DEFINE q == a \div n
<1>2. q \in Nat /\ q * n <= a
  BY SMT
<1> HIDE DEF q
<1>3. SUFFICES ASSUME q >= l + 1 PROVE FALSE
  BY SMT, <1>2 DEF q
<1>4. PICK d \in Nat : q = l + 1 + d
  BY SMT, <1>2, <1>3, q - l - 1 \in Nat
<1>5. q * n = l * n + n + d * n /\ d * n \in Nat /\ l * n \in Nat /\ l * m \in Nat
  BY SMT, <1>4
<1> QED BY SMT, <1>1, <1>2, <1>5
\* A reading that was taken whole.
LEMMA CollectBounded ==
  ASSUME Calls, AverageInv, NEW s \in Schedulers, CollectReading(s)
  PROVE  \A c \in Callers : Bounded(call'[c].reading)
<1>0. s \in Callers
  BY DEF Schedulers
<1> DEFINE jc == call[s].local
           avg == IF jc > 0 THEN totalLatency \div jc ELSE 0
<1>1. PICK u : call' = [call EXCEPT ![s] = Stand("observe", 1,
                 [depth |-> depth, avg |-> avg, util |-> u, whole |-> jc = jobCount])]
  BY DEF CollectReading
<1> DEFINE r == [depth |-> depth, avg |-> avg, util |-> u, whole |-> jc = jobCount]
<1>2. Becomes(s, "observe", 1, r)
  BY <1>0, <1>1, StandBecomes
<1>3. r.avg = avg /\ r.whole = (jc = jobCount)
  OBVIOUS
<1>4. (jc = jobCount) => \E l \in Latencies \cup {0} : avg <= l
  <2> SUFFICES ASSUME jc = jobCount PROVE \E l \in Latencies \cup {0} : avg <= l
    OBVIOUS
  <2>1. PICK l \in Latencies \cup {0} : totalLatency <= l * (jobCount - untimed)
    BY DEF AverageInv
  <2>2. l \in Nat /\ jobCount \in Nat /\ totalLatency \in Nat
        /\ jobCount - untimed \in Nat /\ jobCount - untimed <= jobCount
    BY SMT, AdmissionAssumption DEF AverageInv
  <2>3. CASE jobCount > 0
    BY SMT, <2>1, <2>2, <2>3, Quotient
  <2>4. CASE ~(jobCount > 0)
    BY SMT, <2>4
  <2> QED BY <2>3, <2>4
<1>5. Bounded(r)
  BY <1>3, <1>4 DEF Bounded
<1> HIDE DEF r
<1> QED BY <1>2, <1>5 DEF Becomes, AverageInv

\* Recording an outcome keeps the sum of the latencies within the count.
LEMMA LatencyAdded ==
  ASSUME AverageInv, AddLatency
  PROVE  /\ untimed' \in Nat /\ untimed' <= jobCount /\ totalLatency' \in Nat
         /\ \E l \in Latencies \cup {0} : totalLatency' <= l * (jobCount - untimed')
<1>1. PICK k \in Latencies : totalLatency' = totalLatency + k
  BY DEF AddLatency
<1>2. PICK l \in Latencies \cup {0} : totalLatency <= l * (jobCount - untimed)
  BY DEF AverageInv
<1> DEFINE n == jobCount - untimed
           m == IF k > l THEN k ELSE l
<1>a. untimed > 0 /\ untimed' = untimed - 1
  BY DEF AddLatency
<1>b. totalLatency \in Nat /\ untimed \in Nat /\ untimed <= jobCount /\ jobCount \in Nat
  BY DEF AverageInv
<1>c. k \in Nat /\ l \in Nat
  BY SMT, AdmissionAssumption
<1>3. k \in Nat /\ l \in Nat /\ n \in Nat /\ totalLatency \in Nat /\ untimed \in Nat
      /\ untimed > 0 /\ untimed' = untimed - 1 /\ jobCount - untimed' = n + 1
      /\ untimed <= jobCount /\ jobCount \in Nat
  BY SMT, <1>a, <1>b, <1>c
<1>4. m \in Latencies \cup {0} /\ m \in Nat /\ k <= m /\ l <= m
  BY SMT, <1>3
<1> HIDE DEF n, m
<1>5. l * n <= m * n
  <2>1. PICK d \in Nat : m = l + d
    BY SMT, <1>3, <1>4, m - l \in Nat
  <2>2. m * n = l * n + d * n /\ d * n \in Nat /\ l * n \in Nat
    BY SMT, <1>3, <2>1
  <2> QED BY SMT, <2>2
<1>6. m * (n + 1) = m * n + m /\ m * n \in Nat /\ l * n \in Nat
  BY SMT, <1>3, <1>4
<1>7. totalLatency' <= m * (n + 1)
  BY SMT, <1>1, <1>2, <1>3, <1>4, <1>5, <1>6 DEF n
<1> QED BY SMT, <1>1, <1>3, <1>4, <1>7

\* The reading that the governor holds.
LEMMA GovernorBounded ==
  ASSUME AverageInv, NEW c \in Callers, StoreReading(c)
  PROVE  lastReading' = [k \in Kinds |-> lastReading'[k]] /\ Bounded(lastReading'["governor"])
<1> DEFINE kind == Regulators[call[c].turn]
<1>1. lastReading' = [lastReading EXCEPT ![kind] = Used(kind, call[c].reading)]
  BY DEF StoreReading
<1>2. lastReading = [k \in Kinds |-> lastReading[k]] /\ Bounded(lastReading["governor"])
  BY DEF AverageInv
<1>3. Bounded(Used("governor", call[c].reading))
  <2> DEFINE r == [None EXCEPT !.depth = 0, !.util = call[c].reading.util]
  <2>1. Used("governor", call[c].reading) = r
    BY DEF Used
  <2>2. r.avg = 0
    BY DEF None
  <2> HIDE DEF r
  <2> QED BY SMT, <2>1, <2>2 DEF Bounded
<1> HIDE DEF kind
<1>4. lastReading'["governor"] = IF kind = "governor" THEN Used("governor", call[c].reading)
                                 ELSE lastReading["governor"]
  BY <1>1, <1>2 DEF Kinds
<1>5. lastReading' = [k \in Kinds |-> lastReading'[k]]
  BY <1>1, <1>2
<1> QED BY <1>2, <1>3, <1>4, <1>5

LEMMA AverageInit == AInit => AverageInv
<1> SUFFICES ASSUME AInit PROVE AverageInv
  OBVIOUS
<1>1. Bounded(None)
  BY SMT DEF Bounded, None
<1>2. Idle.reading = None
  BY DEF Idle, Stand
<1>3. \A c \in Callers : Bounded(call[c].reading)
  BY <1>1, <1>2 DEF AInit
<1>4. \E l \in Latencies \cup {0} : totalLatency <= l * (jobCount - untimed)
  BY SMT DEF AInit
<1> QED BY SMT, <1>1, <1>3, <1>4 DEF AInit, AverageInv, Kinds

LEMMA AverageStep == Calls /\ AverageInv /\ [ANext]_avars => AverageInv'
<1> SUFFICES ASSUME Calls, AverageInv, [ANext]_avars PROVE AverageInv'
  OBVIOUS
<1> DEFINE counts == <<jobCount, totalLatency, untimed>>
<1>q. ASSUME UNCHANGED counts, UNCHANGED lastReading, ReadingsKept PROVE AverageInv'
  BY <1>q, KeptBounded DEF AverageInv
<1>1. CASE UNCHANGED avars
  BY <1>1 DEF avars, metrics, gauges, AverageInv
<1>2. CASE ATick \/ StartJob
  BY <1>2 DEF ATick, StartJob, metrics, gauges, AverageInv
<1>3. CASE CountOutcome
  <2>1. jobCount' = jobCount + 1 /\ untimed' = untimed + 1
        /\ UNCHANGED <<totalLatency, lastReading, call>>
    BY <1>3 DEF CountOutcome, gauges
  <2>2. jobCount' - untimed' = jobCount - untimed
    BY SMT, <2>1 DEF AverageInv
  <2> QED BY SMT, <2>1, <2>2 DEF AverageInv
<1>4. CASE AddLatency
  <2>1. UNCHANGED <<jobCount, lastReading, call>>
    BY <1>4 DEF AddLatency, gauges
  <2> QED BY <1>4, <2>1, LatencyAdded DEF AverageInv
<1>5. CASE RenormalizeAll
  <2>1. UNCHANGED counts /\ UNCHANGED lastReading
    BY <1>5 DEF RenormalizeAll, metrics, gauges, TickerFires, RenormalizeLimiter,
                RenormalizeBalancer, RenormalizePressure, LoadPressure, Bleed,
                RenormalizeGovernor, ElectRenormalize
  <2> QED BY <1>q, <1>5, <2>1, RenormalizeKept
<1>6. ASSUME NEW c \in Callers, Observe(c) PROVE AverageInv'
  <2>1. UNCHANGED counts
    BY <1>6 DEF Observe, metrics, ObserveNothing, StoreReading, ApplyPressure,
                ApplyUtilization, TrySample, SwapSample, SampleMemory
  <2>2. CASE StoreReading(c)
    <3>1. \A d \in Callers : Bounded(call'[d].reading)
      BY <1>6, ObserveKept, KeptBounded
    <3> QED BY <2>1, <2>2, <3>1, GovernorBounded DEF AverageInv
  <2>3. CASE ~StoreReading(c)
    <3>1. UNCHANGED lastReading
      BY <1>6, <2>3 DEF Observe, gauges, ObserveNothing, ApplyPressure,
                  ApplyUtilization, TrySample, SwapSample, SampleMemory
    <3> QED BY <1>q, <1>6, <2>1, <3>1, ObserveKept
  <2> QED BY <2>2, <2>3
<1>7. ASSUME NEW c \in Callers, RefillTokens(c) PROVE AverageInv'
  <2>1. UNCHANGED counts /\ UNCHANGED lastReading
    BY <1>7 DEF RefillTokens, metrics, gauges
  <2>2. CASE Turn(c, "renormalize", Idle)
    BY <1>q, <2>1, <2>2, ScalerTurns, BecomesKept
  <2>3. CASE UNCHANGED call
    BY <2>1, <2>3 DEF AverageInv
  <2> QED BY <1>7, <2>2, <2>3 DEF RefillTokens
<1>8. ASSUME NEW s \in Schedulers, Schedule(s) \/ Ask(s) PROVE AverageInv'
  <2>1. UNCHANGED counts /\ UNCHANGED lastReading
    BY <1>8 DEF Schedule, Ask, metrics, gauges, AskRegulator, AskLimiter, TakeToken, Reject,
                Enqueue
  <2> QED BY <1>q, <1>8, <2>1, AskKept
<1>9. ASSUME NEW s \in Schedulers, CollectReading(s) PROVE AverageInv'
  <2>1. UNCHANGED counts /\ UNCHANGED lastReading
    BY <1>9 DEF CollectReading, metrics, gauges
  <2> QED BY <1>9, <2>1, CollectBounded DEF AverageInv
<1> QED BY <1>1, <1>2, <1>3, <1>4, <1>5, <1>6, <1>7, <1>8, <1>9 DEF ANext

\* A reading taken while no job is counted averages to no more than some latency
\* recorded, whatever outcomes are half recorded (CollectReading, RecordJobOutcome).
THEOREM AverageNeverExceeds == ASpec => []AverageBounded
<1>1. SampleInv => Calls
  BY DEF SampleInv
<1>2. AverageInv => AverageBounded
  BY DEF AverageInv, AverageBounded, Bounded
<1> QED BY <1>1, <1>2, SampleInit, SampleStep, AverageInit, AverageStep, PTL DEF ASpec
-----------------------------------------------------------------------------
(* Schedule is judged by its own reading *)

Observing == {"observe", "apply", "trySample", "swapSample", "sample"}
Sampling == {"trySample", "swapSample", "sample"}
Judging == {"limit", "refill"}

\* The gauges g of regulator k are the ones that r leads to.
Applied(k, r, g) ==
  /\ k = "balancer" => g[1]["balancer"] = Used("balancer", r)
  /\ k = "pressure" => g[2] = Pressure(r)
  /\ k = "governor" /\ r.util > 0 => g[3] = r.util

\* Where a call of Schedule may stand, whatever others have written.
Stands(at, t, r) ==
  /\ t \in 1..Len(Regulators)
  /\ at \in {"idle", "collect", "admitted", "rejected"} \cup Observing \cup Judging
  /\ at \notin {"idle", "collect"} => r.depth \in Nat
  /\ at = "refill" => Regulators[t] = "limiter"

\* What an undisturbed call has achieved: the regulators it has shown its reading
\* still reflect it, and those it has asked did not object to it.
Own(at, t, r, g) ==
  /\ at \in Observing => \A i \in 1..(t - 1) : Applied(Regulators[i], r, g)
  /\ at \in Sampling => Applied(Regulators[t], r, g)
  /\ at \in Judging => /\ \A i \in 1..Len(Regulators) : Applied(Regulators[i], r, g)
                       /\ \A i \in 1..(t - 1) : ~Over(Regulators[i], r)
  /\ at = "admitted" => \A i \in 1..Len(Regulators) : ~Over(Regulators[i], r)
  /\ (at = "rejected" /\ Regulators[t] \in {"balancer", "pressure"}) => Over(Regulators[t], r)

\* A scheduler that is inside the limiter stands there, as a caller of Limit.
InLimiter == \A s \in Schedulers : pc[s] # "idle" => call[s].at = "refill" /\ s \in limits

JudgeInv ==
  /\ config \in Configs /\ depth \in Nat
  /\ lastReading = [k \in Kinds |-> lastReading[k]]
  /\ InLimiter
  /\ \A s \in Schedulers : Stands(call[s].at, call[s].turn, call[s].reading)
  /\ \A s \in Schedulers \ disturbed : Own(call[s].at, call[s].turn, call[s].reading, gauges)

\* The regulators are a nonempty sequence of the four.
LEMMA RegulatorsKnown ==
  ASSUME config \in Configs
  PROVE  /\ Len(Regulators) \in Nat \ {0}
         /\ \A i \in 1..Len(Regulators) : Regulators[i] \in Kinds \cup {"limiter"}
<1>1. Regulators \in Seq({"limiter", "balancer", "pressure", "governor"}) /\ Regulators # <<>>
  BY AdmissionAssumption DEF Regulators
<1> HIDE DEF Regulators
<1> QED BY SMT, <1>1 DEF Kinds

\* A regulator whose gauges reflect a reading objects when the reading does.
LEMMA LimitsOver ==
  ASSUME NEW k \in Kinds, NEW r, r.depth \in Nat, Applied(k, r, gauges)
  PROVE  /\ ~Limits(k) => ~Over(k, r)
         /\ k \in {"balancer", "pressure"} /\ Limits(k) => Over(k, r)
<1>1. CASE k = "balancer"
  <2> DEFINE b == [None EXCEPT !.depth = r.depth]
  <2>1. lastReading["balancer"] = b
    BY <1>1 DEF Applied, gauges, Used
  <2>2. b.depth = r.depth /\ None.depth = -1
    BY DEF None
  <2> HIDE DEF b
  <2>3. b # None /\ r # None
    BY SMT, <2>2
  <2>4. Limits(k) <=> Saturated(b)
    BY <1>1, <2>1 DEF Limits
  <2>5. Over(k, r) <=> Saturated(r)
    BY <1>1 DEF Over
  <2> QED BY <2>2, <2>3, <2>4, <2>5 DEF Saturated
<1>2. CASE k = "pressure"
  BY <1>2 DEF Applied, gauges, Limits, Over
<1>3. CASE k = "governor"
  BY <1>3 DEF Applied, gauges, Limits, Over
<1> QED BY <1>1, <1>2, <1>3 DEF Kinds

\* The return from Observe: one more regulator reflects the reading.
LEMMA ObservedOwn ==
  ASSUME config \in Configs, NEW t \in 1..Len(Regulators), NEW r, NEW g, r.depth \in Nat,
         \A i \in 1..(t - 1) : Applied(Regulators[i], r, g), Applied(Regulators[t], r, g)
  PROVE  IF t < Len(Regulators)
           THEN Own("observe", t + 1, r, g) /\ Stands("observe", t + 1, r)
           ELSE Own("limit", 1, r, g) /\ Stands("limit", 1, r)
<1>1. Len(Regulators) \in Nat \ {0}
  BY RegulatorsKnown
<1>2. \A i \in 1..t : Applied(Regulators[i], r, g)
  BY SMT
<1>3. CASE t < Len(Regulators)
  <2>1. t + 1 \in 1..Len(Regulators) /\ (t + 1) - 1 = t
    BY SMT, <1>1, <1>3
  <2> QED BY <1>2, <1>3, <2>1 DEF Own, Stands, Observing, Sampling, Judging
<1>4. CASE ~(t < Len(Regulators))
  <2>1. t = Len(Regulators) /\ 1 \in 1..Len(Regulators) /\ 1..(1 - 1) = {}
    BY SMT, <1>1, <1>4
  <2> QED BY <1>2, <1>4, <2>1 DEF Own, Stands, Observing, Sampling, Judging
<1> QED BY <1>3, <1>4

\* The return from Limit: one more regulator has been asked.
LEMMA VerdictOwn ==
  ASSUME config \in Configs, NEW t \in 1..Len(Regulators), NEW r, NEW g, NEW at \in Judging,
         Own(at, t, r, g), Stands(at, t, r), ~Over(Regulators[t], r)
  PROVE  IF t < Len(Regulators)
           THEN Own("limit", t + 1, r, g) /\ Stands("limit", t + 1, r)
           ELSE Own("admitted", t, r, g) /\ Stands("admitted", t, r)
<1>1. Len(Regulators) \in Nat \ {0}
  BY RegulatorsKnown
<1>2. /\ \A i \in 1..Len(Regulators) : Applied(Regulators[i], r, g)
      /\ \A i \in 1..t : ~Over(Regulators[i], r)
      /\ r.depth \in Nat
  BY SMT DEF Own, Stands, Judging
<1>3. CASE t < Len(Regulators)
  <2>1. t + 1 \in 1..Len(Regulators) /\ (t + 1) - 1 = t
    BY SMT, <1>1, <1>3
  <2> QED BY <1>2, <1>3, <2>1 DEF Own, Stands, Observing, Sampling, Judging
<1>4. CASE ~(t < Len(Regulators))
  <2>1. t = Len(Regulators)
    BY SMT, <1>1, <1>4
  <2> QED BY <1>2, <1>4, <2>1 DEF Own, Stands, Observing, Sampling, Judging
<1> QED BY <1>3, <1>4
\* The steps that write to no regulator: what c does not do does not matter, and
\* what c comes to must hold of it.
LEMMA JudgeQuiet ==
  ASSUME JudgeInv, NEW c \in Callers, NEW at, NEW t, NEW r, Becomes(c, at, t, r),
         UNCHANGED <<config, lastReading, pressure, cpu>>, depth' \in Nat, InLimiter',
         disturbed' \in {disturbed, disturbed \ {c}},
         c \in Schedulers => Stands(at, t, r),
         c \in Schedulers \ disturbed' => Own(at, t, r, gauges)
  PROVE  JudgeInv'
<1>1. gauges' = gauges /\ Regulators' = Regulators
  BY DEF gauges, Regulators
<1>2. \A s \in Schedulers :
        Stands(call[s].at, call[s].turn, call[s].reading)' <=>
          IF s = c THEN Stands(at, t, r) ELSE Stands(call[s].at, call[s].turn, call[s].reading)
  BY <1>1 DEF Becomes, Stands, Schedulers
<1>3. ASSUME NEW s \in Schedulers \ disturbed'
      PROVE  Own(call[s].at, call[s].turn, call[s].reading, gauges)'
  <2>1. CASE s = c
    BY <1>1, <2>1 DEF Becomes, Own
  <2>2. CASE s # c
    <3>1. call'[s] = call[s] /\ s \notin disturbed
      BY <2>2 DEF Becomes, Schedulers
    <3>2. Own(call[s].at, call[s].turn, call[s].reading, gauges)
      BY <3>1 DEF JudgeInv
    <3> QED BY <1>1, <3>1, <3>2 DEF Own
  <2> QED BY <2>1, <2>2
<1> QED BY <1>2, <1>3 DEF JudgeInv

\* The steps that do: every other call in its midst is disturbed from then on.
LEMMA JudgeWrites ==
  ASSUME JudgeInv, NEW c \in Callers, NEW at, NEW t, NEW r, Becomes(c, at, t, r),
         UNCHANGED <<config, depth>>, InLimiter', Disturb(c),
         lastReading' = [k \in Kinds |-> lastReading'[k]],
         c \in Schedulers => Stands(at, t, r),
         c \in Schedulers \ disturbed => Own(at, t, r, gauges')
  PROVE  JudgeInv'
<1>1. Regulators' = Regulators
  BY DEF Regulators
<1>2. \A s \in Schedulers :
        Stands(call[s].at, call[s].turn, call[s].reading)' <=>
          IF s = c THEN Stands(at, t, r) ELSE Stands(call[s].at, call[s].turn, call[s].reading)
  BY <1>1 DEF Becomes, Stands, Schedulers
<1>3. ASSUME NEW s \in Schedulers \ disturbed'
      PROVE  Own(call[s].at, call[s].turn, call[s].reading, gauges)'
  <2>1. s \notin disturbed /\ s \notin InMidst(c)
    BY DEF Disturb
  <2>2. CASE s = c
    BY <1>1, <2>1, <2>2 DEF Becomes, Own
  <2>3. CASE s # c
    <3>1. call[s].at \in {"idle", "collect", "admitted", "rejected"}
      BY <2>1, <2>3 DEF InMidst
    <3>2. call'[s] = call[s]
      BY <2>3 DEF Becomes, Schedulers
    <3>3. Own(call[s].at, call[s].turn, call[s].reading, gauges)
      BY <2>1 DEF JudgeInv
    <3> QED BY <1>1, <3>1, <3>2, <3>3 DEF Own, Observing, Sampling, Judging
  <2> QED BY <2>2, <2>3
<1> QED BY <1>2, <1>3 DEF JudgeInv

\* A step outside the limiter.
LEMMA LimiterRests ==
  ASSUME InLimiter, NEW c \in Callers, NEW at, NEW t, NEW r, Becomes(c, at, t, r),
         c \in Schedulers => call[c].at # "refill", UNCHANGED <<pc, limits>>
  PROVE  InLimiter'
BY DEF InLimiter, Becomes, Schedulers

\* What a scheduler in Observe knows.
LEMMA InObserve ==
  ASSUME JudgeInv, NEW s \in Schedulers, call[s].at \in Observing
  PROVE  /\ call[s].turn \in 1..Len(Regulators) /\ call[s].reading.depth \in Nat
         /\ Regulators[call[s].turn] \in Kinds \cup {"limiter"}
         /\ s \notin disturbed =>
              /\ \A i \in 1..(call[s].turn - 1) :
                   Applied(Regulators[i], call[s].reading, gauges)
              /\ call[s].at \in Sampling =>
                   Applied(Regulators[call[s].turn], call[s].reading, gauges)
<1>1. Stands(call[s].at, call[s].turn, call[s].reading)
  BY DEF JudgeInv
<1>2. call[s].turn \in 1..Len(Regulators) /\ call[s].reading.depth \in Nat
  BY <1>1 DEF Stands, Observing
<1>3. Regulators[call[s].turn] \in Kinds \cup {"limiter"}
  BY <1>2, RegulatorsKnown DEF JudgeInv
<1>4. s \notin disturbed => Own(call[s].at, call[s].turn, call[s].reading, gauges)
  BY DEF JudgeInv
<1> QED BY <1>2, <1>3, <1>4 DEF Own
LEMMA ObserveJudged ==
  ASSUME Calls, JudgeInv, NEW s \in Schedulers, Observe(s), UNCHANGED config
  PROVE  JudgeInv'
<1> DEFINE t == call[s].turn
           r == call[s].reading
<1>0. s \in Callers /\ config \in Configs /\ InLimiter
  BY DEF Schedulers, JudgeInv
<1>1. call[s].at \in Observing
  BY DEF Observe, Observing, ObserveNothing, StoreReading, ApplyPressure, ApplyUtilization,
         TrySample, SwapSample, SampleMemory, At
<1>2. UNCHANGED <<pc, limits, depth>> /\ call[s].at # "refill"
  BY <1>1 DEF Observe, Observing, vars, metrics, ObserveNothing, StoreReading, ApplyPressure,
         ApplyUtilization, TrySample, SwapSample, SampleMemory
<1>3. /\ t \in 1..Len(Regulators) /\ r.depth \in Nat
      /\ Regulators[t] \in Kinds \cup {"limiter"}
      /\ s \notin disturbed =>
           /\ \A i \in 1..(t - 1) : Applied(Regulators[i], r, gauges)
           /\ call[s].at \in Sampling => Applied(Regulators[t], r, gauges)
  BY <1>1, InObserve
<1> HIDE DEF t, r
<1>4. depth' \in Nat
  BY <1>2 DEF JudgeInv
\* The next turn, with the regulators up to this one reflecting the reading.
<1>5. ASSUME Observed(s), s \notin disturbed =>
               \A i \in 1..t : Applied(Regulators[i], r, gauges')
      PROVE  \E at, u : /\ Becomes(s, at, u, r) /\ Stands(at, u, r) /\ InLimiter'
                        /\ s \notin disturbed => Own(at, u, r, gauges')
  <2>0. s \notin disturbed => IF t < Len(Regulators) THEN Own("observe", t + 1, r, gauges')
                             ELSE Own("limit", 1, r, gauges')
    <3> SUFFICES ASSUME s \notin disturbed
                 PROVE  IF t < Len(Regulators) THEN Own("observe", t + 1, r, gauges')
                        ELSE Own("limit", 1, r, gauges')
      OBVIOUS
    <3>1. /\ \A i \in 1..(t - 1) : Applied(Regulators[i], r, gauges')
          /\ Applied(Regulators[t], r, gauges')
      BY SMT, <1>3, <1>5
    <3> QED BY <1>0, <1>3, <3>1, ObservedOwn
  <2>1. CASE t < Len(Regulators)
    <3>1. Becomes(s, "observe", t + 1, r)
      BY <1>5, <2>1, ObservedBecomes DEF t, r
    <3>2. InLimiter'
      BY <1>0, <1>2, <3>1, LimiterRests
    <3>3. s \notin disturbed => Own("observe", t + 1, r, gauges')
      BY <2>0, <2>1
    <3>4. t + 1 \in 1..Len(Regulators)
      BY SMT, <1>0, <1>3, <2>1, RegulatorsKnown
    <3>5. Stands("observe", t + 1, r)
      BY <1>3, <3>4 DEF Stands, Observing
    <3> QED BY <3>1, <3>2, <3>3, <3>5
  <2>2. CASE ~(t < Len(Regulators))
    <3>1. Becomes(s, "limit", 1, r)
      BY <1>5, <2>2, ObservedBecomes DEF t, r
    <3>2. InLimiter'
      BY <1>0, <1>2, <3>1, LimiterRests
    <3>3. s \notin disturbed => Own("limit", 1, r, gauges')
      BY <2>0, <2>2
    <3>4. Stands("limit", 1, r)
      BY SMT, <1>0, <1>3, <2>2, RegulatorsKnown DEF Stands, Judging
    <3> QED BY <3>1, <3>2, <3>3, <3>4
  <2> QED BY <2>1, <2>2
\* Steps that only load, or write what is no gauge.
<1>6. CASE ObserveNothing(s) \/ TrySample(s) \/ SwapSample(s) \/ SampleMemory(s)
  <2>1. UNCHANGED <<lastReading, pressure, cpu, disturbed>> /\ gauges' = gauges
    BY <1>6 DEF ObserveNothing, TrySample, SwapSample, SampleMemory, gauges, t, r
  <2>0. s \notin disturbed => Applied(Regulators[t], r, gauges)
    BY <1>3, <1>6 DEF ObserveNothing, TrySample, SwapSample, SampleMemory, At, Sampling,
                      Applied, t, r
  <2>2. s \notin disturbed => \A i \in 1..t : Applied(Regulators[i], r, gauges)
    BY SMT, <1>3, <2>0
  <2>3. CASE Observed(s)
    BY <1>0, <1>4, <1>5, <2>1, <2>2, <2>3, JudgeQuiet
  <2>4. CASE ~Observed(s)
    <3>1. PICK at \in {"swapSample", "sample"} : Becomes(s, at, t, r)
      BY <1>0, <1>6, <2>4, HoldBecomes, GotoBecomes
      DEF ObserveNothing, TrySample, SwapSample, SampleMemory, t, r
    <3>2. InLimiter'
      BY <1>0, <1>2, <3>1, LimiterRests
    <3>3. Stands(at, t, r) /\ (s \notin disturbed => Own(at, t, r, gauges))
      BY SMT, <1>3, <2>2 DEF Stands, Own, Observing, Sampling, Judging
    <3> QED BY <1>0, <1>4, <2>1, <3>1, <3>2, <3>3, JudgeQuiet
  <2> QED BY <2>3, <2>4
<1>7. CASE StoreReading(s)
  <2> DEFINE k == Regulators[t]
  <2>1. /\ k # "limiter" /\ UNCHANGED <<pressure, cpu>> /\ Disturb(s)
        /\ lastReading' = [lastReading EXCEPT ![k] = Used(k, r)]
        /\ call[s].at = "observe"
    BY <1>7 DEF StoreReading, t, r
  <2>2. lastReading = [q \in Kinds |-> lastReading[q]] /\ k \in Kinds
    BY <1>3, <2>1 DEF JudgeInv
  <2>3. /\ lastReading' = [q \in Kinds |-> lastReading'[q]]
        /\ \A q \in Kinds : lastReading'[q] = IF q = k THEN Used(k, r) ELSE lastReading[q]
    BY <2>1, <2>2
  <2>4. \A q : Applied(q, r, gauges) => Applied(q, r, gauges')
    BY <2>1, <2>3 DEF Applied, gauges, Kinds
  <2>5. CASE k = "balancer"
    <3>1. Applied(k, r, gauges')
      BY <2>3, <2>5 DEF Applied, gauges, Kinds
    <3>2. s \notin disturbed => \A i \in 1..t : Applied(Regulators[i], r, gauges')
      BY SMT, <1>3, <2>4, <3>1
    <3>3. Observed(s)
      BY <1>7, <2>5 DEF StoreReading, t, r
    <3> QED BY <1>0, <1>2, <1>5, <2>1, <2>3, <3>2, <3>3, JudgeWrites
  <2>6. CASE k # "balancer"
    <3>1. Becomes(s, "apply", t, r)
      BY <1>0, <1>7, <2>6, GotoBecomes DEF StoreReading, t, r
    <3>2. InLimiter'
      BY <1>0, <1>2, <3>1, LimiterRests
    <3>3. Stands("apply", t, r) /\ (s \notin disturbed => Own("apply", t, r, gauges'))
      BY <1>3, <2>4 DEF Stands, Own, Observing, Sampling, Judging
    <3> QED BY <1>0, <1>2, <2>1, <2>3, <3>1, <3>2, <3>3, JudgeWrites
  <2> QED BY <2>5, <2>6
<1>8. CASE ApplyPressure(s)
  <2>1. /\ Regulators[t] = "pressure" /\ UNCHANGED <<lastReading, cpu>> /\ Disturb(s)
        /\ pressure' = Pressure(r) /\ Observed(s)
    BY <1>8 DEF ApplyPressure, At, t, r
  <2>2. Applied(Regulators[t], r, gauges')
        /\ \A q : Applied(q, r, gauges) => Applied(q, r, gauges')
    BY <2>1 DEF Applied, gauges
  <2>3. s \notin disturbed => \A i \in 1..t : Applied(Regulators[i], r, gauges')
    BY SMT, <1>3, <2>2
  <2>4. lastReading' = [q \in Kinds |-> lastReading'[q]]
    BY <2>1 DEF JudgeInv
  <2> QED BY <1>0, <1>2, <1>5, <2>1, <2>3, <2>4, JudgeWrites
<1>9. CASE ApplyUtilization(s)
  <2>1. /\ Regulators[t] = "governor" /\ UNCHANGED <<lastReading, pressure>> /\ Disturb(s)
        /\ cpu' = IF r.util > 0 THEN r.util ELSE cpu
        /\ Hold(s, "trySample", 0, now + 1)
    BY <1>9 DEF ApplyUtilization, At, t, r
  <2>2. Applied(Regulators[t], r, gauges')
        /\ \A q : Applied(q, r, gauges) => Applied(q, r, gauges')
    BY <2>1 DEF Applied, gauges
  <2>3. Becomes(s, "trySample", t, r)
    BY <1>0, <2>1, HoldBecomes DEF t, r
  <2>4. InLimiter'
    BY <1>0, <1>2, <2>3, LimiterRests
  <2>5. lastReading' = [q \in Kinds |-> lastReading'[q]]
    BY <2>1 DEF JudgeInv
  <2>6. Stands("trySample", t, r) /\ (s \notin disturbed => Own("trySample", t, r, gauges'))
    BY <1>3, <2>2 DEF Stands, Own, Observing, Sampling, Judging
  <2> QED BY <1>0, <1>2, <2>1, <2>3, <2>4, <2>5, <2>6, JudgeWrites
<1> QED BY <1>6, <1>7, <1>8, <1>9 DEF Observe
\* The scaler, which is judged by nobody.
LEMMA ScalerJudged ==
  ASSUME Calls, JudgeInv, RenormalizeAll \/ Observe(Scaler), UNCHANGED config,
         pc \in [Callers -> {"idle", "claim", "add", "take"}]
  PROVE  JudgeInv'
<1>0. Scaler \in Callers /\ Scaler \notin Schedulers
  BY AdmissionAssumption DEF Schedulers
<1>1. PICK at, t, r : Becomes(Scaler, at, t, r)
  <2>1. CASE \E last : Turn(Scaler, "renormalize", last)
    BY <1>0, <2>1, TurnBecomes
  <2>2. CASE \E label : Goto(Scaler, label)
    BY <1>0, <2>2, GotoBecomes
  <2>3. CASE \E label, local, clock : Hold(Scaler, label, local, clock)
    BY <1>0, <2>3, HoldBecomes
  <2>4. CASE \E label, turn, reading :
               call' = [call EXCEPT ![Scaler] = Stand(label, turn, reading)]
    BY <1>0, <2>4, StandBecomes
  <2>5. CASE Observe(Scaler)
    BY <2>1, <2>2, <2>3, <2>5 DEF Observe, Observed, ObserveNothing, StoreReading,
       ApplyPressure, ApplyUtilization, TrySample, SwapSample, SampleMemory
  <2>6. CASE RenormalizeAll
    BY <2>1, <2>2, <2>3, <2>4, <2>6 DEF RenormalizeAll, TickerFires, RenormalizeLimiter,
       RenormalizeBalancer, RenormalizePressure, LoadPressure, Bleed, RenormalizeGovernor,
       ElectRenormalize
  <2> QED BY <2>5, <2>6
<1>2. InLimiter'
  <2>1. CASE RenormalizeLimiter
    <3>1. pc' = [pc EXCEPT ![Scaler] = "claim"] /\ limits' = limits \ {Scaler}
      BY <2>1 DEF RenormalizeLimiter, Renormalize, Call
    <3> QED BY <1>0, <1>1, <3>1 DEF JudgeInv, InLimiter, Becomes, Schedulers
  <2>2. CASE ~RenormalizeLimiter
    <3>1. UNCHANGED <<pc, limits>>
      BY <2>2 DEF vars, RenormalizeAll, TickerFires, RenormalizeBalancer,
         RenormalizePressure, LoadPressure, Bleed, RenormalizeGovernor, ElectRenormalize,
         Observe, ObserveNothing, StoreReading, ApplyPressure, ApplyUtilization, TrySample,
         SwapSample, SampleMemory
    <3> QED BY <1>0, <1>1, <3>1, LimiterRests DEF JudgeInv
  <2> QED BY <2>1, <2>2
<1>3. UNCHANGED depth /\ depth' \in Nat
  BY DEF metrics, RenormalizeAll, TickerFires, RenormalizeLimiter, RenormalizeBalancer,
     RenormalizePressure, LoadPressure, Bleed, RenormalizeGovernor, ElectRenormalize,
     Observe, ObserveNothing, StoreReading, ApplyPressure, ApplyUtilization, TrySample,
     SwapSample, SampleMemory, JudgeInv
<1>4. CASE Bleed \/ ApplyPressure(Scaler) \/ ApplyUtilization(Scaler)
  <2>1. Disturb(Scaler) /\ UNCHANGED lastReading
    BY <1>4 DEF Bleed, ApplyPressure, ApplyUtilization
  <2>2. lastReading' = [q \in Kinds |-> lastReading'[q]]
    BY <2>1 DEF JudgeInv
  <2> QED BY <1>0, <1>1, <1>2, <1>3, <2>1, <2>2, JudgeWrites
<1>5. CASE StoreReading(Scaler)
  <2>1. Disturb(Scaler)
        /\ \E k, u : lastReading' = [lastReading EXCEPT ![k] = u]
    BY <1>5 DEF StoreReading
  <2>2. lastReading' = [q \in Kinds |-> lastReading'[q]]
    BY <2>1 DEF JudgeInv
  <2> QED BY <1>0, <1>1, <1>2, <1>3, <2>1, <2>2, JudgeWrites
<1>6. CASE /\ ~Bleed /\ ~ApplyPressure(Scaler) /\ ~ApplyUtilization(Scaler)
           /\ ~StoreReading(Scaler)
  <2>1. UNCHANGED <<lastReading, pressure, cpu, disturbed>>
    BY <1>6 DEF gauges, RenormalizeAll, TickerFires, RenormalizeLimiter,
       RenormalizeBalancer, RenormalizePressure, LoadPressure, RenormalizeGovernor,
       ElectRenormalize, Observe, ObserveNothing, TrySample, SwapSample, SampleMemory
  <2> QED BY <1>0, <1>1, <1>2, <1>3, <2>1, JudgeQuiet
<1> QED BY <1>4, <1>5, <1>6

\* refillTokens: a scheduler goes on to take a token, the scaler to its next turn.
LEMMA RefillJudged ==
  ASSUME Calls, JudgeInv, NEW c \in Callers, RefillTokens(c), UNCHANGED config,
         pc \in [Callers -> {"idle", "claim", "add", "take"}]
  PROVE  JudgeInv'
<1>1. /\ pc[c] \in {"claim", "add"} /\ limits' = limits
      /\ \E l \in {"add", Refilled(c)} : pc' = [pc EXCEPT ![c] = l]
  BY DEF RefillTokens, Claim, Add
<1>2. UNCHANGED <<lastReading, pressure, cpu, depth, disturbed>>
  BY DEF RefillTokens, gauges, metrics
<1>3. CASE c \in Schedulers
  <2>1. c \in limits /\ call[c].at = "refill"
    BY <1>1, <1>3 DEF JudgeInv, InLimiter
  <2>2. pc'[c] \in {"add", "take"}
    BY <1>1, <2>1 DEF Refilled
  <2>3. UNCHANGED call
    BY <2>2 DEF RefillTokens
  <2>4. InLimiter'
    BY <1>1, <2>1, <2>3 DEF JudgeInv, InLimiter, Schedulers
  <2>5. gauges' = gauges /\ Regulators' = Regulators
    BY <1>2 DEF gauges, Regulators
  <2>6. \A s \in Schedulers : Stands(call[s].at, call[s].turn, call[s].reading)'
    BY <2>3, <2>5 DEF JudgeInv, Stands
  <2>7. \A s \in Schedulers \ disturbed :
          Own(call[s].at, call[s].turn, call[s].reading, gauges)'
    BY <2>3, <2>5 DEF JudgeInv, Own
  <2> QED BY <1>2, <2>4, <2>6, <2>7 DEF JudgeInv
<1>4. CASE c \notin Schedulers
  <2>1. \A s \in Schedulers : pc'[s] = pc[s]
    BY <1>1, <1>4 DEF Schedulers
  <2>2. CASE Turn(c, "renormalize", Idle)
    <3>1. PICK at, t, r : Becomes(c, at, t, r)
      BY <2>2, TurnBecomes
    <3>2. InLimiter'
      BY <1>1, <1>4, <2>1, <3>1 DEF JudgeInv, InLimiter, Becomes, Schedulers
    <3>3. depth' \in Nat
      BY <1>2 DEF JudgeInv
    <3> QED BY <1>2, <1>4, <3>1, <3>2, <3>3, JudgeQuiet
  <2>3. CASE UNCHANGED call
    <3>1. Becomes(c, call[c].at, call[c].turn, call[c].reading)
      BY <2>3 DEF Becomes
    <3>2. InLimiter'
      BY <1>1, <2>1, <2>3 DEF JudgeInv, InLimiter
    <3>3. depth' \in Nat
      BY <1>2 DEF JudgeInv
    <3> QED BY <1>2, <1>4, <3>1, <3>2, <3>3, JudgeQuiet
  <2> QED BY <2>2, <2>3 DEF RefillTokens
<1> QED BY <1>3, <1>4
\* Schedule's own steps outside Observe.
LEMMA ScheduleJudged ==
  ASSUME Calls, JudgeInv, NEW s \in Schedulers, Schedule(s) \/ CollectReading(s) \/ Ask(s),
         UNCHANGED config, pc \in [Callers -> {"idle", "claim", "add", "take"}]
  PROVE  JudgeInv'
<1> DEFINE t == call[s].turn
           r == call[s].reading
<1>0. /\ s \in Callers /\ config \in Configs /\ InLimiter /\ depth \in Nat
      /\ Stands(call[s].at, t, r)
      /\ s \notin disturbed => Own(call[s].at, t, r, gauges)
  BY DEF Schedulers, JudgeInv
<1> HIDE DEF t, r
<1>1. t \in 1..Len(Regulators) /\ Regulators[t] \in Kinds \cup {"limiter"}
      /\ Len(Regulators) \in Nat \ {0}
  BY <1>0, RegulatorsKnown DEF Stands
<1>2. UNCHANGED <<lastReading, pressure, cpu>>
  BY DEF Schedule, CollectReading, Ask, gauges, AskRegulator, AskLimiter, TakeToken, Reject,
         Enqueue
<1>3. CASE Schedule(s)
  <2>1. call[s].at = "idle" /\ UNCHANGED <<pc, limits, depth, disturbed>>
        /\ Hold(s, "collect", jobCount, 0)
    BY <1>3 DEF Schedule, vars, metrics
  <2>2. Becomes(s, "collect", t, r)
    BY <1>0, <2>1, HoldBecomes DEF t, r
  <2>3. Stands("collect", t, r) /\ Own("collect", t, r, gauges)
    BY <1>1 DEF Stands, Own, Observing, Sampling, Judging
  <2>4. InLimiter'
    BY <1>0, <2>1, <2>2, LimiterRests
  <2> QED BY <1>0, <1>2, <2>1, <2>2, <2>3, <2>4, JudgeQuiet
<1>4. CASE CollectReading(s)
  <2> DEFINE jc == call[s].local
             avg == IF jc > 0 THEN totalLatency \div jc ELSE 0
  <2>1. PICK u : call' = [call EXCEPT ![s] = Stand("observe", 1,
                   [depth |-> depth, avg |-> avg, util |-> u, whole |-> jc = jobCount])]
    BY <1>4 DEF CollectReading
  <2> DEFINE q == [depth |-> depth, avg |-> avg, util |-> u, whole |-> jc = jobCount]
  <2>2. call[s].at = "collect" /\ UNCHANGED <<pc, limits, depth, disturbed>>
    BY <1>4 DEF CollectReading, vars, metrics
  <2>3. Becomes(s, "observe", 1, q)
    BY <1>0, <2>1, StandBecomes
  <2>4. q.depth \in Nat
    BY <1>0
  <2> HIDE DEF q
  <2>5. 1 \in 1..Len(Regulators) /\ 1..(1 - 1) = {}
    BY SMT, <1>1
  <2>6. Stands("observe", 1, q) /\ Own("observe", 1, q, gauges)
    BY <2>4, <2>5 DEF Stands, Own, Observing, Sampling, Judging
  <2>7. InLimiter'
    BY <1>0, <2>2, <2>3, LimiterRests
  <2> QED BY <1>0, <1>2, <2>2, <2>3, <2>6, <2>7, JudgeQuiet
<1>5. CASE AskRegulator(s)
  <2> DEFINE k == Regulators[t]
  <2>1. /\ call[s].at = "limit" /\ k # "limiter" /\ Verdict(s, Limits(k))
        /\ UNCHANGED <<pc, limits, depth, disturbed>>
    BY <1>5 DEF AskRegulator, vars, metrics, t, r
  <2>2. r.depth \in Nat /\ k \in Kinds
    BY <1>0, <1>1, <2>1 DEF Stands
  <2>3. ASSUME s \notin disturbed
        PROVE  /\ ~Limits(k) => ~Over(k, r)
               /\ k \in {"balancer", "pressure"} /\ Limits(k) => Over(k, r)
    <3>1. Applied(k, r, gauges)
      BY <1>0, <1>1, <2>1, <2>3 DEF Own, Judging
    <3> HIDE DEF k
    <3> QED BY <2>2, <3>1, LimitsOver
  <2>4. CASE Limits(k)
    <3>1. Becomes(s, "rejected", t, r)
      BY <1>0, <2>1, <2>4, VerdictBecomes DEF t, r
    <3>2. Stands("rejected", t, r) /\ (s \notin disturbed => Own("rejected", t, r, gauges))
      BY <1>1, <2>2, <2>3, <2>4 DEF Stands, Own, Observing, Sampling, Judging
    <3>3. InLimiter'
      BY <1>0, <2>1, <3>1, LimiterRests
    <3> QED BY <1>0, <1>2, <2>1, <3>1, <3>2, <3>3, JudgeQuiet
  <2>5. CASE ~Limits(k)
    <3>0. Verdict(s, FALSE)
      BY <2>1, <2>5 DEF Verdict
    <3>1. PICK at \in {"limit", "admitted"}, u \in {t, t + 1} :
            /\ Becomes(s, at, u, r)
            /\ IF t < Len(Regulators) THEN at = "limit" /\ u = t + 1 ELSE at = "admitted" /\ u = t
      BY <1>0, <3>0, VerdictBecomes DEF t, r
    <3>2. u \in 1..Len(Regulators)
      BY SMT, <1>1, <3>1
    <3>3. Stands(at, u, r)
      BY <2>2, <3>2 DEF Stands, Observing, Judging
    <3>4. s \notin disturbed => Own(at, u, r, gauges)
      <4> SUFFICES ASSUME s \notin disturbed PROVE Own(at, u, r, gauges)
        OBVIOUS
      <4>1. ~Over(Regulators[t], r) /\ Own("limit", t, r, gauges) /\ Stands("limit", t, r)
            /\ "limit" \in Judging
        BY <1>0, <2>1, <2>3, <2>5 DEF Judging
      <4>2. IF t < Len(Regulators) THEN Own("limit", t + 1, r, gauges)
            ELSE Own("admitted", t, r, gauges)
        BY <1>0, <1>1, <4>1, VerdictOwn
      <4> QED BY <3>1, <4>2
    <3>5. InLimiter'
      BY <1>0, <2>1, <3>1, LimiterRests
    <3> QED BY <1>0, <1>2, <2>1, <3>1, <3>3, <3>4, <3>5, JudgeQuiet
  <2> QED BY <2>4, <2>5
<1>6. CASE AskLimiter(s)
  <2>1. /\ call[s].at = "limit" /\ Regulators[t] = "limiter" /\ Goto(s, "refill")
        /\ UNCHANGED <<depth, disturbed>>
        /\ pc' = [pc EXCEPT ![s] = "claim"] /\ limits' = limits \cup {s}
    BY <1>6 DEF AskLimiter, At, Limit, Call, metrics, t, r
  <2>2. Becomes(s, "refill", t, r)
    BY <1>0, <2>1, GotoBecomes DEF t, r
  <2>3. Stands("refill", t, r) /\ (s \notin disturbed => Own("refill", t, r, gauges))
    BY <1>0, <2>1 DEF Stands, Own, Observing, Sampling, Judging
  <2>4. InLimiter'
    BY <1>0, <2>1, <2>2 DEF InLimiter, Becomes, Schedulers
  <2> QED BY <1>0, <1>2, <2>1, <2>2, <2>3, <2>4, JudgeQuiet
<1>7. CASE TakeToken(s)
  <2>1. /\ pc[s] = "take" /\ Verdict(s, tokens <= 0) /\ UNCHANGED <<limits, depth, disturbed>>
        /\ pc' = [pc EXCEPT ![s] = "idle"]
    BY <1>7 DEF TakeToken, Take, metrics
  <2>2. call[s].at = "refill"
    BY <1>0, <2>1 DEF InLimiter
  <2>3. Regulators[t] = "limiter" /\ r.depth \in Nat
    BY <1>0, <2>2 DEF Stands
  <2>4. ~Over(Regulators[t], r)
    BY <2>3 DEF Over
  <2>5. ASSUME NEW at, NEW u, Becomes(s, at, u, r) PROVE InLimiter'
    BY <1>0, <2>1, <2>5 DEF InLimiter, Becomes, Schedulers
  <2>6. CASE tokens <= 0
    <3>1. Becomes(s, "rejected", t, r)
      BY <1>0, <2>1, <2>6, VerdictBecomes DEF t, r
    <3>2. Stands("rejected", t, r) /\ Own("rejected", t, r, gauges)
      BY <1>1, <2>3 DEF Stands, Own, Observing, Sampling, Judging
    <3> QED BY <1>0, <1>2, <2>1, <2>5, <3>1, <3>2, JudgeQuiet
  <2>7. CASE ~(tokens <= 0)
    <3>0. Verdict(s, FALSE)
      BY <2>1, <2>7 DEF Verdict
    <3>1. PICK at \in {"limit", "admitted"}, u \in {t, t + 1} :
            /\ Becomes(s, at, u, r)
            /\ IF t < Len(Regulators) THEN at = "limit" /\ u = t + 1 ELSE at = "admitted" /\ u = t
      BY <1>0, <3>0, VerdictBecomes DEF t, r
    <3>2. u \in 1..Len(Regulators)
      BY SMT, <1>1, <3>1
    <3>3. Stands(at, u, r)
      BY <2>3, <3>2 DEF Stands, Observing, Judging
    <3>4. s \notin disturbed => Own(at, u, r, gauges)
      <4> SUFFICES ASSUME s \notin disturbed PROVE Own(at, u, r, gauges)
        OBVIOUS
      <4>1. Own("refill", t, r, gauges) /\ Stands("refill", t, r) /\ "refill" \in Judging
        BY <1>0, <2>2 DEF Judging
      <4>2. IF t < Len(Regulators) THEN Own("limit", t + 1, r, gauges)
            ELSE Own("admitted", t, r, gauges)
        BY <1>0, <1>1, <2>4, <4>1, VerdictOwn
      <4> QED BY <3>1, <4>2
    <3> QED BY <1>0, <1>2, <2>1, <2>5, <3>1, <3>3, <3>4, JudgeQuiet
  <2> QED BY <2>6, <2>7
<1>8. CASE Reject(s) \/ Enqueue(s)
  <2>1. /\ call[s].at \in {"rejected", "admitted"} /\ UNCHANGED <<pc, limits>>
        /\ disturbed' = disturbed \ {s} /\ call' = [call EXCEPT ![s] = Stand("idle", 1, None)]
    BY <1>8 DEF Reject, Enqueue, vars, Idle
  <2>2. depth' \in Nat
    BY SMT, <1>0, <1>8 DEF Reject, Enqueue, metrics
  <2>3. Becomes(s, "idle", 1, None)
    BY <1>0, <2>1, StandBecomes
  <2>4. Stands("idle", 1, None) /\ Own("idle", 1, None, gauges)
    BY SMT, <1>1 DEF Stands, Own, Observing, Sampling, Judging
  <2>5. InLimiter'
    BY <1>0, <2>1, <2>3, LimiterRests
  <2> QED BY <1>0, <1>2, <2>1, <2>2, <2>3, <2>4, <2>5, JudgeQuiet
<1> QED BY <1>3, <1>4, <1>5, <1>6, <1>7, <1>8 DEF Ask

LEMMA JudgeInit == AInit => JudgeInv
<1> SUFFICES ASSUME AInit PROVE JudgeInv
  OBVIOUS
<1>1. config \in Configs /\ depth \in Nat /\ lastReading = [k \in Kinds |-> lastReading[k]]
  BY DEF AInit, Kinds
<1>2. \A s \in Schedulers : call[s] = Idle /\ pc[s] = "idle"
  BY DEF AInit, Init, Schedulers
<1>3. Idle.at = "idle" /\ Idle.turn = 1
  BY DEF Idle, Stand
<1>4. 1 \in 1..Len(Regulators)
  BY SMT, <1>1, RegulatorsKnown
<1> QED BY <1>1, <1>2, <1>3, <1>4 DEF JudgeInv, InLimiter, Stands, Own, Observing, Sampling,
                                      Judging

LEMMA JudgeStep == Calls /\ TypeOK /\ JudgeInv /\ [ANext]_avars => JudgeInv'
<1> SUFFICES ASSUME Calls, TypeOK, JudgeInv, [ANext]_avars PROVE JudgeInv'
  OBVIOUS
<1>0. pc \in [Callers -> {"idle", "claim", "add", "take"}]
  BY DEF TypeOK
<1>1. CASE UNCHANGED <<config, gauges, pc, limits, call, disturbed>> /\ depth' \in Nat
  <2>1. gauges' = gauges /\ Regulators' = Regulators /\ lastReading' = lastReading
    BY <1>1 DEF gauges, Regulators
  <2>2. InLimiter'
    BY <1>1 DEF JudgeInv, InLimiter
  <2>3. \A s \in Schedulers : Stands(call[s].at, call[s].turn, call[s].reading)'
    BY <1>1, <2>1 DEF JudgeInv, Stands
  <2>4. \A s \in Schedulers \ disturbed :
          Own(call[s].at, call[s].turn, call[s].reading, gauges)'
    BY <1>1, <2>1 DEF JudgeInv, Own
  <2> QED BY <1>1, <2>1, <2>2, <2>3, <2>4 DEF JudgeInv
<1>2. CASE UNCHANGED avars
  BY <1>1, <1>2 DEF avars, vars, metrics, JudgeInv
<1>3. CASE UNCHANGED config /\ (ATick \/ StartJob \/ CountOutcome \/ AddLatency)
  <2>1. UNCHANGED <<config, gauges, pc, limits, call, disturbed>>
    BY <1>3 DEF ATick, Tick, StartJob, CountOutcome, AddLatency, vars
  <2>2. depth' \in Nat
    BY SMT, <1>3 DEF ATick, StartJob, CountOutcome, AddLatency, metrics, JudgeInv
  <2> QED BY <1>1, <2>1, <2>2
<1>4. CASE UNCHANGED config /\ \E c \in Callers : Observe(c)
  BY <1>0, <1>4, ScalerJudged, ObserveJudged DEF Schedulers
<1> QED BY <1>0, <1>2, <1>3, <1>4, ScalerJudged, RefillJudged, ScheduleJudged DEF ANext

\* A Schedule that nobody disturbs is judged by its own reading, in every
\* configuration and order of the regulators (Schedule, Observe and Limit).
THEOREM OwnReadingDecides == ASpec => []JudgedByOwnReading
<1>1. SampleInv => Calls
  BY DEF SampleInv
<1>2. LimiterInv => TypeOK
  BY DEF LimiterInv
<1>3. AInit => LimiterInv
  BY LimiterInit DEF AInit
<1>4. LimiterInv /\ [ANext]_avars => LimiterInv'
  BY LimiterStep, LimiterStepOrNone
<1>5. JudgeInv => JudgedByOwnReading
  BY DEF JudgeInv, Own, JudgedByOwnReading, Configured
<1> QED BY <1>1, <1>2, <1>3, <1>4, <1>5, SampleInit, SampleStep, JudgeInit, JudgeStep, PTL
        DEF ASpec
==============================================================================
