------------------------------ MODULE Admission ------------------------------
(***************************************************************************)
(* Admission of a job: Schedule (pool.go) takes a reading of the metrics,  *)
(* shows it to every regulator and then asks each whether to reject, while *)
(* other calls do the same, the scaler's ticker renormalizes the           *)
(* regulators, and workers record the jobs they finish.  The regulators    *)
(* are the rate limiter (module RateLimiter), the load balancer, the back  *)
(* pressure and the resource governor.                                     *)
(*                                                                         *)
(* One action per access of the shared state, except that the loads of     *)
(* governor.Limit, and those of a reading after jobCount, are one action.  *)
(* Pressure is exact, in units of 1/Unit; the code's is a float64.         *)
(***************************************************************************)
EXTENDS RateLimiter, Sequences

CONSTANTS
  Scaler,         \* the caller that is the scaler's ticker; the others Schedule
  Configs,        \* the configurations considered, see below
  WorkerCount, PerWorkerCapacity, MaxQueueSize, TargetProcessTime, CheckInterval,
  MaxCPU,         \* the governor's threshold
  Latencies       \* what RecordJobOutcome may be given

ASSUME AdmissionAssumption ==
  /\ Scaler \in Callers
  /\ \A g \in Configs :
       /\ g.regulators \in Seq({"limiter", "balancer", "pressure", "governor"}) \ {<<>>}
       /\ g.utilizations \subseteq Nat /\ g.maxJobs \in Nat /\ g.maxTime \in 0..MaxTime
  /\ {WorkerCount, MaxQueueSize, TargetProcessTime, CheckInterval} \subseteq Nat \ {0}
  /\ {PerWorkerCapacity, MaxCPU} \cup Latencies \subseteq Nat

Schedulers == Callers \ {Scaler}

VARIABLES
  config,    \* never changes: the regulators, the utilizations that readings may
             \* have, and bounds on the jobs queued and on the clock
  depth, jobCount, totalLatency,    \* the metrics a reading is made of
  running,   \* jobs that a worker has taken, or whose dependencies failed, not yet counted
  untimed,   \* jobs counted, their latency not yet added
  lastReading,    \* per regulator: the reading it holds, or None
  pressure, cpu,  \* gauges of the back pressure and of the governor
  memory,         \* is the governor's gauge of memory over its threshold?
  lastMemSample, lastRenormalize,
  call,      \* per caller: where it stands and what it holds
  disturbed, \* history: calls in the midst of which another wrote to a regulator
  samples    \* history: memory samples started

metrics == <<depth, jobCount, totalLatency, running, untimed>>
gauges  == <<lastReading, pressure, cpu>>
sampled == <<memory, lastMemSample, samples>>
avars   == <<vars, config, metrics, gauges, sampled, lastRenormalize, call, disturbed>>

Regulators == config.regulators

\* whole (history): no job was counted while the reading was taken.
None == [depth |-> -1, avg |-> 0, util |-> 0, whole |-> TRUE]

\* at: the next access; turn: the regulator; local: the value loaded last;
\* clock: the time read for the governor.
Stand(at, turn, reading) ==
  [at |-> at, turn |-> turn, reading |-> reading, local |-> 0, clock |-> 0]

Idle == Stand("idle", 1, None)

AInit ==
  /\ Init
  /\ config \in Configs
  /\ depth = 0 /\ jobCount = 0 /\ totalLatency = 0 /\ running = 0 /\ untimed = 0
  /\ lastReading = [r \in {"balancer", "pressure", "governor"} |-> None]
  /\ pressure = 0 /\ cpu = 0 /\ memory = FALSE
  /\ lastMemSample = 0 /\ lastRenormalize = 0 /\ samples = 0
  /\ call = [c \in Callers |-> Idle]
  /\ disturbed = {}

ATick ==
  /\ now < config.maxTime
  /\ Tick
  /\ UNCHANGED <<metrics, gauges, sampled, lastRenormalize, call, disturbed>>

At(c, label, kind) == call[c].at = label /\ Regulators[call[c].turn] = kind

Goto(c, label) == call' = [call EXCEPT ![c].at = label]

\* The same with a value just loaded and a time.
Hold(c, label, local, clock) ==
  call' = [call EXCEPT ![c] = [at |-> label, turn |-> call[c].turn,
             reading |-> call[c].reading, local |-> local, clock |-> clock]]

\* On to the next regulator of the loop that c is in, or past the loop.
Turn(c, loop, last) ==
  LET old == call[c] IN
  call' = [call EXCEPT ![c] =
    IF old.turn < Len(Regulators) THEN Stand(loop, old.turn + 1, old.reading)
    ELSE last]

\* The return from Observe, called by Schedule or by the governor's Renormalize.
Observed(c) ==
  IF c = Scaler THEN Turn(c, "renormalize", Idle)
  ELSE Turn(c, "observe", Stand("limit", 1, call[c].reading))

\* The return from Limit.
Verdict(c, rejects) ==
  IF rejects THEN Goto(c, "rejected")
  ELSE Turn(c, "limit", [call[c] EXCEPT !.at = "admitted"])

\* The calls that have taken a reading and not yet a verdict, c itself apart.
InMidst(c) == {s \in Schedulers \ {c} :
                 call[s].at \notin {"idle", "collect", "admitted", "rejected"}}

Disturb(c) == disturbed' = disturbed \cup InMidst(c)

-----------------------------------------------------------------------------
(* Metrics *)

\* CollectReading loads jobCount first ...
Schedule(s) ==
  /\ s \in Schedulers
  /\ call[s].at = "idle"
  /\ Hold(s, "collect", jobCount, 0)
  /\ UNCHANGED <<vars, metrics, gauges, sampled, lastRenormalize, disturbed>>

\* ... and totalLatency, jobQueueDepth and the utilization after it.
CollectReading(s) ==
  /\ call[s].at = "collect"
  /\ LET jc == call[s].local IN
     \E u \in config.utilizations :
       call' = [call EXCEPT ![s] = Stand("observe", 1,
         [depth |-> depth,
          avg   |-> IF jc > 0 THEN totalLatency \div jc ELSE 0,
          util  |-> u,
          whole |-> jc = jobCount])]
  /\ UNCHANGED <<vars, metrics, gauges, sampled, lastRenormalize, disturbed>>

\* A worker's handler takes a job from the queue.
StartJob ==
  /\ depth > 0
  /\ depth' = depth - 1
  /\ running' = running + 1
  /\ UNCHANGED <<vars, jobCount, totalLatency, untimed,
                 gauges, sampled, lastRenormalize, call, disturbed>>

\* Faulty variant: a job that failed is timed and not counted.
CountSuccessOnly ==
  /\ running > 0
  /\ running' = running - 1
  /\ jobCount' \in {jobCount, jobCount + 1}
  /\ untimed' = untimed + 1
  /\ UNCHANGED <<vars, depth, totalLatency, gauges, sampled, lastRenormalize, call, disturbed>>

\* RecordJobOutcome counts the job ...
CountOutcome ==
  /\ running > 0
  /\ running' = running - 1
  /\ jobCount' = jobCount + 1
  /\ untimed' = untimed + 1
  /\ UNCHANGED <<vars, depth, totalLatency, gauges, sampled, lastRenormalize, call, disturbed>>

\* ... and then adds its latency.
AddLatency ==
  /\ untimed > 0
  /\ untimed' = untimed - 1
  /\ \E l \in Latencies : totalLatency' = totalLatency + l
  /\ UNCHANGED <<vars, depth, jobCount, running, gauges, sampled, lastRenormalize,
                 call, disturbed>>

-----------------------------------------------------------------------------
(* Observe *)

Unit == 10 * MaxQueueSize * TargetProcessTime

\* 0.6 of the queue's share and 0.4 of the latency's, at most 1.
Pressure(r) ==
  LET p == 6 * r.depth * TargetProcessTime + 4 * r.avg * MaxQueueSize
  IN  IF p > Unit THEN Unit ELSE p

\* The rate limiter ignores readings.
ObserveNothing(s) ==
  /\ At(s, "observe", "limiter")
  /\ Observed(s)
  /\ UNCHANGED <<vars, metrics, gauges, sampled, lastRenormalize, disturbed>>

\* The fields of a reading that the regulator uses.
Used(kind, r) ==
  CASE kind = "balancer" -> [None EXCEPT !.depth = r.depth]
    [] kind = "pressure" -> [None EXCEPT !.depth = r.depth, !.avg = r.avg]
    [] kind = "governor" -> [None EXCEPT !.depth = 0, !.util = r.util]

\* The others begin by storing the reading; the load balancer does no more.
StoreReading(c) ==
  /\ call[c].at = "observe"
  /\ LET kind == Regulators[call[c].turn] IN
     /\ kind # "limiter"
     /\ lastReading' = [lastReading EXCEPT ![kind] = Used(kind, call[c].reading)]
     /\ IF kind = "balancer" THEN Observed(c) ELSE Goto(c, "apply")
  /\ Disturb(c)
  /\ UNCHANGED <<vars, metrics, pressure, cpu, sampled, lastRenormalize>>

\* Faulty variant: averages with the pressure that was.
ApplyPressureSmoothed(s) ==
  /\ At(s, "apply", "pressure")
  /\ pressure' = (pressure + Pressure(call[s].reading)) \div 2
  /\ Observed(s)
  /\ Disturb(s)
  /\ UNCHANGED <<vars, metrics, lastReading, cpu, sampled, lastRenormalize>>

ApplyPressure(s) ==
  /\ At(s, "apply", "pressure")
  /\ pressure' = Pressure(call[s].reading)
  /\ Observed(s)
  /\ Disturb(s)
  /\ UNCHANGED <<vars, metrics, lastReading, cpu, sampled, lastRenormalize>>

\* The governor keeps its gauge when the reading has no utilization.  It then
\* reads the clock, in which 0 stands for never.
ApplyUtilization(c) ==
  /\ At(c, "apply", "governor")
  /\ cpu' = IF call[c].reading.util > 0 THEN call[c].reading.util ELSE cpu
  /\ Hold(c, "trySample", 0, now + 1)
  /\ Disturb(c)
  /\ UNCHANGED <<vars, metrics, lastReading, pressure, sampled, lastRenormalize>>

Recent(c, last) == last # 0 /\ call[c].clock - last < CheckInterval

\* tryStartMemorySample: the load ...
TrySample(c) ==
  /\ call[c].at = "trySample"
  /\ IF Recent(c, lastMemSample) THEN Observed(c)
     ELSE Hold(c, "swapSample", lastMemSample, call[c].clock)
  /\ UNCHANGED <<vars, metrics, gauges, sampled, lastRenormalize, disturbed>>

\* Faulty variant: a store where the code compares and swaps.
SwapSampleStore(c) ==
  /\ call[c].at = "swapSample"
  /\ lastMemSample' = call[c].clock
  /\ samples' = samples + 1
  /\ Goto(c, "sample")
  /\ UNCHANGED <<vars, metrics, gauges, memory, lastRenormalize, disturbed>>

\* ... and the compare-and-swap.
SwapSample(c) ==
  /\ call[c].at = "swapSample"
  /\ IF lastMemSample = call[c].local
       THEN /\ lastMemSample' = call[c].clock
            /\ samples' = samples + 1
            /\ Goto(c, "sample")
       ELSE Observed(c) /\ UNCHANGED <<lastMemSample, samples>>
  /\ UNCHANGED <<vars, metrics, gauges, memory, lastRenormalize, disturbed>>

\* ReadMemStats finds the memory over the threshold, or not.
SampleMemory(c) ==
  /\ call[c].at = "sample"
  /\ memory' \in BOOLEAN
  /\ Observed(c)
  /\ UNCHANGED <<vars, metrics, gauges, lastMemSample, samples, lastRenormalize, disturbed>>

-----------------------------------------------------------------------------
(* Limit *)

Saturated(r) == r # None /\ r.depth >= PerWorkerCapacity * WorkerCount

Limits(kind) ==
  CASE kind = "balancer" -> Saturated(lastReading["balancer"])
    [] kind = "pressure" -> 10 * pressure >= 8 * Unit
    [] kind = "governor" -> cpu >= MaxCPU \/ memory

AskRegulator(s) ==
  /\ call[s].at = "limit"
  /\ LET kind == Regulators[call[s].turn] IN
     kind # "limiter" /\ Verdict(s, Limits(kind))
  /\ UNCHANGED <<vars, metrics, gauges, sampled, lastRenormalize, disturbed>>

AskLimiter(s) ==
  /\ At(s, "limit", "limiter")
  /\ Limit(s)
  /\ Goto(s, "refill")
  /\ UNCHANGED <<metrics, gauges, sampled, lastRenormalize, disturbed>>

\* refillTokens; Limit goes on to take a token, Renormalize returns.
RefillTokens(c) ==
  /\ Claim(c) \/ Add(c)
  /\ IF pc'[c] = "idle" THEN Turn(c, "renormalize", Idle) ELSE UNCHANGED call
  /\ UNCHANGED <<metrics, gauges, sampled, lastRenormalize, disturbed>>

TakeToken(s) ==
  /\ Take(s)
  /\ Verdict(s, tokens <= 0)
  /\ UNCHANGED <<metrics, gauges, sampled, lastRenormalize, disturbed>>

\* Schedule returns an error.
Reject(s) ==
  /\ call[s].at = "rejected"
  /\ call' = [call EXCEPT ![s] = Idle]
  /\ disturbed' = disturbed \ {s}
  /\ UNCHANGED <<vars, metrics, gauges, sampled, lastRenormalize>>

\* The rest of Schedule: the job enters the queue, unless the circuit breaker, a
\* closed pool or the scheduling timeout prevents it; or its dependencies fail, and
\* it is recorded without having been queued.
Enqueue(s) ==
  /\ call[s].at = "admitted"
  /\ \/ UNCHANGED <<depth, running>>
     \/ /\ depth + running + jobCount < config.maxJobs
        /\ \/ depth' = depth + 1 /\ UNCHANGED running
           \/ running' = running + 1 /\ UNCHANGED depth
  /\ call' = [call EXCEPT ![s] = Idle]
  /\ disturbed' = disturbed \ {s}
  /\ UNCHANGED <<vars, jobCount, totalLatency, untimed, gauges, sampled, lastRenormalize>>

-----------------------------------------------------------------------------
(* The scaler's ticker: Renormalize of every regulator *)

TickerFires ==
  /\ call[Scaler].at = "idle"
  /\ Goto(Scaler, "renormalize")
  /\ UNCHANGED <<vars, metrics, gauges, sampled, lastRenormalize, disturbed>>

RenormalizeLimiter ==
  /\ At(Scaler, "renormalize", "limiter")
  /\ Renormalize(Scaler)
  /\ Goto(Scaler, "refill")
  /\ UNCHANGED <<metrics, gauges, sampled, lastRenormalize, disturbed>>

RenormalizeBalancer ==
  /\ At(Scaler, "renormalize", "balancer")
  /\ Turn(Scaler, "renormalize", Idle)
  /\ UNCHANGED <<vars, metrics, gauges, sampled, lastRenormalize, disturbed>>

Healthy(r) ==
  r # None /\ r.depth < MaxQueueSize \div 2 /\ r.avg < TargetProcessTime

RenormalizePressure ==
  /\ At(Scaler, "renormalize", "pressure")
  /\ IF Healthy(lastReading["pressure"]) THEN Goto(Scaler, "loadPressure")
     ELSE Turn(Scaler, "renormalize", Idle)
  /\ UNCHANGED <<vars, metrics, gauges, sampled, lastRenormalize, disturbed>>

LoadPressure ==
  /\ call[Scaler].at = "loadPressure"
  /\ Hold(Scaler, "bleed", pressure, 0)
  /\ UNCHANGED <<vars, metrics, gauges, sampled, lastRenormalize, disturbed>>

\* A plain store: it undoes an Observe made since the load.
Bleed ==
  /\ call[Scaler].at = "bleed"
  /\ pressure' = LET p == call[Scaler].local - Unit \div 10 IN IF p < 0 THEN 0 ELSE p
  /\ Turn(Scaler, "renormalize", Idle)
  /\ Disturb(Scaler)
  /\ UNCHANGED <<vars, metrics, lastReading, cpu, sampled, lastRenormalize>>

\* The governor loads its last reading ...
RenormalizeGovernor ==
  /\ At(Scaler, "renormalize", "governor")
  /\ IF lastReading["governor"] = None THEN Turn(Scaler, "renormalize", Idle)
     ELSE call' = [call EXCEPT ![Scaler] =
                     Stand("elect", @.turn, lastReading["governor"])]
  /\ UNCHANGED <<vars, metrics, gauges, sampled, lastRenormalize, disturbed>>

\* ... and observes it anew, once per interval.  Nobody else writes
\* lastRenormalize, so that its compare-and-swap succeeds.
ElectRenormalize ==
  /\ call[Scaler].at = "elect"
  /\ IF lastRenormalize # 0 /\ now + 1 - lastRenormalize < CheckInterval
       THEN Turn(Scaler, "renormalize", Idle) /\ UNCHANGED lastRenormalize
       ELSE Goto(Scaler, "observe") /\ lastRenormalize' = now + 1
  /\ UNCHANGED <<vars, metrics, gauges, sampled, disturbed>>
-----------------------------------------------------------------------------

Observe(c) ==
  \/ ObserveNothing(c) \/ StoreReading(c) \/ ApplyPressure(c) \/ ApplyUtilization(c)
  \/ TrySample(c) \/ SwapSample(c) \/ SampleMemory(c)

RenormalizeAll ==
  \/ TickerFires \/ RenormalizeLimiter \/ RenormalizeBalancer \/ RenormalizePressure
  \/ LoadPressure \/ Bleed \/ RenormalizeGovernor \/ ElectRenormalize

Ask(s) == AskRegulator(s) \/ AskLimiter(s) \/ TakeToken(s) \/ Reject(s) \/ Enqueue(s)

ANext ==
  /\ UNCHANGED config
  /\ \/ ATick \/ StartJob \/ CountOutcome \/ AddLatency \/ RenormalizeAll
     \/ \E c \in Callers : Observe(c) \/ RefillTokens(c)
     \/ \E s \in Schedulers : Schedule(s) \/ CollectReading(s) \/ Ask(s)

ASpec == AInit /\ [][ANext]_avars
-----------------------------------------------------------------------------
(* Properties *)

Configured == {Regulators[i] : i \in 1..Len(Regulators)}

\* What a reading alone says.
Over(kind, r) ==
  CASE kind = "balancer" -> Saturated(r)
    [] kind = "pressure" -> 10 * Pressure(r) >= 8 * Unit
    [] kind = "governor" -> r.util > 0 /\ r.util >= MaxCPU
    [] kind = "limiter"  -> FALSE

\* A Schedule in the midst of which nobody else wrote to a regulator is judged by
\* its own reading: it is admitted only if no regulator objects to that reading,
\* and the load balancer or the back pressure rejects it only if it does.
JudgedByOwnReading ==
  \A s \in Schedulers \ disturbed :
    /\ call[s].at = "admitted" => \A k \in Configured : ~Over(k, call[s].reading)
    /\ (call[s].at = "rejected" /\ Regulators[call[s].turn] \in {"balancer", "pressure"})
         => Over(Regulators[call[s].turn], call[s].reading)

\* "ReadMemStats runs at most once per interval" (resourcegovernor.go): whatever old
\* clock readings Observe and Renormalize come with, no more samples are started
\* than intervals have begun.
SampledOncePerInterval == (samples - 1) * CheckInterval <= now

\* The average of a reading exceeds every latency recorded only if jobs were counted
\* between the loads of jobCount and of totalLatency: RecordJobOutcome counts a job
\* before it adds its latency.
AverageBounded ==
  \A c \in Callers :
    call[c].reading.whole => \E l \in Latencies \cup {0} : call[c].reading.avg <= l
==============================================================================
