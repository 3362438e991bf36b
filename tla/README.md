# A TLA+ verification of qpool

qpool is a worker pool for Go whose parts coordinate almost entirely through
`sync/atomic`: lock-free lists, rings, counters and semaphores. The hard
questions about it are interleavings, and this project asks them: each module
models one part, one action per atomic access where the interleaving matters;
TLC checks it on small instances, and TLAPS proves the central facts for every
value of the constants. Paths below are relative to `src/`.

## The system

| Part | Code | What it does |
|---|---|---|
| Result slot and handle | `result_wait.go` | one-shot cell with a lock-free list of parked goroutines |
| Job queue | `disruptor_queue.go`, `disruptor_wait.go`, `ring_buffer.go` | ring over go-disruptor; every handler sees every sequence, a CAS decides who runs it |
| QSpace, registry | `qspace.go`, `registry.go`, `intrusive_list.go` | results by id, with TTL, waiters and dependency edges |
| Circuit breaker, cache | `circuitbreaker.go`, `circuitbreaker_cache.go` | rejects jobs of a failing circuit; bounded cache of breakers |
| Broadcast | `broadcastgroup.go`, `consumer.go`, `spsc_ring.go` | publish to subscribers, each with a ring and a parked goroutine |
| Pool | `pool.go`, `lifecycle.go`, `waitgroup.go` | `Schedule`, `Close`, worker tokens |
| Dependencies | `dependency.go` | waits for the results of other jobs, with retries |
| Job execution | `worker.go`, `retry.go` | runs a job's function with retries, stores its result |
| Scaler, metrics | `scaler.go`, `metrics.go` | moves the number of active workers with the load |
| Regulators | `ratelimiter.go`, `loadbalancer.go`, `backpressure.go`, `resourcegovernor.go` | a token bucket; three that reject when a reading of the metrics passes a threshold |
| Fast path | `fastpath.go`, `lib_runtime_linkage.go`, `asm_*.s` | an executor beside the queue: a lock-free stack of workers parked through runtime internals |
| Configuration, encoding, logging | `config.go`, `job.go`, `artifact_frame.go`, `logging.go`, ... | data |

`Schedule` asks the regulators and the job's breaker, then publishes the job to
the queue, or, if it has dependencies, starts a goroutine that first waits for
their results in QSpace. It returns a handle: the slot QSpace keeps under the
job's id. A handler of the queue takes the job, runs it, tells the breaker and
the metrics, and stores the result, which wakes whoever waits on the handle.
`Close` cancels the context, drains the queue, waits for the dependency
goroutines and closes QSpace, which releases the handles still pending.
The scaler is called from every `Schedule`, and from a ticker that also renormalizes
the regulators.

`PROJECT.json` lists the parts with what is modelled of each, the hazards with
the line where they bite, and the source lines of every definition.

## The modules

All modules treat `sync/atomic` as sequentially consistent, which the Go memory
model promises. A load/CAS retry loop whose failed iterations write nothing
shared is one step, its successful CAS. Modules with a scheduler-visible
position per goroutine keep it in `pc` (or `hpc`, `cpc`, ...). `Faulty variant`
definitions are plausible bugs; none of them is part of a specification. They
are there to show that a property fails when the code it is about is changed. Those of
`NoSlotRace` and `DrainedOnClose` change what the queue relies on in go-disruptor: the
plain fields of a slot are safe, and Close drains, because of the ring's gating.

**ResultSlot** (`result_wait.go`). `state`, `value`, `head`/`next` and the
nodes' semaphores are the slot's fields. `Get` to `RemoveUnlink` are the steps of
`Wait`, `parkForWait` and `removeWaiter`; `StoreValue`, `MarkReady`, `Close` and
the three wake steps those of `Deliver`, `Close` and `wakeWaiters`;
`ContextHook` is the callback of `context.AfterFunc`.

**JobQueue** (`disruptor_queue.go`), which implements **WorkPool**. `Offer`,
`CheckOpen`, `Reserve`, `FillSlot`, `Commit` are `publish`; `Decide`, `Look`,
`Assign`, `StartJob`, `IncBusyWorker`, `FinishJob` are `Handle`, `assignedWorker` and
`handleJob`. go-disruptor is external: `HasRoom`, `TakeBatch`, `HandlerExit` and
`CloseDisruptor` say what the queue relies on (no sequence is reserved while the slowest handler is a lap
behind; batches are consecutive committed sequences; a handler leaves after
Close when nothing is left for it). `WorkPool` is what callers see: a job is
rejected or accepted, and an accepted one runs once, on one idle worker. The
refinement mapping reads `status` and `running` off the publishers' and handlers'
positions.

**QSpace** (`qspace.go`, `registry.go`, `intrusive_list.go`). `getOrCreate`, list
removal, `Await`, `Store`/`StoreError`, the maintenance loop and `Close`, for one
key in a shard of its own. `Deliver` and `Close` of a slot are one step, since
ResultSlot has their inside. `split` and `last` are history variables.

**DependencyGraph** (`registry.go`, `qspace.go`). The edge lists between the
entries of several keys: `addRelationship` with the walk of `wouldCreateCircle`, one
visited key per step, `registerDependent`, and what `cleanup` does to the edges of
an expired key. An entry has an incarnation, so that a caller may hold one that has
been removed. Finding and creating an entry is one step, since QSpace has its inside.

**CircuitBreaker** (`circuitbreaker.go`). Every atomic access of `Allow`,
`tryOpenToHalfOpen`, `acquireHalfOpenSlot`, `RecordSuccess`, `RecordFailure` and
`transitionToOpen`, over a clock. A job in `Unreported` is one that `Schedule`
may give up after `Allow`.

**BreakerCache** (`circuitbreaker_cache.go`). Calls of `getOrCreate`, with every
access of the list by `findNode`, `promote`, `detach` and `evictTail`.

**RateLimiter** (`ratelimiter.go`). `Claim` advances `lastRefill`, `Add` credits
the tokens, `Take` is the rest of `Limit`; the clock reading a refill uses may be
stale.

**Admission** (`pool.go`, `metrics.go`, `scaler.go`, `loadbalancer.go`,
`backpressure.go`, `resourcegovernor.go`), which extends RateLimiter. A call of
`Schedule` loads a reading of the metrics (`Schedule`, `CollectReading`), shows it to
each regulator (`Observe` and its steps) and asks each (`Ask`), while workers take
and record jobs, and the scaler's ticker renormalizes (`RenormalizeAll`). The list of regulators is part
of `config`, chosen at the start and never changed. Pressure is counted in
units of 1/`Unit`, which makes the sum of its two shares exact. What a job reports
as latency is any of `Latencies`. `disturbed` is a history variable: the calls in the
midst of which somebody else has written to a regulator.

**SpscRing** (`spsc_ring.go`). Every atomic access of `Push` and `Pop`, for any
number of producers and poppers. Even the intended use has several poppers: a
producer that drops the oldest value pops too. `Uses` lists how a ring may be
made (`dropOldestOnFull`) and shared; a behaviour starts by choosing one.

**Consumer** (`consumer.go`). `Wait`, `park` and `wake` with `wantWake` and the
runtime semaphore. The ring is its length.

**BroadcastGroup** (`broadcastgroup.go`), which extends Consumer: the subscriber `Me`
in a group whose other subscribers have callbacks. `Acquire`, `Release`, `Close`,
`PopRing` (Poll, and the popping of a ring that is closed) and `Send`, whose walk over
the map is `SendAll`, `Visit`, `Pass` and `SendReturns`. An artifact without a
destination goes to the subscriber with the empty ID only (`SendUnnamed`), one with
any destination to everybody, as the code has it.

**Pool** (`pool.go`, `dependency.go`, `worker.go`, `lifecycle.go`,
`waitgroup.go`). A job from `Schedule` over its dependencies, attempts and
outcome to its result, and `Close`. The parts above appear by what they promise:
queue, results that stay until the space is closed, choice to reject. What QSpace does
not promise stays in: the lookups of `getOrCreate` (`Search`, `Found`) by `Await`, by
`Store`, by the `Await`s of dependents and by `RegisterDependent` interleave, a job may
have several entries, and each call goes on with the one it was given. An entry is the
number of its age, since a lookup finds the newest. The jobs' dependencies are one of
`Graphs`, chosen at the start; a value with no encoding is a choice in `Store`. Of
`closePool`, `deactivateWorkers` is in Scaler, and `scalerWG.Wait` is left out.

**Scaler** (`scaler.go`, `lifecycle.go`, `metrics.go`). Overlapping calls of
`Observe`, the registry of worker tokens, `workerCount` and the queue's
`activeWorkers`, and `deactivateWorkers` in `Close`. Thresholds are integers.
`overlapped` is a history variable: two calls of `Observe` have overlapped.

**FastPath** (`fastpath.go`). `ScheduleFast`, `loopQ` and the stack, one atomic access
per step; taking a slot out of a popped node and clearing the node is one step, as is
parking. Nodes go through a pool (`pooled`), so that a `pop` may meet a node again
that it has loaded before. `torn` is a history variable: a pop has swapped in a
successor that was no longer the node's.

`MC*` modules add the symmetry sets, and the values of constants that a
configuration cannot write down. `*Proofs` modules hold the proofs: those about
RateLimiter are in `AdmissionProofs`, those about Consumer and BroadcastGroup, which
sleep on the ring, in `SpscRingProofs`, those about DependencyGraph, the edges between
the entries of the space, in `QSpaceProofs`, and those about Scaler in `PoolProofs`. A
proof module extends all the modules it is about; for that, Ring, Graph, Space and
Scaler stand before `Init`, `Next` and `Spec` in SpscRing, DependencyGraph, QSpace and
Scaler.

The modules compose along what each promises. Admission and BroadcastGroup extend
RateLimiter and Consumer and check and prove the properties of these in their
place. `ActiveInRange`, proved of Scaler, is the range JobQueue lets
`SetActiveWorkers` choose from; WorkPool, which JobQueue implements, is how Pool uses
the queue; ResultSlot justifies the one-step `Deliver` of QSpace, and QSpace the one-step use of
an entry in Pool. Pool leaves the TTL out: it takes a job's results to outlive the waits
for them, and QSpace has what cleanup can do to one.

## The runs

Each part has one run, with all that is checked of it.

| Run | Instance | Shows |
|---|---|---|
| `slot` | 2 waiters, one calling Wait twice, a deliverer, a closer | `ReadyHasValue`: whoever sees the slot ready finds an artifact. `NoLostWakeup`: a sleeper is released or stands on a waker's path. `WaitReturns` |
| `queue` | 3 jobs, 2 publishing at a time, 2 handlers, 2 slots | `NoSlotRace` when slots are reused, `MetricsAgree`, `DrainedOnClose`, `ImplementsWorkPool`, and `PublishedJobRuns` while `activeWorkers` moves |
| `space` | 2 Awaits, 1 Store, cleanup, Close | `BlockedReachable`, `ReleasedUnlessSplit`, `RetainedUntilExpiry`: what a Store can find, what Close and the TTL promise, as long as one entry was given out. `ReleasedThoughSplit`: what Close still promises when it was not. `SpaceCloseReturns` |
| `graph` | 2 callers, 3 calls, 3 keys, 1 expiry | `CirclesUnchecked`: a circle needs an edge nobody checked. `RecordedStays`: an edge stays in both lists until an end expires |
| `breaker` | 4 jobs of which one may never report, 1 Renormalize, 2 failures open, 2 probes, 3 ticks | `SlotsLeakUnreported`, `FirstResetHonoured` |
| `cache` | 3 calls, 2 circuits, a limit of 1 | a violation, see [below](#disagreements-with-the-repositorys-own-words) |
| `admission` | 2 Schedules and the ticker, with a balancer and a limiter (1 token, 2 ticks), or the governor (2 ticks), or the back pressure (2 jobs, no ticks) | `RateKept`, `JudgedByOwnReading`, `SampledOncePerInterval`, `AverageBounded` |
| `ring` | 2 slots, 4 values; 1 producer, dropping or rejecting, with 2 poppers, or 2 producers, rejecting, with 1 | `Fifo`, `SlotsSettle`, `CallsReturn` |
| `broadcast` | 2 senders, one of which sends to all, 1 hook, a ring of 1, 1 other subscriber | `NoLostWakeup`, `FanOut`, `ValueReturns`, `CancelledReturns` |
| `pool` | 2 jobs (j2 needs j1, or each needs the other), 1 worker, queue of 1, 2 attempts each for jobs and dependencies, 1 Close | `DependenciesFirst`, `CountedOnce`, `QuietAfterClose`, `ResultsArrive` (dependency timeouts break a cycle), `CloseReturns` |
| `scaler` | 2 Observes, overlapping or not, 2..4 workers, depths 0, 3 and 5 | `TokensCounted`; without overlap `ActiveAgrees`, `MinKeptAlone` |
| `fastpath` | 2 callers, 4 tasks, 2 of 3 workers, 3 nodes | `WorkersBounded`; until the stack is torn `IdleReachable`, `TasksRun` |

**Bounds.** Each is a named constant. They are the least that make the hazard
happen: reuse of a slot needs more jobs than slots; a second call of Wait leaves a
dead node for others to walk over; a failed CAS needs two goroutines, and a third
to benefit from it; a breaker that opens twice needs several reset periods; a value
put back into a ring of the wrong lap needs more values than slots; a scaler with
room on both sides needs two workers between its bounds, and depths below, between
and above its thresholds. Two
calls that each close half of a circle need a third key only for the walk to have
something to visit; a recycled node needs a third node to be recycled over. The
back pressure reads no clock and the limiter looks at no job, so the configurations
of `admission` bound each by what it tells apart. Two jobs are enough for a handle, a
Store and a dependent to be given different entries, and for a circle; a third graph,
in which j2 also depends on itself, takes `pool` beyond five minutes and shows nothing
else. `MaxTime`, `MaxPush`, `MaxCalls`,
`MaxExpiries`, `MaxTasks`, `maxJobs`, `maxTime` and `MaxPublishing` only
cut behaviours short. The proofs are for any value of them. One case is beyond the
instances: a list of waiters with three live nodes, of which the middle one is
removed. Three waiters with one call each have 19 million states: the invariants of
`slot` hold there too (ten minutes with four workers), but liveness is out of reach,
so that instance is not one of the runs.

**Symmetry** is used over interchangeable goroutines (and keys, in `graph`) in
`breaker`, `scaler`, `admission`, `graph` and `cache`, which check no liveness property.
`queue` does, so there `Offer` takes the jobs, alike until they are offered, in one
arbitrary order.

**Deadlock** is checked, except in CircuitBreaker, Pool, Scaler, FastPath,
DependencyGraph, BroadcastGroup and BreakerCache, whose instances really come to
rest: a number of calls is made, or Close ends them. It says something in ResultSlot
and QSpace, which have an explicit step for the finished state, so that any other
state without a successor is an error. In JobQueue, Admission and SpscRing some
call from outside is always possible, so no state is without a successor; that
calls come to an end is what the liveness properties of JobQueue and SpscRing are
for, and no call in Admission waits.

**Fairness** is weak fairness of the steps of each goroutine that is inside a
call: the Go scheduler runs every runnable goroutine. In addition a job's function
returns, the context package runs the callbacks of a done context, and timers
fire. QSpace asks less: only the maintenance loop and a call of Close are fair, so
`SpaceCloseReturns` holds even if every other caller stops half-way. BroadcastGroup asks
for the subscriber inside Wait and for whoever is inside `wake`, not for senders that
have yet to push. Pool asks for less than fairness of each goroutine, that some
goroutine inside a call goes on while one can (`Progress`): none can go on for ever, so
all come to an end. In FastPath a caller may have to try again any number of times;
`TasksRun` needs only that the callers and the workers keep running. Nobody has to call
`Schedule`, `Get`, `Send` or `Close`, or cancel a context.

## Disagreements with the repository's own words

The run `cache` checks what a test says, and TLC finds the code violates it: "It should
return the existing breaker and evict least-recently used entries"
(`circuitbreaker_cache_test.go:20`). Two calls of `getOrCreate` for a fresh circuit
both find nothing. The first links its breaker and returns it; the second links its own
in front, and its second lookup, meant to find a competitor's, finds its own. Calls
after that get the second breaker although the first is still listed, so the failures
of one circuit are counted in two places.

Other words of the repository, and other limits of the code, show in how the passing
properties are stated:

- "Store persists a completed value and fulfills waiters." (`qspace.go:65`): Await and
  Store of a fresh key may both prepend an entry, and Store gets its own, in front of
  the one Await waits on. No weaker form of the sentence is checked of QSpace. What is
  left to the waiter is the release by Close (`ReleasedThoughSplit`), until an artifact
  expires and cleanup removes, by its key, the wrong one of two entries. Two Awaits that are
  split leave one of them out of any later Store, too, and an Await after a Store may
  find a newer, empty entry;
- "Results arrive on the returned lock-free handle backed by QSpace." (`pool.go`): for
  the same reason they may not. Schedule publishes the job before it calls `Await`
  (`pool.go:323`, `327`), so a fast worker's `Store` may race with it for the fresh
  entry; so may `RegisterDependent` of a dependency that timed out. `ResultsArrive` fails
  without its exception for such a job (`Parted`);
- a waiter whose entry another caller takes back out of the list is released neither
  by Store nor by Close (`split` in `ReleasedUnlessSplit`, `TakenBack` in
  `ReleasedThoughSplit`);
- cleanup removes by key an entry that a Store has just refilled, so a fresh result
  may be lost with an expired one (`expired = {}` in `RetainedUntilExpiry`);
- `registerDependent` does not look for circles, and two calls of `addRelationship`
  that each look before the other has pushed close one (`unchecked` in
  DependencyGraph);
- cleanup looks a key up to prune its edges after it has removed the key, so it prunes
  nothing, or the edges of an entry created since (`SettledCall` in DependencyGraph);
- "Half-open allows up to halfOpenMax concurrent probes" (`circuitbreaker_test.go:149`):
  the count of probes is zeroed after half-open is published, and a probe is forgotten;
- a job that Schedule gives up after `Allow` keeps its probe slot
  (`SlotsLeakUnreported`);
- a success that completes the probes stores closed without a comparison, and undoes the
  opening by a probe that failed meanwhile (`CloseCircuit` of CircuitBreaker);
- open is published before its time, and a breaker that opens again may go half-open
  at once on the time of its previous opening (`opens > 1` in `FirstResetHonoured`);
- in the cache, `promote` of a node that has been evicted meanwhile tries for ever
  (`Promote`, `Detach`, `Seek` of BreakerCache);
- the back pressure's Renormalize stores what it computed from an old pressure, and
  undoes an Observe made meanwhile (`Bleed`, `disturbed` in `JudgedByOwnReading`);
- a Schedule that a later regulator, or the breaker, rejects has consumed a token;
- jobs counted between the two loads of a reading inflate its average (`whole` in
  `AverageBounded`);
- Close of a broadcast group wakes nobody (`Close` of BroadcastGroup);
- two producers on a ring that drops, or with two poppers, lose the order (`Uses`);
- "minWorkers..maxWorkers active disruptor workers" (`pool.go:64`): two Observes act on
  the same reading and remove workers twice (`overlapped` in `MinKeptAlone`);
- the nodes of the fast path's stack are recycled, so a pop may swap in a rest of the
  stack that is out of date and lose workers or hand one to two callers (`torn`);
- a value without an encoding is dropped, and its handle stays pending until Close
  (the other exception in `ResultsArrive`);
- `WaitGroup` releases one waiter only: of two concurrent calls of Close one may wait
  for ever, and the other does not wait for the handlers (`Closers` is one goroutine);
- `processJob` shadows `err`, so the error stored for a failed job is a generic one
  (`StoreFailed` in Pool).

## The proofs

TLAPS checks these for every value of the constants that satisfies the modules'
ASSUMEs, which only say that sets of goroutines are disjoint (and finite where they
are counted), that sizes are positive and that nil is not a value.

| Theorem | States |
|---|---|
| `ResultSlotProofs!ReadyHasValueThm` | `Spec => []ReadyHasValue` |
| `ResultSlotProofs!SlotWakeupNotLost` | `Spec => []NoLostWakeup` |
| `JobQueueProofs!TypeCorrect`, `SlotsNotRaced` | `Spec => []TypeOK`, `Spec => []NoSlotRace` |
| `JobQueueProofs!AssignmentStands` | `Spec => AssignmentStable` |
| `JobQueueProofs!QueueImplementsPool` | `Spec => ImplementsWorkPool` |
| `JobQueueProofs!CountersAgree`, `CloseDrains` | `Spec => []MetricsAgree`, `Spec => []DrainedOnClose` |
| `AdmissionProofs!LimiterKeepsRate`, `LimiterCreditsOnce` | `Spec => []RateKept`, `Spec => []CreditedOnce` |
| `AdmissionProofs!AdmissionImplementsLimiter`, `AdmissionKeepsRate` | `ASpec => Spec` (of RateLimiter), `ASpec => []RateKept` |
| `AdmissionProofs!MemorySampledOncePerInterval` | `ASpec => []SampledOncePerInterval` |
| `AdmissionProofs!AverageNeverExceeds`, `OwnReadingDecides` | `ASpec => []AverageBounded`, `ASpec => []JudgedByOwnReading` |
| `SpscRingProofs!OrderKept`, `NothingLost` | `RingSpec => []Fifo`, `RingSpec => []SlotsSettle`, if every use is `Orderly` |
| `SpscRingProofs!ConsumerTypeCorrect`, `SemaphoreBalanced`, `WakeupNotLost` | `Spec => []TypeOK`, `Spec => []SemaBalanced`, `Spec => []NoLostWakeup` (`Spec` of Consumer) |
| `SpscRingProofs!GroupWakeupNotLost`, `NobodyLeftOut` | `GSpec => []NoLostWakeup`, `GSpec => []FanOut` |
| `QSpaceProofs!WaitersReachable` | `SpaceSpec => []BlockedReachable` |
| `QSpaceProofs!CloseReleases`, `ResultRetained` | `SpaceSpec => []ReleasedUnlessSplit`, `SpaceSpec => []RetainedUntilExpiry` |
| `QSpaceProofs!CirclesNeedUnchecked`, `EdgesStay` | `GraphSpec => []CirclesUnchecked`, `GraphSpec => []RecordedStays` |
| `PoolProofs!ActiveWorkersInRange`, `WorkersCounted` | `ScalerSpec => []ActiveInRange`, `ScalerSpec => []TokensCounted` |
| `PoolProofs!ActiveFollowsCount`, `MinimumKept` | `ScalerSpec => []ActiveAgrees`, `ScalerSpec => []MinKeptAlone` |
| `PoolProofs!DependenciesComeFirst`, `OutcomesCountedOnce`, `CloseQuiets` | `Spec => []DependenciesFirst`, `Spec => []CountedOnce`, `Spec => []QuietAfterClose` |
| `CircuitBreakerProofs!SlotsLeakOnlyUnreported`, `FirstTimeoutHonoured` | `Spec => []SlotsLeakUnreported`, `Spec => []FirstResetHonoured` |
| `FastPathProofs!WorkersStayBounded`, `NoWorkerLost` | `Spec => []WorkersBounded`, `Spec => []IdleReachable` |

The inductive invariants:

- *ResultSlot*, `ValueInv`: `ReadyHasValue` alone does not survive `MarkReady`. It
  is strengthened by: whoever is past the store of the artifact, or has seen ready,
  finds an artifact. For the wakeups, `ListInv`: a sleeper has been released, is on the
  list of a pending slot, or on the part of it that a waker still has to walk
  (`CoverInv`). Removals race with each other and with the walk, and may link a dead
  node back in. What keeps the live ones is that the two sides of an unlinking lead to
  the same sleepers (`Leads`), that a node is in no list before it is pushed
  (`FreshInv`), and that pointers lead to nodes pushed earlier (`Ranked`). What a
  pointer leads to (`Rest`) is the least set that holds it and is closed under `next`,
  so that no lemma about it is by induction.
- *JobQueue*, `QueueInv`: `RingInv` (reserved sequences stay within a lap of every
  cursor, and what a handler works on is committed), `PublishInv` (a publisher has
  its sequence to itself) and `SlotInv` (a handler past the assignment owns its
  slot, and a job stays in its slot until done). Two sequences less than a lap
  apart have different slots (`IndexInjective`), so publishers and handlers never
  meet. The refinement is shown step by step under the same invariant: `Commit`
  is Accept, a failing `CheckOpen` is Reject, `StartJob` and `FinishJob` are Start
  and Finish, everything else stutters. `MetricsInv` adds that the counters are the
  sizes of the sets they count; every step moves at most one job or handler in or out,
  and a handler between `StartJob` and `IncBusyWorker` is in neither.
  `DrainInv` adds that no handler that might still have to run a job has gone past it
  (`PlaceInv`), and that a handler that has left is past all that was sealed
  (`SealInv`).
- *RateLimiter*, `LimiterInv`: every claimed period pays for at most one token,
  granted, in the bucket, or claimed by a caller that has yet to add it, and
  `lastRefill` moves by whole claimed periods (`RefillAligned`). The unadded periods
  are counted as a set of pairs, whose size changes by what one caller claims
  (`Replace`).
- *Admission*: every step is a step of RateLimiter or leaves its variables alone, so
  what is proved of the limiter holds in its place. For the samples, `SampleInv`: a
  call in the governor's Observe holds a time that has come, `lastMemSample` too, and
  each sample but the first is an interval after the one before (`Spaced`), because
  the compare-and-swap only succeeds on the value the interval was measured from.
  `AverageInv`: the sum of the latencies is that of at most the jobs counted. `JudgeInv`:
  as long as nobody has disturbed a Schedule, the regulators it has shown its reading
  to still reflect it, and those it has asked did not object to it (`Own`).
- *Consumer*, `ConsumerInv`: `SemaBalanced`, where a registered hook stands
  (`HookInv`), and that whoever fills the ring after it was found empty is still on
  its way to `wake` (`PendingWake`). It is preserved by every step of BroadcastGroup
  as well. `RangeInv`: what a Range owes a visit is still to be visited.
- *SpscRing*, `RingInv`. The order of a ring shared in any way at all is not kept: with
  two producers that drop the oldest value, or two producers and two poppers, values are
  lost. The theorems therefore suppose that every use is `Orderly`: one producer, whatever
  its policy and however many pop (`OneProducer`), or any producers of a ring that
  rejects, and one popper (`OnePopper`). These are the uses that the run checks; the
  first is what a group makes of its rings as long as its Sends do not overlap. With one
  producer a value between tail and head is in its slot or in the hand
  of one popper, whose slot is empty meanwhile (`Alone`); a popper that advances the tail
  has the value pushed there, because the positions that carry a value lie within one
  lap, and two of them never share a slot (`Window`). With one popper it is the producers
  that claim slots, each another one, and none that holds a value (`Single`).
- *QSpace*, `SpaceInv`: as long as the callers were given one entry (`split` is false),
  the entry in use is the head of the list, or else an artifact has expired and its slot
  is ready, closed or about to be (`UsedAtHead`). To show it of a list that is prepended
  to and removed from at once, each entry that can still be linked has a rank, and both
  `next` and what a Remove is about to link lead to smaller ranks (`Chain`): no stale
  Remove brings an entry back, and the one that cleanup removes by its key is the one
  whose artifact it has cleared (`CleanerAtHead`). An entry that was linked and that
  nobody was given yet cannot be missed by a lookup (`UnseenFound`), so a second one
  in use is noticed in `split`. `ClosingSettles`: who passed the second test of stopped
  is settled when Close walks, or is where Close stands.
- *DependencyGraph*, `GraphInv`: what a call that no other has overlapped has visited
  leads only to what it has seen, and after its walk there is a set of keys, closed under
  the edges, with the child and without the parent (`Walked`): the new edge closes no
  circle, for a circle through it would have to leave that set. A circle is stated with
  closed sets (`OnCircle`), so that no induction over paths is needed. `RecordInv`: an
  undisturbed call has hold of the entries that are current, and pruning has not begun
  at their keys.
- *Scaler*, `ScalerInv`: what a call has loaded from `workerCount` is in range, and
  each worker counted is registered or held by one call. `AloneInv`: while no two
  calls have overlapped, at most one is under way, on a reading that is still true of the
  count, and what it has left to remove leaves the minimum.
- *Pool*, `LifeInv`: how often a job has been recorded, and which of its dependencies
  are met, follow from where it is. Of the space it needs only that searching adds
  entries without a result and that a Store fills one (`SameResults`, `StoreMoves`), and
  that a dependent was given an entry that exists (`EntryTypes`). `CloseInv`: of the
  calls of Close the one that closed the queue stays in it until the handlers have left,
  which they do when nothing executes.
- *CircuitBreaker*, `BreakerInv`: in a half-open breaker whose counters have been
  zeroed, no more slots are taken than there are jobs that hold one (`SlotInv`); until
  it opens a second time, whoever found the timeout over read the clock after the
  opening (`FirstInv`).
- *FastPath*, `FastInv`: `workerCount` is the number of started workers and of callers
  about to take their count back (`Counted`), so a caller that counts itself in within
  the bound finds fewer workers than the bound. It says nothing of the stack, and
  holds when the stack is torn. `StackInv` adds, for a stack that is not torn: a node is
  spare, being pushed, on the stack or just popped, and only one of these (`SpareInv`,
  `PushInv`, `PopInv`); each that is on the stack or popped holds another idle worker
  (`ShelfInv`); and every idle worker is in such a node or with one caller (`IdleInv`,
  `TakenInv`). A pop takes one node off because the stack is acyclic (`Acyclic`), and a
  push puts one on because what it has read of the stack is compared again.

Only model-checked is what holds under fairness, which TLAPS 1.4.5 cannot prove:
`WaitReturns`, `PublishedJobRuns`, `CallsReturn`, `ValueReturns`, `CancelledReturns`,
`ResultsArrive`, `TasksRun`, `SpaceCloseReturns` and `CloseReturns`; and
`ReleasedThoughSplit`, since `SpaceInv` describes the list only as long as one entry was
given out. All other invariants and action properties of the passing runs are theorems.
No module that is proved about uses a RECURSIVE operator.

## What is not modelled

- the inside of go-disruptor, datura and the Go runtime (external): in particular the
  fast path's parking through runtime internals and assembly, which are one step
  each, and a preemption between a worker's push and its parking;
- `Invoke` of the fast path, with `fnPop` and `fnPush`: the same algorithm, whose
  `alloc`, `free` and `task` no constructor sets;
- a recycled Job value: `Schedule` takes Jobs from a `sync.Pool` without setting
  `StartTime` again (`pool.go:227`, `255`), so that the latency recorded of a job may
  count from the creation of an earlier one. `Latencies` of Admission are whatever
  is recorded;
- `LoadBalancer.SelectWorker` and `Scaler.Renormalize`, which nothing but tests in the
  repository calls; the regulators' Renormalize, which the scaler's ticker calls, is in
  Admission;
- rounding of the floating-point pressure, thresholds and averages: they are integers;
- options, retry delays, telemetry, logging, and the encoding of payloads beyond
  whether it fails: no control depends on them;
- the subscription of a consumer a second time under the ID of one that was released,
  which is a new object.
