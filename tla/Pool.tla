--------------------------------- MODULE Pool ---------------------------------
(***************************************************************************)
(* The life of a job in the pool, from Schedule to its result, and Close:  *)
(* pool.go, dependency.go, worker.go, lifecycle.go and waitgroup.go.  The  *)
(* parts with modules of their own appear by what they promise: the job    *)
(* queue (JobQueue) as a bounded set that the handlers drain, the          *)
(* regulators and breakers (RateLimiter, CircuitBreaker) as a choice to    *)
(* reject, and QSpace as results that stay until it is closed. What QSpace *)
(* does not promise stays in: getOrCreate may give the Awaits and the      *)
(* Store of one job different entries.                                     *)
(*                                                                         *)
(* A job is its id.  spc is the goroutine that calls Schedule; jpc is the  *)
(* job itself, carried by that goroutine, then by the one that resolves    *)
(* its dependencies if it has any, then by a worker.                       *)
(***************************************************************************)
EXTENDS Integers, Sequences, FiniteSets

CONSTANTS
  Jobs,
  Graphs,        \* the ways the jobs depend on each other
  Closers,       \* goroutines that call Close
  Workers, Capacity,
  MaxAttempts,   \* of the jobs' RetryPolicy
  DepAttempts    \* of their DependencyRetryPolicy

\* Who calls getOrCreate on behalf of a job: Schedule in Await, whoever ends the job
\* in Store or StoreError, and waitOneDependency for each job it depends on.
Lookups == {"await", "store"} \cup Jobs

ASSUME PoolAssumption ==
  /\ "await" \notin Jobs /\ "store" \notin Jobs
  /\ Graphs \subseteq [Jobs -> SUBSET Jobs]
  /\ Workers \in Nat \ {0} /\ Capacity \in Nat \ {0}
  /\ MaxAttempts \in Nat \ {0} /\ DepAttempts \in Nat \ {0}

VARIABLES
  stopping, cancelled,   \* Q.stopping; Q.ctx
  queue, queueClosed,    \* published jobs not yet taken; jobDisruptorQueue.closed
  handling,              \* the queue's handlers have not exited
  spaceOpen,             \* QSpace
  result,                \* what is in the entries of a job, the oldest first
  entry,                 \* for the lookups of a job: the number of the entry it was
                         \* given, or where its getOrCreate is
  count, sema,           \* Q.deps
  spc, jpc, cpc,
  resolving,             \* jobs whose resolveDependentJob has not returned
  dep, tries,            \* how each dependency of a job stands; attempts while it waits
  attempt,               \* of the job's function, while it executes
  error,                 \* what it ended with unexecuted, or that its value has no encoding
  outcomes               \* history: times RecordJobOutcome ran for the job

vars == <<stopping, cancelled, queue, queueClosed, handling, spaceOpen, result, entry,
          count, sema, spc, jpc, cpc, resolving, dep, tries, attempt, error, outcomes>>
space   == <<result, entry>>
closure == <<stopping, cancelled, queueClosed, handling, spaceOpen, cpc>>
group   == <<count, sema, resolving>>
waits   == <<dep, tries>>
run     == <<attempt, error, outcomes>>

\* A getOrCreate before its lookup, after it when it found nothing, and after the
\* prepend.
Finding == 0
Linking == -1
Linked  == -2

Errors == {"dependency", "schedule", "encoding"}

Init ==
  /\ stopping = FALSE
  /\ cancelled = FALSE
  /\ queue = {}
  /\ queueClosed = FALSE
  /\ handling = TRUE
  /\ spaceOpen = TRUE
  /\ result = [j \in Jobs |-> <<>>]
  /\ entry = [j \in Jobs |-> [c \in Lookups |-> Finding]]
  /\ count = 0
  /\ sema = 0
  /\ resolving = {}
  /\ spc = [j \in Jobs |-> "new"]
  /\ jpc = [j \in Jobs |-> "new"]
  /\ cpc = [c \in Closers |-> "idle"]
  /\ \E g \in Graphs :
       /\ dep = [j \in Jobs |-> [d \in g[j] |-> "await"]]
       /\ tries = [j \in Jobs |-> [d \in g[j] |-> 0]]
  /\ attempt = [j \in Jobs |-> 0]
  /\ error = [j \in Jobs |-> "none"]
  /\ outcomes = [j \in Jobs |-> 0]

\* The dependencies a job was scheduled with.
DependsOn(j) == DOMAIN dep[j]

Caller(j, label) == spc' = [spc EXCEPT ![j] = label]
JobTo(j, label)  == jpc' = [jpc EXCEPT ![j] = label]

\* Faulty variant: nobody is woken.
GroupAddSilent(n) ==
  /\ count' = count + n
  /\ UNCHANGED sema

\* WaitGroup.Add: the step to zero releases one token, whoever waits.
GroupAdd(n) ==
  /\ count' = count + n
  /\ sema' = IF count + n = 0 THEN sema + 1 ELSE sema

-----------------------------------------------------------------------------
(* getOrCreate of the registry, and what is done with the entry it returns *)

EntryTo(j, c, e) == entry' = [entry EXCEPT ![j][c] = e]
Given(j, c) == entry[j][c] > 0

\* The lookup c of job j finds no entry of k and allocates one; prependOnce puts it in
\* front, also of an entry that was put there since.
Search(j, c, k) ==
  /\ spaceOpen
  /\ \/ /\ entry[j][c] = Finding /\ result[k] = <<>>
        /\ EntryTo(j, c, Linking)
        /\ UNCHANGED result
     \/ /\ entry[j][c] = Linking
        /\ result' = [result EXCEPT ![k] = Append(@, "none")]
        /\ EntryTo(j, c, Linked)

\* A find, the first one, the one after a lost compare-and-swap or the one after the
\* prepend, returns the newest entry of k.  If c has prepended another, that one is
\* taken back, and whoever was given it keeps it.
Found(j, c, k) == spaceOpen /\ ~Given(j, c) /\ result[k] # <<>>

-----------------------------------------------------------------------------
(* Schedule *)

\* A regulator or the breaker rejects the job.
Reject(j) ==
  /\ spc[j] = "new"
  /\ Caller(j, "rejected")
  /\ UNCHANGED <<closure, queue, space, group, jpc, waits, run>>

\* They let it through, and stopping is checked.
Admit(j) ==
  /\ spc[j] = "new"
  /\ Caller(j, IF stopping THEN "rejected"
               ELSE IF DependsOn(j) # {} THEN "start" ELSE "enqueue")
  /\ JobTo(j, IF stopping \/ DependsOn(j) # {} THEN "new" ELSE "enqueue")
  /\ UNCHANGED <<closure, queue, space, group, waits, run>>

\* startDependencyWait: the checks, then deps.Add and the goroutine.
CheckStart(j) ==
  /\ spc[j] = "start"
  /\ Caller(j, IF stopping \/ cancelled THEN "rejected" ELSE "spawn")
  /\ UNCHANGED <<closure, queue, space, group, jpc, waits, run>>

Spawn(j) ==
  /\ spc[j] = "spawn"
  /\ GroupAdd(1)
  /\ resolving' = resolving \cup {j}
  /\ Caller(j, "await")
  /\ JobTo(j, "deps")
  /\ UNCHANGED <<closure, queue, space, waits, run>>

\* Schedule calls Await for the handle on the job's result ...
AwaitSearches(j) ==
  /\ spc[j] = "await"
  /\ Search(j, "await", j)
  /\ UNCHANGED <<closure, queue, group, spc, jpc, waits, run>>

\* ... and returns it.
Await(j) ==
  /\ spc[j] = "await"
  /\ \/ /\ Found(j, "await", j)
        /\ EntryTo(j, "await", Len(result[j]))
        /\ Caller(j, "pending")
     \/ ~spaceOpen /\ Caller(j, "rejected") /\ UNCHANGED entry
  /\ UNCHANGED <<closure, queue, result, group, jpc, waits, run>>

-----------------------------------------------------------------------------
(* enqueueJob, called by Schedule or by the goroutine that resolved dependencies *)

EnqueueFails(j) ==
  /\ error' = [error EXCEPT ![j] = "schedule"]
  /\ IF DependsOn(j) = {} THEN Caller(j, "rejected") /\ JobTo(j, "done")
     ELSE JobTo(j, "storeError") /\ UNCHANGED spc
  /\ UNCHANGED <<closure, queue, space, group, waits, attempt, outcomes>>

CheckEnqueue(j) ==
  /\ jpc[j] = "enqueue"
  /\ IF stopping \/ cancelled \/ queueClosed THEN EnqueueFails(j)
     ELSE /\ JobTo(j, "publish")
          /\ UNCHANGED <<closure, queue, space, group, spc, waits, run>>

\* The queue has room: the job is published, even if Close got in between.
Publish(j) ==
  /\ jpc[j] = "publish"
  /\ Cardinality(queue) < Capacity
  /\ queue' = queue \cup {j}
  /\ JobTo(j, "queued")
  /\ IF DependsOn(j) = {} THEN Caller(j, "await") ELSE UNCHANGED spc
  /\ UNCHANGED <<closure, space, group, waits, run>>

\* Or the queue or the pool is closed first, or the scheduling timeout strikes.
PublishFails(j) ==
  /\ jpc[j] = "publish"
  /\ EnqueueFails(j)

-----------------------------------------------------------------------------
(* resolveDependentJob *)

DepEnds(j, d, label) ==
  /\ dep' = [dep EXCEPT ![j][d] = label]
  /\ tries' = [tries EXCEPT ![j][d] = 0]

\* waitOneDependency: an attempt begins with an Await of the result of d.
DepAwaits(j, d) ==
  /\ jpc[j] = "deps" /\ dep[j][d] = "await"
  /\ Search(j, d, d) \/ (Found(j, d, d) /\ EntryTo(j, d, Len(result[d])) /\ UNCHANGED result)
  /\ UNCHANGED <<closure, queue, group, spc, jpc, waits, run>>

\* The result is there, in the entry that this Await was given.
DepArrives(j, d) ==
  /\ jpc[j] = "deps" /\ dep[j][d] = "await"
  /\ Given(j, d)
  /\ LET r == result[d][entry[j][d]] IN
     /\ r # "none"
     /\ DepEnds(j, d, IF r = "value" THEN "met" ELSE "unmet")
  /\ EntryTo(j, d, Finding)
  /\ UNCHANGED <<closure, queue, result, group, spc, jpc, run>>

\* Faulty variant: the last attempt counts as success.
DepExpiresMet(j, d) ==
  /\ jpc[j] = "deps" /\ dep[j][d] = "await"
  /\ Given(j, d) \/ ~spaceOpen
  /\ IF cancelled THEN DepEnds(j, d, "unmet")
     ELSE IF tries[j][d] + 1 < DepAttempts
       THEN tries' = [tries EXCEPT ![j][d] = @ + 1] /\ UNCHANGED dep
       ELSE DepEnds(j, d, "met")
  /\ EntryTo(j, d, Finding)
  /\ UNCHANGED <<closure, queue, result, group, spc, jpc, run>>

\* An attempt ends without it: its timeout strikes or the space is closed.
DepExpires(j, d) ==
  /\ jpc[j] = "deps" /\ dep[j][d] = "await"
  /\ Given(j, d) \/ ~spaceOpen
  /\ IF cancelled THEN DepEnds(j, d, "unmet")
     ELSE IF tries[j][d] + 1 < DepAttempts
       THEN tries' = [tries EXCEPT ![j][d] = @ + 1] /\ UNCHANGED dep
       ELSE DepEnds(j, d, "register")
  /\ EntryTo(j, d, Finding)
  /\ UNCHANGED <<closure, queue, result, group, spc, jpc, run>>

\* After the last one RegisterDependent looks up the entries of d, which exists since
\* the Await, and of j, for the lists of dependencies in them (DependencyGraph).
DepRegisters(j, d) ==
  /\ jpc[j] = "deps" /\ dep[j][d] = "register"
  /\ \/ Search(j, d, j) /\ UNCHANGED waits
     \/ /\ Found(j, d, j) \/ ~spaceOpen
        /\ DepEnds(j, d, "unmet")
        /\ EntryTo(j, d, Finding)
        /\ UNCHANGED result
  /\ UNCHANGED <<closure, queue, group, spc, jpc, run>>

Settled(j) == \A d \in DependsOn(j) : dep[j][d] \in {"met", "unmet"}

\* waitDependencies returns; a failure is recorded by recordDependencyFailure.
Resolve(j) ==
  /\ jpc[j] = "deps"
  /\ Settled(j)
  /\ IF cancelled \/ \E d \in DependsOn(j) : dep[j][d] = "unmet"
       THEN /\ error' = [error EXCEPT ![j] = "dependency"]
            /\ outcomes' = [outcomes EXCEPT ![j] = @ + 1]
            /\ JobTo(j, "storeError")
       ELSE JobTo(j, "enqueue") /\ UNCHANGED <<error, outcomes>>
  /\ UNCHANGED <<closure, queue, space, group, spc, waits, attempt>>

\* QSpace.Store and StoreError: the search for the entry ...
StoreSearches(j) ==
  /\ jpc[j] \in {"storeError", "storeFailed", "store"}
  /\ Search(j, "store", j)
  /\ UNCHANGED <<closure, queue, group, spc, jpc, waits, run>>

\* ... and their end: the result is in the entry that was found, or dropped.
StoreResult(j, r) ==
  \/ /\ Found(j, "store", j)
     /\ result' = [result EXCEPT ![j][Len(result[j])] = r]
     /\ EntryTo(j, "store", Finding)
  \/ ~spaceOpen /\ UNCHANGED space

\* Faulty variant: stores the failure of a dependency but not of the enqueueing.
StoreUnmetOnly(j) ==
  /\ jpc[j] = "storeError"
  /\ IF error[j] = "schedule" THEN UNCHANGED space ELSE StoreResult(j, error[j])
  /\ JobTo(j, "done")
  /\ UNCHANGED <<closure, queue, group, spc, waits, run>>

\* StoreError, by the goroutine that resolved the dependencies.
StoreUnmet(j) ==
  /\ jpc[j] = "storeError"
  /\ StoreResult(j, error[j])
  /\ JobTo(j, "done")
  /\ UNCHANGED <<closure, queue, group, spc, waits, run>>

\* The deferred deps.Done, once the job is published or its error stored; a worker
\* may be faster.
DepsDone(j) ==
  /\ j \in resolving
  /\ jpc[j] \notin {"deps", "enqueue", "publish", "storeError"}
  /\ GroupAdd(-1)
  /\ resolving' = resolving \ {j}
  /\ UNCHANGED <<closure, queue, space, spc, jpc, waits, run>>

-----------------------------------------------------------------------------
(* processJob, in a handler of the queue *)

Executing == {"attempt", "invoke", "delay", "failed", "succeeded", "storeFailed", "store"}

Take(j) ==
  /\ j \in queue /\ handling
  /\ Cardinality({k \in Jobs : jpc[k] \in Executing}) < Workers
  /\ queue' = queue \ {j}
  /\ attempt' = [attempt EXCEPT ![j] = 1]
  /\ JobTo(j, "attempt")
  /\ UNCHANGED <<closure, space, group, spc, waits, error, outcomes>>

\* executeJob returns.
Ends(j, label) == JobTo(j, label) /\ attempt' = [attempt EXCEPT ![j] = 0]

\* The top of the retry loop, and the wait between two attempts, find the context
\* of the execution cancelled or its deadline passed.
ContextEnds(j) ==
  /\ jpc[j] \in {"attempt", "delay"}
  /\ Ends(j, "failed")
  /\ UNCHANGED <<closure, queue, space, group, spc, waits, error, outcomes>>

Attempt(j) ==
  /\ jpc[j] = "attempt"
  /\ ~cancelled
  /\ JobTo(j, "invoke")
  /\ UNCHANGED <<closure, queue, space, group, spc, waits, run>>

\* The function returns a value.
FnSucceeds(j) ==
  /\ jpc[j] = "invoke"
  /\ Ends(j, "succeeded")
  /\ UNCHANGED <<closure, queue, space, group, spc, waits, error, outcomes>>

\* It fails or panics; without an attempt left, or if the filter says so, for good.
FnFails(j) ==
  /\ jpc[j] = "invoke"
  /\ \/ Ends(j, "failed")
     \/ attempt[j] < MaxAttempts /\ JobTo(j, "delay") /\ UNCHANGED attempt
  /\ UNCHANGED <<closure, queue, space, group, spc, waits, error, outcomes>>

Delay(j) ==
  /\ jpc[j] = "delay"
  /\ ~cancelled
  /\ attempt' = [attempt EXCEPT ![j] = @ + 1]
  /\ JobTo(j, "attempt")
  /\ UNCHANGED <<closure, queue, space, group, spc, waits, error, outcomes>>

\* Faulty variant: a failure is not counted.
RecordSuccess(j) ==
  /\ jpc[j] \in {"failed", "succeeded"}
  /\ outcomes' = IF jpc[j] = "failed" THEN outcomes ELSE [outcomes EXCEPT ![j] = @ + 1]
  /\ JobTo(j, IF jpc[j] = "failed" THEN "storeFailed" ELSE "store")
  /\ UNCHANGED <<closure, queue, space, group, spc, waits, attempt, error>>

\* RecordJobOutcome and the report to the job's breaker.
Record(j) ==
  /\ jpc[j] \in {"failed", "succeeded"}
  /\ outcomes' = [outcomes EXCEPT ![j] = @ + 1]
  /\ JobTo(j, IF jpc[j] = "failed" THEN "storeFailed" ELSE "store")
  /\ UNCHANGED <<closure, queue, space, group, spc, waits, attempt, error>>

\* processJob passes the err of NewArtifact_Error, declared anew and nil, to
\* StoreError, for which newErrorArtifact substitutes an error of its own.
StoreFailed(j) ==
  /\ jpc[j] = "storeFailed"
  /\ StoreResult(j, "generic")
  /\ JobTo(j, "done")
  /\ UNCHANGED <<closure, queue, group, spc, waits, run>>

\* Store, which returns without storing anything if the value has no encoding.
Store(j) ==
  /\ jpc[j] = "store"
  /\ \/ StoreResult(j, "value") /\ UNCHANGED error
     \/ /\ spaceOpen /\ entry[j]["store"] = Finding
        /\ error' = [error EXCEPT ![j] = "encoding"]
        /\ UNCHANGED space
  /\ JobTo(j, "done")
  /\ UNCHANGED <<closure, queue, group, spc, waits, attempt, outcomes>>

-----------------------------------------------------------------------------
(* Close *)

CloserTo(c, label) == cpc' = [cpc EXCEPT ![c] = label]

\* The context NewQ was given is cancelled.
CancelParent ==
  /\ ~cancelled
  /\ cancelled' = TRUE
  /\ UNCHANGED <<stopping, queueClosed, handling, spaceOpen, cpc,
                 queue, space, group, spc, jpc, waits, run>>

SetStopping(c) ==
  /\ cpc[c] = "idle"
  /\ stopping' = TRUE
  /\ CloserTo(c, "cancel")
  /\ UNCHANGED <<cancelled, queueClosed, handling, spaceOpen,
                 queue, space, group, spc, jpc, waits, run>>

CancelPool(c) ==
  /\ cpc[c] = "cancel"
  /\ cancelled' = TRUE
  /\ CloserTo(c, "queue")
  /\ UNCHANGED <<stopping, queueClosed, handling, spaceOpen,
                 queue, space, group, spc, jpc, waits, run>>

\* jobQueue.Close returns at once if somebody has called it before.
CloseQueue(c) ==
  /\ cpc[c] = "queue"
  /\ queueClosed' = TRUE
  /\ CloserTo(c, IF queueClosed THEN "deps" ELSE "handlers")
  /\ UNCHANGED <<stopping, cancelled, handling, spaceOpen,
                 queue, space, group, spc, jpc, waits, run>>

\* The handlers drain the closed queue and exit.
HandlersExit ==
  /\ queueClosed /\ handling
  /\ queue = {} /\ \A j \in Jobs : jpc[j] \notin Executing
  /\ handling' = FALSE
  /\ UNCHANGED <<stopping, cancelled, queueClosed, spaceOpen, cpc,
                 queue, space, group, spc, jpc, waits, run>>

\* Faulty variant: Close does not wait for the handlers.
AwaitNoHandlers(c) ==
  /\ cpc[c] = "handlers"
  /\ CloserTo(c, "deps")
  /\ UNCHANGED <<stopping, cancelled, queueClosed, handling, spaceOpen,
                 queue, space, group, spc, jpc, waits, run>>

AwaitHandlers(c) ==
  /\ cpc[c] = "handlers"
  /\ ~handling
  /\ CloserTo(c, "deps")
  /\ UNCHANGED <<stopping, cancelled, queueClosed, handling, spaceOpen,
                 queue, space, group, spc, jpc, waits, run>>

\* deps.Wait looks at the count ...
GroupCheck(c) ==
  /\ cpc[c] = "deps"
  /\ CloserTo(c, IF count > 0 THEN "acquire" ELSE "space")
  /\ UNCHANGED <<stopping, cancelled, queueClosed, handling, spaceOpen,
                 queue, space, group, spc, jpc, waits, run>>

\* ... and blocks on the semaphore.
GroupAcquire(c) ==
  /\ cpc[c] = "acquire"
  /\ sema > 0
  /\ sema' = sema - 1
  /\ CloserTo(c, "deps")
  /\ UNCHANGED <<stopping, cancelled, queueClosed, handling, spaceOpen,
                 queue, space, count, resolving, spc, jpc, waits, run>>

\* space.Close: the pending handles get an error.
CloseSpace(c) ==
  /\ cpc[c] = "space"
  /\ spaceOpen' = FALSE
  /\ CloserTo(c, "done")
  /\ UNCHANGED <<stopping, cancelled, queueClosed, handling,
                 queue, space, group, spc, jpc, waits, run>>

-----------------------------------------------------------------------------

CallerStep(j) == CheckStart(j) \/ Spawn(j) \/ AwaitSearches(j) \/ Await(j)

DepStep(j, d) ==
  DepAwaits(j, d) \/ DepArrives(j, d) \/ DepExpires(j, d) \/ DepRegisters(j, d)

JobStep(j) ==
  \/ CheckEnqueue(j) \/ Publish(j) \/ PublishFails(j)
  \/ (\E d \in DependsOn(j) : DepStep(j, d)) \/ Resolve(j) \/ StoreUnmet(j)
  \/ Take(j) \/ ContextEnds(j) \/ Attempt(j) \/ FnSucceeds(j) \/ FnFails(j)
  \/ Delay(j) \/ Record(j) \/ StoreSearches(j) \/ StoreFailed(j) \/ Store(j)

CloserStep(c) ==
  \/ CancelPool(c) \/ CloseQueue(c) \/ AwaitHandlers(c)
  \/ GroupCheck(c) \/ GroupAcquire(c) \/ CloseSpace(c)

Progress ==
  \/ \E j \in Jobs : JobStep(j) \/ DepsDone(j) \/ CallerStep(j)
  \/ \E c \in Closers : CloserStep(c)
  \/ HandlersExit

Next ==
  \/ Progress
  \/ \E j \in Jobs : Reject(j) \/ Admit(j)
  \/ \E c \in Closers : SetStopping(c)
  \/ CancelParent

Spec == Init /\ [][Next]_vars

\* As long as a goroutine can run one is scheduled, job functions return and timeouts
\* strike; nobody has to call Schedule or Close or cancel the context.  No goroutine
\* can go on for ever, so this is all it takes for each of them to come to its end.
FairSpec == Spec /\ WF_vars(Progress)
-----------------------------------------------------------------------------
(* Properties *)

\* A job is published only when every job it depends on has succeeded and stored
\* its value, whatever timeouts, retries, Close and the lookups of its entry do in
\* between.
DependenciesFirst ==
  \A j \in Jobs : jpc[j] \in Executing \cup {"publish", "queued"} =>
    \A d \in DependsOn(j) : \E e \in DOMAIN result[d] : result[d][e] = "value"

\* A result is what the metrics counted: a job whose value or failure can be read
\* was recorded exactly once, and one that could not be enqueued never.
CountedOnce ==
  \A j \in Jobs :
    /\ outcomes[j] <= 1
    /\ \A e \in DOMAIN result[j] :
         /\ result[j][e] \in {"value", "generic", "dependency"} => outcomes[j] = 1
         /\ result[j][e] = "schedule" => outcomes[j] = 0

\* When every call of Close that was made has returned, no job executes and the
\* space is closed: the call that closed the queue has waited for its handlers
\* before it closed the space.  (A call that finds the queue closed does not wait.)
QuietAfterClose ==
  ((\E c \in Closers : cpc[c] = "done") /\ \A c \in Closers : cpc[c] \in {"idle", "done"}) =>
    ~spaceOpen /\ \A j \in Jobs : jpc[j] \notin Executing

\* The result is in the entry whose handle Schedule has returned, or in another.
Arrived(j) == Given(j, "await") /\ result[j][entry[j]["await"]] # "none"
Parted(j)  == \E e \in DOMAIN result[j] \ {entry[j]["await"]} : result[j][e] # "none"

Waiting(j) ==
  /\ spc[j] = "pending" /\ spaceOpen
  /\ ~Arrived(j) /\ ~Parted(j) /\ error[j] # "encoding"

\* "Results arrive on the returned lock-free handle backed by QSpace." (pool.go):
\* every pending handle gets a result, or the space is closed; also with dependencies
\* that fail, never run or wait for each other, and with dependents that were given
\* an entry no result goes to.  Two cases break the sentence: a value without an
\* encoding, which Store drops, and a result that was stored in another entry than
\* the handle's.
ResultsArrive == (\E j \in Jobs : Waiting(j)) ~> (\A j \in Jobs : ~Waiting(j))

\* "Close shuts down the pool." (pool.go): a call of Close returns, whatever jobs
\* and dependencies are under way.
CloseReturns == \A c \in Closers : cpc[c] # "idle" ~> cpc[c] = "done"
=============================================================================
