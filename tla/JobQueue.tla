------------------------------- MODULE JobQueue -------------------------------
(***************************************************************************)
(* The disruptor-backed job queue of disruptor_queue.go.  Callers publish  *)
(* jobs into a ring; every handler walks every sequence, and the first one *)
(* to look at a slot assigns its job, by compare-and-swap, to the worker   *)
(* sequence % activeWorkers.  Only that handler runs the job; the others   *)
(* step over it.                                                           *)
(*                                                                         *)
(* go-disruptor is not part of the repository.  Its sequencer and its      *)
(* listener loop are modelled from the way the queue uses them: TryReserve *)
(* hands out the next sequence unless the slowest handler is a full lap    *)
(* behind, Commit makes a sequence visible, a handler receives a batch of  *)
(* consecutive committed sequences and its cursor moves when Handle has    *)
(* returned, and after Close a handler leaves once it sees nothing more.   *)
(***************************************************************************)
EXTENDS Integers, FiniteSets

CONSTANTS
  Jobs,           \* the jobs offered, each published by its own goroutine
  MaxWorkers,     \* number of handlers
  Capacity,       \* number of slots in the ring
  MaxPublishing,  \* bound on the publish calls in progress at a time
  NoJob           \* disruptorWorkNone: a slot without work

ASSUME QueueAssumption ==
  /\ MaxWorkers \in Nat \ {0}
  /\ Capacity \in Nat \ {0}
  /\ MaxPublishing \in Nat
  /\ IsFiniteSet(Jobs)
  /\ NoJob \notin Jobs

Workers == 0..(MaxWorkers - 1)
Unassigned == -1

VARIABLES
  pc, seq,          \* publish: where it stands and the sequence it reserved
  reserved,         \* the last sequence handed out by TryReserve
  committed,        \* the sequences committed so far
  slotWorker,       \* slot.worker
  slotJob,          \* slot.kind and slot.job
  activeWorkers,    \* queue.activeWorkers
  hpc, pos, upper,  \* Handle: where a handler stands, and in which batch
  cand,             \* the worker a handler is about to assign
  cursor,           \* the last sequence a handler is through with
  jobQueueDepth, busyWorkers,  \* metrics
  done,             \* the jobs whose processJob has returned
  cancelled,        \* whether the pool's context is done
  life,             \* progress of Close
  sealed            \* history: the committed prefix of the ring at the time the
                    \* disruptor was closed

vars == <<pc, seq, reserved, committed, slotWorker, slotJob, activeWorkers, hpc,
          pos, upper, cand, cursor, jobQueueDepth, busyWorkers, done, cancelled,
          life, sealed>>
publishVars == <<pc, seq, reserved, committed>>
handlerVars == <<hpc, pos, upper, cand, cursor>>
slotVars    == <<slotWorker, slotJob>>
metricVars  == <<jobQueueDepth, busyWorkers>>
closeVars   == <<cancelled, life, sealed>>

\* RingBuffer.Slot: the mask of a power-of-two capacity is the remainder.
Index(s) == s % Capacity

Init ==
  /\ pc = [j \in Jobs |-> "idle"]
  /\ seq = [j \in Jobs |-> -1]
  /\ reserved = -1
  /\ committed = {}
  /\ slotWorker = [i \in 0..(Capacity - 1) |-> Unassigned]
  /\ slotJob = [i \in 0..(Capacity - 1) |-> NoJob]
  /\ activeWorkers \in 1..MaxWorkers    \* NewQ has started minWorkers workers
  /\ hpc = [w \in Workers |-> "idle"]
  /\ pos = [w \in Workers |-> -1]
  /\ upper = [w \in Workers |-> -1]
  /\ cand = [w \in Workers |-> Unassigned]
  /\ cursor = [w \in Workers |-> -1]
  /\ jobQueueDepth = 0
  /\ busyWorkers = 0
  /\ done = {}
  /\ cancelled = FALSE
  /\ life = "open"
  /\ sealed = {}

-----------------------------------------------------------------------------
(* publish *)

Publishing == {j \in Jobs : pc[j] \in {"check", "reserve", "fill", "commit"}}

\* A caller enters publishJob.  Jobs are interchangeable until they are offered:
\* they come in one arbitrary order.
Offer(j) ==
  /\ pc[j] = "idle"
  /\ j = CHOOSE k \in Jobs : pc[k] = "idle"
  /\ Cardinality(Publishing) < MaxPublishing
  /\ pc' = [pc EXCEPT ![j] = "check"]
  /\ UNCHANGED <<seq, reserved, committed, slotVars, activeWorkers, handlerVars,
                 metricVars, done, closeVars>>

\* The tests at the top of the retry loop.  The caller's own context may be
\* done at any time.
CheckOpen(j) ==
  /\ pc[j] = "check"
  /\ \/ life = "open" /\ ~cancelled /\ pc' = [pc EXCEPT ![j] = "reserve"]
     \/ pc' = [pc EXCEPT ![j] = "failed"]
  /\ UNCHANGED <<seq, reserved, committed, slotVars, activeWorkers, handlerVars,
                 metricVars, done, closeVars>>

\* Faulty variant: the gate is off by one and lets a writer lap the slowest
\* handler.
HasRoomOffByOne == \A w \in Workers : reserved - Capacity <= cursor[w]

\* disruptor.TryReserve has room: no handler is a full lap behind.
HasRoom == \A w \in Workers : reserved + 1 - Capacity <= cursor[w]

\* TryReserve(1), and the retry after the back-off when there is no room.
Reserve(j) ==
  /\ pc[j] = "reserve"
  /\ IF HasRoom
       THEN /\ reserved' = reserved + 1
            /\ seq' = [seq EXCEPT ![j] = reserved + 1]
            /\ pc' = [pc EXCEPT ![j] = "fill"]
       ELSE /\ pc' = [pc EXCEPT ![j] = "check"]
            /\ UNCHANGED <<reserved, seq>>
  /\ UNCHANGED <<committed, slotVars, activeWorkers, handlerVars, metricVars,
                 done, closeVars>>

\* Faulty variant: the depth is not counted.
FillUncounted(j) ==
  /\ pc[j] = "fill"
  /\ slotWorker' = [slotWorker EXCEPT ![Index(seq[j])] = Unassigned]
  /\ slotJob' = [slotJob EXCEPT ![Index(seq[j])] = j]
  /\ pc' = [pc EXCEPT ![j] = "commit"]
  /\ UNCHANGED <<seq, reserved, committed, activeWorkers, handlerVars,
                 metricVars, done, closeVars>>

FillSlot(j) ==
  /\ pc[j] = "fill"
  /\ slotWorker' = [slotWorker EXCEPT ![Index(seq[j])] = Unassigned]
  /\ slotJob' = [slotJob EXCEPT ![Index(seq[j])] = j]
  /\ jobQueueDepth' = jobQueueDepth + 1
  /\ pc' = [pc EXCEPT ![j] = "commit"]
  /\ UNCHANGED <<seq, reserved, committed, activeWorkers, handlerVars,
                 busyWorkers, done, closeVars>>

\* disruptor.Commit; publish returns nil.
Commit(j) ==
  /\ pc[j] = "commit"
  /\ committed' = committed \cup {seq[j]}
  /\ pc' = [pc EXCEPT ![j] = "published"]
  /\ UNCHANGED <<seq, reserved, slotVars, activeWorkers, handlerVars, metricVars,
                 done, closeVars>>

PublishStep(j) == CheckOpen(j) \/ Reserve(j) \/ FillSlot(j) \/ Commit(j)

\* startWorker and scaleDownWorkers pass the current worker count.
SetActiveWorkers(n) ==
  /\ activeWorkers' = IF n < 1 THEN 1 ELSE n
  /\ UNCHANGED <<publishVars, slotVars, handlerVars, metricVars, done, closeVars>>

-----------------------------------------------------------------------------
(* Handle *)

\* The listener loop hands a handler the sequences committed behind its cursor.
TakeBatch(w) ==
  /\ hpc[w] = "idle"
  /\ \E u \in committed :
       /\ cursor[w] < u
       /\ \A s \in (cursor[w] + 1)..u : s \in committed
       /\ u + 1 \notin committed
       /\ upper' = [upper EXCEPT ![w] = u]
  /\ pos' = [pos EXCEPT ![w] = cursor[w] + 1]
  /\ hpc' = [hpc EXCEPT ![w] = "look"]
  /\ UNCHANGED <<publishVars, slotVars, activeWorkers, cand, cursor, metricVars,
                 done, closeVars>>

\* On to the next sequence of the batch; after the last one Handle returns and
\* the listener loop publishes the handler's cursor.
Advance(w) ==
  IF pos[w] < upper[w]
    THEN /\ pos' = [pos EXCEPT ![w] = @ + 1]
         /\ hpc' = [hpc EXCEPT ![w] = "look"]
         /\ UNCHANGED cursor
    ELSE /\ cursor' = [cursor EXCEPT ![w] = upper[w]]
         /\ hpc' = [hpc EXCEPT ![w] = "idle"]
         /\ UNCHANGED pos

\* What Handle does once it knows the assigned worker.
Decide(w, assigned) ==
  IF assigned = w
    THEN hpc' = [hpc EXCEPT ![w] = "own"] /\ UNCHANGED <<pos, cursor>>
    ELSE Advance(w)

\* assignedWorker, up to the compare-and-swap.  The load of activeWorkers is
\* merged with the load of slot.worker before it: had the slot been assigned in
\* between, the compare-and-swap would fail and the loop would load it again.
Look(w) ==
  /\ hpc[w] = "look"
  /\ LET i == Index(pos[w]) IN
     IF slotWorker[i] # Unassigned
       THEN Decide(w, slotWorker[i]) /\ UNCHANGED cand
       ELSE /\ cand' = [cand EXCEPT ![w] =
                 pos[w] % (IF activeWorkers < 1 THEN 1 ELSE activeWorkers)]
            /\ hpc' = [hpc EXCEPT ![w] = "assign"]
            /\ UNCHANGED <<pos, cursor>>
  /\ UNCHANGED <<publishVars, slotVars, activeWorkers, upper, metricVars, done,
                 closeVars>>

\* Faulty variant: repeats a failed compare-and-swap without loading again.
AssignStubborn(w) ==
  /\ hpc[w] = "assign"
  /\ slotWorker[Index(pos[w])] = Unassigned
  /\ slotWorker' = [slotWorker EXCEPT ![Index(pos[w])] = cand[w]]
  /\ Decide(w, cand[w])
  /\ cand' = [cand EXCEPT ![w] = Unassigned]
  /\ UNCHANGED <<publishVars, slotJob, activeWorkers, upper, metricVars, done,
                 closeVars>>

\* The compare-and-swap of assignedWorker.
Assign(w) ==
  /\ hpc[w] = "assign"
  /\ LET i == Index(pos[w]) IN
     IF slotWorker[i] = Unassigned
       THEN /\ slotWorker' = [slotWorker EXCEPT ![i] = cand[w]]
            /\ Decide(w, cand[w])
       ELSE /\ hpc' = [hpc EXCEPT ![w] = "look"]
            /\ UNCHANGED <<slotWorker, pos, cursor>>
  /\ cand' = [cand EXCEPT ![w] = Unassigned]
  /\ UNCHANGED <<publishVars, slotJob, activeWorkers, upper, metricVars, done,
                 closeVars>>

\* handleJob takes the job out of the depth of the queue; a slot without work is
\* stepped over.
StartJob(w) ==
  /\ hpc[w] = "own"
  /\ IF slotJob[Index(pos[w])] = NoJob
       THEN Advance(w) /\ UNCHANGED jobQueueDepth
       ELSE /\ jobQueueDepth' = jobQueueDepth - 1
            /\ hpc' = [hpc EXCEPT ![w] = "busy"]
            /\ UNCHANGED <<pos, cursor>>
  /\ UNCHANGED <<publishVars, slotVars, activeWorkers, upper, cand, busyWorkers,
                 done, closeVars>>

\* handleJob counts its handler as busy and calls processJob.
IncBusyWorker(w) ==
  /\ hpc[w] = "busy"
  /\ busyWorkers' = busyWorkers + 1
  /\ hpc' = [hpc EXCEPT ![w] = "run"]
  /\ UNCHANGED <<publishVars, slotVars, activeWorkers, pos, upper, cand, cursor,
                 jobQueueDepth, done, closeVars>>

\* Faulty variant: runs a job once more before it empties the slot.
FinishSecondRun(w) ==
  /\ hpc[w] = "run"
  /\ done' = done \cup {slotJob[Index(pos[w])]}
  /\ IF slotJob[Index(pos[w])] \in done
       THEN /\ busyWorkers' = busyWorkers - 1
            /\ slotJob' = [slotJob EXCEPT ![Index(pos[w])] = NoJob]
            /\ Advance(w)
       ELSE UNCHANGED <<busyWorkers, slotJob, pos, cursor, hpc>>
  /\ UNCHANGED <<publishVars, slotWorker, activeWorkers, upper, cand,
                 jobQueueDepth, closeVars>>

\* processJob returns, with a result or an error; the slot is emptied.
FinishJob(w) ==
  /\ hpc[w] = "run"
  /\ done' = done \cup {slotJob[Index(pos[w])]}
  /\ busyWorkers' = busyWorkers - 1
  /\ slotJob' = [slotJob EXCEPT ![Index(pos[w])] = NoJob]
  /\ Advance(w)
  /\ UNCHANGED <<publishVars, slotWorker, activeWorkers, upper, cand,
                 jobQueueDepth, closeVars>>

-----------------------------------------------------------------------------
(* Close *)

\* The pool's context ends: closePool cancels it first, or its parent does.
CancelPool ==
  /\ ~cancelled
  /\ cancelled' = TRUE
  /\ UNCHANGED <<publishVars, slotVars, activeWorkers, handlerVars, metricVars,
                 done, life, sealed>>

\* closed.Swap(true)
CloseQueue ==
  /\ cancelled
  /\ life = "open"
  /\ life' = "closed"
  /\ UNCHANGED <<publishVars, slotVars, activeWorkers, handlerVars, metricVars,
                 done, cancelled, sealed>>

CloseDisruptor ==
  /\ life = "closed"
  /\ life' = "draining"
  /\ sealed' = {s \in committed : 0..s \subseteq committed}
  /\ UNCHANGED <<publishVars, slotVars, activeWorkers, handlerVars, metricVars,
                 done, cancelled>>

\* Faulty variant: a handler leaves without draining the ring.
ExitUndrained(w) ==
  /\ life = "draining"
  /\ hpc[w] = "idle"
  /\ hpc' = [hpc EXCEPT ![w] = "exited"]
  /\ UNCHANGED <<publishVars, slotVars, activeWorkers, pos, upper, cand, cursor,
                 metricVars, done, closeVars>>

\* The listener loop of a handler ends when it finds nothing more to handle.
HandlerExit(w) ==
  /\ life = "draining"
  /\ hpc[w] = "idle"
  /\ cursor[w] + 1 \notin committed
  /\ hpc' = [hpc EXCEPT ![w] = "exited"]
  /\ UNCHANGED <<publishVars, slotVars, activeWorkers, pos, upper, cand, cursor,
                 metricVars, done, closeVars>>

\* Listen returns with its last handler, and with it queue.wg.Wait.
CloseReturns ==
  /\ life = "draining"
  /\ \A w \in Workers : hpc[w] = "exited"
  /\ life' = "returned"
  /\ UNCHANGED <<publishVars, slotVars, activeWorkers, handlerVars, metricVars,
                 done, cancelled, sealed>>

HandlerStep(w) ==
  \/ TakeBatch(w) \/ Look(w) \/ Assign(w) \/ StartJob(w) \/ IncBusyWorker(w)
  \/ FinishJob(w) \/ HandlerExit(w)

Next ==
  \/ \E j \in Jobs : Offer(j) \/ PublishStep(j)
  \/ \E n \in 0..MaxWorkers : SetActiveWorkers(n)
  \/ \E w \in Workers : HandlerStep(w)
  \/ CancelPool \/ CloseQueue \/ CloseDisruptor \/ CloseReturns

\* Runnable goroutines are scheduled and a job's function returns.  Nothing
\* obliges anybody to offer a job, to scale the pool or to close it.
Fairness ==
  /\ \A j \in Jobs : WF_vars(PublishStep(j))
  /\ \A w \in Workers : WF_vars(HandlerStep(w))
  /\ WF_vars(CloseDisruptor) /\ WF_vars(CloseReturns)

Spec == Init /\ [][Next]_vars /\ Fairness
-----------------------------------------------------------------------------
(* Properties *)

\* The variables keep their types.  slotWorker and cand name an existing handler
\* because activeWorkers never exceeds MaxWorkers.
TypeOK ==
  /\ pc \in [Jobs -> {"idle", "check", "reserve", "fill", "commit", "published",
                      "failed"}]
  /\ seq \in [Jobs -> Nat \cup {-1}]
  /\ reserved \in Nat \cup {-1}
  /\ committed \subseteq Nat
  /\ slotWorker \in [0..(Capacity - 1) -> Workers \cup {Unassigned}]
  /\ slotJob \in [0..(Capacity - 1) -> Jobs \cup {NoJob}]
  /\ activeWorkers \in 0..MaxWorkers
  /\ hpc \in [Workers -> {"idle", "look", "assign", "own", "busy", "run", "exited"}]
  /\ pos \in [Workers -> Nat \cup {-1}]
  /\ upper \in [Workers -> Nat \cup {-1}]
  /\ cand \in [Workers -> Workers \cup {Unassigned}]
  /\ cursor \in [Workers -> Nat \cup {-1}]
  /\ jobQueueDepth \in Int
  /\ busyWorkers \in Int
  /\ done \subseteq Jobs
  /\ cancelled \in BOOLEAN
  /\ life \in {"open", "closed", "draining", "returned"}
  /\ sealed \subseteq Nat

InBatch(w) == hpc[w] \in {"look", "assign", "own", "busy", "run"}
Owns(w) == hpc[w] \in {"own", "busy", "run"}
Running(w) == IF hpc[w] \in {"busy", "run"} THEN slotJob[Index(pos[w])] ELSE NoJob
Started(j) == j \in done \/ \E w \in Workers : Running(w) = j

\* publish writes slot.kind and slot.job, and Handle reads and clears them, with
\* plain loads and stores.  No publisher is between TryReserve and Commit on a
\* slot that a handler is in or that another publisher holds, and no two
\* handlers own the same sequence.
NoSlotRace ==
  /\ \A j, k \in Jobs : \A w \in Workers :
       pc[j] \in {"fill", "commit"} =>
         /\ (k # j /\ pc[k] \in {"fill", "commit"}) => Index(seq[k]) # Index(seq[j])
         /\ InBatch(w) => Index(pos[w]) # Index(seq[j])
  /\ \A v, w \in Workers :
       (v # w /\ Owns(v) /\ Owns(w)) => Index(pos[v]) # Index(pos[w])

\* The counters that the regulators and the scaler read agree with the queue:
\* jobQueueDepth counts the jobs written to the ring and not yet started, and
\* so never goes negative, and busyWorkers the handlers inside processJob.  A job
\* whose handler is between decJobQueued and incBusyWorker is in neither.
MetricsAgree ==
  /\ jobQueueDepth =
       Cardinality({j \in Jobs : pc[j] \in {"commit", "published"} /\ ~Started(j)})
  /\ busyWorkers = Cardinality({w \in Workers : hpc[w] = "run"})

\* Once Close has returned, every job that lay in the committed prefix of the
\* ring when the disruptor was closed has been processed.
DrainedOnClose ==
  life = "returned" =>
    \A j \in Jobs : (pc[j] = "published" /\ seq[j] \in sealed) => j \in done

\* The first assignment of a slot stands until every handler is past its
\* sequence, whatever setActiveWorkers does in the meantime.
AssignmentStable ==
  [][\A w \in Workers :
       (InBatch(w) /\ slotWorker[Index(pos[w])] # Unassigned) =>
         slotWorker'[Index(pos[w])] = slotWorker[Index(pos[w])]]_vars

\* A published job runs: unless the queue is closed meanwhile, the handler it is
\* assigned to gets to it, however the number of active workers moves.
PublishedJobRuns ==
  \A j \in Jobs : (pc[j] = "published") ~> (j \in done \/ life # "open")

\* The pool's state as the queue represents it: a publish call that has returned
\* decides between acceptance and rejection, processJob does the rest.
poolStatus ==
  [j \in Jobs |->
    IF j \in done THEN "done"
    ELSE IF Started(j) THEN "running"
    ELSE IF pc[j] = "published" THEN "accepted"
    ELSE IF pc[j] = "failed" THEN "rejected" ELSE "offered"]

poolRunning == [w \in Workers |-> Running(w)]

Pool == INSTANCE WorkPool WITH status <- poolStatus, running <- poolRunning

\* The queue implements the pool its callers see: a job is accepted at most once
\* and before it starts, runs on one idle worker, once, and a publish that
\* returned an error never leads to a run.
ImplementsWorkPool == Pool!PoolSpec
=============================================================================
