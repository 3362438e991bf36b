-------------------------------- MODULE Scaler --------------------------------
(***************************************************************************)
(* The number of active workers: Scaler.Observe (scaler.go), which every   *)
(* Schedule calls and the scaler's goroutine calls at every tick,          *)
(* startWorker, scaleDownWorkers and deactivateWorkers (lifecycle.go) and  *)
(* the worker count in Metrics (metrics.go).                               *)
(*                                                                         *)
(* No worker is a goroutine of its own: a worker is a token in a registry  *)
(* (tokens counts them), a unit of workerCount, and a unit of the          *)
(* activeWorkers of the job queue, which spreads jobs over as many of its  *)
(* MaxWorkers handlers.  The queue's depth depends on the load: a reading  *)
(* may see any depth in Depths.  Loads are compared as floats in the  *)
(* code; the thresholds here are integers, which makes the same            *)
(* comparisons after multiplication by the worker count.                   *)
(***************************************************************************)
EXTENDS Integers, FiniteSets

CONSTANTS
  Observers,                     \* goroutines that call Observe
  MinWorkers, MaxWorkers,
  TargetLoad, ScaleUpThreshold, ScaleDownThreshold,
  Depths,                        \* the depths of the queue a reading may see
  NoReading

ASSUME ScalerAssumption ==
  /\ IsFiniteSet(Observers)
  /\ MaxWorkers \in Nat \ {0} /\ MinWorkers \in 1..MaxWorkers
  /\ TargetLoad \in Nat \ {0}
  /\ ScaleUpThreshold \in Nat /\ ScaleDownThreshold \in Nat /\ Depths \subseteq Nat

VARIABLES
  workerCount,     \* Metrics.workerCount
  tokens,          \* size of Q.registry
  activeWorkers,   \* jobDisruptorQueue.activeWorkers
  reading,         \* Scaler.reading
  cooling,         \* less than cooldown has passed since lastScaleDownNano
  opc, read, todo, loaded,   \* of each call of Observe
  close,           \* closePool
  overlapped       \* history: two calls of Observe have overlapped

scalerVars == <<workerCount, tokens, activeWorkers, reading, cooling, opc, read, todo,
                loaded, close, overlapped>>
pool == <<workerCount, tokens, activeWorkers>>

\* NewQ starts MinWorkers workers before anybody else can see the pool.
ScalerInit ==
  /\ workerCount = MinWorkers
  /\ tokens = MinWorkers
  /\ activeWorkers = MinWorkers
  /\ reading = NoReading
  /\ cooling = TRUE
  /\ opc = [o \in Observers |-> "idle"]
  /\ read = [o \in Observers |-> NoReading]
  /\ todo = [o \in Observers |-> 0]
  /\ loaded = [o \in Observers |-> 0]
  /\ close = "open"
  /\ overlapped = FALSE

MinOf(a, b) == IF a < b THEN a ELSE b
MaxOf(a, b) == IF a > b THEN a ELSE b
CeilDiv(a, b) == (a + b - 1) \div b

Goto(o, label) == opc' = [opc EXCEPT ![o] = label]

-----------------------------------------------------------------------------
(* Observe and evaluate *)

\* The cooldown passes.
CooldownEnds ==
  /\ cooling
  /\ cooling' = FALSE
  /\ UNCHANGED <<pool, reading, opc, read, todo, loaded, close, overlapped>>

\* CollectReading, in Schedule or at a tick.
CollectReading(o) ==
  /\ opc[o] = "idle"
  /\ \E d \in Depths :
       read' = [read EXCEPT ![o] = [workers |-> workerCount, depth |-> d]]
  /\ Goto(o, "observe")
  /\ overlapped' = (overlapped \/ \E p \in Observers : opc[p] # "idle")
  /\ UNCHANGED <<pool, reading, cooling, todo, loaded, close>>

Observe(o) ==
  /\ opc[o] = "observe"
  /\ reading' = read[o]
  /\ Goto(o, "load")
  /\ UNCHANGED <<pool, cooling, read, todo, loaded, close, overlapped>>

\* evaluate reads the reading back, which may be another call's by now.
LoadReading(o) ==
  /\ opc[o] = "load"
  /\ read' = [read EXCEPT ![o] = reading]
  /\ Goto(o, "up")
  /\ UNCHANGED <<pool, reading, cooling, todo, loaded, close, overlapped>>

\* The workers to add and to remove for reading r.
ToAdd(r) ==
  IF r.depth > ScaleUpThreshold * MaxOf(1, r.workers) /\ r.workers < MaxWorkers
    THEN MinOf(MaxWorkers - r.workers, MaxOf(0, CeilDiv(r.depth, TargetLoad) - r.workers))
    ELSE 0

\* Faulty variant: may remove the last MinWorkers workers too.
ToRemoveAll(r) ==
  IF r.depth < ScaleDownThreshold * MaxOf(1, r.workers) /\ r.workers > MinWorkers
    THEN MaxOf(1, r.workers - CeilDiv(r.depth, TargetLoad))
    ELSE 0

ToRemove(r) ==
  IF r.depth < ScaleDownThreshold * MaxOf(1, r.workers) /\ r.workers > MinWorkers
    THEN LET needed == MaxOf(CeilDiv(r.depth, TargetLoad), MinWorkers)
         IN MinOf(r.workers - MinWorkers, MaxOf(1, (r.workers - needed) \div 2))
    ELSE 0

\* scaleUp bounds the number by the workers there are now.
ScaleUp(o) ==
  /\ opc[o] = "up"
  /\ LET n == MinOf(MaxWorkers - workerCount, ToAdd(read[o]))
     IN /\ todo' = [todo EXCEPT ![o] = n]
        /\ Goto(o, IF n > 0 THEN "start" ELSE "down")
  /\ UNCHANGED <<pool, reading, cooling, read, loaded, close, overlapped>>

\* The second half of evaluate: not within cooldown of the last removal.
ScaleDown(o) ==
  /\ opc[o] = "down"
  /\ LET n == IF cooling THEN 0 ELSE ToRemove(read[o])
     IN /\ todo' = [todo EXCEPT ![o] = n]
        /\ Goto(o, IF n > 0 THEN "pop" ELSE "idle")
  /\ read' = [read EXCEPT ![o] = NoReading]
  /\ UNCHANGED <<pool, reading, cooling, loaded, close, overlapped>>

\* noteScaleDown.
NoteScaleDown(o) ==
  /\ opc[o] = "note"
  /\ cooling' = TRUE
  /\ Goto(o, "idle")
  /\ UNCHANGED <<pool, reading, read, todo, loaded, close, overlapped>>

-----------------------------------------------------------------------------
(* startWorker *)

Again(o, label, end) ==
  /\ todo' = [todo EXCEPT ![o] = @ - 1]
  /\ Goto(o, IF todo[o] > 1 THEN label ELSE end)

\* tryIncWorkerIfBelow; startWorker returns if there are MaxWorkers.
TryInc(o) ==
  /\ opc[o] = "start"
  /\ IF workerCount < MaxWorkers
       THEN workerCount' = workerCount + 1 /\ Goto(o, "push") /\ UNCHANGED todo
       ELSE Again(o, "start", "down") /\ UNCHANGED workerCount
  /\ UNCHANGED <<tokens, activeWorkers, reading, cooling, read, loaded, close,
                 overlapped>>

\* registry.push.
Push(o) ==
  /\ opc[o] = "push"
  /\ tokens' = tokens + 1
  /\ Goto(o, "loadUp")
  /\ UNCHANGED <<workerCount, activeWorkers, reading, cooling, read, todo, loaded,
                 close, overlapped>>

\* setActiveWorkers(workerCount.Load()), in startWorker and scaleDownWorkers: the
\* load ...
LoadCount(o) ==
  /\ opc[o] \in {"loadUp", "loadDown"}
  /\ loaded' = [loaded EXCEPT ![o] = workerCount]
  /\ Goto(o, IF opc[o] = "loadUp" THEN "setUp" ELSE "setDown")
  /\ UNCHANGED <<pool, reading, cooling, read, todo, close, overlapped>>

\* Faulty variant: scaling down leaves activeWorkers alone.
SetActiveUp(o) ==
  /\ opc[o] \in {"setUp", "setDown"}
  /\ activeWorkers' = IF opc[o] = "setUp" THEN MaxOf(1, loaded[o]) ELSE activeWorkers
  /\ loaded' = [loaded EXCEPT ![o] = 0]
  /\ IF opc[o] = "setUp" THEN Again(o, "start", "down") ELSE Again(o, "pop", "note")
  /\ UNCHANGED <<workerCount, tokens, reading, cooling, read, close, overlapped>>

\* ... and the store, which is never below one.
SetActive(o) ==
  /\ opc[o] \in {"setUp", "setDown"}
  /\ activeWorkers' = MaxOf(1, loaded[o])
  /\ loaded' = [loaded EXCEPT ![o] = 0]
  /\ IF opc[o] = "setUp" THEN Again(o, "start", "down") ELSE Again(o, "pop", "note")
  /\ UNCHANGED <<workerCount, tokens, reading, cooling, read, close, overlapped>>

-----------------------------------------------------------------------------
(* scaleDownWorkers *)

\* registry.popLast; scaleDownWorkers gives up when the registry is empty.
Pop(o) ==
  /\ opc[o] = "pop"
  /\ IF tokens > 0
       THEN tokens' = tokens - 1 /\ Goto(o, "dec") /\ UNCHANGED todo
       ELSE Goto(o, "note") /\ todo' = [todo EXCEPT ![o] = 0] /\ UNCHANGED tokens
  /\ UNCHANGED <<workerCount, activeWorkers, reading, cooling, read, loaded, close,
                 overlapped>>

\* decWorkerCount.
Dec(o) ==
  /\ opc[o] = "dec"
  /\ workerCount' = workerCount - 1
  /\ Goto(o, "loadDown")
  /\ UNCHANGED <<tokens, activeWorkers, reading, cooling, read, todo, loaded, close,
                 overlapped>>

-----------------------------------------------------------------------------
(* deactivateWorkers, in Close *)

\* Faulty variant: the worker count is left alone.
CloseDecSkipped ==
  /\ close = "dec"
  /\ close' = "pop"
  /\ UNCHANGED <<pool, reading, cooling, opc, read, todo, loaded, overlapped>>

ClosePop ==
  /\ close \in {"open", "pop"}
  /\ close' = IF tokens > 0 THEN "dec" ELSE "done"
  /\ tokens' = MaxOf(0, tokens - 1)
  /\ UNCHANGED <<workerCount, activeWorkers, reading, cooling, opc, read, todo,
                 loaded, overlapped>>

CloseDec ==
  /\ close = "dec"
  /\ workerCount' = workerCount - 1
  /\ close' = "pop"
  /\ UNCHANGED <<tokens, activeWorkers, reading, cooling, opc, read, todo, loaded,
                 overlapped>>

-----------------------------------------------------------------------------

ObserveStep(o) ==
  \/ Observe(o) \/ LoadReading(o) \/ ScaleUp(o) \/ ScaleDown(o) \/ NoteScaleDown(o)
  \/ TryInc(o) \/ Push(o) \/ LoadCount(o) \/ SetActive(o) \/ Pop(o) \/ Dec(o)

ScalerNext ==
  \/ \E o \in Observers : CollectReading(o) \/ ObserveStep(o)
  \/ CooldownEnds \/ ClosePop \/ CloseDec

ScalerSpec == ScalerInit /\ [][ScalerNext]_scalerVars

-----------------------------------------------------------------------------
(* Properties *)

\* Where a call of Observe may stand.
Labels == {"idle", "observe", "load", "up", "down", "start", "push", "loadUp", "setUp",
           "pop", "dec", "loadDown", "setDown", "note"}

\* Jobs are spread over handlers the queue has: a job assigned beyond them would
\* never run.  It is what the job queue's own model assumes of setActiveWorkers.
ActiveInRange == activeWorkers \in 1..MaxWorkers

\* The calls that have counted a worker and not pushed its token, or popped a token
\* and not counted its worker out.
Moving == {o \in Observers : opc[o] \in {"push", "dec"}}

\* The worker count is the registered workers and the ones on their way in or out,
\* however calls of Observe and Close interleave.
TokensCounted ==
  workerCount = tokens + Cardinality(Moving) + (IF close = "dec" THEN 1 ELSE 0)

Quiet == close = "open" /\ \A o \in Observers : opc[o] = "idle"

\* As long as calls of Observe have not overlapped, the queue spreads jobs over
\* exactly the workers counted whenever the scaler is at rest.
ActiveAgrees == (Quiet /\ ~overlapped) => activeWorkers = workerCount

\* ... and no sequence of readings takes the worker count below MinWorkers before
\* Close: neither the bounds of evaluate nor a reading taken before scaling up and
\* used again for scaling down.
MinKeptAlone == (close = "open" /\ ~overlapped) => workerCount >= MinWorkers
=============================================================================
