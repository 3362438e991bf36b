------------------------------ MODULE FastPath ------------------------------
(***************************************************************************)
(* ScheduleFast, the executor beside the job queue: a caller hands its     *)
(* task to a worker parked on a lock-free stack, or starts a new worker    *)
(* while there are fewer than maxWorkers, or yields and tries again.  A    *)
(* worker that has run its task pushes its slot on the stack and parks.    *)
(*                                                                         *)
(* The nodes of the stack are recycled through a sync.Pool, so the address *)
(* a pop has loaded may, when it comes to its compare-and-swap, be the     *)
(* same node pushed again over another rest of the stack.  The history     *)
(* variable torn records that a pop swapped in such an outdated rest.      *)
(***************************************************************************)
EXTENDS Integers, FiniteSets

CONSTANTS
    Callers,     \* goroutines that call ScheduleFast
    Workers,     \* worker goroutines there could be, each with its slot
    Nodes,       \* stack nodes the allocator can hand out
    Nil,         \* the nil pointer
    MaxWorkers,  \* maxWorkers of the pool
    MaxTasks     \* bound: tasks submitted

ASSUME FastPathAssumption ==
    /\ MaxWorkers \in Nat \ {0} /\ MaxTasks \in Nat
    /\ IsFiniteSet(Workers) /\ IsFiniteSet(Callers)
    /\ Nil \notin Nodes \cup Workers

VARIABLES
    top, next, value,  \* the stack: its head, and each node's next and value
    pooled, fresh,     \* how often a node is in the sync.Pool; nodes never used
    workerCount,
    caller,            \* position and locals of each caller
    worker,            \* position, slot and locals of each worker
    submitted, ran,    \* tasks submitted so far, how often each was run
    torn

stackVars == <<top, next, value, pooled, fresh>>
taskVars == <<submitted, ran>>
vars == <<stackVars, workerCount, caller, worker, taskVars, torn>>

Tasks == 1 .. MaxTasks

\* A caller outside ScheduleFast, and a worker goroutine not yet started.
Outside == [pc |-> "idle", task |-> 0, top |-> Nil, next |-> Nil, slot |-> Nil]
NotStarted == [pc |-> "none", task |-> 0, item |-> Nil, top |-> Nil]

Init ==
    /\ top = Nil
    /\ next = [n \in Nodes |-> Nil]
    /\ value = [n \in Nodes |-> Nil]
    /\ pooled = [n \in Nodes |-> 0]
    /\ fresh = Nodes
    /\ workerCount = 0
    /\ caller = [c \in Callers |-> Outside]
    /\ worker = [w \in Workers |-> NotStarted]
    /\ submitted = 0
    /\ ran = [t \in Tasks |-> 0]
    /\ torn = FALSE

-----------------------------------------------------------------------------
\* A caller of ScheduleFast.

Submit(c) ==
    /\ caller[c].pc = "idle"
    /\ submitted < MaxTasks
    /\ submitted' = submitted + 1
    /\ caller' = [caller EXCEPT ![c].pc = "load", ![c].task = submitted + 1]
    /\ UNCHANGED <<stackVars, workerCount, worker, ran, torn>>

\* pop: load the head; an empty stack sends the caller on to count itself in.
PopLoad(c) ==
    /\ caller[c].pc = "load"
    /\ caller' = [caller EXCEPT ![c].top = top,
                                ![c].pc = IF top = Nil THEN "count" ELSE "next"]
    /\ UNCHANGED <<stackVars, workerCount, worker, taskVars, torn>>

PopNext(c) ==
    /\ caller[c].pc = "next"
    /\ caller' = [caller EXCEPT ![c].next = next[caller[c].top], ![c].pc = "cas"]
    /\ UNCHANGED <<stackVars, workerCount, worker, taskVars, torn>>

PopSwap(c) ==
    /\ caller[c].pc = "cas"
    /\ IF top = caller[c].top
       THEN /\ top' = caller[c].next
            /\ torn' = (torn \/ caller[c].next # next[top])
            /\ caller' = [caller EXCEPT ![c].pc = "free", ![c].next = Nil]
       ELSE /\ caller' = [caller EXCEPT ![c].pc = "load", ![c].next = Nil]
            /\ UNCHANGED <<top, torn>>
    /\ UNCHANGED <<next, value, pooled, fresh, workerCount, worker, taskVars>>

\* Take the slot out of the node, clear the node and give it back.  A slot is
\* given the task; no slot (a nil value) sends the caller on to count.
PopFree(c) ==
    /\ caller[c].pc = "free"
    /\ LET n == caller[c].top
           s == value[n]
       IN /\ value' = [value EXCEPT ![n] = Nil]
          /\ next' = [next EXCEPT ![n] = Nil]
          /\ pooled' = [pooled EXCEPT ![n] = @ + 1]
          /\ IF s = Nil
             THEN /\ caller' = [caller EXCEPT ![c].pc = "count", ![c].top = Nil]
                  /\ UNCHANGED worker
             ELSE /\ caller' = [caller EXCEPT ![c].pc = "ready", ![c].top = Nil,
                                              ![c].slot = s]
                  /\ worker' = [worker EXCEPT ![s].task = caller[c].task]
    /\ UNCHANGED <<top, fresh, workerCount, taskVars, torn>>

\* safe_ready: yield until the worker is parked, then make it runnable.
SafeReady(c) ==
    /\ caller[c].pc = "ready"
    /\ worker[caller[c].slot].pc = "parked"
    /\ worker' = [worker EXCEPT ![caller[c].slot].pc = "run"]
    /\ caller' = [caller EXCEPT ![c] = Outside]
    /\ UNCHANGED <<stackVars, workerCount, taskVars, torn>>

NewWorkers == {w \in Workers : worker[w].pc = "none"}

\* Faulty variant: lets one worker more start.
CountedInOneMore == workerCount <= MaxWorkers

\* AddUint64(&workerCount, 1) <= maxWorkers, from the count before the addition.
CountedIn == workerCount + 1 <= MaxWorkers

Count(c) ==
    /\ caller[c].pc = "count"
    /\ workerCount' = workerCount + 1
    /\ IF CountedIn
       THEN /\ NewWorkers # {}
            /\ worker' = [worker EXCEPT ![CHOOSE w \in NewWorkers : TRUE] =
                             [@ EXCEPT !.pc = "run", !.task = caller[c].task]]
            /\ caller' = [caller EXCEPT ![c] = Outside]
       ELSE /\ caller' = [caller EXCEPT ![c].pc = "retract"]
            /\ UNCHANGED worker
    /\ UNCHANGED <<stackVars, taskVars, torn>>

\* Faulty variant: gives up when there are enough workers.
RetractAndReturn(c) ==
    /\ caller[c].pc = "retract"
    /\ workerCount' = workerCount - 1
    /\ caller' = [caller EXCEPT ![c] = Outside]
    /\ UNCHANGED <<stackVars, worker, taskVars, torn>>

\* Take the count back, yield, and start over.
Retract(c) ==
    /\ caller[c].pc = "retract"
    /\ workerCount' = workerCount - 1
    /\ caller' = [caller EXCEPT ![c].pc = "load"]
    /\ UNCHANGED <<stackVars, worker, taskVars, torn>>

-----------------------------------------------------------------------------
\* A worker in loopQ.

Run(w) ==
    /\ worker[w].pc = "run"
    /\ ran' = [ran EXCEPT ![worker[w].task] = @ + 1]
    /\ worker' = [worker EXCEPT ![w].pc = "alloc"]
    /\ UNCHANGED <<stackVars, workerCount, caller, submitted, torn>>

\* push: a node from the sync.Pool, recycled or new, with the slot in it.
PushAlloc(w) ==
    /\ worker[w].pc = "alloc"
    /\ \E n \in Nodes :
         /\ \/ /\ fresh # {}
               /\ n = CHOOSE new \in fresh : TRUE
               /\ fresh' = fresh \ {n}
               /\ UNCHANGED pooled
            \/ /\ pooled[n] > 0
               /\ pooled' = [pooled EXCEPT ![n] = @ - 1]
               /\ UNCHANGED fresh
         /\ value' = [value EXCEPT ![n] = w]
         /\ worker' = [worker EXCEPT ![w].item = n, ![w].pc = "load"]
    /\ UNCHANGED <<top, next, workerCount, caller, taskVars, torn>>

PushLoad(w) ==
    /\ worker[w].pc = "load"
    /\ next' = [next EXCEPT ![worker[w].item] = top]
    /\ worker' = [worker EXCEPT ![w].top = top, ![w].pc = "cas"]
    /\ UNCHANGED <<top, value, pooled, fresh, workerCount, caller, taskVars, torn>>

\* Faulty variant: a store where the code compares and swaps.
PushStore(w) ==
    /\ worker[w].pc = "cas"
    /\ top' = worker[w].item
    /\ worker' = [worker EXCEPT ![w].pc = "park", ![w].item = Nil, ![w].top = Nil]
    /\ UNCHANGED <<next, value, pooled, fresh, workerCount, caller, taskVars, torn>>

PushSwap(w) ==
    /\ worker[w].pc = "cas"
    /\ IF top = worker[w].top
       THEN /\ top' = worker[w].item
            /\ worker' = [worker EXCEPT ![w].pc = "park", ![w].item = Nil,
                                        ![w].top = Nil]
       ELSE /\ worker' = [worker EXCEPT ![w].pc = "load", ![w].top = Nil]
            /\ UNCHANGED top
    /\ UNCHANGED <<next, value, pooled, fresh, workerCount, caller, taskVars, torn>>

\* mcall(fast_park)
FastPark(w) ==
    /\ worker[w].pc = "park"
    /\ worker' = [worker EXCEPT ![w].pc = "parked"]
    /\ UNCHANGED <<stackVars, workerCount, caller, taskVars, torn>>

-----------------------------------------------------------------------------
\* ScheduleFast once called, and loopQ.
ScheduleFast(c) ==
    \/ PopLoad(c) \/ PopNext(c) \/ PopSwap(c) \/ PopFree(c)
    \/ SafeReady(c)
    \/ Count(c) \/ Retract(c)

loopQ(w) ==
    \/ Run(w)
    \/ PushAlloc(w) \/ PushLoad(w) \/ PushSwap(w)
    \/ FastPark(w)

Next ==
    \/ \E c \in Callers : Submit(c) \/ ScheduleFast(c)
    \/ \E w \in Workers : loopQ(w)

\* The Go scheduler runs every goroutine that can run.
Fairness ==
    /\ \A c \in Callers : WF_vars(ScheduleFast(c))
    /\ \A w \in Workers : WF_vars(loopQ(w))

Spec == Init /\ [][Next]_vars /\ Fairness

-----------------------------------------------------------------------------
Started == {w \in Workers : worker[w].pc # "none"}

\* ScheduleFast never has more than maxWorkers workers, however many callers
\* add themselves to workerCount and take it back at the same time.
WorkersBounded == Cardinality(Started) <= MaxWorkers

\* The nodes met walking the stack from its head: what lies in every set of nodes
\* that holds the head, if there is one, and is closed under next.
Reached ==
    {m \in Nodes : \A S \in SUBSET Nodes :
       (top \in S \cup {Nil} /\ \A x \in S : next[x] \in S \cup {Nil}) => m \in S}

\* Unless a pop swapped in an outdated rest of the stack, a worker that has
\* pushed its slot and that no caller has taken is on the stack, in exactly one
\* node, and no other worker is: no idle worker is lost, and none can be popped
\* by two callers.
IdleReachable ==
    torn \/ \A w \in Workers :
      Cardinality({n \in Reached : value[n] = w}) =
        IF /\ worker[w].pc \in {"park", "parked"}
           /\ \A c \in Callers :
                /\ caller[c].slot # w
                /\ caller[c].pc = "free" => value[caller[c].top] # w
        THEN 1 ELSE 0

\* A task given to ScheduleFast is run, once, unless a recycled node has torn
\* the stack.
TasksRun ==
    \A t \in Tasks : (submitted >= t) ~> (torn \/ ran[t] = 1)
=============================================================================
