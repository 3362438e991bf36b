------------------------------ MODULE ResultSlot ------------------------------
(***************************************************************************)
(* The one-shot result cell of result_wait.go: a state word, an artifact   *)
(* pointer and a lock-free list of parked goroutines.  Deliver and Close   *)
(* change the state and then wake the list; Wait parks on a semaphore of   *)
(* its own node and unlinks that node when it resumes.                     *)
(*                                                                         *)
(* One action is one access to shared memory (Go's sync/atomic operations  *)
(* are sequentially consistent), with these reductions:                    *)
(*   - a load/CAS retry loop whose failed iterations write nothing shared  *)
(*     (pushWaiter, Close) is one step, its successful CAS;                *)
(*   - the state load that opens parkForWait follows an identical load in  *)
(*     Wait with nothing between and is merged with it;                    *)
(*   - a context callback that runs after stopAfterFunc only touches the   *)
(*     semaphore of a node nobody waits on any more, and is left out.      *)
(* An artifact is named after the goroutine that delivers it.              *)
(***************************************************************************)
EXTENDS Naturals

CONSTANTS
  Waiters,      \* goroutines that call Wait
  Deliverers,   \* goroutines that call Deliver, once each
  Closers,      \* goroutines that call Close, once each
  MaxCalls,     \* bound on the number of Wait calls of each goroutine
  Nil

ASSUME SlotAssumption ==
  /\ MaxCalls \in [Waiters -> Nat]
  /\ Waiters \cap Deliverers = {}
  /\ Waiters \cap Closers = {}
  /\ Deliverers \cap Closers = {}
  /\ {Nil, "closed", "ctxErr", "missing"} \cap Deliverers = {}
  /\ Nil \notin {"closed", "ctxErr", "missing"}
  /\ \A g \in Waiters : \A k \in 1..MaxCalls[g] : Nil # <<g, k>>

VARIABLES
  state,    \* slot.state
  value,    \* slot.value
  head,     \* slot.waiters
  next,     \* the next pointer of every waiterNode
  sema,     \* the semaphore of every waiterNode
  pc,       \* where each goroutine stands
  call,     \* the number of Wait calls a waiter has begun
  ctxDone,  \* whether the context of a waiter's current call is done
  hooks,    \* nodes with a registered, unstopped context.AfterFunc
  prev, cur, succ,  \* local variables of removeWaiter and wakeWaiters
  ret       \* what a waiter's Wait call returned

vars == <<state, value, head, next, sema, pc, call, ctxDone, hooks,
          prev, cur, succ, ret>>
list == <<head, next>>
slot == <<state, value>>
walk == <<prev, cur, succ>>

Wakers == Deliverers \cup Closers
Procs  == Waiters \cup Wakers

\* The waiterNode allocated by the k-th Wait call of goroutine g; its gp is g.
\* A call allocates at most one: a semaphore is released only when the slot has
\* left pending or the call's context is done, and both end the call.
Node == UNION {{g} \X (1..MaxCalls[g]) : g \in Waiters}
NodeOf(g) == <<g, call[g]>>

WaiterPC == {"idle", "load", "value", "ctx", "recheck", "revalue", "push",
             "verify", "sleep", "remove", "walk", "unlink"}
WakerPC  == {"store", "cas", "close", "swap", "release", "advance", "done"}

Goto(p, label) == pc' = [pc EXCEPT ![p] = label]

\* The call ends; its context goes with it.
Return(g, outcome) ==
  /\ Goto(g, "idle")
  /\ ctxDone' = [ctxDone EXCEPT ![g] = FALSE]
  /\ ret' = [ret EXCEPT ![g] = outcome]

Init ==
  /\ state = "pending"
  /\ value = Nil
  /\ head = Nil
  /\ next = [n \in Node |-> Nil]
  /\ sema = [n \in Node |-> 0]
  /\ pc = [p \in Procs |-> IF p \in Waiters THEN "idle"
                           ELSE IF p \in Deliverers THEN "store" ELSE "close"]
  /\ call = [g \in Waiters |-> 0]
  /\ ctxDone = [g \in Waiters |-> FALSE]
  /\ hooks = {}
  /\ prev = [g \in Waiters |-> Nil]
  /\ cur = [p \in Procs |-> Nil]
  /\ succ = [g \in Waiters |-> Nil]
  /\ ret = [g \in Waiters |-> Nil]

-----------------------------------------------------------------------------
(* Wait *)

\* A handle's Get enters Wait with a context that may end at any time.
Get(g) ==
  /\ pc[g] = "idle"
  /\ call[g] < MaxCalls[g]
  /\ call' = [call EXCEPT ![g] = @ + 1]
  /\ ret' = [ret EXCEPT ![g] = Nil]
  /\ Goto(g, "load")
  /\ UNCHANGED <<slot, list, sema, ctxDone, hooks, walk>>

CancelContext(g) ==
  /\ pc[g] # "idle"
  /\ ~ctxDone[g]
  /\ ctxDone' = [ctxDone EXCEPT ![g] = TRUE]
  /\ UNCHANGED <<slot, list, sema, pc, call, hooks, walk, ret>>

\* The first switch of the loop.
LoadState(g) ==
  /\ pc[g] = "load"
  /\ \/ state = "ready" /\ Goto(g, "value") /\ UNCHANGED <<ctxDone, ret>>
     \/ state = "closed" /\ Return(g, "closed")
     \/ state = "pending" /\ Goto(g, "ctx") /\ UNCHANGED <<ctxDone, ret>>
  /\ UNCHANGED <<slot, list, sema, call, hooks, walk>>

\* Both loads of the artifact.  The second one falls through to parkForWait on
\* nil, which returns at once because the slot is no longer pending.
LoadValue(g) ==
  /\ pc[g] \in {"value", "revalue"}
  /\ IF value = Nil /\ pc[g] = "revalue"
       THEN Goto(g, "load") /\ UNCHANGED <<ctxDone, ret>>
       ELSE Return(g, IF value = Nil THEN "missing" ELSE value)
  /\ UNCHANGED <<slot, list, sema, call, hooks, walk>>

CheckContext(g) ==
  /\ pc[g] = "ctx"
  /\ \/ ctxDone[g] /\ Return(g, "ctxErr")
     \/ ~ctxDone[g] /\ Goto(g, "recheck") /\ UNCHANGED <<ctxDone, ret>>
  /\ UNCHANGED <<slot, list, sema, call, hooks, walk>>

\* The second switch and the first test of parkForWait.
Recheck(g) ==
  /\ pc[g] = "recheck"
  /\ \/ state = "ready" /\ Goto(g, "revalue") /\ UNCHANGED <<ctxDone, ret>>
     \/ state = "closed" /\ Return(g, "closed")
     \/ state = "pending" /\ Goto(g, "push") /\ UNCHANGED <<ctxDone, ret>>
  /\ UNCHANGED <<slot, list, sema, call, hooks, walk>>

PushWaiter(g) ==
  /\ pc[g] = "push"
  /\ next' = [next EXCEPT ![NodeOf(g)] = head]
  /\ head' = NodeOf(g)
  /\ Goto(g, "verify")
  /\ UNCHANGED <<slot, sema, call, ctxDone, hooks, walk, ret>>

\* Faulty variant: sleeps without looking at the state again.
VerifySkipped(g) ==
  /\ pc[g] = "verify"
  /\ hooks' = hooks \cup {NodeOf(g)}
  /\ Goto(g, "sleep")
  /\ UNCHANGED <<slot, list, sema, call, ctxDone, walk, ret>>

\* The state test after the push closes the window in which a waker has already
\* swapped the list; only a still pending slot is slept on.
Verify(g) ==
  /\ pc[g] = "verify"
  /\ IF state = "pending"
       THEN hooks' = hooks \cup {NodeOf(g)} /\ Goto(g, "sleep")
       ELSE UNCHANGED hooks /\ Goto(g, "remove")
  /\ UNCHANGED <<slot, list, sema, call, ctxDone, walk, ret>>

\* runtime_Semacquire returns.
Acquire(g) ==
  /\ pc[g] = "sleep"
  /\ sema[NodeOf(g)] > 0
  /\ sema' = [sema EXCEPT ![NodeOf(g)] = @ - 1]
  /\ Goto(g, "remove")
  /\ UNCHANGED <<slot, list, call, ctxDone, hooks, walk, ret>>

\* Faulty variant: the callback of a done context wakes nobody.
ContextHookSilent(n) ==
  /\ n \in hooks
  /\ ctxDone[n[1]]
  /\ hooks' = hooks \ {n}
  /\ UNCHANGED <<slot, list, sema, pc, call, ctxDone, walk, ret>>

\* context.AfterFunc runs its callback in a goroutine of its own.
ContextHook(n) ==
  /\ n \in hooks
  /\ ctxDone[n[1]]
  /\ sema' = [sema EXCEPT ![n] = @ + 1]
  /\ hooks' = hooks \ {n}
  /\ UNCHANGED <<slot, list, pc, call, ctxDone, walk, ret>>

-----------------------------------------------------------------------------
(* removeWaiter, and the stopAfterFunc that follows it *)

\* The local variables die with the call.
RemoveReturns(g) ==
  /\ hooks' = hooks \ {NodeOf(g)}
  /\ prev' = [prev EXCEPT ![g] = Nil]
  /\ cur' = [cur EXCEPT ![g] = Nil]
  /\ succ' = [succ EXCEPT ![g] = Nil]
  /\ Goto(g, "load")

RemoveFromHead(g) ==
  /\ pc[g] = "remove"
  /\ \/ head = Nil /\ RemoveReturns(g)
     \/ /\ head # Nil
        /\ cur' = [cur EXCEPT ![g] = head]
        /\ prev' = [prev EXCEPT ![g] = Nil]
        /\ Goto(g, "walk")
        /\ UNCHANGED <<succ, hooks>>
  /\ UNCHANGED <<slot, list, sema, call, ctxDone, ret>>

\* One iteration: a node of another goroutine is stepped over, one of this
\* goroutine is about to be unlinked from what precedes it.
RemoveWalk(g) ==
  /\ pc[g] = "walk"
  /\ LET after == next[cur[g]] IN
     \/ /\ cur[g][1] = g
        /\ succ' = [succ EXCEPT ![g] = after]
        /\ Goto(g, "unlink")
        /\ UNCHANGED <<prev, cur, hooks>>
     \/ /\ cur[g][1] # g
        /\ after # Nil
        /\ prev' = [prev EXCEPT ![g] = cur[g]]
        /\ cur' = [cur EXCEPT ![g] = after]
        /\ UNCHANGED <<succ, pc, hooks>>
     \/ /\ cur[g][1] # g
        /\ after = Nil
        /\ RemoveReturns(g)
  /\ UNCHANGED <<slot, list, sema, call, ctxDone, ret>>

\* A failed CAS on the head starts over, a failed CAS further down gives up.
RemoveUnlink(g) ==
  /\ pc[g] = "unlink"
  /\ \/ /\ prev[g] = Nil
        /\ head = cur[g]
        /\ head' = succ[g]
        /\ RemoveReturns(g)
        /\ UNCHANGED next
     \/ /\ prev[g] = Nil
        /\ head # cur[g]
        /\ Goto(g, "remove")
        /\ UNCHANGED <<list, hooks, walk>>
     \/ /\ prev[g] # Nil
        /\ next' = IF next[prev[g]] = cur[g]
                     THEN [next EXCEPT ![prev[g]] = succ[g]] ELSE next
        /\ RemoveReturns(g)
        /\ UNCHANGED head
  /\ UNCHANGED <<slot, sema, call, ctxDone, ret>>

-----------------------------------------------------------------------------
(* Deliver, Close and wakeWaiters *)

\* Faulty variant: Deliver publishes the state before the artifact.
StateBeforeValue(d) ==
  /\ \/ /\ pc[d] = "store"
        /\ state = "pending"
        /\ state' = "ready"
        /\ Goto(d, "cas")
        /\ UNCHANGED value
     \/ /\ pc[d] = "cas"
        /\ value' = d
        /\ Goto(d, "swap")
        /\ UNCHANGED state
  /\ UNCHANGED <<list, sema, call, ctxDone, hooks, walk, ret>>

StoreValue(d) ==
  /\ pc[d] = "store"
  /\ value' = d
  /\ Goto(d, "cas")
  /\ UNCHANGED <<state, list, sema, call, ctxDone, hooks, walk, ret>>

MarkReady(d) ==
  /\ pc[d] = "cas"
  /\ \/ state = "pending" /\ state' = "ready" /\ Goto(d, "swap")
     \/ state # "pending" /\ UNCHANGED state /\ Goto(d, "done")
  /\ UNCHANGED <<value, list, sema, call, ctxDone, hooks, walk, ret>>

Close(c) ==
  /\ pc[c] = "close"
  /\ state' = "closed"
  /\ Goto(c, IF state = "closed" THEN "done" ELSE "swap")
  /\ UNCHANGED <<value, list, sema, call, ctxDone, hooks, walk, ret>>

SwapWaiters(k) ==
  /\ pc[k] = "swap"
  /\ cur' = [cur EXCEPT ![k] = head]
  /\ head' = Nil
  /\ Goto(k, IF head = Nil THEN "done" ELSE "release")
  /\ UNCHANGED <<slot, next, sema, call, ctxDone, hooks, prev, succ, ret>>

ReleaseWaiter(k) ==
  /\ pc[k] = "release"
  /\ sema' = [sema EXCEPT ![cur[k]] = @ + 1]
  /\ Goto(k, "advance")
  /\ UNCHANGED <<slot, list, call, ctxDone, hooks, walk, ret>>

NextWaiter(k) ==
  /\ pc[k] = "advance"
  /\ cur' = [cur EXCEPT ![k] = next[cur[k]]]
  /\ Goto(k, IF next[cur[k]] = Nil THEN "done" ELSE "release")
  /\ UNCHANGED <<slot, list, sema, call, ctxDone, hooks, prev, succ, ret>>

-----------------------------------------------------------------------------

WaitStep(g) ==
  \/ LoadState(g) \/ LoadValue(g) \/ CheckContext(g) \/ Recheck(g)
  \/ PushWaiter(g) \/ Verify(g) \/ Acquire(g)
  \/ RemoveFromHead(g) \/ RemoveWalk(g) \/ RemoveUnlink(g)

WakeStep(k) == SwapWaiters(k) \/ ReleaseWaiter(k) \/ NextWaiter(k)

\* Every call has returned and no goroutine will make another.
Finished ==
  /\ \A g \in Waiters : pc[g] = "idle" /\ call[g] = MaxCalls[g]
  /\ \A k \in Wakers : pc[k] = "done"
  /\ UNCHANGED vars

Next ==
  \/ \E g \in Waiters : Get(g) \/ CancelContext(g) \/ WaitStep(g)
  \/ \E n \in Node : ContextHook(n)
  \/ \E d \in Deliverers : StoreValue(d) \/ MarkReady(d)
  \/ \E c \in Closers : Close(c)
  \/ \E k \in Wakers : WakeStep(k)
  \/ Finished

\* A runnable goroutine is eventually scheduled, and the context package runs
\* the callback of a done context.  Nothing obliges a caller to call Get, a
\* context to end, or anybody to Deliver or Close.
Fairness ==
  /\ \A g \in Waiters : WF_vars(WaitStep(g))
  /\ \A g \in Waiters : WF_vars(\E n \in Node : n[1] = g /\ ContextHook(n))
  /\ \A k \in Wakers : WF_vars(WakeStep(k))

Spec == Init /\ [][Next]_vars /\ Fairness
-----------------------------------------------------------------------------
(* Properties *)

\* A slot that anyone can observe as ready holds an artifact, so the branch of
\* Wait that reports "qpool: ready slot missing value" is never taken, whatever
\* the interleaving of Deliver, Close and the two loads of Wait.
ReadyHasValue ==
  /\ state = "ready" => value # Nil
  /\ \A g \in Waiters : ret[g] # "missing"

\* The nodes reached from n along next pointers: what lies in every set that
\* holds n and is closed under next.
Reach(n) ==
  {m \in Node : \A S \in SUBSET Node :
     (n \in S /\ \A x \in S : next[x] \in S \cup {Nil}) => m \in S}

\* The nodes that waker k is still going to release.
WillRelease(k) ==
  CASE pc[k] = "swap" /\ head # Nil -> Reach(head)
    [] pc[k] = "release" -> Reach(cur[k])
    [] pc[k] = "advance" /\ next[cur[k]] # Nil -> Reach(next[cur[k]])
    [] OTHER -> {}

\* No wakeup is lost: once the slot has left pending, a goroutine blocked in
\* runtime_Semacquire has been released already or stands on the path of a
\* waker.  Concurrent removals may leave dead nodes in the list, or link one
\* back in, but never cut a sleeping node off.
NoLostWakeup ==
  state # "pending" =>
    \A g \in Waiters :
      (pc[g] = "sleep" /\ sema[NodeOf(g)] = 0) =>
        \E k \in Wakers : NodeOf(g) \in WillRelease(k)

\* Get "blocks until the result is ready or ctx is canceled": from either on,
\* every call in progress returns.
WaitReturns ==
  \A g \in Waiters :
    (pc[g] # "idle" /\ (state # "pending" \/ ctxDone[g])) ~> (pc[g] = "idle")
=============================================================================
