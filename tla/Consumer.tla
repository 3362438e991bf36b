------------------------------- MODULE Consumer -------------------------------
(***************************************************************************)
(* How a broadcast subscriber blocks and is woken: Wait, park and wake of  *)
(* consumer.go, with the part of Send that pushes and wakes.  The ring is  *)
(* its length here (SpscRing models it); one action per atomic access of   *)
(* wantWake and of the runtime semaphore.                                  *)
(***************************************************************************)
EXTENDS Integers

CONSTANTS
  Senders,   \* goroutines in BroadcastGroup.Send
  Hooks,     \* the goroutines context.AfterFunc starts; bounds those in flight
  Capacity,  \* of the ring
  NoHook

ASSUME ConsumerAssumption ==
  /\ Senders \cap Hooks = {}
  /\ NoHook \notin Hooks
  /\ Capacity \in Nat \ {0}

Wakers == Senders \cup Hooks

VARIABLES
  queue,      \* values in the ring
  wantWake, sema,
  cpc,        \* where the consumer goroutine stands in Wait and park
  done, cancelled,  \* the context of this call: has a Done channel; is cancelled
  hook,       \* the AfterFunc that park has registered
  drained,    \* another goroutine popped since Empty loaded tail
  wpc         \* where each waker stands

vars == <<queue, wantWake, sema, cpc, done, cancelled, hook, drained, wpc>>
call == <<done, cancelled>>

Init ==
  /\ queue = 0
  /\ wantWake = FALSE
  /\ sema = 0
  /\ cpc = "idle"
  /\ done = FALSE
  /\ cancelled = FALSE
  /\ hook = NoHook
  /\ drained = FALSE
  /\ wpc = [w \in Wakers |-> "idle"]
-----------------------------------------------------------------------------
(* The consumer *)

\* Wait is called with a fresh context; one that can be cancelled needs a hook.
Wait ==
  /\ cpc = "idle"
  /\ \E b \in BOOLEAN : done' = b /\ (b => \E x \in Hooks : wpc[x] = "idle")
  /\ cpc' = "pop"
  /\ UNCHANGED <<queue, wantWake, sema, cancelled, hook, drained, wpc>>

\* The call's context is cancelled or times out: a registered hook starts.
Cancel ==
  /\ done /\ ~cancelled /\ cpc # "idle"
  /\ cancelled' = TRUE
  /\ wpc' = IF hook \in Hooks THEN [wpc EXCEPT ![hook] = "load"] ELSE wpc
  /\ hook' = NoHook
  /\ UNCHANGED <<queue, wantWake, sema, cpc, done, drained>>

WaitReturns ==
  /\ cpc' = "idle"
  /\ done' = FALSE
  /\ cancelled' = FALSE

Pop ==
  /\ cpc = "pop"
  /\ IF queue > 0 THEN queue' = queue - 1 /\ WaitReturns
     ELSE cpc' = "ctx" /\ UNCHANGED <<queue, call>>
  /\ UNCHANGED <<wantWake, sema, hook, drained, wpc>>

\* Faulty variant: leaves the context to the test after arming.
CheckContextLater ==
  /\ cpc = "ctx"
  /\ cpc' = "arm"
  /\ UNCHANGED <<queue, wantWake, sema, call, hook, drained, wpc>>

CheckContext ==
  /\ cpc = "ctx"
  /\ IF cancelled THEN WaitReturns ELSE cpc' = "arm" /\ UNCHANGED call
  /\ UNCHANGED <<queue, wantWake, sema, hook, drained, wpc>>

Arm ==
  /\ cpc = "arm"
  /\ wantWake' = TRUE
  /\ cpc' = "emptyTail"
  /\ UNCHANGED <<queue, sema, call, hook, drained, wpc>>

\* Empty loads tail and then head.
EmptyTail ==
  /\ cpc = "emptyTail"
  /\ drained' = FALSE
  /\ cpc' = "emptyHead"
  /\ UNCHANGED <<queue, wantWake, sema, call, hook, wpc>>

\* Faulty variant: parks without looking at the ring again.
EmptyHeadSkipped ==
  /\ cpc = "emptyHead"
  /\ cpc' = "err"
  /\ drained' = FALSE
  /\ UNCHANGED <<queue, wantWake, sema, call, hook, wpc>>

EmptyHead ==
  /\ cpc = "emptyHead"
  /\ cpc' = IF queue > 0 \/ drained THEN "reclaim" ELSE "err"
  /\ drained' = FALSE
  /\ UNCHANGED <<queue, wantWake, sema, call, hook, wpc>>

CheckErr ==
  /\ cpc = "err"
  /\ cpc' = IF cancelled THEN "reclaim" ELSE "register"
  /\ UNCHANGED <<queue, wantWake, sema, call, hook, drained, wpc>>

\* Faulty variant: goes back to arming instead of to the ring.
ReclaimToArm ==
  /\ cpc = "reclaim"
  /\ wantWake' = FALSE
  /\ cpc' = IF wantWake THEN "arm" ELSE "absorb"
  /\ UNCHANGED <<queue, sema, call, hook, drained, wpc>>

Reclaim ==
  /\ cpc = "reclaim"
  /\ wantWake' = FALSE
  /\ cpc' = IF wantWake THEN "pop" ELSE "absorb"
  /\ UNCHANGED <<queue, sema, call, hook, drained, wpc>>

\* context.AfterFunc starts the hook at once if the context is already cancelled.
Register ==
  /\ cpc = "register"
  /\ IF done
       THEN \E x \in Hooks :
              /\ wpc[x] = "idle"
              /\ IF cancelled THEN wpc' = [wpc EXCEPT ![x] = "load"] /\ UNCHANGED hook
                 ELSE hook' = x /\ UNCHANGED wpc
       ELSE UNCHANGED <<hook, wpc>>
  /\ cpc' = "sleep"
  /\ UNCHANGED <<queue, wantWake, sema, call, drained>>

\* runtime_Semacquire, in either of its places.
Semacquire ==
  /\ cpc \in {"absorb", "sleep"}
  /\ sema > 0
  /\ sema' = sema - 1
  /\ cpc' = IF cpc = "absorb" THEN "pop" ELSE "stop"
  /\ UNCHANGED <<queue, wantWake, call, hook, drained, wpc>>

\* stopAfterFunc: no effect on a hook that has started.
StopHook ==
  /\ cpc = "stop"
  /\ hook' = NoHook
  /\ cpc' = "pop"
  /\ UNCHANGED <<queue, wantWake, sema, call, drained, wpc>>

ConsumerStep ==
  \/ Pop \/ CheckContext \/ Arm \/ EmptyTail \/ EmptyHead \/ CheckErr
  \/ Reclaim \/ Register \/ Semacquire \/ StopHook

-----------------------------------------------------------------------------
(* The senders and the hooks *)

Send(s) ==
  /\ wpc[s] = "idle"
  /\ wpc' = [wpc EXCEPT ![s] = "push"]
  /\ UNCHANGED <<queue, wantWake, sema, cpc, call, hook, drained>>

\* Push pops the oldest value of a full ring and tries again.
Push(s) ==
  /\ wpc[s] = "push"
  /\ IF queue = Capacity
       THEN queue' = queue - 1 /\ drained' = TRUE /\ UNCHANGED wpc
       ELSE queue' = queue + 1 /\ wpc' = [wpc EXCEPT ![s] = "load"] /\ UNCHANGED drained
  /\ UNCHANGED <<wantWake, sema, cpc, call, hook>>

\* Poll, Release or Close, from another goroutine, takes a value out of the ring.
OtherPop ==
  /\ queue > 0
  /\ queue' = queue - 1
  /\ drained' = TRUE
  /\ UNCHANGED <<wantWake, sema, cpc, call, hook, wpc>>

\* wake
LoadWant(w) ==
  /\ wpc[w] = "load"
  /\ wpc' = [wpc EXCEPT ![w] = IF wantWake THEN "swap" ELSE "idle"]
  /\ UNCHANGED <<queue, wantWake, sema, cpc, call, hook, drained>>

SwapWant(w) ==
  /\ wpc[w] = "swap"
  /\ wantWake' = FALSE
  /\ wpc' = [wpc EXCEPT ![w] = IF wantWake THEN "release" ELSE "idle"]
  /\ UNCHANGED <<queue, sema, cpc, call, hook, drained>>

Semrelease(w) ==
  /\ wpc[w] = "release"
  /\ sema' = sema + 1
  /\ wpc' = [wpc EXCEPT ![w] = "idle"]
  /\ UNCHANGED <<queue, wantWake, cpc, call, hook, drained>>

Wake(w) == LoadWant(w) \/ SwapWant(w) \/ Semrelease(w)

Next ==
  \/ Wait \/ Cancel \/ ConsumerStep \/ OtherPop
  \/ \E s \in Senders : Send(s) \/ Push(s)
  \/ \E w \in Wakers : Wake(w)

Spec == Init /\ [][Next]_vars

\* The consumer and a waker inside wake keep being scheduled; nobody has to send.
FairSpec == Spec /\ WF_vars(ConsumerStep) /\ \A w \in Wakers : WF_vars(Wake(w))
-----------------------------------------------------------------------------
(* Properties *)

\* The places where wantWake has been set and no semaphore token taken yet.
Armed == {"emptyTail", "emptyHead", "err", "reclaim", "absorb", "register", "sleep"}

\* The variables keep their types.
TypeOK ==
  /\ queue \in 0..Capacity
  /\ sema \in Nat
  /\ wantWake \in BOOLEAN /\ done \in BOOLEAN
  /\ cancelled \in BOOLEAN /\ drained \in BOOLEAN
  /\ cpc \in Armed \cup {"idle", "pop", "ctx", "arm", "stop"}
  /\ hook \in Hooks \cup {NoHook}
  /\ wpc \in [Wakers -> {"idle", "push", "load", "swap", "release"}]

\* The semaphore never drifts (the comment on wake): an armed consumer is owed
\* exactly one token, which is still to be claimed, being released, or in the
\* semaphore; a consumer that is not armed is owed none.
SemaBalanced ==
  LET releasing == {w \in Wakers : wpc[w] = "release"}
  IN  /\ \A v, w \in releasing : v = w
      /\ cpc \notin Armed => ~wantWake /\ sema = 0 /\ releasing = {}
      /\ cpc \in Armed => \/ wantWake /\ sema = 0 /\ releasing = {}
                          \/ ~wantWake /\ sema = 1 /\ releasing = {}
                          \/ ~wantWake /\ sema = 0 /\ releasing # {}

\* No wakeup is lost: while the consumer sleeps and nobody has claimed its wakeup,
\* a value in the ring or a cancelled context has a waker that is still on its way.
NoLostWakeup ==
  /\ (cpc = "sleep" /\ wantWake /\ queue > 0) =>
       \E w \in Wakers : wpc[w] \in {"load", "swap"}
  /\ (cpc = "sleep" /\ wantWake /\ cancelled) =>
       \E w \in Hooks : wpc[w] \in {"load", "swap"}

\* A Wait over a ring that holds a value returns, unless another goroutine empties
\* the ring: a sleeping consumer is woken, and one that arms, finds the value and
\* reclaims its flag gets round to popping it.
ValueReturns == (cpc # "idle" /\ queue > 0) ~> (cpc = "idle" \/ queue = 0)

\* A cancelled Wait returns.
CancelledReturns == cancelled ~> ~cancelled
=============================================================================
