--------------------------- MODULE ResultSlotProofs ---------------------------
(***************************************************************************)
(* The result slot for any number of waiters, deliverers, closers and      *)
(* calls: a ready slot has its artifact, and no wakeup is lost.  The       *)
(* second rests on what concurrent removals do to the list of parked       *)
(* goroutines: every node goes on leading to the same sleepers.            *)
(***************************************************************************)
EXTENDS ResultSlot, TLAPS

\* The invariant that makes ReadyHasValue inductive.  Deliver stores the artifact
\* before it changes the state, so whoever is between the two, or has seen the
\* slot ready and is about to load the artifact, finds one; and an artifact,
\* once stored, is only ever replaced by another.
ValueInv ==
  /\ pc \in [Procs -> WaiterPC \cup WakerPC]
  /\ ret \in [Waiters -> Deliverers \cup {Nil, "closed", "ctxErr", "missing"}]
  /\ value \in Deliverers \cup {Nil}
  /\ \A p \in Procs : pc[p] \in {"cas", "value", "revalue"} => value # Nil
  /\ ReadyHasValue

\* Most steps are first-order reasoning, which Zenon does; the others name SMT.
USE Zenon

\* Initially nobody is between the store of the artifact and the change of state.
LEMMA ValueInit == Init => ValueInv
BY ZenonT(30), SlotAssumption DEF Init, ValueInv, ReadyHasValue, Procs, Wakers, WaiterPC, WakerPC

\* Every step keeps the invariant.
LEMMA ValueStep == ValueInv /\ [Next]_vars => ValueInv'
<1> SUFFICES ASSUME ValueInv, [Next]_vars PROVE ValueInv'
  OBVIOUS
<1>0. /\ Nil \notin Deliverers /\ "missing" \notin Deliverers /\ Nil # "missing"
      /\ Waiters \subseteq Procs /\ Wakers \subseteq Procs
      /\ Deliverers \subseteq Wakers /\ Closers \subseteq Wakers
  BY SlotAssumption DEF Procs, Wakers
<1> USE <1>0 DEF ValueInv, ReadyHasValue, Goto, WaiterPC, WakerPC
<1>1. ASSUME NEW g \in Waiters, Get(g) PROVE ValueInv'
  BY <1>1 DEF Get, slot
<1>2. ASSUME NEW g \in Waiters, CancelContext(g) PROVE ValueInv'
  BY <1>2 DEF CancelContext, slot
<1>3. ASSUME NEW g \in Waiters, LoadState(g) PROVE ValueInv'
  BY <1>3 DEF LoadState, Return, slot
<1>4. ASSUME NEW g \in Waiters, LoadValue(g) PROVE ValueInv'
  BY SMT, <1>4 DEF LoadValue, Return, slot
<1>5. ASSUME NEW g \in Waiters, CheckContext(g) PROVE ValueInv'
  BY <1>5 DEF CheckContext, Return, slot
<1>6. ASSUME NEW g \in Waiters, Recheck(g) PROVE ValueInv'
  BY <1>6 DEF Recheck, Return, slot
<1>7. ASSUME NEW g \in Waiters, PushWaiter(g) PROVE ValueInv'
  BY <1>7 DEF PushWaiter, slot
<1>8. ASSUME NEW g \in Waiters, Verify(g) PROVE ValueInv'
  BY <1>8 DEF Verify, slot
<1>9. ASSUME NEW g \in Waiters, Acquire(g) PROVE ValueInv'
  BY <1>9 DEF Acquire, slot
<1>10. ASSUME NEW g \in Waiters, RemoveFromHead(g) PROVE ValueInv'
  BY <1>10 DEF RemoveFromHead, RemoveReturns, slot
<1>11. ASSUME NEW g \in Waiters, RemoveWalk(g) PROVE ValueInv'
  BY SMT, <1>11 DEF RemoveWalk, RemoveReturns, slot
<1>12. ASSUME NEW g \in Waiters, RemoveUnlink(g) PROVE ValueInv'
  BY SMT, <1>12 DEF RemoveUnlink, RemoveReturns, slot
<1>13. ASSUME NEW n \in Node, ContextHook(n) PROVE ValueInv'
  BY <1>13 DEF ContextHook, slot
<1>14. ASSUME NEW d \in Deliverers, StoreValue(d) PROVE ValueInv'
  BY <1>14 DEF StoreValue
<1>15. ASSUME NEW d \in Deliverers, MarkReady(d) PROVE ValueInv'
  BY <1>15 DEF MarkReady
<1>16. ASSUME NEW c \in Closers, Close(c) PROVE ValueInv'
  BY <1>16 DEF Close
<1>17. ASSUME NEW k \in Wakers, WakeStep(k) PROVE ValueInv'
  BY <1>17 DEF WakeStep, SwapWaiters, ReleaseWaiter, NextWaiter, slot
<1>18. CASE Finished \/ UNCHANGED vars
  BY <1>18 DEF Finished, vars
<1> QED
  BY <1>1, <1>2, <1>3, <1>4, <1>5, <1>6, <1>7, <1>8, <1>9, <1>10, <1>11, <1>12,
     <1>13, <1>14, <1>15, <1>16, <1>17, <1>18 DEF Next, WaitStep

\* No Wait ever finds a ready slot without an artifact ("qpool: ready slot
\* missing value" in result_wait.go), for any number of goroutines and calls.
THEOREM ReadyHasValueThm == Spec => []ReadyHasValue
<1>1. Init => ValueInv
  BY ValueInit
<1>2. ValueInv /\ [Next]_vars => ValueInv'
  BY ValueStep
<1>3. ValueInv => ReadyHasValue
  BY DEF ValueInv
<1> QED
  BY <1>1, <1>2, <1>3, PTL DEF Spec

-----------------------------------------------------------------------------
(* Lists of nodes *)

NodeOrNil == Node \cup {Nil}

\* Reach along the next pointers f.
From(f, n) ==
  {m \in Node : \A S \in SUBSET Node :
     (n \in S /\ \A x \in S : f[x] \in S \cup {Nil}) => m \in S}

\* The list that a pointer begins.
Rest(f, n) == IF n = Nil THEN {} ELSE From(f, n)

\* A node belongs to a goroutine and one of its calls, and is not the nil pointer.
LEMMA NodeFacts ==
  /\ Nil \notin Node
  /\ \A g \in Waiters : \A k \in 1..MaxCalls[g] : <<g, k>> \in Node
  /\ \A n \in Node : n[1] \in Waiters /\ n[2] \in 1..MaxCalls[n[1]] /\ n = <<n[1], n[2]>>
BY SMT, SlotAssumption DEF Node

\* A list holds the node it begins with, and what any of its nodes points to.
LEMMA RestClosed ==
  ASSUME NEW f \in [Node -> NodeOrNil], NEW n \in NodeOrNil
  PROVE  /\ n # Nil => n \in Rest(f, n)
         /\ Rest(f, n) \subseteq Node
         /\ \A x \in Rest(f, n) : f[x] \in Rest(f, n) \cup {Nil}
<1>1. CASE n = Nil
  BY <1>1 DEF Rest
<1>2. CASE n # Nil
  <2>1. Rest(f, n) = From(f, n) /\ n \in Node
    BY <1>2 DEF Rest, NodeOrNil
  <2>2. From(f, n) \subseteq Node /\ n \in From(f, n)
    BY <2>1 DEF From
  <2>3. ASSUME NEW x \in From(f, n) PROVE f[x] \in From(f, n) \cup {Nil}
    <3> SUFFICES ASSUME f[x] # Nil PROVE f[x] \in From(f, n)
      OBVIOUS
    <3>1. f[x] \in Node
      BY <2>2 DEF NodeOrNil
    <3>2. ASSUME NEW S \in SUBSET Node, n \in S, \A y \in S : f[y] \in S \cup {Nil}
          PROVE  f[x] \in S
      BY <3>2 DEF From
    <3> QED BY <3>1, <3>2 DEF From
  <2> QED BY <2>1, <2>2, <2>3
<1> QED BY <1>1, <1>2

\* It is the least set that does.
LEMMA RestLeast ==
  ASSUME NEW f, NEW n, NEW S \in SUBSET Node,
         n \in S \cup {Nil}, \A x \in S : f[x] \in S \cup {Nil}
  PROVE  Rest(f, n) \subseteq S
BY DEF Rest, From

LEMMA RestWithin ==
  ASSUME NEW f \in [Node -> NodeOrNil], NEW n \in NodeOrNil, NEW m \in Rest(f, n) \cup {Nil}
  PROVE  Rest(f, m) \subseteq Rest(f, n)
<1>1. Rest(f, n) \in SUBSET Node /\ \A x \in Rest(f, n) : f[x] \in Rest(f, n) \cup {Nil}
  BY RestClosed
<1> HIDE DEF Rest
<1> QED BY <1>1, RestLeast

\* A list is its first node and what that points to.
LEMMA RestSplits ==
  ASSUME NEW f \in [Node -> NodeOrNil], NEW n \in Node
  PROVE  Rest(f, n) = {n} \cup Rest(f, f[n])
<1>0. n \in NodeOrNil /\ n # Nil /\ f[n] \in NodeOrNil
  BY NodeFacts DEF NodeOrNil
<1>1. /\ n \in Rest(f, n) /\ f[n] \in Rest(f, n) \cup {Nil}
      /\ Rest(f, f[n]) \subseteq Node
      /\ \A x \in Rest(f, f[n]) : f[x] \in Rest(f, f[n]) \cup {Nil}
      /\ f[n] # Nil => f[n] \in Rest(f, f[n])
  BY <1>0, RestClosed
<1>2. Rest(f, f[n]) \subseteq Rest(f, n)
  BY <1>0, <1>1, RestWithin
<1>3. Rest(f, n) \subseteq {n} \cup Rest(f, f[n])
  <2> DEFINE S == {n} \cup Rest(f, f[n])
  <2>1. S \in SUBSET Node /\ n \in S /\ \A x \in S : f[x] \in S \cup {Nil}
    BY <1>0, <1>1
  <2> HIDE DEF S
  <2>2. Rest(f, n) \subseteq S
    BY <2>1, RestLeast
  <2> QED BY <2>2 DEF S
<1> QED BY <1>1, <1>2, <1>3

\* Pointers lead from a rank to a lower one, so a list goes down from its first node.
Descends(f, r) ==
  r \in [Node -> Nat] /\ \A x \in Node : f[x] # Nil => r[f[x]] < r[x]

LEMMA RestDescends ==
  ASSUME NEW f \in [Node -> NodeOrNil], NEW r, Descends(f, r), NEW n \in Node, NEW m \in Rest(f, n)
  PROVE  m \in Node /\ (m = n \/ r[m] < r[n])
<1> DEFINE S == {x \in Node : x = n \/ r[x] < r[n]}
<1>1. ASSUME NEW x \in S PROVE f[x] \in S \cup {Nil}
  <2> SUFFICES ASSUME f[x] # Nil PROVE f[x] \in S
    OBVIOUS
  <2>1. f[x] \in Node
    BY DEF NodeOrNil
  <2>2. r[f[x]] < r[x] /\ r[f[x]] \in Nat /\ r[x] \in Nat /\ r[n] \in Nat
    BY <2>1 DEF Descends
  <2> QED BY SMT, <2>1, <2>2
<1>2. S \in SUBSET Node /\ n \in S
  OBVIOUS
<1> HIDE DEF S
<1>3. Rest(f, n) \subseteq S
  BY <1>1, <1>2, RestLeast
<1> QED BY <1>3 DEF S

\* A pointer that changes outside a list does not matter to it.
LEMMA RestElsewhere ==
  ASSUME NEW f \in [Node -> NodeOrNil], NEW p \in Node, NEW h \in NodeOrNil,
         NEW n \in NodeOrNil, p \notin Rest(f, n)
  PROVE  Rest([f EXCEPT ![p] = h], n) = Rest(f, n)
<1> DEFINE e == [f EXCEPT ![p] = h]
<1>0. e \in [Node -> NodeOrNil] /\ \A x \in Node \ {p} : e[x] = f[x]
  OBVIOUS
<1> HIDE DEF e
<1>1. Rest(e, n) \subseteq Rest(f, n)
  <2>1. /\ Rest(f, n) \in SUBSET Node /\ n \in Rest(f, n) \cup {Nil}
        /\ \A x \in Rest(f, n) : e[x] \in Rest(f, n) \cup {Nil}
    BY <1>0, RestClosed
  <2> QED BY <2>1, RestLeast
<1>2. Rest(f, n) \subseteq Rest(e, n)
  <2>1. /\ Rest(e, n) \in SUBSET Node /\ n \in Rest(e, n) \cup {Nil}
        /\ \A x \in Rest(e, n) : f[x] \in Rest(e, n) \cup {Nil}
    BY <1>0, <1>1, RestClosed
  <2> QED BY <2>1, RestLeast
<1> QED BY <1>1, <1>2 DEF e

\* The pointer in p may be moved on to h, further down, where the same sleepers L are
\* found.
Bypass(f, r, p, h, L) ==
  /\ f \in [Node -> NodeOrNil] /\ Descends(f, r)
  /\ p \in Node /\ h \in NodeOrNil /\ (h # Nil => r[h] < r[p])
  /\ Rest(f, f[p]) \cap L = Rest(f, h) \cap L

\* When it is, every list goes on leading to the same sleepers.
LEMMA RestUnlinked ==
  ASSUME NEW f, NEW r, NEW p, NEW h, NEW L, Bypass(f, r, p, h, L)
  PROVE  \A x \in NodeOrNil : Rest([f EXCEPT ![p] = h], x) \cap L = Rest(f, x) \cap L
<1> USE DEF Bypass
<1> DEFINE e == [f EXCEPT ![p] = h]
<1>0. /\ e \in [Node -> NodeOrNil] /\ e[p] = h /\ \A x \in Node \ {p} : e[x] = f[x]
      /\ f[p] \in NodeOrNil
  OBVIOUS
<1>1. p \notin Rest(f, h)
  <2> SUFFICES ASSUME p \in Rest(f, h) PROVE FALSE
    OBVIOUS
  <2>1. h # Nil /\ h \in Node
    BY DEF Rest, NodeOrNil
  <2>2. p = h \/ r[p] < r[h]
    BY <2>1, RestDescends
  <2> QED BY SMT, <2>1, <2>2 DEF Descends
<1>2. Rest(e, h) = Rest(f, h)
  BY ZenonT(60), <1>1, RestElsewhere
<1>3. ASSUME NEW x \in NodeOrNil, p \notin Rest(f, x) PROVE Rest(e, x) = Rest(f, x)
  BY <1>3, RestElsewhere
<1> HIDE DEF e
<1>4. ASSUME NEW x \in NodeOrNil, p \in Rest(f, x)
      PROVE  Rest(e, x) \cap L = Rest(f, x) \cap L
  <2>0. /\ Rest(f, x) \subseteq Node /\ Rest(e, x) \subseteq Node
        /\ Rest(f, h) \subseteq Node /\ Rest(f, f[p]) \subseteq Node
        /\ x \in Rest(f, x) \cup {Nil} /\ x \in Rest(e, x) \cup {Nil}
        /\ h \in Rest(f, h) \cup {Nil} /\ f[p] \in Rest(f, f[p]) \cup {Nil}
        /\ \A y \in Rest(f, x) : f[y] \in Rest(f, x) \cup {Nil}
        /\ \A y \in Rest(e, x) : e[y] \in Rest(e, x) \cup {Nil}
        /\ \A y \in Rest(f, h) : f[y] \in Rest(f, h) \cup {Nil}
        /\ \A y \in Rest(f, f[p]) : f[y] \in Rest(f, f[p]) \cup {Nil}
    BY <1>0, RestClosed
  <2>1. Rest(e, x) \subseteq Rest(f, x) \cup Rest(f, h)
    <3> DEFINE S == Rest(f, x) \cup Rest(f, h)
    <3>1. S \in SUBSET Node /\ x \in S \cup {Nil} /\ \A y \in S : e[y] \in S \cup {Nil}
      BY <1>0, <2>0
    <3> HIDE DEF S
    <3>2. Rest(e, x) \subseteq S
      BY <3>1, RestLeast
    <3> QED BY <3>2 DEF S
  <2>2. Rest(f, f[p]) \subseteq Rest(f, x)
    BY <1>4, <2>0, RestWithin
  <2>3. p \in Rest(e, x)
    <3> SUFFICES ASSUME p \notin Rest(e, x) PROVE FALSE
      OBVIOUS
    <3>1. \A y \in Rest(e, x) : f[y] \in Rest(e, x) \cup {Nil}
      BY <1>0, <2>0
    <3>2. Rest(f, x) \subseteq Rest(e, x)
      BY <2>0, <3>1, RestLeast
    <3> QED BY <1>4, <3>2
  <2>4. Rest(f, h) \subseteq Rest(e, x)
    <3>1. h \in Rest(e, x) \cup {Nil}
      BY <1>0, <2>0, <2>3
    <3> QED BY <1>0, <1>2, <3>1, RestWithin
  <2>5. Rest(f, x) \subseteq Rest(e, x) \cup Rest(f, f[p])
    <3> DEFINE S == Rest(e, x) \cup Rest(f, f[p])
    <3>1. S \in SUBSET Node /\ x \in S \cup {Nil} /\ \A y \in S : f[y] \in S \cup {Nil}
      BY <1>0, <2>0
    <3> HIDE DEF S
    <3>2. Rest(f, x) \subseteq S
      BY <3>1, RestLeast
    <3> QED BY <3>2 DEF S
  <2> QED BY <2>1, <2>2, <2>4, <2>5
<1> QED BY <1>3, <1>4 DEF e

-----------------------------------------------------------------------------
(* The life of a node: unused until its call pushes it *)

SlotTypes ==
  /\ state \in {"pending", "ready", "closed"}
  /\ head \in NodeOrNil /\ next \in [Node -> NodeOrNil] /\ sema \in [Node -> Nat]
  /\ pc \in [Procs -> WaiterPC \cup WakerPC]
  /\ call \in [Waiters -> Nat] /\ ctxDone \in [Waiters -> BOOLEAN]
  /\ hooks \subseteq Node
  /\ prev \in [Waiters -> NodeOrNil] /\ succ \in [Waiters -> NodeOrNil]
  /\ cur \in [Procs -> NodeOrNil]

\* A goroutine stands where it can, in a call it has begun, at a node if it needs one.
PlaceInv ==
  /\ \A g \in Waiters : /\ pc[g] \in WaiterPC /\ call[g] <= MaxCalls[g]
                        /\ pc[g] # "idle" => call[g] >= 1
                        /\ pc[g] \in {"walk", "unlink"} => cur[g] # Nil
  /\ \A k \in Wakers : pc[k] \in WakerPC /\ (pc[k] \in {"release", "advance"} => cur[k] # Nil)

\* Who wakes, or has been woken, has the slot no longer pending or the context done;
\* a registered callback is that of a call that has not returned.
EndInv ==
  /\ \A k \in Wakers : pc[k] \in {"swap", "release", "advance"} => state # "pending"
  /\ \A g \in Waiters :
       /\ pc[g] \in {"value", "revalue"} => state # "pending"
       /\ pc[g] \in {"remove", "walk", "unlink"} => state # "pending" \/ ctxDone[g]
       /\ pc[g] # "idle" /\ sema[NodeOf(g)] > 0 => state # "pending" \/ ctxDone[g]
  /\ \A n \in hooks : n = NodeOf(n[1]) /\ pc[n[1]] \in {"sleep", "remove", "walk", "unlink"}

\* Nothing refers to the node yet.
Unused(n) ==
  /\ head # n /\ \A x \in Node : next[x] # n
  /\ \A p \in Procs : cur[p] # n
  /\ \A g \in Waiters : prev[g] # n /\ succ[g] # n
  /\ n \notin hooks /\ sema[n] = 0

\* The call may still come to push a node.
Unpushed(g) ==
  \/ pc[g] \in {"recheck", "push"}
  \/ pc[g] = "ctx" /\ ~ctxDone[g]
  \/ pc[g] = "load" /\ ~ctxDone[g] /\ state = "pending"

FreshInv ==
  \A g \in Waiters : /\ \A k \in 1..MaxCalls[g] : k > call[g] => Unused(<<g, k>>)
                     /\ Unpushed(g) => Unused(NodeOf(g))

NodeInv == SlotTypes /\ PlaceInv /\ EndInv /\ FreshInv

\* The goroutines are waiters or wakers.
LEMMA ProcFacts ==
  /\ Waiters \subseteq Procs /\ Wakers \subseteq Procs /\ Waiters \cap Wakers = {}
  /\ Deliverers \subseteq Wakers /\ Closers \subseteq Wakers /\ Procs = Waiters \cup Wakers
BY SlotAssumption DEF Procs, Wakers

\* A call in progress has a node of its own.
LEMMA CallNode ==
  ASSUME SlotTypes, PlaceInv
  PROVE  \A g \in Waiters : pc[g] # "idle" => NodeOf(g) \in Node
BY SMT, NodeFacts, SlotAssumption DEF SlotTypes, PlaceInv, NodeOf

\* Only the call that a node belongs to brings it into use.
LEMMA UnusedKept ==
  ASSUME NodeInv, [Next]_vars, NEW n \in Node, Unused(n),
         \A g \in Waiters : PushWaiter(g) \/ Verify(g) => n # NodeOf(g)
  PROVE  Unused(n)'
<1>0. SlotTypes /\ PlaceInv /\ n # Nil
  BY NodeFacts DEF NodeInv
<1>f. /\ Waiters \subseteq Procs /\ Wakers \subseteq Procs
  BY ProcFacts
<1>1. CASE UNCHANGED <<list, sema, hooks, walk>>
  BY <1>1 DEF Unused, list, walk
<1>2. ASSUME NEW g \in Waiters, PushWaiter(g) PROVE Unused(n)'
  BY <1>0, <1>2 DEF PushWaiter, SlotTypes, Unused, walk
<1>3. ASSUME NEW g \in Waiters, Verify(g) PROVE Unused(n)'
  BY <1>3 DEF Verify, Unused, list, walk
<1>4. ASSUME NEW g \in Waiters, Acquire(g) PROVE Unused(n)'
  BY SMT, <1>0, <1>4 DEF Acquire, SlotTypes, Unused, list, walk
<1>5. ASSUME NEW g \in Waiters, RemoveFromHead(g) PROVE Unused(n)'
  BY <1>0, <1>f, <1>5 DEF RemoveFromHead, RemoveReturns, SlotTypes, Unused, list
<1>6. ASSUME NEW g \in Waiters, RemoveWalk(g) PROVE Unused(n)'
  <2>1. cur[g] \in Node
    BY <1>0, <1>f, <1>6 DEF RemoveWalk, SlotTypes, PlaceInv, NodeOrNil
  <2> QED BY <1>0, <1>f, <1>6, <2>1 DEF RemoveWalk, RemoveReturns, SlotTypes, Unused, list
<1>7. ASSUME NEW g \in Waiters, RemoveUnlink(g) PROVE Unused(n)'
  BY <1>0, <1>f, <1>7 DEF RemoveUnlink, RemoveReturns, SlotTypes, Unused, list, walk
<1>8. ASSUME NEW m \in Node, ContextHook(m) PROVE Unused(n)'
  BY <1>0, <1>8 DEF ContextHook, SlotTypes, Unused, list, walk
<1>9. ASSUME NEW k \in Wakers, WakeStep(k) PROVE Unused(n)'
  <2>1. CASE SwapWaiters(k)
    BY <1>0, <1>f, <2>1 DEF SwapWaiters, SlotTypes, Unused
  <2>2. CASE ReleaseWaiter(k)
    BY <1>0, <1>f, <2>2 DEF ReleaseWaiter, SlotTypes, Unused, list, walk
  <2>3. CASE NextWaiter(k)
    <3>1. cur[k] \in Node
      BY <1>0, <1>f, <2>3 DEF NextWaiter, SlotTypes, PlaceInv, NodeOrNil
    <3> QED BY <1>0, <1>f, <2>3, <3>1 DEF NextWaiter, SlotTypes, Unused, list
  <2> QED BY <1>9, <2>1, <2>2, <2>3 DEF WakeStep
<1>10. ASSUME NEW g \in Waiters,
              \/ Get(g) \/ CancelContext(g) \/ LoadState(g) \/ LoadValue(g) \/ CheckContext(g)
              \/ Recheck(g)
       PROVE  Unused(n)'
  BY <1>1, <1>10 DEF Get, CancelContext, LoadState, LoadValue, CheckContext, Recheck
<1>11. ASSUME NEW k \in Wakers, StoreValue(k) \/ MarkReady(k) \/ Close(k) PROVE Unused(n)'
  BY <1>1, <1>11 DEF StoreValue, MarkReady, Close
<1>12. CASE Finished \/ UNCHANGED vars
  BY <1>1, <1>12 DEF Finished, vars, list, walk
<1> QED BY <1>2, <1>3, <1>4, <1>5, <1>6, <1>7, <1>8, <1>9, <1>10, <1>11, <1>12, ProcFacts
        DEF Next, WaitStep

LEMMA NodeInit == Init => NodeInv
<1> SUFFICES ASSUME Init PROVE NodeInv
  OBVIOUS
<1>1. SlotTypes
  BY ProcFacts DEF Init, SlotTypes, NodeOrNil, WaiterPC, WakerPC
<1>2. PlaceInv
  BY SMT, ProcFacts, SlotAssumption DEF Init, PlaceInv, WaiterPC, WakerPC
<1>3. EndInv
  BY ProcFacts DEF Init, EndInv, WaiterPC, WakerPC
<1>4. FreshInv
  <2>1. \A n \in Node : Unused(n)
    BY ProcFacts, NodeFacts DEF Init, Unused
  <2> QED BY <2>1, NodeFacts, ProcFacts DEF Init, FreshInv, Unpushed
<1> QED BY <1>1, <1>2, <1>3, <1>4 DEF NodeInv

\* The steps of Wait up to the push, which leave the list alone.
LEMMA WaitLife ==
  ASSUME NodeInv, NEW g \in Waiters,
         \/ Get(g) \/ CancelContext(g) \/ LoadState(g) \/ LoadValue(g) \/ CheckContext(g) \/ Recheck(g)
  PROVE  SlotTypes' /\ PlaceInv' /\ EndInv'
<1>0. SlotTypes /\ PlaceInv /\ EndInv /\ FreshInv
  BY DEF NodeInv
<1>f. Waiters \subseteq Procs /\ Wakers \subseteq Procs /\ Waiters \cap Wakers = {} /\ g \in Procs
  BY ProcFacts
<1>1. UNCHANGED <<state, head, next, sema, hooks, prev, cur, succ>>
  BY DEF Get, CancelContext, LoadState, LoadValue, CheckContext, Recheck, slot, list, walk
<1>2. CASE Get(g)
  <2>1. pc[g] = "idle" /\ pc' = [pc EXCEPT ![g] = "load"] /\ ctxDone' = ctxDone
        /\ call' = [call EXCEPT ![g] = call[g] + 1] /\ call[g] < MaxCalls[g]
    BY <1>2 DEF Get, Goto
  <2>2. SlotTypes'
    BY SMT, <1>0, <1>f, <1>1, <2>1 DEF SlotTypes, WaiterPC
  <2>0. call[g] \in Nat /\ MaxCalls[g] \in Nat
    BY <1>0, SlotAssumption DEF SlotTypes
  <2>c. call[g] + 1 \in 1..MaxCalls[g] /\ call[g] + 1 > call[g]
    BY SMT, <2>0, <2>1
  <2>3. PlaceInv'
    <3>1. \A h \in Waiters : call'[h] = IF h = g THEN call[g] + 1 ELSE call[h]
      BY <1>0, <2>1 DEF SlotTypes
    <3>2. \A h \in Procs : pc'[h] = IF h = g THEN "load" ELSE pc[h]
      BY <1>0, <2>1 DEF SlotTypes
    <3>3. call'[g] <= MaxCalls[g] /\ call'[g] >= 1
      BY SMT, <2>0, <2>c, <3>1
    <3> QED BY <1>0, <1>f, <1>1, <3>1, <3>2, <3>3 DEF PlaceInv, WaiterPC
  <2>4. EndInv'
    <3>1. sema[<<g, call[g] + 1>>] = 0
      BY <1>0, <2>c DEF FreshInv, Unused
    <3>2. \A h \in Waiters : NodeOf(h)' = IF h = g THEN <<g, call[g] + 1>> ELSE NodeOf(h)
      BY <1>0, <2>1 DEF SlotTypes, NodeOf
    <3>3. \A n \in hooks : n = NodeOf(n[1]) /\ n[1] # g /\ n[1] \in Waiters
      BY <1>0, <2>1, NodeFacts DEF SlotTypes, EndInv
    <3> QED BY SMT, <1>0, <1>f, <1>1, <2>1, <3>1, <3>2, <3>3 DEF SlotTypes, EndInv
  <2> QED BY <2>2, <2>3, <2>4
<1>3. CASE CancelContext(g)
  <2>1. UNCHANGED <<pc, call>> /\ ctxDone' = [ctxDone EXCEPT ![g] = TRUE]
    BY <1>3 DEF CancelContext
  <2> QED BY <1>0, <1>1, <2>1 DEF SlotTypes, PlaceInv, EndInv, NodeOf
<1>4. CASE LoadState(g) \/ LoadValue(g) \/ CheckContext(g) \/ Recheck(g)
  <2>1. PICK l \in {"idle", "value", "revalue", "load", "ctx", "recheck", "push"} :
          /\ pc' = [pc EXCEPT ![g] = l]
          /\ pc[g] \in {"load", "value", "revalue", "ctx", "recheck"}
          /\ l \in {"value", "revalue"} => state # "pending"
          /\ \/ ctxDone' = ctxDone
             \/ l = "idle" /\ ctxDone' = [ctxDone EXCEPT ![g] = FALSE]
    BY <1>0, <1>4 DEF LoadState, LoadValue, CheckContext, Recheck, Return, Goto, SlotTypes
  <2>2. UNCHANGED call
    BY <1>4 DEF LoadState, LoadValue, CheckContext, Recheck
  <2>3. SlotTypes'
    BY <1>0, <1>f, <1>1, <2>1, <2>2 DEF SlotTypes, WaiterPC
  <2>4. PlaceInv'
    BY <1>0, <1>f, <1>1, <2>1, <2>2 DEF SlotTypes, PlaceInv, WaiterPC
  <2>5. EndInv'
    <3>1. \A n \in hooks : n[1] # g /\ n[1] \in Waiters
      BY <1>0, <2>1, NodeFacts DEF SlotTypes, EndInv
    <3> QED BY <1>0, <1>f, <1>1, <2>1, <2>2, <3>1 DEF SlotTypes, EndInv, NodeOf
  <2> QED BY <2>3, <2>4, <2>5
<1> QED BY <1>2, <1>3, <1>4

\* Parking and resuming.
LEMMA ParkLife ==
  ASSUME NodeInv, NEW g \in Waiters,
         \/ PushWaiter(g) \/ Verify(g) \/ Acquire(g)
         \/ RemoveFromHead(g) \/ RemoveWalk(g) \/ RemoveUnlink(g)
  PROVE  SlotTypes' /\ PlaceInv' /\ EndInv'
<1>0. SlotTypes /\ PlaceInv /\ EndInv /\ FreshInv
  BY DEF NodeInv
<1>f. /\ Waiters \subseteq Procs /\ Wakers \subseteq Procs /\ Waiters \cap Wakers = {} /\ g \in Procs
      /\ Nil \in NodeOrNil
  BY ProcFacts DEF NodeOrNil
<1>1. UNCHANGED <<state, call, ctxDone>> /\ pc[g] # "idle"
  BY DEF PushWaiter, Verify, Acquire, RemoveFromHead, RemoveWalk, RemoveUnlink, slot
<1>2. NodeOf(g) \in Node /\ NodeOf(g)[1] = g /\ NodeOf(g) \in NodeOrNil
  BY <1>0, <1>1, CallNode DEF NodeOf, NodeOrNil
<1>3. CASE PushWaiter(g)
  <2>1. /\ pc[g] = "push" /\ pc' = [pc EXCEPT ![g] = "verify"]
        /\ next' = [next EXCEPT ![NodeOf(g)] = head] /\ head' = NodeOf(g)
        /\ UNCHANGED <<sema, hooks, prev, cur, succ>>
    BY <1>3 DEF PushWaiter, Goto, walk
  <2>2. SlotTypes'
    BY <1>0, <1>f, <1>1, <1>2, <2>1 DEF SlotTypes, WaiterPC
  <2>3. PlaceInv'
    BY <1>0, <1>f, <1>1, <2>1 DEF SlotTypes, PlaceInv, WaiterPC
  <2>4. EndInv'
    BY <1>0, <1>f, <1>1, <2>1, NodeFacts DEF SlotTypes, EndInv, NodeOf
  <2> QED BY <2>2, <2>3, <2>4
<1>4. CASE Verify(g)
  <2>1. /\ pc[g] = "verify"
        /\ \/ state = "pending" /\ hooks' = hooks \cup {NodeOf(g)} /\ pc' = [pc EXCEPT ![g] = "sleep"]
           \/ state # "pending" /\ hooks' = hooks /\ pc' = [pc EXCEPT ![g] = "remove"]
        /\ UNCHANGED <<head, next, sema, prev, cur, succ>>
    BY <1>4 DEF Verify, Goto, list, walk
  <2>2. SlotTypes'
    BY <1>0, <1>f, <1>1, <1>2, <2>1 DEF SlotTypes, WaiterPC
  <2>3. PlaceInv'
    BY <1>0, <1>f, <1>1, <2>1 DEF SlotTypes, PlaceInv, WaiterPC
  <2>4. EndInv'
    <3>1. \A n \in hooks : n[1] # g /\ n[1] \in Waiters
      BY <1>0, <2>1, NodeFacts DEF SlotTypes, EndInv
    <3> QED BY SMT, <1>0, <1>f, <1>1, <1>2, <2>1, <3>1 DEF SlotTypes, EndInv, NodeOf
  <2> QED BY <2>2, <2>3, <2>4
<1>5. CASE Acquire(g)
  <2>1. /\ pc[g] = "sleep" /\ sema[NodeOf(g)] > 0 /\ pc' = [pc EXCEPT ![g] = "remove"]
        /\ sema' = [sema EXCEPT ![NodeOf(g)] = sema[NodeOf(g)] - 1]
        /\ UNCHANGED <<head, next, hooks, prev, cur, succ>>
    BY <1>5 DEF Acquire, Goto, list, walk
  <2>2. SlotTypes'
    BY SMT, <1>0, <1>f, <1>1, <1>2, <2>1 DEF SlotTypes, WaiterPC
  <2>3. PlaceInv'
    BY <1>0, <1>f, <1>1, <2>1 DEF SlotTypes, PlaceInv, WaiterPC
  <2>4. EndInv'
    <3>1. \A h \in Waiters : pc[h] # "idle" /\ h # g => sema'[NodeOf(h)] = sema[NodeOf(h)]
      <4>1. \A h \in Waiters : h # g => NodeOf(h) # NodeOf(g)
        BY DEF NodeOf
      <4> QED BY <1>0, <1>2, <2>1, <4>1, CallNode DEF SlotTypes
    <3>2. state # "pending" \/ ctxDone[g]
      BY <1>0, <1>1, <2>1 DEF EndInv
    <3>3. \A n \in hooks : n[1] \in Waiters
      BY <1>0, NodeFacts DEF SlotTypes
    <3>4. \A h \in Waiters : NodeOf(h)' = NodeOf(h)
      BY <1>1 DEF NodeOf
    <3> QED BY <1>0, <1>f, <1>1, <2>1, <3>1, <3>2, <3>3, <3>4 DEF SlotTypes, EndInv
  <2> QED BY <2>2, <2>3, <2>4
<1>6. CASE RemoveFromHead(g) \/ RemoveWalk(g) \/ RemoveUnlink(g)
  <2>0. UNCHANGED sema /\ pc[g] \in {"remove", "walk", "unlink"}
    BY <1>6 DEF RemoveFromHead, RemoveWalk, RemoveUnlink
  <2>1. ASSUME RemoveReturns(g)
        PROVE  /\ pc' = [pc EXCEPT ![g] = "load"] /\ hooks' = hooks \ {NodeOf(g)}
               /\ prev' \in [Waiters -> NodeOrNil] /\ succ' \in [Waiters -> NodeOrNil]
               /\ cur' \in [Procs -> NodeOrNil] /\ \A k \in Procs \ {g} : cur'[k] = cur[k]
    BY <1>0, <1>f, <2>1 DEF RemoveReturns, Goto, SlotTypes
  <2>2. PICK l \in {"load", "remove", "walk", "unlink"} :
          /\ pc' = [pc EXCEPT ![g] = l] /\ hooks' = IF l = "load" THEN hooks \ {NodeOf(g)} ELSE hooks
          /\ l \in {"walk", "unlink"} => cur'[g] # Nil
    <3>1. CASE RemoveFromHead(g)
      BY <1>0, <1>f, <2>1, <3>1 DEF RemoveFromHead, Goto, SlotTypes
    <3>2. CASE RemoveWalk(g)
      BY SMTT(30), <1>0, <1>f, <2>1, <3>2 DEF RemoveWalk, Goto, SlotTypes, PlaceInv
    <3>3. CASE RemoveUnlink(g)
      BY <1>0, <1>f, <2>1, <3>3 DEF RemoveUnlink, Goto, SlotTypes
    <3> QED BY <1>6, <3>1, <3>2, <3>3
  <2>3. /\ prev' \in [Waiters -> NodeOrNil] /\ succ' \in [Waiters -> NodeOrNil]
        /\ cur' \in [Procs -> NodeOrNil] /\ \A k \in Procs \ {g} : cur'[k] = cur[k]
        /\ head' \in NodeOrNil /\ next' \in [Node -> NodeOrNil]
    <3>1. CASE RemoveFromHead(g)
      BY SMTT(30), <1>0, <1>f, <2>1, <3>1 DEF RemoveFromHead, SlotTypes, list
    <3>2. CASE RemoveWalk(g)
      <4>1. cur[g] \in Node /\ next[cur[g]] \in NodeOrNil
        BY <1>0, <1>f, <3>2 DEF RemoveWalk, SlotTypes, PlaceInv, NodeOrNil
      <4> QED BY <1>0, <1>f, <2>1, <3>2, <4>1 DEF RemoveWalk, SlotTypes, list
    <3>3. CASE RemoveUnlink(g)
      BY SMT, <1>0, <1>f, <2>1, <3>3 DEF RemoveUnlink, SlotTypes, list, walk
    <3> QED BY <1>6, <3>1, <3>2, <3>3
  <2>4. SlotTypes'
    BY <1>0, <1>f, <1>1, <2>0, <2>2, <2>3 DEF SlotTypes, WaiterPC
  <2>5. PlaceInv'
    BY <1>0, <1>f, <1>1, <2>2, <2>3 DEF SlotTypes, PlaceInv, WaiterPC
  <2>6. EndInv'
    <3>1. \A n \in hooks' : n = NodeOf(n[1]) /\ n[1] \in Waiters /\ (n[1] = g => l # "load")
      BY <1>0, <2>2, NodeFacts DEF SlotTypes, EndInv
    <3>2. \A h \in Waiters : NodeOf(h)' = NodeOf(h)
      BY <1>1 DEF NodeOf
    <3>3. hooks' \subseteq hooks
      BY <2>2
    <3> QED BY <1>0, <1>f, <1>1, <2>0, <2>2, <3>1, <3>2, <3>3 DEF SlotTypes, EndInv
  <2> QED BY <2>4, <2>5, <2>6
<1> QED BY <1>3, <1>4, <1>5, <1>6

\* Deliver, Close, and the callback of a context.
LEMMA WakeLife ==
  ASSUME NodeInv,
         \/ \E n \in Node : ContextHook(n)
         \/ \E k \in Wakers : StoreValue(k) \/ MarkReady(k) \/ Close(k) \/ WakeStep(k)
  PROVE  SlotTypes' /\ PlaceInv' /\ EndInv'
<1>0. SlotTypes /\ PlaceInv /\ EndInv /\ FreshInv
  BY DEF NodeInv
<1>f. /\ Waiters \subseteq Procs /\ Wakers \subseteq Procs /\ Waiters \cap Wakers = {}
      /\ Nil \in NodeOrNil /\ Node \subseteq NodeOrNil
  BY ProcFacts DEF NodeOrNil
<1>1. UNCHANGED <<call, ctxDone, prev, succ>> /\ \A h \in Waiters : NodeOf(h)' = NodeOf(h)
  BY DEF ContextHook, StoreValue, MarkReady, Close, WakeStep, SwapWaiters, ReleaseWaiter, NextWaiter,
     walk, NodeOf
<1>h. \A n \in hooks : n[1] \in Waiters
  BY <1>0, NodeFacts DEF SlotTypes
<1>2. ASSUME NEW n \in Node, ContextHook(n) PROVE SlotTypes' /\ PlaceInv' /\ EndInv'
  <2>1. /\ n \in hooks /\ ctxDone[n[1]] /\ hooks' = hooks \ {n}
        /\ sema' = [sema EXCEPT ![n] = sema[n] + 1]
        /\ UNCHANGED <<state, head, next, pc, cur>>
    BY <1>2 DEF ContextHook, slot, list, walk
  <2>2. SlotTypes' /\ PlaceInv'
    BY SMTT(30), <1>0, <1>1, <2>1 DEF SlotTypes, PlaceInv
  <2>3. EndInv'
    <3>1. \A h \in Waiters : pc[h] # "idle" /\ ~ctxDone[h] => sema'[NodeOf(h)] = sema[NodeOf(h)]
      <4>1. \A h \in Waiters : NodeOf(h)[1] = h
        BY DEF NodeOf
      <4> QED BY <1>0, <2>1, <4>1, CallNode DEF SlotTypes
    <3> QED BY <1>0, <1>f, <1>1, <1>h, <2>1, <3>1 DEF SlotTypes, EndInv
  <2> QED BY <2>2, <2>3
<1>3. ASSUME NEW k \in Wakers, StoreValue(k) \/ MarkReady(k) \/ Close(k) \/ SwapWaiters(k) \/ NextWaiter(k)
      PROVE  SlotTypes' /\ PlaceInv' /\ EndInv'
  <2>1. UNCHANGED <<next, sema, hooks>>
    BY <1>3 DEF StoreValue, MarkReady, Close, SwapWaiters, NextWaiter, list
  <2>2. PICK l \in WakerPC : pc' = [pc EXCEPT ![k] = l]
    BY <1>3 DEF StoreValue, MarkReady, Close, SwapWaiters, NextWaiter, Goto, WakerPC
  <2>3. /\ pc'[k] = l /\ \A p \in Procs \ {k} : pc'[p] = pc[p]
        /\ pc' \in [Procs -> WaiterPC \cup WakerPC]
    BY <1>0, <1>f, <2>2 DEF SlotTypes
  <2>4. /\ state' \in {"pending", "ready", "closed"}
        /\ state' = "pending" => state = "pending"
        /\ l \in {"swap", "release", "advance"} => state' # "pending"
    <3>1. CASE StoreValue(k) \/ MarkReady(k) \/ Close(k)
      BY <1>0, <1>f, <2>3, <3>1 DEF StoreValue, MarkReady, Close, Goto, SlotTypes
    <3>2. CASE SwapWaiters(k) \/ NextWaiter(k)
      BY <1>0, <3>2 DEF SwapWaiters, NextWaiter, slot, EndInv, SlotTypes
    <3> QED BY <1>3, <3>1, <3>2
  <2>5. /\ head' \in NodeOrNil /\ cur' \in [Procs -> NodeOrNil]
        /\ \A p \in Procs \ {k} : cur'[p] = cur[p]
        /\ l \in {"release", "advance"} => cur'[k] # Nil
    <3>1. CASE StoreValue(k) \/ MarkReady(k) \/ Close(k)
      BY <1>0, <1>f, <2>3, <3>1 DEF StoreValue, MarkReady, Close, Goto, SlotTypes, list, walk
    <3>2. CASE SwapWaiters(k)
      BY <1>0, <1>f, <2>3, <3>2 DEF SwapWaiters, Goto, SlotTypes
    <3>3. CASE NextWaiter(k)
      <4>1. cur[k] \in Node /\ next[cur[k]] \in NodeOrNil
        BY <1>0, <1>f, <3>3 DEF NextWaiter, SlotTypes, PlaceInv, NodeOrNil
      <4> QED BY <1>0, <1>f, <2>3, <3>3, <4>1 DEF NextWaiter, Goto, SlotTypes, list
    <3> QED BY <1>3, <3>1, <3>2, <3>3
  <2>6. SlotTypes'
    BY <1>0, <1>1, <2>1, <2>3, <2>4, <2>5 DEF SlotTypes
  <2>7. PlaceInv'
    BY <1>0, <1>f, <1>1, <2>2, <2>3, <2>5 DEF PlaceInv
  <2>8. EndInv'
    BY <1>0, <1>f, <1>1, <1>h, <2>1, <2>3, <2>4 DEF EndInv
  <2> QED BY <2>6, <2>7, <2>8
<1>4. ASSUME NEW k \in Wakers, ReleaseWaiter(k) PROVE SlotTypes' /\ PlaceInv' /\ EndInv'
  <2>1. /\ pc[k] = "release" /\ pc' = [pc EXCEPT ![k] = "advance"]
        /\ sema' = [sema EXCEPT ![cur[k]] = sema[cur[k]] + 1]
        /\ UNCHANGED <<state, head, next, hooks, cur>>
    BY <1>4 DEF ReleaseWaiter, Goto, slot, list, walk
  <2>2. cur[k] \in Node /\ state # "pending"
    BY <1>0, <1>f, <2>1 DEF SlotTypes, PlaceInv, EndInv, NodeOrNil
  <2>3. SlotTypes'
    BY SMT, <1>0, <1>f, <1>1, <2>1, <2>2 DEF SlotTypes, WakerPC
  <2>4. PlaceInv'
    BY <1>0, <1>f, <1>1, <2>1, <2>2 DEF SlotTypes, PlaceInv, WakerPC
  <2>5. EndInv'
    BY <1>0, <1>f, <1>1, <1>h, <2>1, <2>2 DEF SlotTypes, EndInv
  <2> QED BY <2>3, <2>4, <2>5
<1> QED BY <1>2, <1>3, <1>4 DEF WakeStep

\* A node stays unused until its own call pushes it, and is not pushed again.
LEMMA FreshStep ==
  ASSUME NodeInv, [Next]_vars
  PROVE  FreshInv'
<1>0. SlotTypes /\ PlaceInv /\ EndInv /\ FreshInv
  BY DEF NodeInv
<1>f. Waiters \subseteq Procs /\ Wakers \subseteq Procs /\ Waiters \cap Wakers = {}
  BY ProcFacts
<1>1. ASSUME NEW g \in Waiters, NEW j \in 1..MaxCalls[g], j > call[g] PROVE Unused(<<g, j>>)'
  <2>1. <<g, j>> \in Node /\ Unused(<<g, j>>)
    BY <1>0, <1>1, NodeFacts DEF FreshInv
  <2>2. \A h \in Waiters : <<g, j>> # NodeOf(h)
    BY SMT, <1>0, <1>1, SlotAssumption DEF NodeOf, SlotTypes
  <2> QED BY <2>1, <2>2, UnusedKept
<1>2. ASSUME NEW g \in Waiters, Unpushed(g), ~PushWaiter(g), NEW n, n = NodeOf(g) PROVE Unused(n)'
  <2>1. n \in Node /\ Unused(n) /\ pc[g] # "verify"
    BY <1>0, <1>2, CallNode DEF FreshInv, Unpushed
  <2>2. \A h \in Waiters : PushWaiter(h) \/ Verify(h) => n # NodeOf(h)
    BY <1>2, <2>1 DEF NodeOf, Verify
  <2> QED BY <2>1, <2>2, UnusedKept
<1>3. ASSUME NEW g \in Waiters, Get(g) PROVE FreshInv'
  <2>1. /\ pc[g] = "idle" /\ pc' = [pc EXCEPT ![g] = "load"] /\ call[g] < MaxCalls[g]
        /\ call' = [call EXCEPT ![g] = call[g] + 1] /\ UNCHANGED <<state, ctxDone>>
    BY <1>3 DEF Get, Goto, slot
  <2>2. \A h \in Waiters : call'[h] = IF h = g THEN call[g] + 1 ELSE call[h]
    BY <1>0, <2>1 DEF SlotTypes
  <2>3. \A h \in Waiters : call[h] \in Nat /\ MaxCalls[h] \in Nat
    BY <1>0, SlotAssumption DEF SlotTypes
  <2>4. ASSUME NEW h \in Waiters, NEW j \in 1..MaxCalls[h], j > call'[h] PROVE Unused(<<h, j>>)'
    BY SMT, <1>1, <2>2, <2>3, <2>4
  <2>5. Unused(NodeOf(g))'
    <3>1. call[g] + 1 \in 1..MaxCalls[g] /\ call[g] + 1 > call[g]
      BY SMT, <2>1, <2>3
    <3>2. PICK j : j = call[g] + 1
      OBVIOUS
    <3>3. Unused(<<g, j>>)'
      BY <1>1, <3>1, <3>2
    <3>4. NodeOf(g)' = <<g, j>>
      BY <2>2, <3>2 DEF NodeOf
    <3> QED BY <3>3, <3>4 DEF Unused
  <2>6. ASSUME NEW h \in Waiters \ {g}, Unpushed(h)' PROVE Unused(NodeOf(h))'
    <3>1. Unpushed(h) /\ ~PushWaiter(h)
      BY <1>0, <1>f, <2>1, <2>6 DEF Unpushed, SlotTypes, PushWaiter, Goto
    <3>2. PICK n : n = NodeOf(h) /\ n = NodeOf(h)'
      BY <2>2 DEF NodeOf
    <3>3. Unused(n)'
      BY <1>2, <3>1, <3>2
    <3> QED BY <3>2, <3>3
  <2> QED BY <2>4, <2>5, <2>6 DEF FreshInv
<1>4. ASSUME call' = call, \A g \in Waiters : Unpushed(g)' => Unpushed(g) /\ ~PushWaiter(g)
      PROVE  FreshInv'
  <2>1. ASSUME NEW g \in Waiters, Unpushed(g)' PROVE Unused(NodeOf(g))'
    <3>1. PICK n : n = NodeOf(g) /\ n = NodeOf(g)'
      BY <1>4 DEF NodeOf
    <3>2. Unused(n)'
      BY <1>2, <1>4, <2>1, <3>1
    <3> QED BY <3>1, <3>2
  <2> QED BY <1>1, <1>4, <2>1 DEF FreshInv
<1>5. ASSUME NEW g \in Waiters, WaitStep(g) \/ CancelContext(g) PROVE FreshInv'
  <2>1. call' = call /\ state' = state /\ \A h \in Waiters \ {g} : ctxDone'[h] = ctxDone[h] /\ pc'[h] = pc[h]
    <3>1. CASE LoadState(g) \/ LoadValue(g) \/ CheckContext(g) \/ Recheck(g) \/ CancelContext(g)
      BY <1>0, <1>f, <3>1 DEF LoadState, LoadValue, CheckContext, Recheck, CancelContext, Return, Goto,
         SlotTypes, slot
    <3>2. CASE \/ PushWaiter(g) \/ Verify(g) \/ Acquire(g) \/ RemoveFromHead(g) \/ RemoveWalk(g)
               \/ RemoveUnlink(g)
      BY <1>0, <1>f, <3>2 DEF PushWaiter, Verify, Acquire, RemoveFromHead, RemoveWalk, RemoveUnlink,
         RemoveReturns, Goto, SlotTypes, slot
    <3> QED BY <1>5, <3>1, <3>2 DEF WaitStep
  <2>2. \A h \in Waiters \ {g} : ~PushWaiter(h)
    <3>1. ASSUME NEW h \in Waiters \ {g}, PushWaiter(h) PROVE FALSE
      <4>1. pc[h] = "push" /\ pc' = [pc EXCEPT ![h] = "verify"]
        BY <3>1 DEF PushWaiter, Goto
      <4> QED BY <1>0, <1>f, <2>1, <4>1 DEF SlotTypes
    <3> QED BY <3>1
  <2>3. Unpushed(g)' => Unpushed(g) /\ ~PushWaiter(g)
    <3>1. CASE LoadState(g) \/ LoadValue(g) \/ CheckContext(g) \/ Recheck(g) \/ CancelContext(g)
      <4>1. ~PushWaiter(g)
        BY <1>0, <1>f, <3>1 DEF LoadState, LoadValue, CheckContext, Recheck, CancelContext, Return, Goto,
           SlotTypes, PushWaiter
      <4>2. Unpushed(g)' => Unpushed(g)
        BY <1>0, <1>f, <2>1, <3>1 DEF LoadState, LoadValue, CheckContext, Recheck, CancelContext,
           Return, Goto, SlotTypes, Unpushed, EndInv
      <4> QED BY <4>1, <4>2
    <3>2. CASE PushWaiter(g) \/ Verify(g) \/ Acquire(g)
      BY <1>0, <1>f, <3>2 DEF PushWaiter, Verify, Acquire, Goto, SlotTypes, Unpushed
    <3>3. CASE RemoveFromHead(g) \/ RemoveWalk(g) \/ RemoveUnlink(g)
      <4>1. pc'[g] \in {"load", "remove", "walk", "unlink"} /\ UNCHANGED <<state, ctxDone>>
        BY <1>0, <1>f, <3>3 DEF RemoveFromHead, RemoveWalk, RemoveUnlink, RemoveReturns, Goto,
           SlotTypes, slot
      <4>2. state # "pending" \/ ctxDone[g]
        BY <1>0, <3>3 DEF RemoveFromHead, RemoveWalk, RemoveUnlink, EndInv
      <4> QED BY <4>1, <4>2 DEF Unpushed
    <3> QED BY <1>5, <3>1, <3>2, <3>3 DEF WaitStep
  <2>4. \A h \in Waiters \ {g} : Unpushed(h)' => Unpushed(h)
    BY <2>1 DEF Unpushed
  <2> QED BY <1>4, <2>1, <2>2, <2>3, <2>4
<1>6. ASSUME \/ \E n \in Node : ContextHook(n)
             \/ \E k \in Wakers : StoreValue(k) \/ MarkReady(k) \/ Close(k) \/ WakeStep(k)
             \/ Finished \/ UNCHANGED vars
      PROVE  FreshInv'
  <2>1. UNCHANGED <<call, ctxDone>> /\ \A g \in Waiters : pc'[g] = pc[g]
    BY SMTT(30), <1>0, <1>f, <1>6 DEF ContextHook, StoreValue, MarkReady, Close, WakeStep, SwapWaiters,
       ReleaseWaiter, NextWaiter, Finished, vars, Goto, SlotTypes
  <2>2. state' = "pending" => state = "pending"
    BY <1>6 DEF ContextHook, StoreValue, MarkReady, Close, WakeStep, SwapWaiters,
       ReleaseWaiter, NextWaiter, Finished, vars, slot
  <2>3. \A g \in Waiters : ~PushWaiter(g)
    BY <1>0, <1>f, <2>1 DEF PushWaiter, Goto, SlotTypes
  <2>4. \A g \in Waiters : Unpushed(g)' => Unpushed(g)
    BY <2>1, <2>2 DEF Unpushed
  <2> QED BY <1>4, <2>1, <2>3, <2>4
<1> QED BY <1>3, <1>5, <1>6, ProcFacts DEF Next

LEMMA NodeStep == NodeInv /\ [Next]_vars => NodeInv'
<1> SUFFICES ASSUME NodeInv, [Next]_vars PROVE NodeInv'
  OBVIOUS
<1>1. SlotTypes' /\ PlaceInv' /\ EndInv'
  <2>1. CASE Finished \/ UNCHANGED vars
    BY <2>1 DEF Finished, vars, NodeInv, SlotTypes, PlaceInv, EndInv, NodeOf
  <2> QED BY <2>1, WaitLife, ParkLife, WakeLife, ProcFacts DEF Next, WaitStep
<1> QED BY <1>1, FreshStep DEF NodeInv

-----------------------------------------------------------------------------
(* The list of parked goroutines *)

\* The nodes whose goroutines are, or may be about to go, asleep.
Live == {NodeOf(g) : g \in {h \in Waiters : pc[h] \in {"verify", "sleep"}}}

\* What removeWaiter is about to leave out of the list is a node of its own, and what
\* it saw behind that node leads to the same sleepers as the node itself.
Leads ==
  \A g \in Waiters : pc[g] = "unlink" =>
    cur[g][1] = g /\ Rest(next, cur[g]) \cap Live = Rest(next, succ[g]) \cap Live

\* Pointers lead to nodes pushed earlier.
Ranked ==
  \E r : /\ Descends(next, r)
         /\ \A g \in Waiters : pc[g] = "unlink" /\ succ[g] # Nil => r[succ[g]] < r[cur[g]]

\* What a waker has still to release, from the list or from the part it swapped out.
ToRelease(k) ==
  IF pc[k] = "swap" THEN Rest(next, head)
  ELSE IF pc[k] = "release" THEN Rest(next, cur[k])
  ELSE IF pc[k] = "advance" THEN Rest(next, next[cur[k]])
  ELSE {}

\* The node has been released, or will be.
Covered(n) ==
  \/ sema[n] > 0
  \/ state = "pending" /\ n \in Rest(next, head)
  \/ \E k \in Wakers : n \in ToRelease(k)

CoverInv ==
  \A g \in Waiters : /\ pc[g] = "verify" /\ state = "pending" => NodeOf(g) \in Rest(next, head)
                     /\ pc[g] = "sleep" => Covered(NodeOf(g))

ListInv == NodeInv /\ Leads /\ Ranked /\ CoverInv

LEMMA LiveNodes ==
  ASSUME NodeInv
  PROVE  Live \subseteq Node
BY CallNode DEF NodeInv, Live

\* A step that changes no pointer and starts no removal.
LEMMA SameLists ==
  ASSUME Leads, Ranked, next' = next, Live' \subseteq Live,
         \A g \in Waiters : pc'[g] = "unlink" => pc[g] = "unlink" /\ UNCHANGED <<cur[g], succ[g]>>
  PROVE  Leads' /\ Ranked'
<1>1. Leads'
  BY DEF Leads
<1>2. Ranked'
  BY DEF Ranked
<1> QED BY <1>1, <1>2

\* A step after which the sleepers are covered as before it.
LEMMA StillCovered ==
  ASSUME CoverInv,
         \A g \in Waiters : pc'[g] \in {"verify", "sleep"} =>
           /\ call'[g] = call[g]
           /\ \/ pc'[g] = pc[g]
              \/ pc'[g] = "sleep" /\ pc[g] = "verify" /\ state = "pending",
         state' = "pending" => state = "pending",
         \A n \in Live' : Covered(n) => Covered(n)',
         \A n \in Live' : state' = "pending" /\ n \in Rest(next, head) => n \in Rest(next', head')
  PROVE  CoverInv'
<1> SUFFICES ASSUME NEW g \in Waiters, pc'[g] \in {"verify", "sleep"}
             PROVE  /\ pc'[g] = "verify" /\ state' = "pending" => NodeOf(g)' \in Rest(next', head')
                    /\ pc'[g] = "sleep" => Covered(NodeOf(g))'
  BY DEF CoverInv
<1>1. PICK n : n = NodeOf(g) /\ n = NodeOf(g)'
  BY DEF NodeOf
<1>2. n \in Live'
  BY <1>1 DEF Live
<1>3. ASSUME pc'[g] = "verify", state' = "pending" PROVE n \in Rest(next', head')
  BY <1>1, <1>2, <1>3 DEF CoverInv
<1>4. ASSUME pc'[g] = "sleep" PROVE Covered(n)'
  <2>1. Covered(n)
    BY <1>1, <1>4 DEF CoverInv, Covered
  <2> QED BY <1>2, <2>1
<1> QED BY <1>1, <1>3, <1>4

\* The steps that neither move a pointer nor a waker.
LEMMA CalmSteps ==
  ASSUME ListInv,
         \/ \E g \in Waiters :
              \/ Get(g) \/ CancelContext(g) \/ LoadState(g) \/ LoadValue(g) \/ CheckContext(g)
              \/ Recheck(g) \/ Verify(g) \/ Acquire(g) \/ RemoveFromHead(g)
         \/ \E n \in Node : ContextHook(n)
         \/ Finished \/ UNCHANGED vars
  PROVE  Leads' /\ Ranked' /\ CoverInv'
<1>0. SlotTypes /\ PlaceInv /\ Leads /\ Ranked /\ CoverInv /\ Live \subseteq Node
  BY LiveNodes DEF ListInv, NodeInv
<1>f. Waiters \subseteq Procs /\ Wakers \subseteq Procs /\ Waiters \cap Wakers = {}
  BY ProcFacts
<1>1. UNCHANGED <<state, head, next>>
  BY DEF Get, CancelContext, LoadState, LoadValue, CheckContext, Recheck, Verify, Acquire,
     RemoveFromHead, ContextHook, Finished, vars, slot, list
<1>2. /\ \A k \in Wakers : pc'[k] = pc[k] /\ cur'[k] = cur[k]
      /\ \A g \in Waiters : pc'[g] \in {"verify", "sleep"} =>
           /\ call'[g] = call[g]
           /\ \/ pc'[g] = pc[g]
              \/ pc'[g] = "sleep" /\ pc[g] = "verify" /\ state = "pending"
      /\ \A g \in Waiters : pc'[g] = "unlink" => pc[g] = "unlink" /\ UNCHANGED <<cur[g], succ[g]>>
  <2>1. ASSUME NEW h \in Waiters, Get(h) \/ CancelContext(h) PROVE <1>2!:
    BY <1>0, <1>f, <2>1 DEF Get, CancelContext, Goto, SlotTypes, walk
  <2>2. ASSUME NEW h \in Waiters, LoadState(h) \/ LoadValue(h) \/ CheckContext(h) \/ Recheck(h)
        PROVE  <1>2!:
    BY <1>0, <1>f, <2>2 DEF LoadState, LoadValue, CheckContext, Recheck, Return, Goto, SlotTypes, walk
  <2>3. ASSUME NEW h \in Waiters, Verify(h) \/ Acquire(h) PROVE <1>2!:
    BY <1>0, <1>f, <2>3 DEF Verify, Acquire, Goto, SlotTypes, walk
  <2>4. ASSUME NEW h \in Waiters, RemoveFromHead(h) PROVE <1>2!:
    BY <1>0, <1>f, <2>4 DEF RemoveFromHead, RemoveReturns, Goto, SlotTypes
  <2>5. CASE (\E n \in Node : ContextHook(n)) \/ Finished \/ UNCHANGED vars
    BY <2>5 DEF ContextHook, Finished, vars, walk
  <2> QED BY <2>1, <2>2, <2>3, <2>4, <2>5
<1>3. Live' \subseteq Live
  BY <1>2 DEF Live, NodeOf
<1>4. \A n \in Live' : sema[n] > 0 => sema'[n] > 0
  <2>1. ASSUME NEW g \in Waiters, Acquire(g) PROVE <1>4!:
    <3>1. pc'[g] = "remove" /\ sema' = [sema EXCEPT ![NodeOf(g)] = sema[NodeOf(g)] - 1] /\ call' = call
      BY <1>0, <1>f, <2>1 DEF Acquire, Goto, SlotTypes
    <3>2. NodeOf(g) \notin Live'
      BY <3>1 DEF Live, NodeOf
    <3> QED BY <1>0, <1>3, <3>1, <3>2 DEF SlotTypes
  <2>2. ASSUME NEW m \in Node, ContextHook(m) PROVE <1>4!:
    <3>1. sema' = [sema EXCEPT ![m] = sema[m] + 1]
      BY <2>2 DEF ContextHook
    <3> QED BY SMT, <1>0, <1>3, <3>1 DEF SlotTypes
  <2>3. CASE UNCHANGED sema
    BY <2>3
  <2> QED BY <2>1, <2>2, <2>3 DEF Get, CancelContext, LoadState, LoadValue, CheckContext, Recheck,
             Verify, RemoveFromHead, Finished, vars
<1>5. Leads' /\ Ranked'
  BY <1>0, <1>1, <1>2, <1>3, SameLists
<1>6. \A k \in Wakers : ToRelease(k)' = ToRelease(k)
  BY <1>1, <1>2 DEF ToRelease
<1>7. \A n \in Live' : Covered(n) => Covered(n)'
  BY <1>1, <1>4, <1>6 DEF Covered
<1> QED BY <1>0, <1>1, <1>2, <1>5, <1>7, StillCovered

\* What a step of removeWaiter does not change.
LEMMA RemovalFrame ==
  ASSUME NodeInv, NEW g \in Waiters, RemoveWalk(g) \/ RemoveUnlink(g)
  PROVE  /\ pc[g] \in {"walk", "unlink"}
         /\ pc'[g] \in {"walk", "unlink", "remove", "load"}
         /\ UNCHANGED <<state, sema, call>>
         /\ \A p \in Procs \ {g} : pc'[p] = pc[p] /\ cur'[p] = cur[p]
         /\ \A h \in Waiters \ {g} : succ'[h] = succ[h]
         /\ Live' = Live
<1>1. SlotTypes /\ g \in Procs /\ Waiters \subseteq Procs
  BY ProcFacts DEF NodeInv
<1>2. /\ pc[g] \in {"walk", "unlink"} /\ UNCHANGED <<state, sema, call>>
  BY DEF RemoveWalk, RemoveUnlink, slot
<1>3. /\ pc'[g] \in {"walk", "unlink", "remove", "load"}
      /\ \A p \in Procs \ {g} : pc'[p] = pc[p] /\ cur'[p] = cur[p]
      /\ \A h \in Waiters \ {g} : succ'[h] = succ[h]
  <2>1. CASE RemoveWalk(g)
    BY <1>1, <2>1 DEF RemoveWalk, RemoveReturns, Goto, SlotTypes
  <2>2. CASE RemoveUnlink(g)
    BY <1>1, <2>2 DEF RemoveUnlink, RemoveReturns, Goto, SlotTypes, walk
  <2> QED BY <2>1, <2>2
<1>4. Live' = Live
  <2>1. \A h \in Waiters : pc'[h] \in {"verify", "sleep"} <=> pc[h] \in {"verify", "sleep"}
    BY <1>1, <1>2, <1>3
  <2> QED BY <1>2, <2>1 DEF Live, NodeOf
<1> QED BY <1>2, <1>3, <1>4

\* removeWaiter steps over a node, or finds one of its own.
LEMMA WalkStep ==
  ASSUME ListInv, NEW g \in Waiters, RemoveWalk(g)
  PROVE  Leads' /\ Ranked' /\ CoverInv'
<1>0. NodeInv /\ SlotTypes /\ PlaceInv /\ Leads /\ Ranked /\ CoverInv
  BY DEF ListInv, NodeInv
<1>f. Waiters \subseteq Procs /\ Wakers \subseteq Procs /\ Waiters \cap Wakers = {} /\ g \in Procs
  BY ProcFacts
<1>1. /\ pc[g] = "walk" /\ pc'[g] # "verify" /\ pc'[g] # "sleep" /\ UNCHANGED <<state, sema, call, head, next>>
      /\ \A p \in Procs \ {g} : pc'[p] = pc[p] /\ cur'[p] = cur[p]
      /\ \A h \in Waiters \ {g} : succ'[h] = succ[h]
      /\ Live' = Live
  BY <1>0, RemovalFrame DEF RemoveWalk, list
<1>2. cur[g] \in Node /\ next[cur[g]] \in NodeOrNil
  BY <1>0, <1>f, <1>1 DEF SlotTypes, PlaceInv, NodeOrNil
<1>3. pc'[g] = "unlink" => cur'[g] = cur[g] /\ succ'[g] = next[cur[g]] /\ cur[g][1] = g
  BY <1>0, <1>f, <1>1 DEF RemoveWalk, RemoveReturns, Goto, SlotTypes
<1>4. Leads'
  <2>1. pc'[g] = "unlink" => Rest(next, cur[g]) \cap Live = Rest(next, next[cur[g]]) \cap Live
    <3> SUFFICES ASSUME pc'[g] = "unlink"
                 PROVE  Rest(next, cur[g]) \cap Live = Rest(next, next[cur[g]]) \cap Live
      OBVIOUS
    <3>1. Rest(next, cur[g]) = {cur[g]} \cup Rest(next, next[cur[g]])
      BY <1>0, <1>2, RestSplits DEF SlotTypes
    <3>2. cur[g] \notin Live
      <4>1. \A n \in Live : n[1] # g
        BY SMTT(30), <1>1 DEF Live, NodeOf
      <4> QED BY <1>3, <4>1
    <3> QED BY <3>1, <3>2
  <2>2. \A h \in Waiters \ {g} : pc'[h] = "unlink" =>
          pc[h] = "unlink" /\ cur'[h] = cur[h] /\ succ'[h] = succ[h]
    BY <1>f, <1>1
  <2> QED BY <1>0, <1>1, <1>3, <2>1, <2>2 DEF Leads
<1>5. Ranked'
  <2>1. PICK r : /\ Descends(next, r)
                 /\ \A h \in Waiters : pc[h] = "unlink" /\ succ[h] # Nil => r[succ[h]] < r[cur[h]]
    BY <1>0 DEF Ranked
  <2>2. \A h \in Waiters : pc'[h] = "unlink" /\ succ'[h] # Nil => r[succ'[h]] < r[cur'[h]]
    BY <1>f, <1>1, <1>2, <1>3, <2>1 DEF Descends
  <2> QED BY <1>1, <2>1, <2>2 DEF Ranked
<1>6. \A k \in Wakers : ToRelease(k)' = ToRelease(k)
  BY <1>f, <1>1 DEF ToRelease
<1>7. \A n \in Live' : Covered(n) => Covered(n)'
  BY <1>1, <1>6 DEF Covered
<1>8. CoverInv'
  BY <1>0, <1>f, <1>1, <1>7, StillCovered
<1> QED BY <1>4, <1>5, <1>8

\* removeWaiter unlinks a node of its own, from the head or from the node before it,
\* or gives up.
LEMMA UnlinkStep ==
  ASSUME ListInv, NEW g \in Waiters, RemoveUnlink(g)
  PROVE  Leads' /\ Ranked' /\ CoverInv'
<1>0. NodeInv /\ SlotTypes /\ PlaceInv /\ EndInv /\ Leads /\ Ranked /\ CoverInv
  BY DEF ListInv, NodeInv
<1>f. Waiters \subseteq Procs /\ Wakers \subseteq Procs /\ Waiters \cap Wakers = {} /\ g \in Procs
  BY ProcFacts
<1>1. /\ pc[g] = "unlink" /\ pc'[g] \in {"remove", "load"} /\ UNCHANGED <<state, sema, call>>
      /\ \A p \in Procs \ {g} : pc'[p] = pc[p] /\ cur'[p] = cur[p]
      /\ \A h \in Waiters \ {g} : succ'[h] = succ[h]
      /\ Live' = Live
  <2>1. pc'[g] \in {"remove", "load"}
    BY <1>0, <1>f DEF RemoveUnlink, RemoveReturns, Goto, SlotTypes
  <2> QED BY <1>0, <2>1, RemovalFrame DEF RemoveUnlink
<1>2. PICK r : /\ Descends(next, r)
               /\ \A h \in Waiters : pc[h] = "unlink" /\ succ[h] # Nil => r[succ[h]] < r[cur[h]]
  BY <1>0 DEF Ranked
<1>3. \A h \in Waiters : pc'[h] = "unlink" =>
        h # g /\ pc[h] = "unlink" /\ cur'[h] = cur[h] /\ succ'[h] = succ[h]
  BY <1>f, <1>1
<1>4. ASSUME \A n \in Live : n \in Rest(next, head) => n \in Rest(next', head'),
             \A k \in Wakers : \A n \in Live : n \in ToRelease(k) => n \in ToRelease(k)'
      PROVE  CoverInv'
  <2>1. \A n \in Live' : Covered(n) => Covered(n)'
    BY <1>1, <1>4 DEF Covered
  <2> QED BY <1>0, <1>f, <1>1, <1>4, <2>1, StillCovered
<1>5. CASE UNCHANGED <<head, next>>
  <2>1. Leads' /\ Ranked'
    BY <1>0, <1>1, <1>3, <1>5, SameLists
  <2>2. \A k \in Wakers : ToRelease(k)' = ToRelease(k)
    BY <1>f, <1>1, <1>5 DEF ToRelease
  <2> QED BY <1>4, <1>5, <2>1, <2>2
<1>6. CASE head = cur[g] /\ head' = succ[g] /\ UNCHANGED next
  <2>1. Leads' /\ Ranked'
    BY <1>0, <1>1, <1>3, <1>6, SameLists
  <2>2. Rest(next, head) \cap Live = Rest(next', head') \cap Live
    BY <1>0, <1>1, <1>6 DEF Leads
  <2>3. \A k \in Wakers : \A n \in Live : n \in ToRelease(k) => n \in ToRelease(k)'
    BY <1>f, <1>1, <1>6, <2>2 DEF ToRelease
  <2> QED BY <1>4, <2>1, <2>2, <2>3
<1>7. CASE /\ prev[g] # Nil /\ next[prev[g]] = cur[g]
           /\ next' = [next EXCEPT ![prev[g]] = succ[g]] /\ UNCHANGED head
  <2> DEFINE p == prev[g]
             h == succ[g]
  <2>0. /\ next \in [Node -> NodeOrNil] /\ p \in Node /\ h \in NodeOrNil /\ next[p] = cur[g]
        /\ cur[g] \in Node /\ head \in NodeOrNil
    BY <1>0, <1>f, <1>1, <1>7 DEF SlotTypes, PlaceInv, NodeOrNil
  <2>1. h # Nil => r[h] < r[p]
    <3> SUFFICES ASSUME h # Nil PROVE r[h] < r[p]
      OBVIOUS
    <3>1. r[h] < r[cur[g]] /\ r[cur[g]] < r[p]
      BY <1>1, <1>2, <2>0, NodeFacts DEF Descends
    <3>2. r[h] \in Nat /\ r[cur[g]] \in Nat /\ r[p] \in Nat
      BY <1>2, <2>0 DEF Descends, NodeOrNil
    <3> QED BY SMT, <3>1, <3>2
  <2>2. Rest(next, next[p]) \cap Live = Rest(next, h) \cap Live
    BY <1>0, <1>1, <2>0 DEF Leads
  <2>3. next' = [next EXCEPT ![p] = h] /\ next'[p] = h /\ \A x \in Node \ {p} : next'[x] = next[x]
    BY <1>7, <2>0
  <2> HIDE DEF p, h
  <2>4. \A x \in NodeOrNil : Rest(next', x) \cap Live = Rest(next, x) \cap Live
    <3>1. Bypass(next, r, p, h, Live)
      BY <1>2, <2>0, <2>1, <2>2 DEF Bypass
    <3>2. \A x \in NodeOrNil : Rest([next EXCEPT ![p] = h], x) \cap Live = Rest(next, x) \cap Live
      BY SMT, <3>1, RestUnlinked
    <3> QED BY <2>3, <3>2
  <2>5. Leads'
    <3>1. \A i \in Waiters : cur[i] \in NodeOrNil /\ succ[i] \in NodeOrNil
      BY <1>0, <1>f DEF SlotTypes
    <3> QED BY <1>0, <1>1, <1>3, <2>4, <3>1 DEF Leads
  <2>6. Ranked'
    <3>1. Descends(next', r)
      BY <1>2, <2>1, <2>3 DEF Descends
    <3> QED BY <1>2, <1>3, <3>1 DEF Ranked
  <2>7. \A k \in Wakers : \A n \in Live : n \in ToRelease(k) => n \in ToRelease(k)'
    <3> SUFFICES ASSUME NEW k \in Wakers, NEW n \in Live, n \in ToRelease(k) PROVE n \in ToRelease(k)'
      OBVIOUS
    <3>1. pc'[k] = pc[k] /\ cur'[k] = cur[k] /\ cur[k] \in NodeOrNil
      BY <1>0, <1>f, <1>1 DEF SlotTypes
    <3>2. CASE pc[k] = "swap" \/ pc[k] = "release"
      BY <1>7, <2>0, <2>4, <3>1, <3>2 DEF ToRelease
    <3>3. CASE pc[k] = "advance"
      <4>1. cur[k] \in Node /\ next[cur[k]] \in NodeOrNil
        BY <1>0, <2>0, <3>1, <3>3 DEF PlaceInv, NodeOrNil
      <4>2. n \in Rest(next, next'[cur[k]]) /\ next'[cur[k]] \in NodeOrNil
        BY <2>0, <2>2, <2>3, <3>3, <4>1 DEF ToRelease
      <4>3. n \in Rest(next', next'[cur[k]])
        BY <2>4, <4>2
      <4> QED BY <3>1, <3>3, <4>3 DEF ToRelease
    <3> QED BY <3>2, <3>3 DEF ToRelease
  <2>8. \A n \in Live : n \in Rest(next, head) => n \in Rest(next', head')
    BY <1>7, <2>0, <2>4
  <2> QED BY <1>4, <2>5, <2>6, <2>7, <2>8
<1> QED BY <1>5, <1>6, <1>7 DEF RemoveUnlink, list

\* A list that does not begin with an unused node does not hold it.
LEMMA UnusedUnreached ==
  ASSUME NodeInv, NEW n \in Node, Unused(n), NEW x \in NodeOrNil \ {n}
  PROVE  n \notin Rest(next, x)
<1> DEFINE S == Node \ {n}
<1>1. S \in SUBSET Node /\ x \in S \cup {Nil} /\ \A y \in S : next[y] \in S \cup {Nil}
  BY DEF NodeInv, SlotTypes, Unused, NodeOrNil
<1> HIDE DEF S
<1>2. Rest(next, x) \subseteq S
  BY <1>1, RestLeast
<1> QED BY <1>2 DEF S

\* pushWaiter puts an unused node in front of the list.
LEMMA PushStep ==
  ASSUME ListInv, NEW g \in Waiters, PushWaiter(g)
  PROVE  Leads' /\ Ranked' /\ CoverInv'
<1>0. NodeInv /\ SlotTypes /\ PlaceInv /\ FreshInv /\ Leads /\ Ranked /\ CoverInv
  BY DEF ListInv, NodeInv
<1>f. Waiters \subseteq Procs /\ Wakers \subseteq Procs /\ Waiters \cap Wakers = {} /\ g \in Procs
  BY ProcFacts
<1>1. PICK n : n = NodeOf(g)
  OBVIOUS
<1>2. /\ pc[g] = "push" /\ pc' = [pc EXCEPT ![g] = "verify"]
      /\ next' = [next EXCEPT ![n] = head] /\ head' = n
      /\ UNCHANGED <<state, sema, call, cur, succ>>
  BY <1>1 DEF PushWaiter, Goto, slot, walk
<1>3. n \in Node /\ n \in NodeOrNil /\ n # Nil /\ Unused(n)
  BY <1>0, <1>1, <1>2, CallNode, NodeFacts DEF FreshInv, Unpushed, NodeOrNil
<1>4. \A p \in Procs : pc'[p] = IF p = g THEN "verify" ELSE pc[p]
  BY <1>0, <1>2 DEF SlotTypes
<1>5. \A h \in Waiters : NodeOf(h)' = NodeOf(h)
  BY <1>2 DEF NodeOf
<1>6. Live' = Live \cup {n}
  BY <1>1, <1>2, <1>4, <1>5, <1>f DEF Live
<1>7. \A x \in NodeOrNil \ {n} : Rest(next', x) = Rest(next, x) /\ n \notin Rest(next, x)
  <2>1. ASSUME NEW x \in NodeOrNil \ {n} PROVE n \notin Rest(next, x)
    BY <1>0, <1>3, UnusedUnreached
  <2>2. next \in [Node -> NodeOrNil] /\ head \in NodeOrNil
    BY <1>0 DEF SlotTypes
  <2>3. \A x \in NodeOrNil \ {n} : Rest([next EXCEPT ![n] = head], x) = Rest(next, x)
    BY <1>3, <2>1, <2>2, RestElsewhere
  <2> QED BY <1>2, <2>1, <2>3
<1>8. head \in NodeOrNil \ {n} /\ \A x \in Node : next[x] \in NodeOrNil \ {n}
  BY <1>0, <1>3 DEF SlotTypes, Unused
<1>9. Rest(next', n) = {n} \cup Rest(next, head)
  <2>1. next' \in [Node -> NodeOrNil] /\ next'[n] = head
    BY <1>0, <1>2, <1>3 DEF SlotTypes
  <2>2. Rest(next', n) = {n} \cup Rest(next', head)
    BY <1>3, <2>1, RestSplits
  <2> QED BY <1>7, <1>8, <2>2
<1>10. Leads'
  <2> SUFFICES ASSUME NEW h \in Waiters, pc'[h] = "unlink"
               PROVE  /\ cur'[h][1] = h
                      /\ Rest(next', cur'[h]) \cap Live' = Rest(next', succ'[h]) \cap Live'
    BY DEF Leads
  <2>1. pc[h] = "unlink" /\ UNCHANGED <<cur[h], succ[h]>>
    BY SMT, <1>f, <1>2, <1>4
  <2>2. cur[h] \in NodeOrNil \ {n} /\ succ[h] \in NodeOrNil \ {n}
    BY <1>0, <1>f, <1>3 DEF SlotTypes, Unused
  <2> QED BY SMTT(30), <1>0, <1>6, <1>7, <2>1, <2>2 DEF Leads
<1>11. Ranked'
  <2>1. PICK r : /\ Descends(next, r)
                 /\ \A h \in Waiters : pc[h] = "unlink" /\ succ[h] # Nil => r[succ[h]] < r[cur[h]]
    BY <1>0 DEF Ranked
  <2> DEFINE q == [r EXCEPT ![n] = IF head = Nil THEN 0 ELSE r[head] + 1]
  <2>2. q \in [Node -> Nat] /\ (\A x \in Node \ {n} : q[x] = r[x]) /\ (head # Nil => r[head] < q[n])
    <3>1. r \in [Node -> Nat] /\ (head # Nil => r[head] \in Nat)
      BY <1>8, <2>1 DEF Descends, NodeOrNil
    <3> QED BY SMT, <1>3, <3>1
  <2> HIDE DEF q
  <2>3. Descends(next', q)
    <3>1. ASSUME NEW x \in Node, next'[x] # Nil PROVE q[next'[x]] < q[x]
      <4>1. CASE x = n
        <5>1. next'[x] = head /\ head \in Node \ {n}
          BY <1>0, <1>2, <1>3, <1>8, <3>1, <4>1 DEF SlotTypes, NodeOrNil
        <5> QED BY <2>2, <3>1, <4>1, <5>1
      <4>2. CASE x # n
        <5>1. next'[x] = next[x] /\ next[x] \in Node \ {n}
          BY <1>0, <1>2, <1>3, <1>8, <3>1, <4>2 DEF SlotTypes, NodeOrNil
        <5> QED BY <2>1, <2>2, <3>1, <4>2, <5>1 DEF Descends
      <4> QED BY <4>1, <4>2
    <3> QED BY <2>2, <3>1 DEF Descends
  <2>4. \A h \in Waiters : pc'[h] = "unlink" /\ succ'[h] # Nil => q[succ'[h]] < q[cur'[h]]
    <3> SUFFICES ASSUME NEW h \in Waiters, pc'[h] = "unlink", succ'[h] # Nil
                 PROVE  q[succ'[h]] < q[cur'[h]]
      OBVIOUS
    <3>1. pc[h] = "unlink" /\ UNCHANGED <<cur[h], succ[h]>>
      BY SMT, <1>f, <1>2, <1>4
    <3>2. cur[h] \in Node \ {n} /\ succ[h] \in Node \ {n}
      BY <1>0, <1>f, <1>3, <3>1 DEF SlotTypes, PlaceInv, Unused, NodeOrNil
    <3> QED BY <2>1, <2>2, <3>1, <3>2
  <2> QED BY <2>3, <2>4 DEF Ranked
<1>12. CoverInv'
  <2>1. Rest(next, head) \subseteq Rest(next', head') /\ n \in Rest(next', head')
    BY <1>2, <1>9
  <2>2. \A k \in Wakers : ToRelease(k) \subseteq ToRelease(k)'
    <3> SUFFICES ASSUME NEW k \in Wakers PROVE ToRelease(k) \subseteq ToRelease(k)'
      OBVIOUS
    <3>1. pc'[k] = pc[k] /\ cur'[k] = cur[k] /\ cur[k] \in NodeOrNil \ {n}
      BY <1>0, <1>f, <1>2, <1>3, <1>4 DEF SlotTypes, Unused
    <3>2. CASE pc[k] = "swap"
      BY <2>1, <3>1, <3>2 DEF ToRelease
    <3>3. CASE pc[k] = "release"
      BY <1>7, <3>1, <3>3 DEF ToRelease
    <3>4. CASE pc[k] = "advance"
      <4>1. cur[k] \in Node \ {n}
        BY <1>0, <3>1, <3>4 DEF PlaceInv, NodeOrNil
      <4>2. next'[cur[k]] = next[cur[k]]
        BY <1>0, <1>2, <4>1 DEF SlotTypes
      <4> QED BY <1>7, <1>8, <3>1, <3>4, <4>1, <4>2 DEF ToRelease
    <3> QED BY <3>2, <3>3, <3>4 DEF ToRelease
  <2>3. ASSUME NEW m, Covered(m) PROVE Covered(m)'
    BY <1>2, <2>1, <2>2, <2>3 DEF Covered
  <2>4. ASSUME NEW h \in Waiters, pc'[h] = "verify", state' = "pending"
        PROVE  NodeOf(h)' \in Rest(next', head')
    BY <1>0, <1>f, <1>1, <1>2, <1>4, <1>5, <2>1, <2>4 DEF CoverInv
  <2>5. ASSUME NEW h \in Waiters, pc'[h] = "sleep" PROVE Covered(NodeOf(h))'
    <3>1. PICK m : m = NodeOf(h) /\ m = NodeOf(h)'
      BY <1>5
    <3>2. Covered(m)
      BY <1>0, <1>f, <1>4, <2>5, <3>1 DEF CoverInv
    <3>3. Covered(m)'
      BY <2>3, <3>2
    <3> QED BY <3>1, <3>3
  <2> QED BY <2>4, <2>5 DEF CoverInv
<1> QED BY <1>10, <1>11, <1>12

\* Deliver, Close and wakeWaiters: whoever takes the slot out of pending comes to swap
\* the list out, and releases what it swapped out node by node.
LEMMA WakerStep ==
  ASSUME ListInv, NEW k \in Wakers, StoreValue(k) \/ MarkReady(k) \/ Close(k) \/ WakeStep(k)
  PROVE  Leads' /\ Ranked' /\ CoverInv'
<1>0. /\ NodeInv /\ SlotTypes /\ PlaceInv /\ EndInv /\ Leads /\ Ranked /\ CoverInv
      /\ Live \subseteq Node
  BY LiveNodes DEF ListInv, NodeInv
<1>f. Waiters \subseteq Procs /\ Wakers \subseteq Procs /\ Waiters \cap Wakers = {} /\ k \in Procs
  BY ProcFacts
<1>1. UNCHANGED <<next, call, succ>>
  BY DEF StoreValue, MarkReady, Close, WakeStep, SwapWaiters, ReleaseWaiter, NextWaiter, list, walk
<1>2. \A p \in Procs \ {k} : pc'[p] = pc[p] /\ cur'[p] = cur[p]
  BY <1>0, <1>f DEF StoreValue, MarkReady, Close, WakeStep, SwapWaiters, ReleaseWaiter, NextWaiter,
     Goto, SlotTypes, walk
<1>3. (\A g \in Waiters : pc'[g] = pc[g] /\ cur'[g] = cur[g]) /\ Live' = Live
  BY <1>f, <1>1, <1>2 DEF Live, NodeOf
<1>4. Leads' /\ Ranked'
  BY <1>0, <1>1, <1>3, SameLists
<1>5. ASSUME state' = "pending" => state = "pending" /\ head' = head,
             \A n \in Live : Covered(n) => Covered(n)'
      PROVE  CoverInv'
  BY <1>0, <1>1, <1>3, <1>5, StillCovered
<1>6. CASE StoreValue(k) \/ MarkReady(k) \/ Close(k)
  <2>1. UNCHANGED <<head, sema, cur>> /\ (state' = "pending" => state = "pending")
    BY <1>6 DEF StoreValue, MarkReady, Close, list, walk
  <2>2. pc[k] \in {"store", "cas", "close"} /\ (state = "pending" /\ state' # "pending" => pc'[k] = "swap")
    BY <1>0, <1>f, <1>6 DEF StoreValue, MarkReady, Close, Goto, SlotTypes
  <2>3. \A j \in Wakers \ {k} : ToRelease(j)' = ToRelease(j)
    BY <1>f, <1>1, <1>2, <2>1 DEF ToRelease
  <2>4. ToRelease(k) = {} /\ (pc'[k] = "swap" => ToRelease(k)' = Rest(next, head))
    BY <1>1, <2>1, <2>2 DEF ToRelease
  <2>5. \A n \in Live : Covered(n) => Covered(n)'
    BY <1>1, <2>1, <2>2, <2>3, <2>4 DEF Covered
  <2> QED BY <1>4, <1>5, <2>1, <2>5
<1>7. CASE SwapWaiters(k)
  <2>1. /\ pc[k] = "swap" /\ state # "pending" /\ UNCHANGED <<state, sema>> /\ cur'[k] = head
        /\ head' = Nil /\ pc'[k] = (IF head = Nil THEN "done" ELSE "release")
    BY <1>0, <1>f, <1>7 DEF SwapWaiters, Goto, SlotTypes, EndInv, slot
  <2>2. ToRelease(k)' = Rest(next, head)
    BY <1>1, <2>1 DEF ToRelease, Rest
  <2>3. \A j \in Wakers \ {k} : ToRelease(j) \subseteq ToRelease(j)' \cup Rest(next, head)
    BY <1>f, <1>1, <1>2 DEF ToRelease
  <2>4. ToRelease(k) = Rest(next, head)
    BY <2>1 DEF ToRelease
  <2>5. \A n \in Live : Covered(n) => Covered(n)'
    BY <2>1, <2>2, <2>3, <2>4 DEF Covered
  <2> QED BY <1>4, <1>5, <2>1, <2>5
<1>8. CASE ReleaseWaiter(k)
  <2>1. /\ pc[k] = "release" /\ pc'[k] = "advance" /\ UNCHANGED <<state, head, cur>>
        /\ sema' = [sema EXCEPT ![cur[k]] = sema[cur[k]] + 1]
    BY <1>0, <1>f, <1>8 DEF ReleaseWaiter, Goto, SlotTypes, slot, list, walk
  <2>2. cur[k] \in Node
    BY <1>0, <1>f, <2>1 DEF SlotTypes, PlaceInv, NodeOrNil
  <2>3. Rest(next, cur[k]) = {cur[k]} \cup Rest(next, next[cur[k]])
    BY <1>0, <2>2, RestSplits DEF SlotTypes
  <2>4. \A n \in Live : (sema[n] > 0 => sema'[n] > 0) /\ (n = cur[k] => sema'[n] > 0)
    BY SMT, <1>0, <2>1, <2>2 DEF SlotTypes
  <2>5. \A j \in Wakers \ {k} : ToRelease(j)' = ToRelease(j)
    BY <1>f, <1>1, <1>2, <2>1 DEF ToRelease
  <2>6. ToRelease(k) = {cur[k]} \cup ToRelease(k)'
    BY <1>1, <2>1, <2>3 DEF ToRelease
  <2>7. \A n \in Live : Covered(n) => Covered(n)'
    BY <1>1, <2>1, <2>4, <2>5, <2>6 DEF Covered
  <2> QED BY <1>4, <1>5, <2>1, <2>7
<1>9. CASE NextWaiter(k)
  <2>1. /\ pc[k] = "advance" /\ UNCHANGED <<state, head, sema>> /\ cur'[k] = next[cur[k]]
        /\ pc'[k] = IF next[cur[k]] = Nil THEN "done" ELSE "release"
    BY <1>0, <1>f, <1>9 DEF NextWaiter, Goto, SlotTypes, slot, list
  <2>2. \A j \in Wakers \ {k} : ToRelease(j)' = ToRelease(j)
    BY <1>f, <1>1, <1>2, <2>1 DEF ToRelease
  <2>3. ToRelease(k)' = ToRelease(k)
    BY <1>1, <2>1 DEF ToRelease, Rest
  <2>4. \A n \in Live : Covered(n) => Covered(n)'
    BY <1>1, <2>1, <2>2, <2>3 DEF Covered
  <2> QED BY <1>4, <1>5, <2>1, <2>4
<1> QED BY <1>6, <1>7, <1>8, <1>9 DEF WakeStep

LEMMA ListInit == Init => ListInv
<1> SUFFICES ASSUME Init PROVE ListInv
  OBVIOUS
<1>1. \A g \in Waiters : pc[g] = "idle"
  BY ProcFacts DEF Init
<1>2. Leads /\ CoverInv
  BY <1>1 DEF Leads, CoverInv
<1>3. Ranked
  <2>1. Descends(next, [n \in Node |-> 0])
    BY DEF Init, Descends
  <2> QED BY <1>1, <2>1 DEF Ranked
<1> QED BY <1>2, <1>3, NodeInit DEF ListInv

LEMMA ListStep == ListInv /\ [Next]_vars => ListInv'
<1> SUFFICES ASSUME ListInv, [Next]_vars PROVE ListInv'
  OBVIOUS
<1>1. NodeInv'
  BY NodeStep DEF ListInv
<1>2. Leads' /\ Ranked' /\ CoverInv'
  BY CalmSteps, WalkStep, UnlinkStep, PushStep, WakerStep, ProcFacts DEF Next, WaitStep
<1> QED BY <1>1, <1>2 DEF ListInv

\* No wakeup is lost, for any number of goroutines and calls: a goroutine that sleeps in
\* Wait after the slot has left pending has been released or lies on the path of a
\* waker, whatever the removals that run beside it do to the list.
THEOREM SlotWakeupNotLost == Spec => []NoLostWakeup
<1>1. ListInv => NoLostWakeup
  <2> SUFFICES ASSUME ListInv, state # "pending", NEW g \in Waiters, pc[g] = "sleep", sema[NodeOf(g)] = 0
               PROVE  \E k \in Wakers : NodeOf(g) \in WillRelease(k)
    BY DEF NoLostWakeup
  <2>1. PICK k \in Wakers : NodeOf(g) \in ToRelease(k)
    BY SMT DEF ListInv, CoverInv, Covered
  <2>2. CASE pc[k] = "swap"
    BY <2>1, <2>2 DEF ToRelease, WillRelease, Rest, From, Reach
  <2>3. CASE pc[k] = "release"
    BY <2>1, <2>3 DEF ToRelease, WillRelease, Rest, From, Reach
  <2>4. CASE pc[k] = "advance"
    BY <2>1, <2>4 DEF ToRelease, WillRelease, Rest, From, Reach
  <2> QED BY <2>1, <2>2, <2>3, <2>4 DEF ToRelease
<1> QED
  BY ListInit, ListStep, <1>1, PTL DEF Spec
=============================================================================
