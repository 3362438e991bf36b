------------------------------- MODULE SpscRing -------------------------------
(***************************************************************************)
(* The ring of spsc_ring.go that carries broadcasts to one subscriber, one *)
(* action per atomic access.  It is meant for a single producer and a      *)
(* single consumer, but even so several goroutines pop: the consumer, the  *)
(* producer when it drops the oldest value of a full ring, and whoever     *)
(* closes the subscription.  Uses lists the ways a ring is made and        *)
(* shared: its policy when full, and the goroutines that push and pop.     *)
(***************************************************************************)
EXTENDS Integers, Sequences

CONSTANTS
  Producers, Poppers,
  Uses,              \* the ways the ring is used
  RingCapacity,      \* length of slots, a power of two
  MaxPush,           \* bound on the values pushed
  Nil

ASSUME RingAssumption ==
  /\ Producers \cap Poppers = {}
  /\ RingCapacity \in Nat \ {0}
  /\ Uses \subseteq [dropOldestOnFull : BOOLEAN,
                     producers : SUBSET Producers, poppers : SUBSET Poppers]
  /\ MaxPush \in Nat
  /\ Nil \notin 1..MaxPush

Procs == Producers \cup Poppers

VARIABLES
  use,         \* how this ring is used
  slots, head, tail,
  pc,          \* where each goroutine stands
  h, t,        \* the head and tail it loaded
  value,       \* the value it pushes
  taken,       \* the value its Pop swapped out of a slot
  next,        \* values handed to Push so far; value n is the nth
  pushed,      \* history: the values in the order head passed them
  popped       \* history: the values in the order tail passed them

ringVars == <<use, slots, head, tail, pc, h, t, value, taken, next, pushed, popped>>
ring == <<use, slots, head, tail>>

RingInit ==
  /\ use \in Uses
  /\ slots = [i \in 0..RingCapacity-1 |-> Nil]
  /\ head = 0
  /\ tail = 0
  /\ pc = [p \in Procs |-> "idle"]
  /\ h = [p \in Procs |-> 0]
  /\ t = [p \in Procs |-> 0]
  /\ value = [p \in Producers |-> Nil]
  /\ taken = [p \in Procs |-> Nil]
  /\ next = 0
  /\ pushed = <<>>
  /\ popped = <<>>

Goto(p, label) == pc' = [pc EXCEPT ![p] = label]

Index(n) == n % RingCapacity
-----------------------------------------------------------------------------
(* Push *)

PushStart(p) ==
  /\ p \in use.producers
  /\ pc[p] = "idle"
  /\ next < MaxPush
  /\ next' = next + 1
  /\ value' = [value EXCEPT ![p] = next + 1]
  /\ Goto(p, "pushHead")
  /\ UNCHANGED <<ring, h, t, taken, pushed, popped>>

PushReturns(p) ==
  /\ Goto(p, "idle")
  /\ h' = [h EXCEPT ![p] = 0]
  /\ value' = [value EXCEPT ![p] = Nil]

PushLoadHead(p) ==
  /\ pc[p] = "pushHead"
  /\ h' = [h EXCEPT ![p] = head]
  /\ Goto(p, "pushTail")
  /\ UNCHANGED <<ring, t, value, taken, next, pushed, popped>>

\* head - tail is unsigned, so a head behind the tail looks full as well.
Full(p) == h[p] < tail \/ h[p] - tail >= RingCapacity

\* Faulty variant: waits for room instead of dropping the oldest value.
PushLoadTailWaits(p) ==
  /\ pc[p] = "pushTail"
  /\ IF ~Full(p) THEN Goto(p, "pushSlot") /\ UNCHANGED h
     ELSE Goto(p, "pushHead") /\ h' = [h EXCEPT ![p] = 0]
  /\ UNCHANGED <<ring, t, value, taken, next, pushed, popped>>

PushLoadTail(p) ==
  /\ pc[p] = "pushTail"
  /\ CASE ~Full(p) -> Goto(p, "pushSlot") /\ UNCHANGED <<h, value>>
       [] Full(p) /\ use.dropOldestOnFull ->
            Goto(p, "popTail") /\ h' = [h EXCEPT ![p] = 0] /\ UNCHANGED value
       [] Full(p) /\ ~use.dropOldestOnFull -> PushReturns(p)
  /\ UNCHANGED <<ring, t, taken, next, pushed, popped>>

PushSlot(p) ==
  /\ pc[p] = "pushSlot"
  /\ IF slots[Index(h[p])] = Nil
       THEN /\ slots' = [slots EXCEPT ![Index(h[p])] = value[p]]
            /\ Goto(p, "pushAdvance")
            /\ UNCHANGED h
       ELSE /\ Goto(p, "pushHead")
            /\ h' = [h EXCEPT ![p] = 0]
            /\ UNCHANGED slots
  /\ UNCHANGED <<use, head, tail, t, value, taken, next, pushed, popped>>

PushAdvance(p) ==
  /\ pc[p] = "pushAdvance"
  /\ IF head = h[p]
       THEN /\ head' = head + 1
            /\ pushed' = Append(pushed, value[p])
            /\ PushReturns(p)
       ELSE Goto(p, "pushUndo") /\ UNCHANGED <<head, pushed, h, value>>
  /\ UNCHANGED <<use, slots, tail, t, taken, next, popped>>

PushUndo(p) ==
  /\ pc[p] = "pushUndo"
  /\ slots' = [slots EXCEPT ![Index(h[p])] = Nil]
  /\ h' = [h EXCEPT ![p] = 0]
  /\ Goto(p, "pushHead")
  /\ UNCHANGED <<use, head, tail, t, value, taken, next, pushed, popped>>

-----------------------------------------------------------------------------
(* Pop, which Poll, Wait, Close and a Push into a full ring call *)

PopStart(p) ==
  /\ p \in use.poppers
  /\ pc[p] = "idle"
  /\ Goto(p, "popTail")
  /\ UNCHANGED <<ring, h, t, value, taken, next, pushed, popped>>

PopReturns(p) ==
  /\ Goto(p, IF p \in Producers THEN "pushHead" ELSE "idle")
  /\ t' = [t EXCEPT ![p] = 0]
  /\ taken' = [taken EXCEPT ![p] = Nil]

PopLoadTail(p) ==
  /\ pc[p] = "popTail"
  /\ t' = [t EXCEPT ![p] = tail]
  /\ Goto(p, "popHead")
  /\ UNCHANGED <<ring, h, value, taken, next, pushed, popped>>

PopLoadHead(p) ==
  /\ pc[p] = "popHead"
  /\ IF t[p] >= head THEN PopReturns(p)
     ELSE Goto(p, "popSlot") /\ UNCHANGED <<t, taken>>
  /\ UNCHANGED <<ring, h, value, next, pushed, popped>>

PopSlot(p) ==
  /\ pc[p] = "popSlot"
  /\ taken' = [taken EXCEPT ![p] = slots[Index(t[p])]]
  /\ slots' = [slots EXCEPT ![Index(t[p])] = Nil]
  /\ IF slots[Index(t[p])] = Nil
       THEN Goto(p, "popTail") /\ t' = [t EXCEPT ![p] = 0]
       ELSE Goto(p, "popAdvance") /\ UNCHANGED t
  /\ UNCHANGED <<use, head, tail, h, value, next, pushed, popped>>

\* Faulty variant: returns the value without checking that tail is still its own.
PopAdvanceByStore(p) ==
  /\ pc[p] = "popAdvance"
  /\ tail' = t[p] + 1
  /\ popped' = Append(popped, taken[p])
  /\ PopReturns(p)
  /\ UNCHANGED <<use, slots, head, h, value, next, pushed>>

PopAdvance(p) ==
  /\ pc[p] = "popAdvance"
  /\ IF tail = t[p]
       THEN /\ tail' = tail + 1
            /\ popped' = Append(popped, taken[p])
            /\ PopReturns(p)
       ELSE Goto(p, "popRestore") /\ UNCHANGED <<tail, popped, t, taken>>
  /\ UNCHANGED <<use, slots, head, h, value, next, pushed>>

\* Faulty variant: forgets to put back a value it took by mistake.
PopRestoreSkipped(p) ==
  /\ pc[p] = "popRestore"
  /\ taken' = [taken EXCEPT ![p] = Nil]
  /\ t' = [t EXCEPT ![p] = 0]
  /\ Goto(p, "popTail")
  /\ UNCHANGED <<ring, h, value, next, pushed, popped>>

PopRestore(p) ==
  /\ pc[p] = "popRestore"
  /\ slots' = [slots EXCEPT ![Index(t[p])] = taken[p]]
  /\ taken' = [taken EXCEPT ![p] = Nil]
  /\ t' = [t EXCEPT ![p] = 0]
  /\ Goto(p, "popTail")
  /\ UNCHANGED <<use, head, tail, h, value, next, pushed, popped>>

PushStep(p) ==
  \/ PushLoadHead(p) \/ PushLoadTail(p) \/ PushSlot(p) \/ PushAdvance(p) \/ PushUndo(p)

PopStep(p) ==
  \/ PopLoadTail(p) \/ PopLoadHead(p) \/ PopSlot(p) \/ PopAdvance(p) \/ PopRestore(p)

RingNext ==
  \/ \E p \in Producers : PushStart(p) \/ PushStep(p)
  \/ \E p \in Poppers : PopStart(p)
  \/ \E p \in Procs : PopStep(p)

RingSpec == RingInit /\ [][RingNext]_ringVars

\* A goroutine inside Push or Pop keeps being scheduled.
RingFairSpec ==
  /\ RingSpec
  /\ \A p \in Producers : WF_ringVars(PushStep(p) \/ PopStep(p))
  /\ \A p \in Poppers : WF_ringVars(PopStep(p))
-----------------------------------------------------------------------------
(* Properties *)

\* Values leave in the order they entered, none twice and none skipped, whoever
\* pops them: a Pop that lost its race for tail hands nothing out.
Fifo == Len(popped) <= Len(pushed) /\ popped = SubSeq(pushed, 1, Len(popped))

\* No value is lost or left behind: when no call is under way the slots between
\* tail and head hold what was pushed there and the others are empty, in spite of
\* the values that losing Pops take out of later slots and put back.
SlotsSettle ==
  (\A p \in Procs : pc[p] = "idle") =>
    slots = [i \in 0..RingCapacity-1 |->
               LET live == {n \in tail..head-1 : Index(n) = i}
               IN  IF live = {} THEN Nil ELSE pushed[(CHOOSE n \in live : TRUE) + 1]]

\* Every Push and every Pop returns: the retry loops do not live-lock.
CallsReturn == \A p \in Procs : pc[p] # "idle" ~> pc[p] = "idle"
=============================================================================
