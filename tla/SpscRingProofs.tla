---------------------------- MODULE SpscRingProofs ----------------------------
(***************************************************************************)
(* Proofs about SpscRing, for every capacity and every set of goroutines,  *)
(* and about the subscriber that sleeps on such a ring: Consumer, and      *)
(* BroadcastGroup around it, for every set of senders, hooks and           *)
(* subscribers.                                                            *)
(***************************************************************************)
EXTENDS SpscRing, BroadcastGroup, TLAPS

\* Most steps are first-order reasoning, which Zenon does; the others name SMT.
USE Zenon

-----------------------------------------------------------------------------
(* The positions that share a slot *)

\* A position's slot exists.
LEMMA IndexRange ==
  ASSUME NEW n \in Nat
  PROVE  Index(n) \in 0..RingCapacity-1
  BY SMT, RingAssumption DEF Index

\* What % is, in the form the next lemma needs.
LEMMA Division ==
  ASSUME NEW c \in Int, c > 0, NEW n \in Int
  PROVE  \E a \in Int : n = c * a + (n % c)
<1>1. n \div c \in Int
  BY SMT
<1>2. n = c * (n \div c) + (n % c)
  BY SMT
<1> QED  BY <1>1, <1>2

\* Positions that share a slot are a whole lap apart.
LEMMA IndexApart ==
  ASSUME NEW m \in Nat, NEW n \in Nat, Index(m) = Index(n), m < n
  PROVE  m + RingCapacity <= n
<1>0. m \in Int /\ n \in Int
  BY SMT
<1>1. RingCapacity \in Int /\ RingCapacity > 0
  BY SMT, RingAssumption
<1>2. PICK a \in Int : m = RingCapacity * a + (m % RingCapacity)
  BY <1>0, <1>1, Division
<1>3. PICK b \in Int : n = RingCapacity * b + (n % RingCapacity)
  BY <1>0, <1>1, Division
<1>4. n - m = RingCapacity * b - RingCapacity * a
  <2> DEFINE x == RingCapacity * a
             y == RingCapacity * b
             r == m % RingCapacity
  <2>1. x \in Int /\ y \in Int /\ r \in Int /\ n % RingCapacity = r
    BY SMT, <1>1 DEF Index
  <2>2. m = x + r /\ n = y + r
    BY <1>2, <1>3, <2>1
  <2> HIDE DEF x, y, r
  <2>3. n - m = y - x
    BY SMT, <2>1, <2>2
  <2> QED  BY <2>3 DEF x, y
<1>5. n - m = RingCapacity * (b - a)
  BY SMT, <1>1, <1>4
<1>6. b - a >= 1
  BY SMT, <1>1, <1>5
<1> QED  BY SMT, <1>1, <1>5, <1>6

\* Within a window of RingCapacity positions each has a slot of its own.
LEMMA Window ==
  ASSUME NEW k \in Nat, NEW m \in Nat, NEW n \in Nat,
         k <= m, m < k + RingCapacity, k <= n, n < k + RingCapacity,
         Index(m) = Index(n)
  PROVE  m = n
  BY SMT, IndexApart, RingAssumption

\* The assumptions on the constants, one conjunct each.
LEMMA Constants ==
  /\ Producers \cap Poppers = {}
  /\ RingCapacity \in Nat /\ RingCapacity > 0
  /\ MaxPush \in Nat
  /\ Nil \notin 1..MaxPush
  BY SMT, RingAssumption

-----------------------------------------------------------------------------
(* The inductive invariant *)

\* The ring is shared by one producer and any number of poppers, or by any number
\* of producers that never pop and one popper.
OneProducer(u) == \A p, r \in u.producers : p = r
OnePopper(u) == ~u.dropOldestOnFull /\ \A q, r \in u.poppers : q = r
Orderly(u) == OneProducer(u) \/ OnePopper(u)

\* Inside Push, with a head loaded; inside Pop.
Pushing == {"pushTail", "pushSlot", "pushAdvance", "pushUndo"}
Popping == {"popTail", "popHead", "popSlot", "popAdvance", "popRestore"}

\* p has put its value into a slot; q has taken one out.
Claims(p) == pc[p] \in {"pushAdvance", "pushUndo"}
Holds(q) == pc[q] \in {"popAdvance", "popRestore"}

\* Types; head and tail count the histories, tail behind head.
RingTypes ==
  /\ use \in Uses /\ Orderly(use)
  /\ slots \in [0..RingCapacity-1 -> 1..MaxPush \cup {Nil}]
  /\ head \in Nat /\ tail \in Nat /\ tail <= head
  /\ pc \in [Procs -> {"idle", "pushHead"} \cup Pushing \cup Popping]
  /\ h \in [Procs -> Nat] /\ t \in [Procs -> Nat]
  /\ value \in [Producers -> 1..MaxPush \cup {Nil}]
  /\ taken \in [Procs -> 1..MaxPush \cup {Nil}]
  /\ next \in 0..MaxPush
  /\ pushed \in Seq(1..MaxPush) /\ Len(pushed) = head
  /\ popped \in Seq(1..MaxPush) /\ Len(popped) = tail

\* Where a goroutine may stand and what its loaded head and tail still mean: only
\* producers push, a producer pops only when the ring drops the oldest value, and
\* what was loaded has at most been overtaken.
Places ==
  /\ \A p \in Producers : pc[p] # "idle" => p \in use.producers /\ value[p] # Nil
  /\ \A q \in Poppers : pc[q] # "idle" => q \in use.poppers /\ pc[q] \in Popping
  /\ \A p \in Producers : pc[p] \in Popping => use.dropOldestOnFull
  /\ \A p \in Producers : pc[p] \in Pushing => h[p] <= head
  /\ \A p \in Producers : pc[p] \in {"pushSlot", "pushAdvance"} => h[p] < tail + RingCapacity
  /\ \A q \in Procs : pc[q] \in {"popHead", "popSlot", "popAdvance"} => t[q] <= tail
  /\ \A q \in Procs : pc[q] \in {"popSlot", "popAdvance"} => t[q] < head
  /\ \A q \in Procs : Holds(q) => taken[q] # Nil

\* At most RingCapacity values are between tail and head; what tail passed is what head
\* passed.
InOrder ==
  /\ head <= tail + RingCapacity
  /\ \A i \in 1..tail : popped[i] = pushed[i]

\* Position n carries the value v: between tail and head, or at the head of a
\* producer that is about to advance it.
Carries(n, v) ==
  \/ n \in tail..head-1 /\ v = pushed[n+1]
  \/ \E p \in Producers : pc[p] = "pushAdvance" /\ n = h[p] /\ v = value[p]

\* With one producer (Alone): it works at the head, so it never has to undo; every
\* value in a slot is one a position carries, every value in a popper's hand too, its
\* slot being empty meanwhile; no two poppers hold from one slot; nothing carried is
\* missing.
AtHead == \A p \in Producers : pc[p] \in Pushing => h[p] = head /\ pc[p] # "pushUndo"

SlotCarried ==
  \A i \in 0..RingCapacity-1 :
    slots[i] # Nil => \E n \in Nat : Index(n) = i /\ Carries(n, slots[i])

HandCarried ==
  \A q \in Procs : Holds(q) =>
    slots[Index(t[q])] = Nil /\ \E n \in Nat : Index(n) = Index(t[q]) /\ Carries(n, taken[q])

HandsApart ==
  \A q, r \in Procs : Holds(q) /\ Holds(r) /\ q # r => Index(t[q]) # Index(t[r])

CarriedKept ==
  \A n \in Nat, v \in 1..MaxPush : Carries(n, v) =>
    slots[Index(n)] # Nil \/ \E q \in Procs : Holds(q) /\ Index(t[q]) = Index(n)

Alone == AtHead /\ SlotCarried /\ HandCarried /\ HandsApart /\ CarriedKept

\* With one popper: n is pushed and not taken out of its slot.
Stands(n) == n \in tail..head-1 /\ ~(n = tail /\ \E q \in Poppers : pc[q] = "popAdvance")

\* With one popper (Single): it works at the tail, so it never has to restore; a
\* claimed slot holds the claimant's value; no two producers claim one slot; what
\* stands is in its slot, unclaimed; a slot in use is claimed or holds what stands.
AtTail ==
  \A q \in Poppers :
    /\ pc[q] \in {"popHead", "popSlot", "popAdvance"} => t[q] = tail
    /\ pc[q] # "popRestore"
    /\ pc[q] = "popAdvance" => taken[q] = pushed[tail+1]

ClaimsStand == \A p \in Producers : Claims(p) => slots[Index(h[p])] = value[p]

ClaimsApart ==
  \A p, r \in Producers : Claims(p) /\ Claims(r) /\ p # r => Index(h[p]) # Index(h[r])

PushedStand ==
  \A n \in Nat : Stands(n) =>
    slots[Index(n)] = pushed[n+1] /\ \A p \in Producers : Claims(p) => Index(h[p]) # Index(n)

SlotOwned ==
  \A i \in 0..RingCapacity-1 : slots[i] # Nil =>
    \/ \E p \in Producers : Claims(p) /\ Index(h[p]) = i
    \/ \E n \in Nat : Stands(n) /\ Index(n) = i

Single == AtTail /\ ClaimsStand /\ ClaimsApart /\ PushedStand /\ SlotOwned

\* The inductive invariant.
RingInv ==
  /\ RingTypes /\ Places /\ InOrder
  /\ OneProducer(use) => Alone
  /\ OnePopper(use) => Single

-----------------------------------------------------------------------------
(* Steps that touch no slot and no hand *)

\* No slot, counter or value in a goroutine's hand changes.
Still ==
  /\ UNCHANGED <<use, slots, head, tail, pushed>>
  /\ \A q \in Procs :
       /\ Holds(q)' <=> Holds(q)
       /\ Holds(q) => t'[q] = t[q] /\ taken'[q] = taken[q]
  /\ \A p \in Producers :
       /\ Claims(p)' <=> Claims(p)
       /\ Claims(p) => h'[p] = h[p] /\ value'[p] = value[p]

SamePush == \A p \in Producers : pc'[p] = "pushAdvance" <=> pc[p] = "pushAdvance"
SamePop == \A q \in Poppers : pc'[q] = "popAdvance" <=> pc[q] = "popAdvance"

\* Such a step keeps what is true of a ring with one producer,
LEMMA StillAlone ==
  ASSUME Still, SamePush, Alone, AtHead'
  PROVE  Alone'
<1>1. \A n, v : Carries(n, v)' <=> Carries(n, v)
  BY DEF Still, SamePush, Carries, Claims
<1>2. SlotCarried'
  BY <1>1 DEF Still, Alone, SlotCarried
<1>3. HandCarried'
  BY <1>1 DEF Still, Alone, HandCarried
<1>4. HandsApart'
  BY DEF Still, Alone, HandsApart
<1>5. CarriedKept'
  BY <1>1 DEF Still, Alone, CarriedKept
<1> QED  BY <1>2, <1>3, <1>4, <1>5 DEF Alone

\* what is true of a ring with one popper,
LEMMA StillSingle ==
  ASSUME Still, SamePop, Single, AtTail'
  PROVE  Single'
<1>1. \A n : Stands(n)' <=> Stands(n)
  BY DEF Still, SamePop, Stands
<1>2. ClaimsStand'
  BY DEF Still, Single, ClaimsStand
<1>3. ClaimsApart'
  BY DEF Still, Single, ClaimsApart
<1>4. PushedStand'
  BY <1>1 DEF Still, Single, PushedStand
<1>5. SlotOwned'
  BY <1>1 DEF Still, Single, SlotOwned
<1> QED  BY <1>2, <1>3, <1>4, <1>5 DEF Single

\* and therefore the invariant, as long as it keeps types, places and order.
LEMMA StillKeeps ==
  ASSUME RingInv, Still, RingTypes', Places', InOrder',
         OneProducer(use) => AtHead' /\ SamePush,
         OnePopper(use) => AtTail' /\ SamePop
  PROVE  RingInv'
<1>1. use' = use
  BY DEF Still
<1>2. OneProducer(use)' => Alone'
  BY <1>1, StillAlone DEF RingInv
<1>3. OnePopper(use)' => Single'
  BY <1>1, StillSingle DEF RingInv
<1> QED  BY <1>2, <1>3 DEF RingInv

\* Push is called.
LEMMA PushStartKeeps ==
  ASSUME RingInv, NEW p \in Producers, PushStart(p)
  PROVE  RingInv'
<1>0. RingTypes /\ Places /\ InOrder
  BY DEF RingInv
<1> USE Constants, <1>0 DEF PushStart, Goto, ring, Procs
<1>1. RingTypes'
  BY SMTT(20) DEF RingTypes, Pushing, Popping
<1>2. Places'
  BY SMT DEF RingTypes, Places, Pushing, Popping, Holds
<1>3. InOrder'
  BY DEF InOrder
<1>4. Still
  BY DEF RingTypes, Still, Holds, Claims
<1>5. OneProducer(use) => AtHead' /\ SamePush
  BY DEF RingInv, RingTypes, Places, Alone, AtHead, SamePush, OneProducer, Pushing, Popping
<1>6. OnePopper(use) => AtTail' /\ SamePop
  BY DEF RingInv, RingTypes, Places, Single, AtTail, SamePop, OnePopper, Pushing, Popping
<1> QED  BY <1>1, <1>2, <1>3, <1>4, <1>5, <1>6, StillKeeps

\* Push loads the head.
LEMMA PushLoadHeadKeeps ==
  ASSUME RingInv, NEW p \in Producers, PushLoadHead(p)
  PROVE  RingInv'
<1>0. RingTypes /\ Places /\ InOrder
  BY DEF RingInv
<1> USE Constants, <1>0 DEF PushLoadHead, Goto, ring, Procs
<1>1. RingTypes'
  BY DEF RingTypes, Pushing, Popping
<1>2. Places'
  BY SMT DEF RingTypes, Places, Pushing, Popping, Holds
<1>3. InOrder'
  BY DEF InOrder
<1>4. Still
  BY DEF RingTypes, Still, Holds, Claims
<1>5. OneProducer(use) => AtHead' /\ SamePush
  BY DEF RingInv, RingTypes, Places, Alone, AtHead, SamePush, OneProducer, Pushing, Popping
<1>6. OnePopper(use) => AtTail' /\ SamePop
  BY DEF RingInv, RingTypes, Places, Single, AtTail, SamePop, OnePopper, Pushing, Popping
<1> QED  BY <1>1, <1>2, <1>3, <1>4, <1>5, <1>6, StillKeeps

\* Push loads the tail: it goes on, drops the oldest value or gives up.
LEMMA PushLoadTailKeeps ==
  ASSUME RingInv, NEW p \in Producers, PushLoadTail(p)
  PROVE  RingInv'
<1>0. RingTypes /\ Places /\ InOrder
  BY DEF RingInv
<1>a. PICK l \in {"pushSlot", "popTail", "idle"}, x \in {0, h[p]}, v \in {Nil, value[p]} :
        /\ pc' = [pc EXCEPT ![p] = l] /\ h' = [h EXCEPT ![p] = x] /\ value' = [value EXCEPT ![p] = v]
        /\ l = "pushSlot" => x = h[p] /\ v = value[p] /\ ~Full(p)
        /\ l = "popTail" => v = value[p] /\ use.dropOldestOnFull
  <2>1. CASE ~Full(p)
    BY <1>0, <2>1 DEF PushLoadTail, Goto, RingTypes, Procs
  <2>2. CASE Full(p) /\ use.dropOldestOnFull
    BY <1>0, <2>2 DEF PushLoadTail, Goto, RingTypes, Procs
  <2>3. CASE Full(p) /\ ~use.dropOldestOnFull
    BY <1>0, <2>3 DEF PushLoadTail, Goto, PushReturns
  <2> QED  BY <2>1, <2>2, <2>3
<1>b. pc[p] = "pushTail" /\ UNCHANGED <<ring, t, taken, next, pushed, popped>>
  BY DEF PushLoadTail
<1> USE Constants, <1>0, <1>a, <1>b DEF Full, ring, Procs
<1>1. RingTypes'
  BY SMTT(20) DEF RingTypes, Pushing, Popping
<1>2. Places'
  <2>1. /\ \A r \in Producers : pc'[r] # "idle" => r \in use'.producers /\ value'[r] # Nil
        /\ \A q \in Poppers : pc'[q] # "idle" => q \in use'.poppers /\ pc'[q] \in Popping
        /\ \A r \in Producers : pc'[r] \in Popping => use'.dropOldestOnFull
    BY SMT DEF RingTypes, Places, Popping
  <2>2. /\ \A r \in Producers : pc'[r] \in Pushing => h'[r] <= head'
        /\ \A r \in Producers : pc'[r] \in {"pushSlot", "pushAdvance"} => h'[r] < tail' + RingCapacity
    BY SMT DEF RingTypes, Places, Pushing
  <2>3. /\ \A q \in Procs : pc'[q] \in {"popHead", "popSlot", "popAdvance"} => t'[q] <= tail'
        /\ \A q \in Procs : pc'[q] \in {"popSlot", "popAdvance"} => t'[q] < head'
        /\ \A q \in Procs : Holds(q)' => taken'[q] # Nil
    BY SMT DEF RingTypes, Places, Holds
  <2> QED  BY <2>1, <2>2, <2>3 DEF Places
<1>3. InOrder'
  BY DEF InOrder
<1>4. Still
  BY DEF RingTypes, Still, Holds, Claims
<1>5. OneProducer(use) => AtHead' /\ SamePush
  BY DEF RingInv, RingTypes, Places, Alone, AtHead, SamePush, OneProducer, Pushing, Popping
<1>6. OnePopper(use) => AtTail' /\ SamePop
  BY DEF RingInv, RingTypes, Places, Single, AtTail, SamePop, OnePopper, Pushing, Popping
<1> QED  BY <1>1, <1>2, <1>3, <1>4, <1>5, <1>6, StillKeeps

\* Pop is called.
LEMMA PopStartKeeps ==
  ASSUME RingInv, NEW p \in Poppers, PopStart(p)
  PROVE  RingInv'
<1>0. RingTypes /\ Places /\ InOrder
  BY DEF RingInv
<1> USE Constants, <1>0 DEF PopStart, Goto, ring, Procs
<1>1. RingTypes'
  BY DEF RingTypes, Pushing, Popping
<1>2. Places'
  BY SMT DEF RingTypes, Places, Pushing, Popping, Holds
<1>3. InOrder'
  BY DEF InOrder
<1>4. Still
  BY DEF RingTypes, Still, Holds, Claims
<1>5. OneProducer(use) => AtHead' /\ SamePush
  BY DEF RingInv, RingTypes, Places, Alone, AtHead, SamePush, OneProducer, Pushing, Popping
<1>6. OnePopper(use) => AtTail' /\ SamePop
  BY DEF RingInv, RingTypes, Places, Single, AtTail, SamePop, OnePopper, Pushing, Popping
<1> QED  BY <1>1, <1>2, <1>3, <1>4, <1>5, <1>6, StillKeeps

\* Pop loads the tail.
LEMMA PopLoadTailKeeps ==
  ASSUME RingInv, NEW p \in Procs, PopLoadTail(p)
  PROVE  RingInv'
<1>0. RingTypes /\ Places /\ InOrder
  BY DEF RingInv
<1> USE Constants, <1>0 DEF PopLoadTail, Goto, ring, Procs
<1>1. RingTypes'
  BY DEF RingTypes, Pushing, Popping
<1>2. Places'
  BY SMT DEF RingTypes, Places, Pushing, Popping, Holds
<1>3. InOrder'
  BY DEF InOrder
<1>4. Still
  BY DEF RingTypes, Still, Holds, Claims
<1>5. OneProducer(use) => AtHead' /\ SamePush
  BY DEF RingInv, RingTypes, Places, Alone, AtHead, SamePush, OneProducer, Pushing, Popping
<1>6. OnePopper(use) => AtTail' /\ SamePop
  BY DEF RingInv, RingTypes, Places, Single, AtTail, SamePop, OnePopper, Pushing, Popping
<1> QED  BY <1>1, <1>2, <1>3, <1>4, <1>5, <1>6, StillKeeps

\* Pop loads the head: it goes on or finds the ring empty.
LEMMA PopLoadHeadKeeps ==
  ASSUME RingInv, NEW p \in Procs, PopLoadHead(p)
  PROVE  RingInv'
<1>0. RingTypes /\ Places /\ InOrder
  BY DEF RingInv
<1>a. PICK l \in {"pushHead", "idle", "popSlot"}, x \in {0, t[p]}, v \in {Nil, taken[p]} :
        /\ pc' = [pc EXCEPT ![p] = l] /\ t' = [t EXCEPT ![p] = x] /\ taken' = [taken EXCEPT ![p] = v]
        /\ l = "popSlot" => x = t[p] /\ x < head
        /\ l = "pushHead" => p \in Producers
        /\ l = "idle" => p \in Poppers
  <2>1. CASE t[p] >= head
    BY <1>0, <2>1 DEF PopLoadHead, Goto, PopReturns, Procs
  <2>2. CASE ~(t[p] >= head)
    BY SMT, <1>0, <2>2 DEF PopLoadHead, Goto, RingTypes, Procs
  <2> QED  BY <2>1, <2>2
<1>b. pc[p] = "popHead" /\ UNCHANGED <<ring, h, value, next, pushed, popped>>
  BY DEF PopLoadHead
<1> USE Constants, <1>0, <1>a, <1>b DEF ring, Procs
<1>1. RingTypes'
  BY SMT DEF RingTypes, Pushing, Popping
<1>2. Places'
  BY DEF RingTypes, Places, Pushing, Popping, Holds
<1>3. InOrder'
  BY DEF InOrder
<1>4. Still
  BY DEF RingTypes, Still, Holds, Claims
<1>5. OneProducer(use) => AtHead' /\ SamePush
  BY DEF RingInv, RingTypes, Places, Alone, AtHead, SamePush, OneProducer, Pushing, Popping
<1>6. OnePopper(use) => AtTail' /\ SamePop
  BY DEF RingInv, RingTypes, Places, Single, AtTail, SamePop, OnePopper, Pushing, Popping
<1> QED  BY <1>1, <1>2, <1>3, <1>4, <1>5, <1>6, StillKeeps

-----------------------------------------------------------------------------
(* A Push puts its value into a slot, advances head or takes the value back *)

\* An element of a sequence,
LEMMA Element ==
  ASSUME NEW S, NEW s \in Seq(S), NEW k \in 1..Len(s)
  PROVE  s[k] \in S
  BY SMT

\* and so a pushed value, is one that was handed to Push.
LEMMA PushedValue ==
  ASSUME RingTypes, NEW n \in tail..head-1
  PROVE  pushed[n+1] \in 1..MaxPush
<1>1. n + 1 \in 1..Len(pushed)
  BY SMT DEF RingTypes
<1>2. pushed \in Seq(1..MaxPush)
  BY DEF RingTypes
<1>3. PICK k \in 1..Len(pushed) : k = n + 1
  BY <1>1
<1>4. pushed[k] \in 1..MaxPush
  BY <1>2, Element
<1> QED  BY <1>3, <1>4

\* Push finds the slot free and fills it, or starts over.
LEMMA PushSlotKeeps ==
  ASSUME RingInv, NEW p \in Producers, PushSlot(p)
  PROVE  RingInv'
<1>0. RingTypes /\ Places /\ InOrder
  BY DEF RingInv
<1>b. pc[p] = "pushSlot" /\ UNCHANGED <<use, head, tail, t, value, taken, next, pushed, popped>>
  BY DEF PushSlot
<1> DEFINE i == Index(h[p])
<1>i. i \in 0..RingCapacity-1
  BY <1>0, IndexRange DEF RingTypes, Procs
<1>1. CASE slots[i] # Nil
  <2>a. pc' = [pc EXCEPT ![p] = "pushHead"] /\ h' = [h EXCEPT ![p] = 0] /\ slots' = slots
    BY <1>1 DEF PushSlot, Goto
  <2> USE Constants, <1>0, <1>b, <2>a DEF Procs
  <2>1. RingTypes'
    BY DEF RingTypes, Pushing, Popping
  <2>2. Places'
    BY DEF RingTypes, Places, Pushing, Popping, Holds
  <2>3. InOrder'
    BY DEF InOrder
  <2>4. Still
    BY DEF RingTypes, Still, Holds, Claims
  <2>5. OneProducer(use) => AtHead' /\ SamePush
    BY DEF RingInv, RingTypes, Alone, AtHead, SamePush, Pushing
  <2>6. OnePopper(use) => AtTail' /\ SamePop
    BY DEF RingInv, RingTypes, Single, AtTail, SamePop
  <2> QED  BY <2>1, <2>2, <2>3, <2>4, <2>5, <2>6, StillKeeps
<1>2. CASE slots[i] = Nil
  <2>a. /\ pc' = [pc EXCEPT ![p] = "pushAdvance"] /\ h' = h
        /\ slots' = [slots EXCEPT ![i] = value[p]]
    BY <1>2 DEF PushSlot, Goto
  <2>c. p \in use.producers /\ value[p] \in 1..MaxPush /\ value[p] # Nil
    BY <1>0, <1>b, Constants DEF RingTypes, Places, Procs
  <2>d. /\ slots'[i] = value[p]
        /\ \A j \in 0..RingCapacity-1 : j # i => slots'[j] = slots[j]
    BY <1>0, <1>i, <2>a DEF RingTypes
  <2>e. \A q \in Procs : Holds(q)' <=> Holds(q)
    BY <1>0, <1>b, <2>a DEF RingTypes, Holds
  <2>f. \A r \in Producers : Claims(r)' <=> Claims(r) \/ r = p
    BY <1>0, <2>a DEF RingTypes, Claims, Procs
  <2> HIDE DEF i
  <2>1. RingTypes'
    BY <1>0, <1>b, <1>i, <2>a, <2>c DEF RingTypes, Pushing, Procs
  <2>2. Places'
    BY <1>0, <1>b, <2>a, <2>e DEF RingTypes, Places, Pushing, Popping, Procs
  <2>3. InOrder'
    BY <1>0, <1>b DEF InOrder
  <2>4. ASSUME OneProducer(use)' PROVE Alone'
    <3>0. OneProducer(use) /\ Alone
      BY <1>b, <2>4 DEF RingInv
    <3>1. h[p] = head /\ head < tail + RingCapacity
      BY <1>0, <1>b, <3>0 DEF Alone, AtHead, Places, Pushing
    <3>2. \A r \in Producers : pc[r] # "pushAdvance"
      BY <1>0, <1>b, <2>c, <3>0 DEF OneProducer, Places
    <3>3. \A v : \A n \in Nat : Carries(n, v) => Index(n) # i
      BY SMT, <1>0, <3>1, <3>2, IndexApart, Constants DEF Carries, RingTypes, i
    <3>4. \A v : \A n \in Nat : Carries(n, v)' <=> Carries(n, v) \/ (n = head /\ v = value[p])
      BY <1>0, <1>b, <2>a, <3>1, <3>2 DEF Carries, RingTypes, Procs
    <3>5. \A q \in Procs : Holds(q) => Index(t[q]) \in 0..RingCapacity-1 /\ Index(t[q]) # i
      BY <1>0, <3>0, <3>3, IndexRange DEF Alone, HandCarried, RingTypes
    <3>6. AtHead'
      BY <1>0, <1>b, <2>a, <3>0 DEF Alone, AtHead, RingTypes, Pushing, Procs
    <3>7. SlotCarried'
      <4>1. Index(head) = i /\ head \in Nat
        BY <1>0, <3>1 DEF i, RingTypes
      <4> QED  BY <1>b, <2>d, <3>0, <3>4, <4>1 DEF Alone, SlotCarried
    <3>8. HandCarried'
      BY <1>b, <2>d, <2>e, <3>0, <3>4, <3>5 DEF Alone, HandCarried
    <3>9. HandsApart'
      BY <1>b, <2>e, <3>0 DEF Alone, HandsApart
    <3>10. CarriedKept'
      <4> SUFFICES ASSUME NEW n \in Nat, NEW v \in 1..MaxPush, Carries(n, v)'
                   PROVE  slots'[Index(n)] # Nil \/ \E q \in Procs : Holds(q)' /\ Index(t'[q]) = Index(n)
        BY DEF CarriedKept
      <4>1. CASE n = head
        BY <2>c, <2>d, <3>1, <4>1 DEF i
      <4>2. CASE Carries(n, v)
        <5>1. Index(n) \in 0..RingCapacity-1 /\ Index(n) # i
          BY <3>3, <4>2, IndexRange
        <5>2. slots[Index(n)] # Nil \/ \E q \in Procs : Holds(q) /\ Index(t[q]) = Index(n)
          BY <3>0, <4>2 DEF Alone, CarriedKept
        <5> QED  BY <1>b, <2>d, <2>e, <5>1, <5>2
      <4> QED  BY <3>4, <4>1, <4>2
    <3> QED  BY <3>6, <3>7, <3>8, <3>9, <3>10 DEF Alone
  <2>5. ASSUME OnePopper(use)' PROVE Single'
    <3>0. Single
      BY <1>b, <2>5 DEF RingInv
    <3>1. \A n : Stands(n)' <=> Stands(n)
      BY <1>0, <1>b, <2>a DEF Stands, RingTypes, Procs
    <3>2. \A r \in Producers : Claims(r) => Index(h[r]) # i /\ Index(h[r]) \in 0..RingCapacity-1
      <4> SUFFICES ASSUME NEW r \in Producers, Claims(r)
                   PROVE  Index(h[r]) # i /\ Index(h[r]) \in 0..RingCapacity-1
        OBVIOUS
      <4>1. slots[Index(h[r])] = value[r]
        BY <3>0 DEF Single, ClaimsStand
      <4>2. value[r] # Nil
        BY <1>0 DEF Places, Claims
      <4> QED  BY <1>0, <1>2, <4>1, <4>2, IndexRange DEF RingTypes, Procs
    <3>3. \A n \in Nat : Stands(n) => Index(n) # i /\ Index(n) \in 0..RingCapacity-1
      <4> SUFFICES ASSUME NEW n \in Nat, Stands(n)
                   PROVE  Index(n) # i /\ Index(n) \in 0..RingCapacity-1
        OBVIOUS
      <4>1. slots[Index(n)] = pushed[n+1]
        BY <3>0 DEF Single, PushedStand
      <4>2. pushed[n+1] \in 1..MaxPush
        BY <1>0, PushedValue DEF Stands
      <4> QED  BY <1>2, <4>1, <4>2, IndexRange, Constants
    <3>4. AtTail'
      BY <1>0, <1>b, <2>a, <3>0, Constants DEF Single, AtTail, RingTypes, Procs
    <3>5. ClaimsStand'
      BY <1>b, <2>a, <2>d, <2>f, <3>0, <3>2 DEF Single, ClaimsStand, i
    <3>6. ClaimsApart'
      BY <2>a, <2>f, <3>0, <3>2 DEF Single, ClaimsApart, i
    <3>7. PushedStand'
      BY <1>b, <2>a, <2>d, <2>f, <3>0, <3>1, <3>3 DEF Single, PushedStand, i
    <3>8. SlotOwned'
      <4> SUFFICES ASSUME NEW j \in 0..RingCapacity-1, slots'[j] # Nil
                   PROVE  \/ \E r \in Producers : Claims(r)' /\ Index(h'[r]) = j
                          \/ \E n \in Nat : Stands(n)' /\ Index(n) = j
        BY DEF SlotOwned
      <4>1. CASE j = i
        BY <2>a, <2>f, <4>1 DEF i
      <4>2. CASE j # i
        BY <2>a, <2>d, <2>f, <3>0, <3>1, <4>2 DEF Single, SlotOwned
      <4> QED  BY <4>1, <4>2
    <3> QED  BY <3>4, <3>5, <3>6, <3>7, <3>8 DEF Single
  <2> QED  BY <2>1, <2>2, <2>3, <2>4, <2>5 DEF RingInv
<1> QED  BY <1>1, <1>2

\* Push advances the head past its value, or finds that another push did.
LEMMA PushAdvanceKeeps ==
  ASSUME RingInv, NEW p \in Producers, PushAdvance(p)
  PROVE  RingInv'
<1>0. RingTypes /\ Places /\ InOrder
  BY DEF RingInv
<1>b. pc[p] = "pushAdvance" /\ UNCHANGED <<use, slots, tail, t, taken, next, popped>>
  BY DEF PushAdvance
<1>1. CASE head # h[p]
  <2>a. pc' = [pc EXCEPT ![p] = "pushUndo"] /\ UNCHANGED <<head, pushed, h, value>>
    BY <1>1 DEF PushAdvance, Goto
  <2> USE Constants, <1>0, <1>b, <2>a DEF Procs
  <2>1. RingTypes'
    BY DEF RingTypes, Pushing, Popping
  <2>2. Places'
    BY DEF RingTypes, Places, Pushing, Popping, Holds
  <2>3. InOrder'
    BY DEF InOrder
  <2>4. Still
    BY DEF RingTypes, Still, Holds, Claims
  <2>5. ~OneProducer(use)
    BY <1>1 DEF RingInv, Alone, AtHead, Pushing
  <2>6. OnePopper(use) => AtTail' /\ SamePop
    BY DEF RingInv, RingTypes, Single, AtTail, SamePop
  <2> QED  BY <2>1, <2>2, <2>3, <2>4, <2>5, <2>6, StillKeeps
<1>2. CASE head = h[p]
  <2>a. /\ pc' = [pc EXCEPT ![p] = "idle"] /\ h' = [h EXCEPT ![p] = 0]
        /\ value' = [value EXCEPT ![p] = Nil] /\ head' = head + 1
        /\ pushed' = Append(pushed, value[p])
    BY <1>2 DEF PushAdvance, PushReturns, Goto
  <2>c. p \in use.producers /\ value[p] \in 1..MaxPush /\ head < tail + RingCapacity
    BY <1>0, <1>b, <1>2 DEF RingTypes, Places
  <2>d. /\ pushed' \in Seq(1..MaxPush) /\ Len(pushed') = head + 1 /\ pushed'[head+1] = value[p]
        /\ \A k \in 1..head : pushed'[k] = pushed[k]
    BY SMT, <1>0, <2>a, <2>c DEF RingTypes
  <2>e. \A q \in Procs : Holds(q)' <=> Holds(q)
    BY <1>0, <1>b, <2>a DEF RingTypes, Holds
  <2>f. \A r \in Producers : /\ Claims(r)' <=> Claims(r) /\ r # p
                             /\ r # p => h'[r] = h[r] /\ value'[r] = value[r] /\ pc'[r] = pc[r]
    BY <1>0, <2>a DEF RingTypes, Claims, Procs
  <2>g. head \in Nat /\ tail \in Nat /\ tail <= head
    BY <1>0 DEF RingTypes
  <2>1. RingTypes'
    BY SMT, <1>0, <1>b, <2>a, <2>d DEF RingTypes, Procs
  <2>2. Places'
    BY SMTT(20), <1>0, <1>b, <2>a, <2>e, Constants DEF RingTypes, Places, Pushing, Popping, Procs
  <2>3. InOrder'
    BY SMT, <1>0, <1>b, <2>a, <2>c, <2>d, <2>g, Constants DEF InOrder
  <2>4. ASSUME OneProducer(use)' PROVE Alone'
    <3>0. OneProducer(use) /\ Alone
      BY <1>b, <2>4 DEF RingInv
    <3>1. \A r \in Producers : r # p => pc[r] = "idle"
      BY <1>0, <2>c, <3>0 DEF OneProducer, Places
    <3>2. \A v : \A n \in Nat : Carries(n, v)' <=> Carries(n, v)
      <4> SUFFICES ASSUME NEW v, NEW n \in Nat PROVE Carries(n, v)' <=> Carries(n, v)
        OBVIOUS
      <4>1. Carries(n, v)' <=> n \in tail..head /\ v = pushed'[n+1]
        BY SMT, <1>b, <2>a, <2>f, <2>g, <3>1, <1>0 DEF Carries, RingTypes, Procs
      <4>2. Carries(n, v) <=> (n \in tail..head-1 /\ v = pushed[n+1]) \/ (n = head /\ v = value[p])
        BY <1>b, <1>2, <3>1 DEF Carries
      <4>3. n \in tail..head-1 => pushed'[n+1] = pushed[n+1]
        BY SMT, <2>d, <2>g
      <4> QED  BY SMT, <2>d, <2>g, <4>1, <4>2, <4>3
    <3>3. AtHead'
      BY <1>0, <2>a, <2>f, <3>1 DEF AtHead, RingTypes, Pushing, Procs
    <3>4. SlotCarried'
      BY <1>b, <3>0, <3>2 DEF Alone, SlotCarried
    <3>5. HandCarried'
      BY <1>b, <2>e, <3>0, <3>2 DEF Alone, HandCarried
    <3>6. HandsApart'
      BY <1>b, <2>e, <3>0 DEF Alone, HandsApart
    <3>7. CarriedKept'
      BY <1>b, <2>e, <3>0, <3>2 DEF Alone, CarriedKept
    <3> QED  BY <3>3, <3>4, <3>5, <3>6, <3>7 DEF Alone
  <2>5. ASSUME OnePopper(use)' PROVE Single'
    <3>0. Single
      BY <1>b, <2>5 DEF RingInv
    <3>1. \A q \in Poppers : pc'[q] = pc[q]
      BY <1>0, <2>a, Constants DEF RingTypes, Procs
    <3>2. \A n \in Nat : Stands(n)' <=> Stands(n) \/ n = head
      <4>1. \A q \in Poppers : pc[q] = "popAdvance" => tail < head
        BY <1>0, <3>0 DEF Places, Procs, Single, AtTail
      <4> QED  BY SMT, <1>b, <2>a, <2>g, <3>1, <4>1 DEF Stands
    <3>3. AtTail'
      <4>1. \A q \in Poppers : pc[q] = "popAdvance" => tail < head
        BY <1>0, <3>0 DEF Places, Procs, Single, AtTail
      <4>2. tail < head => pushed'[tail+1] = pushed[tail+1]
        BY SMT, <2>d, <2>g
      <4> QED  BY <1>b, <3>0, <3>1, <4>1, <4>2 DEF Single, AtTail
    <3>4. ClaimsStand'
      BY <1>b, <2>f, <3>0 DEF Single, ClaimsStand
    <3>5. ClaimsApart'
      BY <2>f, <3>0 DEF Single, ClaimsApart
    <3>6. PushedStand'
      <4> SUFFICES ASSUME NEW n \in Nat, Stands(n)'
                   PROVE  /\ slots[Index(n)] = pushed'[n+1]
                          /\ \A r \in Producers : Claims(r)' => Index(h'[r]) # Index(n)
        BY <1>b DEF PushedStand
      <4>1. Claims(p)
        BY <1>b DEF Claims
      <4>2. CASE n = head
        BY <1>2, <2>d, <2>f, <3>0, <4>1, <4>2 DEF Single, ClaimsStand, ClaimsApart
      <4>3. CASE Stands(n)
        <5>1. pushed'[n+1] = pushed[n+1]
          BY SMT, <2>d, <2>g, <4>3 DEF Stands
        <5> QED  BY <2>f, <3>0, <4>3, <5>1 DEF Single, PushedStand
      <4> QED  BY <3>2, <4>2, <4>3
    <3>7. SlotOwned'
      <4> SUFFICES ASSUME NEW j \in 0..RingCapacity-1, slots[j] # Nil
                   PROVE  \/ \E r \in Producers : Claims(r)' /\ Index(h'[r]) = j
                          \/ \E n \in Nat : Stands(n)' /\ Index(n) = j
        BY <1>b DEF SlotOwned
      <4>1. CASE \E r \in Producers : Claims(r) /\ Index(h[r]) = j
        BY <1>2, <2>f, <2>g, <3>2, <4>1
      <4>2. CASE \E n \in Nat : Stands(n) /\ Index(n) = j
        BY <3>2, <4>2
      <4> QED  BY <3>0, <4>1, <4>2 DEF Single, SlotOwned
    <3> QED  BY <3>3, <3>4, <3>5, <3>6, <3>7 DEF Single
  <2> QED  BY <2>1, <2>2, <2>3, <2>4, <2>5 DEF RingInv
<1> QED  BY <1>1, <1>2

\* Push takes its value back: with one producer it never comes to that.
LEMMA PushUndoKeeps ==
  ASSUME RingInv, NEW p \in Producers, PushUndo(p)
  PROVE  RingInv'
<1>0. RingTypes /\ Places /\ InOrder
  BY DEF RingInv
<1>b. pc[p] = "pushUndo" /\ UNCHANGED <<use, head, tail, t, value, taken, next, pushed, popped>>
  BY DEF PushUndo
<1> DEFINE i == Index(h[p])
<1>i. i \in 0..RingCapacity-1
  BY <1>0, IndexRange DEF RingTypes, Procs
<1>a. /\ pc' = [pc EXCEPT ![p] = "pushHead"] /\ h' = [h EXCEPT ![p] = 0]
      /\ slots' = [slots EXCEPT ![i] = Nil]
  BY DEF PushUndo, Goto
<1>d. /\ slots'[i] = Nil
      /\ \A j \in 0..RingCapacity-1 : j # i => slots'[j] = slots[j]
  BY <1>0, <1>i, <1>a DEF RingTypes
<1>e. \A q \in Procs : Holds(q)' <=> Holds(q)
  BY <1>0, <1>b, <1>a DEF RingTypes, Holds
<1>f. \A r \in Producers : /\ Claims(r)' <=> Claims(r) /\ r # p
                           /\ r # p => h'[r] = h[r]
  BY <1>0, <1>a DEF RingTypes, Claims, Procs
<1>1. RingTypes'
  BY <1>0, <1>b, <1>i, <1>a DEF RingTypes, Procs
<1> HIDE DEF i
<1>2. Places'
  BY <1>0, <1>b, <1>a, <1>e DEF RingTypes, Places, Pushing, Popping, Procs
<1>3. InOrder'
  BY <1>0, <1>b DEF InOrder
<1>4. ~OneProducer(use)
  BY <1>b DEF RingInv, Alone, AtHead, Pushing
<1>5. ASSUME OnePopper(use)' PROVE Single'
  <2>0. Single
    BY <1>b, <1>5 DEF RingInv
  <2>c. Claims(p)
    BY <1>b DEF Claims
  <2>1. \A n : Stands(n)' <=> Stands(n)
    BY <1>0, <1>b, <1>a DEF Stands, RingTypes, Procs
  <2>2. \A r \in Producers : Claims(r) => Index(h[r]) \in 0..RingCapacity-1
    BY <1>0, IndexRange DEF RingTypes, Procs
  <2>3. AtTail'
    BY <1>0, <1>b, <1>a, <2>0, Constants DEF Single, AtTail, RingTypes, Procs
  <2>4. ClaimsStand'
    BY <1>b, <1>d, <1>f, <2>0, <2>2, <2>c DEF Single, ClaimsStand, ClaimsApart, i
  <2>5. ClaimsApart'
    BY <1>f, <2>0 DEF Single, ClaimsApart
  <2>6. PushedStand'
    BY <1>b, <1>d, <1>f, <2>0, <2>1, <2>c, IndexRange DEF Single, PushedStand, i
  <2>7. SlotOwned'
    BY <1>d, <1>f, <2>0, <2>1 DEF Single, SlotOwned, i
  <2> QED  BY <2>3, <2>4, <2>5, <2>6, <2>7 DEF Single
<1> QED  BY <1>b, <1>1, <1>2, <1>3, <1>4, <1>5 DEF RingInv

-----------------------------------------------------------------------------
(* A Pop takes a value out of a slot, advances tail or puts the value back *)

\* Pop swaps the value out of the slot, or finds it gone and starts over.
LEMMA PopSlotKeeps ==
  ASSUME RingInv, NEW p \in Procs, PopSlot(p)
  PROVE  RingInv'
<1>0. RingTypes /\ Places /\ InOrder
  BY DEF RingInv
<1>b. pc[p] = "popSlot" /\ UNCHANGED <<use, head, tail, h, value, next, pushed, popped>>
  BY DEF PopSlot
<1> DEFINE i == Index(t[p])
<1>i. i \in 0..RingCapacity-1
  BY <1>0, IndexRange DEF RingTypes
<1>1. CASE slots[i] = Nil
  <2>a. /\ pc' = [pc EXCEPT ![p] = "popTail"] /\ t' = [t EXCEPT ![p] = 0]
        /\ slots' = slots /\ taken' = [taken EXCEPT ![p] = Nil]
    BY <1>0, <1>i, <1>1 DEF PopSlot, Goto, RingTypes
  <2> USE Constants, <1>0, <1>b, <2>a DEF Procs
  <2>1. RingTypes'
    BY DEF RingTypes, Pushing, Popping
  <2>2. Places'
    BY DEF RingTypes, Places, Pushing, Popping, Holds
  <2>3. InOrder'
    BY DEF InOrder
  <2>4. Still
    BY DEF RingTypes, Still, Holds, Claims
  <2>5. OneProducer(use) => AtHead' /\ SamePush
    BY DEF RingInv, RingTypes, Alone, AtHead, SamePush, Pushing
  <2>6. OnePopper(use) => AtTail' /\ SamePop
    BY DEF RingInv, RingTypes, Single, AtTail, SamePop
  <2> QED  BY <2>1, <2>2, <2>3, <2>4, <2>5, <2>6, StillKeeps
<1>2. CASE slots[i] # Nil
  <2>a. /\ pc' = [pc EXCEPT ![p] = "popAdvance"] /\ t' = t
        /\ slots' = [slots EXCEPT ![i] = Nil]
        /\ taken' = [taken EXCEPT ![p] = slots[i]]
    BY <1>2 DEF PopSlot, Goto
  <2>d. /\ slots'[i] = Nil
        /\ \A j \in 0..RingCapacity-1 : j # i => slots'[j] = slots[j]
        /\ slots[i] \in 1..MaxPush
    BY <1>0, <1>i, <1>2, <2>a DEF RingTypes
  <2>e. \A q \in Procs : /\ Holds(q)' <=> Holds(q) \/ q = p
                         /\ q # p => taken'[q] = taken[q]
    BY <1>0, <2>a DEF RingTypes, Holds
  <2>f. \A r \in Producers : /\ Claims(r)' <=> Claims(r)
                             /\ pc'[r] = "pushAdvance" <=> pc[r] = "pushAdvance"
    BY <1>0, <1>b, <2>a DEF RingTypes, Claims, Procs
  <2>g. taken'[p] = slots[i] /\ ~Holds(p) /\ Holds(p)'
    BY <1>0, <1>b, <2>a DEF RingTypes, Holds
  <2>1. RingTypes'
    BY <1>0, <1>b, <1>i, <2>a, <2>d DEF RingTypes, Popping
  <2> HIDE DEF i
  <2>2. Places'
    BY <1>0, <1>b, <2>a, <2>d, <2>e, <2>g, Constants DEF RingTypes, Places, Pushing, Popping, Procs
  <2>3. InOrder'
    BY <1>0, <1>b DEF InOrder
  <2>4. ASSUME OneProducer(use)' PROVE Alone'
    <3>0. Alone
      BY <1>b, <2>4 DEF RingInv
    <3>1. \A n, v : Carries(n, v)' <=> Carries(n, v)
      BY <1>b, <2>f DEF Carries
    <3>2. \A q \in Procs : Holds(q) => Index(t[q]) # i /\ Index(t[q]) \in 0..RingCapacity-1
      BY <1>0, <1>2, <3>0, IndexRange DEF Alone, HandCarried, RingTypes
    <3>3. AtHead'
      BY <1>0, <1>b, <2>a, <3>0 DEF Alone, AtHead, RingTypes, Pushing, Procs
    <3>4. SlotCarried'
      BY <2>d, <3>0, <3>1 DEF Alone, SlotCarried
    <3>5. HandCarried'
      <4> SUFFICES ASSUME NEW q \in Procs, Holds(q)'
                   PROVE  /\ slots'[Index(t[q])] = Nil
                          /\ \E n \in Nat : Index(n) = Index(t[q]) /\ Carries(n, taken'[q])
        BY <2>a, <3>1 DEF HandCarried
      <4>1. CASE q = p
        BY <1>i, <1>2, <2>d, <2>g, <3>0, <4>1 DEF Alone, SlotCarried, i
      <4>2. CASE q # p
        BY SMT, <2>d, <2>e, <3>0, <3>2, <4>2 DEF Alone, HandCarried
      <4> QED  BY <4>1, <4>2
    <3>6. HandsApart'
      BY <2>a, <2>e, <3>0, <3>2 DEF Alone, HandsApart, i
    <3>7. CarriedKept'
      <4> SUFFICES ASSUME NEW n \in Nat, NEW v \in 1..MaxPush, Carries(n, v)
                   PROVE  slots'[Index(n)] # Nil \/ \E q \in Procs : Holds(q)' /\ Index(t[q]) = Index(n)
        BY <2>a, <3>1 DEF CarriedKept
      <4>1. CASE Index(n) = i
        BY <2>g, <4>1 DEF i
      <4>2. CASE Index(n) # i
        <5>1. Index(n) \in 0..RingCapacity-1
          BY IndexRange
        <5> QED  BY <2>d, <2>e, <3>0, <4>2, <5>1 DEF Alone, CarriedKept
      <4> QED  BY <4>1, <4>2
    <3> QED  BY <3>3, <3>4, <3>5, <3>6, <3>7 DEF Alone
  <2>5. ASSUME OnePopper(use)' PROVE Single'
    <3>0. OnePopper(use) /\ Single
      BY <1>b, <2>5 DEF RingInv
    <3>1. p \in Poppers /\ p \in use.poppers /\ \A q \in Poppers : q # p => pc[q] = "idle"
      BY <1>0, <1>b, <3>0, Constants DEF Places, OnePopper, Popping, Procs
    <3>2. t[p] = tail /\ tail < head /\ tail \in Nat /\ head \in Nat
      BY <1>0, <1>b, <3>0, <3>1 DEF Single, AtTail, Places, RingTypes
    <3>3. Stands(tail) /\ \A n : Stands(n)' <=> Stands(n) /\ n # tail
      <4>1. pc'[p] = "popAdvance" /\ \A q \in Poppers : pc[q] # "popAdvance"
        BY <1>0, <1>b, <2>a, <3>1 DEF RingTypes
      <4> QED  BY SMT, <1>b, <3>1, <3>2, <4>1 DEF Stands
    <3>4. slots[i] = pushed[tail+1] /\ \A r \in Producers : Claims(r) => Index(h[r]) # i
      BY <3>0, <3>2, <3>3 DEF Single, PushedStand, i
    <3>5. AtTail'
      BY SMT, <1>0, <1>b, <2>a, <2>g, <3>0, <3>1, <3>2, <3>4 DEF Single, AtTail, RingTypes
    <3>6. ClaimsStand'
      <4>1. \A r \in Producers : Claims(r) => Index(h[r]) \in 0..RingCapacity-1
        BY <1>0, IndexRange DEF RingTypes, Procs
      <4> QED  BY <1>b, <2>d, <2>f, <3>0, <3>4, <4>1 DEF Single, ClaimsStand
    <3>7. ClaimsApart'
      BY <1>b, <2>f, <3>0 DEF Single, ClaimsApart
    <3>8. PushedStand'
      <4> SUFFICES ASSUME NEW n \in Nat, Stands(n), n # tail
                   PROVE  /\ slots'[Index(n)] = pushed[n+1]
                          /\ \A r \in Producers : Claims(r)' => Index(h[r]) # Index(n)
        BY <1>b, <3>3 DEF PushedStand
      <4>1. Index(n) # i /\ Index(n) \in 0..RingCapacity-1
        BY SMT, <1>0, <3>2, Window, IndexRange, Constants DEF Stands, InOrder, i
      <4> QED  BY <2>d, <2>f, <3>0, <4>1 DEF Single, PushedStand
    <3>9. SlotOwned'
      <4>1. Index(tail) = i
        BY <3>2 DEF i
      <4> QED  BY <1>b, <2>d, <2>f, <3>0, <3>3, <4>1 DEF Single, SlotOwned
    <3> QED  BY <3>5, <3>6, <3>7, <3>8, <3>9 DEF Single
  <2> QED  BY <2>1, <2>2, <2>3, <2>4, <2>5 DEF RingInv
<1> QED  BY <1>1, <1>2

\* Pop advances the tail past its value, or finds that another Pop did.  The value is
\* the one pushed at the tail: the only position of the window that has this slot.
LEMMA PopAdvanceKeeps ==
  ASSUME RingInv, NEW p \in Procs, PopAdvance(p)
  PROVE  RingInv'
<1>0. RingTypes /\ Places /\ InOrder
  BY DEF RingInv
<1>b. pc[p] = "popAdvance" /\ UNCHANGED <<use, slots, head, h, value, next, pushed>>
  BY DEF PopAdvance
<1>1. CASE tail # t[p]
  <2>a. pc' = [pc EXCEPT ![p] = "popRestore"] /\ UNCHANGED <<tail, popped, t, taken>>
    BY <1>1 DEF PopAdvance, Goto
  <2> USE Constants, <1>0, <1>b, <2>a DEF Procs
  <2>1. RingTypes'
    BY DEF RingTypes, Pushing, Popping
  <2>2. Places'
    BY DEF RingTypes, Places, Pushing, Popping, Holds
  <2>3. InOrder'
    BY DEF InOrder
  <2>4. Still
    BY DEF RingTypes, Still, Holds, Claims
  <2>5. OneProducer(use) => AtHead' /\ SamePush
    BY DEF RingInv, RingTypes, Alone, AtHead, SamePush, Pushing
  <2>6. ~OnePopper(use)
    BY <1>1 DEF RingInv, Single, AtTail, Places, OnePopper, Popping
  <2> QED  BY <2>1, <2>2, <2>3, <2>4, <2>5, <2>6, StillKeeps
<1>2. CASE tail = t[p]
  <2>a. /\ pc' = [pc EXCEPT ![p] = IF p \in Producers THEN "pushHead" ELSE "idle"]
        /\ t' = [t EXCEPT ![p] = 0] /\ taken' = [taken EXCEPT ![p] = Nil]
        /\ tail' = tail + 1 /\ popped' = Append(popped, taken[p])
    BY <1>2 DEF PopAdvance, PopReturns, Goto
  <2>c. /\ tail < head /\ head \in Nat /\ tail \in Nat /\ head <= tail + RingCapacity
        /\ taken[p] \in 1..MaxPush
    BY <1>0, <1>b, <1>2 DEF Places, RingTypes, InOrder, Holds
  <2>d. /\ popped' \in Seq(1..MaxPush) /\ Len(popped') = tail + 1 /\ popped'[tail+1] = taken[p]
        /\ \A k \in 1..tail : popped'[k] = popped[k]
    BY SMT, <1>0, <2>a, <2>c DEF RingTypes
  <2>e. \A q \in Procs : /\ Holds(q)' <=> Holds(q) /\ q # p
                         /\ q # p => pc'[q] = pc[q] /\ t'[q] = t[q] /\ taken'[q] = taken[q]
    BY <1>0, <2>a DEF RingTypes, Holds
  <2>f. \A r \in Producers : /\ Claims(r)' <=> Claims(r)
                             /\ pc'[r] = "pushAdvance" <=> pc[r] = "pushAdvance"
    BY <1>0, <1>b, <2>a DEF RingTypes, Claims, Procs
  <2>g. Holds(p) /\ pc'[p] \in {"pushHead", "idle"}
    BY <1>0, <1>b, <2>a DEF RingTypes, Holds
  <2>h. taken[p] = pushed[tail+1]
    <3>1. CASE OneProducer(use)
      <4>1. Alone
        BY <3>1 DEF RingInv
      <4>2. PICK n \in Nat : Index(n) = Index(t[p]) /\ Carries(n, taken[p])
        BY <2>g, <4>1 DEF Alone, HandCarried
      <4>3. \A r \in Producers : pc[r] = "pushAdvance" => h[r] = head /\ head < tail + RingCapacity
        BY <1>0, <4>1 DEF Alone, AtHead, Places, Pushing
      <4>4. tail <= n /\ n < tail + RingCapacity
        BY SMT, <2>c, <4>2, <4>3, Constants DEF Carries
      <4>5. n = tail
        BY SMT, <1>2, <2>c, <4>2, <4>4, Window, Constants
      <4> QED  BY SMT, <2>c, <4>2, <4>3, <4>5 DEF Carries
    <3>2. CASE OnePopper(use)
      BY <1>0, <1>b, <3>2 DEF RingInv, Single, AtTail, Places, OnePopper, Popping, Procs
    <3> QED  BY <1>0, <3>1, <3>2 DEF RingTypes, Orderly
  <2>1. RingTypes'
    BY SMT, <1>0, <1>b, <2>a, <2>c, <2>d DEF RingTypes
  <2>2. Places'
    <3>1. /\ \A r \in Producers : pc'[r] # "idle" => r \in use'.producers /\ value'[r] # Nil
          /\ \A q \in Poppers : pc'[q] # "idle" => q \in use'.poppers /\ pc'[q] \in Popping
          /\ \A r \in Producers : pc'[r] \in Popping => use'.dropOldestOnFull
      BY SMT, <1>0, <1>b, <2>a, <2>e, Constants DEF RingTypes, Places, Popping, Procs
    <3>2. /\ \A r \in Producers : pc'[r] \in Pushing => h'[r] <= head'
          /\ \A r \in Producers : pc'[r] \in {"pushSlot", "pushAdvance"} => h'[r] < tail' + RingCapacity
      BY SMT, <1>0, <1>b, <2>a, <2>c, <2>e, <2>g, Constants DEF RingTypes, Places, Pushing, Procs
    <3>3. /\ \A q \in Procs : pc'[q] \in {"popHead", "popSlot", "popAdvance"} => t'[q] <= tail'
          /\ \A q \in Procs : pc'[q] \in {"popSlot", "popAdvance"} => t'[q] < head'
          /\ \A q \in Procs : Holds(q)' => taken'[q] # Nil
      BY SMT, <1>0, <1>b, <2>a, <2>c, <2>e, <2>g DEF RingTypes, Places
    <3> QED  BY <3>1, <3>2, <3>3 DEF Places
  <2>3. InOrder'
    BY SMT, <1>0, <1>b, <2>a, <2>c, <2>d, <2>h, Constants DEF InOrder
  <2>4. ASSUME OneProducer(use)' PROVE Alone'
    <3>0. OneProducer(use) /\ Alone
      BY <1>b, <2>4 DEF RingInv
    <3>1. \A r \in Producers : pc[r] = "pushAdvance" => h[r] = head /\ head < tail + RingCapacity
      BY <1>0, <3>0 DEF Alone, AtHead, Places, Pushing
    <3>2. \A v : \A n \in Nat : Carries(n, v)' <=> Carries(n, v) /\ n # tail
      BY SMT, <1>b, <2>a, <2>c, <2>f, <3>1 DEF Carries
    <3>3. \A v : \A n \in Nat : Carries(n, v) => tail <= n /\ n < tail + RingCapacity
      BY SMT, <2>c, <3>1, Constants DEF Carries
    <3>4. AtHead'
      BY <1>0, <1>b, <2>a, <3>0 DEF Alone, AtHead, RingTypes, Pushing, Procs
    <3>5. SlotCarried'
      <4>1. slots[Index(tail)] = Nil
        BY <1>2, <2>g, <3>0 DEF Alone, HandCarried
      <4> QED  BY <1>b, <3>0, <3>2, <4>1 DEF Alone, SlotCarried
    <3>6. HandCarried'
      <4> SUFFICES ASSUME NEW q \in Procs, Holds(q), q # p
                   PROVE  /\ slots[Index(t[q])] = Nil
                          /\ \E n \in Nat : Index(n) = Index(t[q]) /\ Carries(n, taken[q])'
        BY <1>b, <2>e DEF HandCarried
      <4>1. Index(t[q]) # Index(tail)
        BY <1>2, <2>g, <3>0 DEF Alone, HandsApart
      <4>2. slots[Index(t[q])] = Nil /\ \E n \in Nat : Index(n) = Index(t[q]) /\ Carries(n, taken[q])
        BY <3>0 DEF Alone, HandCarried
      <4>3. taken'[q] = taken[q]
        BY <2>e
      <4> QED  BY <3>2, <4>1, <4>2, <4>3
    <3>7. HandsApart'
      BY <2>e, <3>0 DEF Alone, HandsApart
    <3>8. CarriedKept'
      <4> SUFFICES ASSUME NEW n \in Nat, NEW v \in 1..MaxPush, Carries(n, v), n # tail
                   PROVE  slots[Index(n)] # Nil \/ \E q \in Procs : Holds(q)' /\ Index(t'[q]) = Index(n)
        BY <1>b, <3>2 DEF CarriedKept
      <4>1. Index(n) # Index(t[p])
        BY SMT, <1>2, <2>c, <3>3, Window, Constants
      <4>2. slots[Index(n)] # Nil \/ \E q \in Procs : Holds(q) /\ Index(t[q]) = Index(n)
        BY <3>0 DEF Alone, CarriedKept
      <4> QED  BY <2>e, <4>1, <4>2
    <3> QED  BY <3>4, <3>5, <3>6, <3>7, <3>8 DEF Alone
  <2>5. ASSUME OnePopper(use)' PROVE Single'
    <3>0. OnePopper(use) /\ Single
      BY <1>b, <2>5 DEF RingInv
    <3>1. p \in Poppers /\ \A q \in Poppers : q # p => pc[q] = "idle"
      BY <1>0, <1>b, <3>0, Constants DEF Places, OnePopper, Popping, Procs
    <3>2. \A n : Stands(n)' <=> Stands(n)
      BY SMT, <1>b, <2>a, <2>c, <2>e, <2>g, <3>1 DEF Stands, Procs
    <3>3. AtTail'
      BY <2>e, <2>g, <3>1 DEF AtTail, Procs
    <3>4. ClaimsStand'
      BY <1>b, <2>f, <3>0 DEF Single, ClaimsStand
    <3>5. ClaimsApart'
      BY <1>b, <2>f, <3>0 DEF Single, ClaimsApart
    <3>6. PushedStand'
      BY <1>b, <2>f, <3>0, <3>2 DEF Single, PushedStand
    <3>7. SlotOwned'
      BY <1>b, <2>f, <3>0, <3>2 DEF Single, SlotOwned
    <3> QED  BY <3>3, <3>4, <3>5, <3>6, <3>7 DEF Single
  <2> QED  BY <2>1, <2>2, <2>3, <2>4, <2>5 DEF RingInv
<1> QED  BY <1>1, <1>2

\* Pop puts the value back: with one popper it never comes to that.
LEMMA PopRestoreKeeps ==
  ASSUME RingInv, NEW p \in Procs, PopRestore(p)
  PROVE  RingInv'
<1>0. RingTypes /\ Places /\ InOrder
  BY DEF RingInv
<1>b. pc[p] = "popRestore" /\ UNCHANGED <<use, head, tail, h, value, next, pushed, popped>>
  BY DEF PopRestore
<1> DEFINE i == Index(t[p])
<1>i. i \in 0..RingCapacity-1
  BY <1>0, IndexRange DEF RingTypes
<1>a. /\ pc' = [pc EXCEPT ![p] = "popTail"] /\ t' = [t EXCEPT ![p] = 0]
      /\ taken' = [taken EXCEPT ![p] = Nil] /\ slots' = [slots EXCEPT ![i] = taken[p]]
  BY DEF PopRestore, Goto
<1>d. /\ slots'[i] = taken[p] /\ taken[p] # Nil
      /\ \A j \in 0..RingCapacity-1 : j # i => slots'[j] = slots[j]
  BY <1>0, <1>i, <1>a, <1>b DEF RingTypes, Places, Holds
<1>e. \A q \in Procs : /\ Holds(q)' <=> Holds(q) /\ q # p
                       /\ q # p => t'[q] = t[q] /\ taken'[q] = taken[q]
  BY <1>0, <1>a DEF RingTypes, Holds
<1>f. \A r \in Producers : pc'[r] = "pushAdvance" <=> pc[r] = "pushAdvance"
  BY <1>0, <1>b, <1>a DEF RingTypes, Procs
<1>g. Holds(p)
  BY <1>b DEF Holds
<1>1. RingTypes'
  BY <1>0, <1>b, <1>i, <1>a DEF RingTypes, Popping
<1> HIDE DEF i
<1>2. Places'
  BY <1>0, <1>b, <1>a, <1>e, Constants DEF RingTypes, Places, Pushing, Popping, Procs
<1>3. InOrder'
  BY <1>0, <1>b DEF InOrder
<1>4. ~OnePopper(use)
  BY <1>0, <1>b DEF RingInv, Single, AtTail, Places, OnePopper, Popping, Procs
<1>5. ASSUME OneProducer(use)' PROVE Alone'
  <2>0. Alone
    BY <1>b, <1>5 DEF RingInv
  <2>1. \A n, v : Carries(n, v)' <=> Carries(n, v)
    BY <1>b, <1>f DEF Carries
  <2>2. \A q \in Procs : Holds(q) /\ q # p => Index(t[q]) # i /\ Index(t[q]) \in 0..RingCapacity-1
    BY <1>0, <1>g, <2>0, IndexRange DEF Alone, HandsApart, RingTypes, i
  <2>3. AtHead'
    BY <1>0, <1>b, <1>a, <2>0 DEF Alone, AtHead, RingTypes, Pushing, Procs
  <2>4. SlotCarried'
    <3>1. \E n \in Nat : Index(n) = i /\ Carries(n, taken[p])
      BY <1>g, <2>0 DEF Alone, HandCarried, i
    <3> QED  BY <1>d, <2>0, <2>1, <3>1 DEF Alone, SlotCarried
  <2>5. HandCarried'
    BY <1>d, <1>e, <2>0, <2>1, <2>2 DEF Alone, HandCarried
  <2>6. HandsApart'
    BY <1>e, <2>0 DEF Alone, HandsApart
  <2>7. CarriedKept'
    <3> SUFFICES ASSUME NEW n \in Nat, NEW v \in 1..MaxPush, Carries(n, v)
                 PROVE  slots'[Index(n)] # Nil \/ \E q \in Procs : Holds(q)' /\ Index(t'[q]) = Index(n)
      BY <2>1 DEF CarriedKept
    <3>1. CASE Index(n) = i
      BY <1>d, <3>1
    <3>2. CASE Index(n) # i
      <4>1. Index(n) \in 0..RingCapacity-1
        BY IndexRange
      <4> QED  BY <1>d, <1>e, <2>0, <3>2, <4>1 DEF Alone, CarriedKept, i
    <3> QED  BY <3>1, <3>2
  <2> QED  BY <2>3, <2>4, <2>5, <2>6, <2>7 DEF Alone
<1> QED  BY <1>b, <1>1, <1>2, <1>3, <1>4, <1>5 DEF RingInv

-----------------------------------------------------------------------------
(* The theorems *)

\* The invariant holds of an empty ring,
LEMMA RingStart ==
  ASSUME RingInit, \A u \in Uses : Orderly(u)
  PROVE  RingInv
<1> USE Constants DEF RingInit, Procs
<1>1. RingTypes
  BY SMT DEF RingTypes
<1>2. Places
  BY DEF Places, Pushing, Popping, Holds
<1>3. InOrder
  BY SMT DEF InOrder
<1>4. \A n, v : ~Carries(n, v)
  BY SMT DEF Carries
<1>5. Alone
  BY <1>4 DEF Alone, AtHead, SlotCarried, HandCarried, HandsApart, CarriedKept, Holds, Pushing
<1>6. Single
  BY SMT DEF Single, AtTail, ClaimsStand, ClaimsApart, PushedStand, SlotOwned, Claims, Stands
<1> QED  BY <1>1, <1>2, <1>3, <1>5, <1>6 DEF RingInv

\* and every step keeps it.
LEMMA RingStep ==
  ASSUME RingInv, [RingNext]_ringVars
  PROVE  RingInv'
<1>1. CASE \E p \in Producers : PushStart(p) \/ PushStep(p)
  BY <1>1, PushStartKeeps, PushLoadHeadKeeps, PushLoadTailKeeps, PushSlotKeeps, PushAdvanceKeeps,
     PushUndoKeeps DEF PushStep
<1>2. CASE \E p \in Poppers : PopStart(p)
  BY <1>2, PopStartKeeps
<1>3. CASE \E p \in Procs : PopStep(p)
  BY <1>3, PopLoadTailKeeps, PopLoadHeadKeeps, PopSlotKeeps, PopAdvanceKeeps, PopRestoreKeeps
     DEF PopStep
<1>4. CASE UNCHANGED ringVars
  <2>0. UNCHANGED <<use, slots, head, tail, pc, h, t, value, taken, next, pushed, popped>>
    BY <1>4 DEF ringVars
  <2>1. RingTypes' /\ Places' /\ InOrder'
    BY <2>0 DEF RingInv, RingTypes, Places, InOrder, Holds
  <2>2. Still /\ SamePush /\ SamePop
    BY <2>0 DEF Still, SamePush, SamePop, Holds, Claims
  <2>3. OneProducer(use) => AtHead'
    BY <2>0 DEF RingInv, Alone, AtHead
  <2>4. OnePopper(use) => AtTail'
    BY <2>0 DEF RingInv, Single, AtTail
  <2> QED  BY <2>1, <2>2, <2>3, <2>4, StillKeeps
<1> QED  BY <1>1, <1>2, <1>3, <1>4 DEF RingNext

\* A ring with one producer, even one that pops to make room while the subscriber and
\* whoever closes the subscription pop too, and a ring with any number of producers
\* and one popper, hand over the values in the order head passed them, none twice and
\* none skipped: Pop's compare-and-swap of tail after emptying the slot
\* (spsc_ring.go) loses no value.
THEOREM OrderKept ==
  (\A u \in Uses : Orderly(u)) => (RingSpec => []Fifo)
<1>1. RingInv => Fifo
  <2> SUFFICES ASSUME RingInv PROVE Fifo
    OBVIOUS
  <2>1. /\ popped \in Seq(1..MaxPush) /\ pushed \in Seq(1..MaxPush)
        /\ Len(popped) <= Len(pushed)
        /\ \A i \in 1..Len(popped) : popped[i] = pushed[i]
    BY DEF RingInv, RingTypes, InOrder
  <2>2. popped = SubSeq(pushed, 1, Len(popped))
    BY SMT, <2>1
  <2> QED  BY <2>1, <2>2 DEF Fifo
<1>2. (\A u \in Uses : Orderly(u)) => (RingInit => RingInv)
  BY RingStart
<1>3. RingInv /\ [RingNext]_ringVars => RingInv'
  BY RingStep
<1> QED  BY <1>1, <1>2, <1>3, PTL DEF RingSpec

\* When nobody is inside Push or Pop the invariant leaves no doubt what the slots
\* hold.
LEMMA RingSettled ==
  ASSUME RingInv
  PROVE  SlotsSettle
<1> SUFFICES ASSUME \A p \in Procs : pc[p] = "idle"
             PROVE  slots = [i \in 0..RingCapacity-1 |->
                               LET live == {n \in tail..head-1 : Index(n) = i}
                               IN  IF live = {} THEN Nil ELSE pushed[(CHOOSE n \in live : TRUE) + 1]]
  BY DEF SlotsSettle
<1>0. RingTypes /\ InOrder
  BY DEF RingInv
<1>1. \A p \in Procs : ~Holds(p) /\ ~Claims(p) /\ pc[p] \notin {"pushAdvance", "popAdvance"}
  BY DEF Holds, Claims
<1>2. \A n : Stands(n) <=> n \in tail..head-1
  BY <1>1 DEF Stands, Procs
<1>3. \A n, v : Carries(n, v) <=> n \in tail..head-1 /\ v = pushed[n+1]
  BY <1>1 DEF Carries, Procs
<1>4. \A i \in 0..RingCapacity-1 : slots[i] # Nil => \E n \in tail..head-1 : Index(n) = i
  <2>1. CASE OneProducer(use)
    BY <1>3, <2>1 DEF RingInv, Alone, SlotCarried
  <2>2. CASE OnePopper(use)
    BY <1>1, <1>2, <2>2 DEF RingInv, Single, SlotOwned, Procs
  <2> QED  BY <1>0, <2>1, <2>2 DEF RingTypes, Orderly
<1>5. \A m, n \in tail..head-1 : Index(m) = Index(n) => m = n
  <2>1. tail \in Nat /\ head \in Nat /\ head <= tail + RingCapacity
    BY <1>0 DEF RingTypes, InOrder
  <2> QED  BY SMT, <2>1, Window, Constants
<1>6. \A n \in tail..head-1 : slots[Index(n)] = pushed[n+1]
  <2> SUFFICES ASSUME NEW n \in tail..head-1
               PROVE  slots[Index(n)] = pushed[n+1]
    OBVIOUS
  <2>0. n \in Nat /\ Index(n) \in 0..RingCapacity-1
    <3>1. tail \in Nat /\ head \in Nat
      BY <1>0 DEF RingTypes
    <3> QED  BY SMT, <3>1, IndexRange
  <2>1. CASE OneProducer(use)
    <3>1. Alone
      BY <2>1 DEF RingInv
    <3>2. slots[Index(n)] # Nil
      BY <1>0, <1>1, <1>3, <2>0, <3>1, PushedValue DEF Alone, CarriedKept
    <3>3. PICK m \in Nat : Index(m) = Index(n) /\ Carries(m, slots[Index(n)])
      BY <2>0, <3>1, <3>2 DEF Alone, SlotCarried
    <3>4. m = n
      BY <1>3, <1>5, <3>3
    <3> QED  BY <1>3, <3>3, <3>4
  <2>2. CASE OnePopper(use)
    BY <1>2, <2>0, <2>2 DEF RingInv, Single, PushedStand
  <2> QED  BY <1>0, <2>1, <2>2 DEF RingTypes, Orderly
<1> DEFINE Live(i) == {n \in tail..head-1 : Index(n) = i}
<1>7. \A i \in 0..RingCapacity-1 :
        slots[i] = IF Live(i) = {} THEN Nil ELSE pushed[(CHOOSE n \in Live(i) : TRUE) + 1]
  <2> SUFFICES ASSUME NEW i \in 0..RingCapacity-1
               PROVE  slots[i] = IF Live(i) = {} THEN Nil
                                 ELSE pushed[(CHOOSE n \in Live(i) : TRUE) + 1]
    OBVIOUS
  <2>1. CASE Live(i) = {}
    BY <1>4, <2>1
  <2>2. CASE Live(i) # {}
    <3>1. PICK n \in Live(i) : n = CHOOSE m \in Live(i) : TRUE
      BY <2>2
    <3> QED  BY <1>6, <2>2, <3>1
  <2> QED  BY <2>1, <2>2
<1> HIDE DEF Live
<1>8. slots = [i \in 0..RingCapacity-1 |-> slots[i]]
  BY <1>0 DEF RingTypes
<1>9. slots = [i \in 0..RingCapacity-1 |->
                 IF Live(i) = {} THEN Nil ELSE pushed[(CHOOSE n \in Live(i) : TRUE) + 1]]
  BY <1>7, <1>8
<1> QED  BY <1>9 DEF Live

\* Under the same sharing, whenever every Push and Pop has returned the slots hold
\* exactly the values between tail and head: no restore, undo or dropped oldest value
\* of spsc_ring.go leaves a slot filled that should be free, or free that should be
\* filled.
THEOREM NothingLost ==
  (\A u \in Uses : Orderly(u)) => (RingSpec => []SlotsSettle)
<1>1. RingInv => SlotsSettle
  BY RingSettled
<1>2. (\A u \in Uses : Orderly(u)) => (RingInit => RingInv)
  BY RingStart
<1>3. RingInv /\ [RingNext]_ringVars => RingInv'
  BY RingStep
<1> QED  BY <1>1, <1>2, <1>3, PTL DEF RingSpec

-----------------------------------------------------------------------------
(* A subscriber of a broadcast group, which sleeps on an empty ring: Consumer, and *)
(* BroadcastGroup around it, a specification of its own that sees no more of the    *)
(* ring than how many values it holds.                                             *)

\* Some waker of W is on its way through wake.
Waking(W) == \E w \in W : wpc[w] \in {"load", "swap"}

\* A registered hook has not started; a cancellable call sleeps with one.
HookInv ==
  /\ cancelled => done /\ cpc # "idle"
  /\ hook \in Hooks => wpc[hook] = "idle" /\ cpc \in {"sleep", "stop"}
  /\ (cpc = "sleep" /\ done /\ ~cancelled) => hook \in Hooks

\* From the moment Empty has found the ring empty, whoever fills it is still on
\* its way to wake, unless the arm has been claimed.
PendingWake ==
  /\ (cpc \in {"err", "register", "sleep"} /\ wantWake /\ queue > 0) => Waking(Wakers)
  /\ (cpc = "sleep" /\ wantWake /\ cancelled) => Waking(Hooks)

\* The inductive invariant of Consumer.
ConsumerInv == TypeOK /\ SemaBalanced /\ HookInv /\ PendingWake

\* It holds initially.
LEMMA ConsumerStart == Init => ConsumerInv
<1> SUFFICES ASSUME Init PROVE ConsumerInv
  OBVIOUS
<1>1. wantWake \in BOOLEAN /\ done \in BOOLEAN /\ cancelled \in BOOLEAN /\ drained \in BOOLEAN
  BY ZenonT(30) DEF Init
<1>2. TypeOK
  BY SMT, ConsumerAssumption, <1>1 DEF Init, TypeOK
<1>3. SemaBalanced
  BY DEF Init, SemaBalanced, Armed
<1>4. HookInv /\ PendingWake
  BY ConsumerAssumption DEF Init, HookInv, PendingWake
<1> QED BY <1>2, <1>3, <1>4 DEF ConsumerInv

\* The steps that write neither wantWake, sema nor the wakers, and neither arm nor
\* disarm the consumer.
LEMMA BalanceKept ==
  ASSUME SemaBalanced, UNCHANGED <<wantWake, sema, wpc>>,
         (cpc' \in Armed) = (cpc \in Armed)
  PROVE  SemaBalanced'
BY DEF SemaBalanced, Armed

\* The consumer's own steps keep it.
LEMMA ConsumerKeeps ==
  ASSUME ConsumerInv, ConsumerStep
  PROVE  ConsumerInv'
<1> USE DEF ConsumerInv
<1>1. CASE Pop
  <2>1. TypeOK'
    <3>1. done' \in BOOLEAN /\ cancelled' \in BOOLEAN
      BY ZenonT(30), <1>1 DEF Pop, WaitReturns, TypeOK, call
    <3> QED BY SMT, ConsumerAssumption, <1>1, <3>1 DEF Pop, WaitReturns, TypeOK
  <2>2. SemaBalanced'
    BY SMT, <1>1, BalanceKept DEF Pop, WaitReturns, Armed, call
  <2>3. HookInv' /\ PendingWake'
    BY <1>1 DEF Pop, WaitReturns, HookInv, PendingWake, Waking, call
  <2> QED BY <2>1, <2>2, <2>3
<1>2. CASE CheckContext
  <2>1. TypeOK'
    BY ZenonT(30), <1>2 DEF CheckContext, WaitReturns, TypeOK, call, Armed
  <2>2. SemaBalanced'
    BY SMT, <1>2, BalanceKept DEF CheckContext, WaitReturns, Armed, call
  <2>3. HookInv' /\ PendingWake'
    BY <1>2 DEF CheckContext, WaitReturns, HookInv, PendingWake, Waking, call
  <2> QED BY <2>1, <2>2, <2>3
<1>3. CASE Arm
  <2>1. TypeOK'
    BY <1>3 DEF Arm, TypeOK, call, Armed
  <2>2. SemaBalanced'
    BY <1>3 DEF Arm, SemaBalanced, Armed
  <2>3. HookInv' /\ PendingWake'
    BY <1>3 DEF Arm, HookInv, PendingWake, call
  <2> QED BY <2>1, <2>2, <2>3
<1>4. CASE EmptyTail
  <2>1. TypeOK'
    BY ZenonT(30), <1>4 DEF EmptyTail, TypeOK, call, Armed
  <2>2. SemaBalanced'
    BY SMT, <1>4, BalanceKept DEF EmptyTail, Armed
  <2>3. HookInv' /\ PendingWake'
    BY <1>4 DEF EmptyTail, HookInv, PendingWake, call
  <2> QED BY <2>1, <2>2, <2>3
<1>5. CASE EmptyHead
  <2>1. TypeOK'
    BY ZenonT(30), <1>5 DEF EmptyHead, TypeOK, call, Armed
  <2>2. SemaBalanced'
    BY SMT, <1>5, BalanceKept DEF EmptyHead, Armed
  <2>3. HookInv' /\ PendingWake'
    BY <1>5 DEF EmptyHead, HookInv, PendingWake, call
  <2> QED BY <2>1, <2>2, <2>3
<1>6. CASE CheckErr
  <2>1. TypeOK'
    BY <1>6 DEF CheckErr, TypeOK, call, Armed
  <2>2. SemaBalanced'
    BY SMT, <1>6, BalanceKept DEF CheckErr, Armed
  <2>3. HookInv' /\ PendingWake'
    BY <1>6 DEF CheckErr, HookInv, PendingWake, Waking, call
  <2> QED BY <2>1, <2>2, <2>3
<1>7. CASE Reclaim
  <2>1. TypeOK'
    BY ZenonT(30), <1>7 DEF Reclaim, TypeOK, call, Armed
  <2>2. SemaBalanced'
    BY <1>7 DEF Reclaim, SemaBalanced, Armed, TypeOK
  <2>3. HookInv' /\ PendingWake'
    BY <1>7 DEF Reclaim, HookInv, PendingWake, call
  <2> QED BY <2>1, <2>2, <2>3
<1>8. CASE Register
  <2>0. cpc = "register" /\ cpc' = "sleep"
        /\ UNCHANGED <<queue, wantWake, sema, call, drained>>
    BY <1>8 DEF Register
  <2>1. CASE ~done
    <3>1. UNCHANGED <<hook, wpc>>
      BY <1>8, <2>1 DEF Register
    <3>2. TypeOK'
      BY <2>0, <3>1 DEF TypeOK, call, Armed
    <3>3. SemaBalanced'
      BY SMT, <2>0, <3>1, BalanceKept DEF Armed
    <3>4. HookInv' /\ PendingWake'
      BY <2>0, <2>1, <3>1 DEF HookInv, PendingWake, Waking, call
    <3> QED BY <3>2, <3>3, <3>4
  <2>2. CASE done /\ cancelled
    <3>1. PICK x \in Hooks : wpc[x] = "idle" /\ wpc' = [wpc EXCEPT ![x] = "load"] /\ hook' = hook
      BY <1>8, <2>2 DEF Register
    <3>2. TypeOK'
      BY <2>0, <3>1 DEF TypeOK, call, Armed, Wakers
    <3>3. SemaBalanced'
      BY <2>0, <3>1 DEF SemaBalanced, Armed, TypeOK, Wakers
    <3>4. Waking(Hooks)' /\ Waking(Wakers)'
      BY <3>1 DEF Waking, TypeOK, Wakers
    <3>5. hook \notin Hooks
      BY <2>0 DEF HookInv
    <3>6. HookInv' /\ PendingWake'
      BY <2>0, <2>2, <3>1, <3>4, <3>5 DEF HookInv, PendingWake, call
    <3> QED BY <3>2, <3>3, <3>6
  <2>3. CASE done /\ ~cancelled
    <3>1. PICK x \in Hooks : wpc[x] = "idle" /\ hook' = x /\ wpc' = wpc
      BY <1>8, <2>3 DEF Register
    <3>2. TypeOK'
      BY <2>0, <3>1 DEF TypeOK, call, Armed
    <3>3. SemaBalanced'
      BY SMT, <2>0, <3>1, BalanceKept DEF Armed
    <3>4. HookInv' /\ PendingWake'
      BY <2>0, <2>3, <3>1 DEF HookInv, PendingWake, Waking, call
    <3> QED BY <3>2, <3>3, <3>4
  <2> QED BY <2>1, <2>2, <2>3
<1>9. CASE Semacquire
  <2>1. TypeOK'
    BY SMT, <1>9 DEF Semacquire, TypeOK, call, Armed
  <2>2. SemaBalanced'
    BY SMT, <1>9 DEF Semacquire, SemaBalanced, Armed, TypeOK
  <2>3. HookInv' /\ PendingWake'
    BY <1>9 DEF Semacquire, HookInv, PendingWake, call
  <2> QED BY <2>1, <2>2, <2>3
<1>10. CASE StopHook
  <2>1. TypeOK'
    BY <1>10 DEF StopHook, TypeOK, call, Armed
  <2>2. SemaBalanced'
    BY SMT, <1>10, BalanceKept DEF StopHook, Armed
  <2>3. HookInv' /\ PendingWake'
    BY ConsumerAssumption, <1>10 DEF StopHook, HookInv, PendingWake, call
  <2> QED BY <2>1, <2>2, <2>3
<1> QED
  BY <1>1, <1>2, <1>3, <1>4, <1>5, <1>6, <1>7, <1>8, <1>9, <1>10 DEF ConsumerStep

\* So do the steps that begin, end or cancel a call of Wait.
LEMMA CallKeeps ==
  ASSUME ConsumerInv, Wait \/ Cancel \/ OtherPop
  PROVE  ConsumerInv'
<1> USE DEF ConsumerInv
<1>1. CASE Wait
  <2>1. TypeOK'
    BY <1>1 DEF Wait, TypeOK, Armed
  <2>2. SemaBalanced'
    BY SMT, <1>1, BalanceKept DEF Wait, Armed
  <2>3. HookInv' /\ PendingWake'
    BY <1>1 DEF Wait, HookInv, PendingWake
  <2> QED BY <2>1, <2>2, <2>3
<1>2. CASE Cancel
  <2>0. done /\ cpc # "idle" /\ cancelled' = TRUE /\ hook' = NoHook
        /\ UNCHANGED <<queue, wantWake, sema, cpc, done, drained>>
    BY <1>2 DEF Cancel
  <2>1. CASE hook \in Hooks
    <3>1. wpc' = [wpc EXCEPT ![hook] = "load"] /\ wpc[hook] = "idle"
      BY <1>2, <2>1 DEF Cancel, HookInv
    <3>2. TypeOK'
      BY <2>0, <2>1, <3>1 DEF TypeOK, Wakers
    <3>3. SemaBalanced'
      BY <2>0, <2>1, <3>1 DEF SemaBalanced, TypeOK, Wakers
    <3>4. Waking(Hooks)' /\ Waking(Wakers)'
      BY <2>1, <3>1 DEF Waking, TypeOK, Wakers
    <3>5. HookInv' /\ PendingWake'
      BY ConsumerAssumption, <2>0, <3>4 DEF HookInv, PendingWake
    <3> QED BY <3>2, <3>3, <3>5
  <2>2. CASE hook \notin Hooks
    <3>1. wpc' = wpc /\ ~cancelled /\ cpc # "sleep"
      BY <1>2, <2>2 DEF Cancel, HookInv
    <3>2. TypeOK'
      BY <2>0, <3>1 DEF TypeOK
    <3>3. SemaBalanced'
      BY <2>0, <3>1, BalanceKept
    <3>4. HookInv' /\ PendingWake'
      BY ConsumerAssumption, <2>0, <3>1 DEF HookInv, PendingWake, Waking
    <3> QED BY <3>2, <3>3, <3>4
  <2> QED BY <2>1, <2>2
<1>3. CASE OtherPop
  <2>1. TypeOK'
    <3>1. drained' \in BOOLEAN
      BY <1>3 DEF OtherPop
    <3> QED BY SMT, ConsumerAssumption, <1>3, <3>1 DEF OtherPop, TypeOK, call
  <2>2. SemaBalanced'
    BY <1>3, BalanceKept DEF OtherPop
  <2>3. HookInv' /\ PendingWake'
    BY <1>3 DEF OtherPop, HookInv, PendingWake, Waking, call, TypeOK
  <2> QED BY <2>1, <2>2, <2>3
<1> QED BY <1>1, <1>2, <1>3

\* So do the steps of wakers: senders and context hooks.
LEMMA WakersKeep ==
  ASSUME ConsumerInv,
         (\E s \in Senders : Send(s) \/ Push(s)) \/ (\E w \in Wakers : Wake(w))
  PROVE  ConsumerInv'
<1> USE DEF ConsumerInv
<1>1. ASSUME NEW s \in Senders, Send(s) PROVE ConsumerInv'
  <2>1. TypeOK'
    BY <1>1 DEF Send, TypeOK, Wakers, call
  <2>2. SemaBalanced'
    BY <1>1 DEF Send, SemaBalanced, TypeOK, Wakers
  <2>3. HookInv'
    BY ConsumerAssumption, <1>1 DEF Send, HookInv, TypeOK, Wakers, call
  <2>4. PendingWake'
    BY <1>1 DEF Send, PendingWake, Waking, TypeOK, Wakers, call
  <2> QED BY <2>1, <2>2, <2>3, <2>4
<1>2. ASSUME NEW s \in Senders, Push(s) PROVE ConsumerInv'
  <2>1. TypeOK'
    <3>1. drained' \in BOOLEAN
      BY ZenonT(30), <1>2 DEF Push, TypeOK
    <3> QED BY SMT, ConsumerAssumption, <1>2, <3>1 DEF Push, TypeOK, Wakers, call
  <2>2. SemaBalanced'
    BY SMT, <1>2 DEF Push, SemaBalanced, TypeOK, Wakers
  <2>3. HookInv'
    BY ConsumerAssumption, <1>2 DEF Push, HookInv, TypeOK, Wakers, call
  <2>4. PendingWake'
    BY SMT, ConsumerAssumption, <1>2 DEF Push, PendingWake, Waking, TypeOK, Wakers, call
  <2> QED BY <2>1, <2>2, <2>3, <2>4
<1>3. ASSUME NEW w \in Wakers, LoadWant(w) PROVE ConsumerInv'
  <2>1. TypeOK'
    BY <1>3 DEF LoadWant, TypeOK, call
  <2>2. SemaBalanced'
    BY <1>3 DEF LoadWant, SemaBalanced, TypeOK
  <2>3. HookInv'
    BY <1>3 DEF LoadWant, HookInv, TypeOK, Wakers, call
  <2>4. PendingWake'
    BY <1>3 DEF LoadWant, PendingWake, Waking, TypeOK, Wakers, call
  <2> QED BY <2>1, <2>2, <2>3, <2>4
<1>4. ASSUME NEW w \in Wakers, SwapWant(w) PROVE ConsumerInv'
  <2>1. TypeOK'
    BY ZenonT(30), <1>4 DEF SwapWant, TypeOK, call
  <2>2. SemaBalanced'
    BY <1>4 DEF SwapWant, SemaBalanced, TypeOK
  <2>3. HookInv'
    BY <1>4 DEF SwapWant, HookInv, TypeOK, Wakers, call
  <2>4. PendingWake'
    BY <1>4 DEF SwapWant, PendingWake
  <2> QED BY <2>1, <2>2, <2>3, <2>4
<1>5. ASSUME NEW w \in Wakers, Semrelease(w) PROVE ConsumerInv'
  <2>1. TypeOK'
    BY SMT, <1>5 DEF Semrelease, TypeOK, call
  <2>2. SemaBalanced'
    BY SMT, <1>5 DEF Semrelease, SemaBalanced, TypeOK
  <2>3. HookInv'
    BY <1>5 DEF Semrelease, HookInv, TypeOK, Wakers, call
  <2>4. PendingWake'
    BY <1>5 DEF Semrelease, PendingWake, Waking, TypeOK, Wakers, call
  <2> QED BY <2>1, <2>2, <2>3, <2>4
<1> QED BY <1>1, <1>2, <1>3, <1>4, <1>5 DEF Wake

\* Hence every step does.
LEMMA ConsumerInductive == ConsumerInv /\ [Next]_vars => ConsumerInv'
<1> SUFFICES ASSUME ConsumerInv, [Next]_vars PROVE ConsumerInv'
  OBVIOUS
<1>1. CASE Next
  BY <1>1, ConsumerKeeps, CallKeeps, WakersKeep DEF Next
<1>2. CASE UNCHANGED vars
  <2>1. TypeOK'
    BY <1>2 DEF ConsumerInv, TypeOK, vars
  <2>2. SemaBalanced'
    BY <1>2, BalanceKept DEF ConsumerInv, vars
  <2>3. HookInv' /\ PendingWake'
    BY <1>2 DEF ConsumerInv, HookInv, PendingWake, Waking, vars
  <2> QED BY <2>1, <2>2, <2>3 DEF ConsumerInv
<1> QED BY <1>1, <1>2

\* Type correctness: in particular the ring's length stays within its capacity and
\* the semaphore of park and wake (consumer.go) is never negative.
THEOREM ConsumerTypeCorrect == Spec => []TypeOK
<1>1. ConsumerInv => TypeOK
  BY DEF ConsumerInv
<1> QED BY <1>1, ConsumerStart, ConsumerInductive, PTL DEF Spec

\* The semaphore of a subscriber never drifts, whatever senders, cancellations and
\* late hooks do: each arm of wantWake is paid with exactly one token.
THEOREM SemaphoreBalanced == Spec => []SemaBalanced
<1>1. ConsumerInv => SemaBalanced
  BY DEF ConsumerInv
<1> QED BY <1>1, ConsumerStart, ConsumerInductive, PTL DEF Spec

\* A subscriber never sleeps through a value or a cancellation.
THEOREM WakeupNotLost == Spec => []NoLostWakeup
<1>1. ConsumerInv => NoLostWakeup
  BY DEF ConsumerInv, PendingWake, Waking, NoLostWakeup
<1> QED BY <1>1, ConsumerStart, ConsumerInductive, PTL DEF Spec
-----------------------------------------------------------------------------
(* The group around the consumer *)

\* Every step of the group is a step of the consumer's specification, or none.
LEMMA ConsumerStepOrNone == [GNext]_gvars => [Next]_vars
<1> SUFFICES ASSUME [GNext]_gvars PROVE Next \/ UNCHANGED vars
  OBVIOUS
<1>1. CASE UNCHANGED gvars
  BY <1>1 DEF gvars
<1>2. CASE (acquired /\ Wait) \/ Cancel \/ Subscriber \/ PopRing \/ Close
  BY <1>2 DEF Subscriber, PopRing, Close, Next
<1>3. CASE \E x \in Subscribers : Acquire(x) \/ Release(x)
  BY <1>3 DEF Acquire, Release
<1>4. ASSUME NEW s \in Senders, NEW x \in Subscribers,
             SendUnnamed(s) \/ SendAll(s) \/ SendReturns(s) \/ Visit(s, x) \/ Pass(s, x) \/ Push(s)
      PROVE  Next \/ UNCHANGED vars
  BY <1>4 DEF SendUnnamed, SendAll, SendReturns, Visit, Pass, Next
<1>5. CASE \E w \in Wakers : WakingUp(w)
  BY <1>5 DEF WakingUp, Next
<1>6. \E x : x \in Subscribers
  BY DEF Subscribers
<1> QED BY <1>1, <1>2, <1>3, <1>4, <1>5, <1>6 DEF GNext

\* A subscriber of a group, with Acquire, Release, Close and Send going on around
\* it, still never sleeps through a value or a cancellation.
THEOREM GroupWakeupNotLost == GSpec => []NoLostWakeup
<1>1. GInit => Init
  BY DEF GInit
<1>2. GSpec => Spec
  BY <1>1, ConsumerStepOrNone, PTL DEF GSpec, Spec
<1> QED BY <1>2, WakeupNotLost, PTL

\* A Range: whom it has still to visit, and whom it may not leave out.
RangeType == [on : BOOLEAN, left : SUBSET Subscribers, owed : SUBSET Subscribers]

\* A Range still has before it every subscriber it owes a visit.
RangeInv ==
  /\ consumers \subseteq Subscribers
  /\ range \in [Senders -> RangeType]
  /\ \A s \in Senders : range[s].owed \subseteq range[s].left

\* Every step of the group keeps it.
LEMMA RangeStep == RangeInv /\ [GNext]_gvars => RangeInv'
<1> SUFFICES ASSUME RangeInv, [GNext]_gvars PROVE RangeInv'
  OBVIOUS
<1>1. CASE UNCHANGED group
  BY <1>1 DEF RangeInv, group
<1>2. CASE PopRing \/ Close
  BY <1>2 DEF PopRing, Close, RangeInv, group
<1>3. ASSUME NEW x \in Subscribers, Acquire(x) PROVE RangeInv'
  BY <1>3 DEF Acquire, RangeInv
<1>4. ASSUME NEW x \in Subscribers, Release(x) PROVE RangeInv'
  <2>1. range' \in [Senders -> RangeType]
    BY <1>4 DEF Release, RangeInv, RangeType
  <2>2. \A s \in Senders : range'[s].owed = range[s].owed \ {x} /\ range'[s].left = range[s].left
    BY <1>4 DEF Release, RangeInv, RangeType
  <2>3. consumers' \subseteq Subscribers
    BY <1>4 DEF Release, RangeInv
  <2> QED BY <2>1, <2>2, <2>3 DEF RangeInv
<1>5. ASSUME NEW s \in Senders, SendAll(s) PROVE RangeInv'
  BY <1>5 DEF SendAll, RangeInv, RangeType
<1>6. ASSUME NEW s \in Senders, SendReturns(s) PROVE RangeInv'
  BY <1>6 DEF SendReturns, RangeInv, RangeType, NoRange
<1>7. ASSUME NEW s \in Senders, NEW x \in Subscribers, Visit(s, x) PROVE RangeInv'
  <2>1. range' = [range EXCEPT ![s] = [range[s] EXCEPT !.left = @ \ {x}, !.owed = @ \ {x}]]
    BY <1>7 DEF Visit
  <2> QED BY SMT, <1>7, <2>1 DEF Visit, RangeInv, RangeType
<1>8. ASSUME NEW s \in Senders, NEW x \in Subscribers, Pass(s, x) PROVE RangeInv'
  BY <1>8 DEF Pass, RangeInv, RangeType
<1> QED BY <1>1, <1>2, <1>3, <1>4, <1>5, <1>6, <1>7, <1>8
        DEF GNext, gvars, group, Subscriber, SendUnnamed, WakingUp

\* Send's Range leaves out nobody who was subscribed all along.
THEOREM NobodyLeftOut == GSpec => []FanOut
<1>1. GInit => RangeInv
  BY SMT DEF GInit, RangeInv, RangeType, NoRange
<1>2. RangeInv => FanOut
  BY DEF RangeInv, FanOut
<1> QED BY <1>1, <1>2, RangeStep, PTL DEF GSpec
=============================================================================
