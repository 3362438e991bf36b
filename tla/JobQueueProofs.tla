---------------------------- MODULE JobQueueProofs ----------------------------
(***************************************************************************)
(* The job queue for any number of jobs, handlers and slots: it keeps its  *)
(* types, its slots are never raced on, and an assignment is final; it     *)
(* implements WorkPool; its counters agree with the ring; and Close leaves *)
(* none of the jobs behind that were committed before it.                  *)
(***************************************************************************)
EXTENDS JobQueue, FiniteSetTheorems, TLAPS

Holds(j) == pc[j] \in {"fill", "commit"}

\* The gate of TryReserve keeps the reserved sequences within one lap of every
\* cursor; what lies below a cursor or inside a batch is committed.
RingInv ==
  /\ \A s \in committed : s <= reserved
  /\ \A w \in Workers :
       /\ cursor[w] <= reserved
       /\ reserved - Capacity <= cursor[w]
       /\ \A s \in 0..cursor[w] : s \in committed
       /\ InBatch(w) => /\ cursor[w] < pos[w]
                        /\ pos[w] <= upper[w]
                        /\ \A s \in (cursor[w] + 1)..upper[w] : s \in committed

\* A publisher between TryReserve and Commit has a sequence to itself.
PublishInv ==
  /\ \A j \in Jobs : Holds(j) => seq[j] \in 0..reserved /\ seq[j] \notin committed
  /\ \A j, k \in Jobs : (j # k /\ Holds(j) /\ Holds(k)) => seq[j] # seq[k]

\* A handler past the assignment owns its slot, and a running one finds its job
\* there.
HandlerInv ==
  \A w \in Workers :
    /\ hpc[w] = "assign" => cand[w] \in Workers
    /\ Owns(w) => slotWorker[Index(pos[w])] = w
    /\ hpc[w] \in {"busy", "run"} => slotJob[Index(pos[w])] # NoJob

\* A job lies in the slot of its sequence until it is done.
JobInv ==
  /\ \A i \in 0..(Capacity - 1) : slotJob[i] # NoJob =>
       /\ pc[slotJob[i]] \in {"commit", "published"}
       /\ Index(seq[slotJob[i]]) = i
       /\ slotJob[i] \notin done
  /\ \A j \in done : pc[j] = "published"

SlotInv == HandlerInv /\ JobInv

QueueInv == TypeOK /\ RingInv /\ PublishInv /\ SlotInv

-----------------------------------------------------------------------------
(* The ring *)

\* Most steps are first-order reasoning, which Zenon does; the others name SMT.
USE Zenon

\* RingBuffer.Slot yields a slot of the ring.
LEMMA IndexInRing == \A s \in Nat : Index(s) \in 0..(Capacity - 1)
BY SMT, QueueAssumption DEF Index

\* Two sequences less than a lap apart have different slots.
LEMMA IndexInjective ==
  ASSUME NEW a \in Nat, NEW b \in Nat, a # b, b - a < Capacity, a - b < Capacity
  PROVE  Index(a) # Index(b)
<1>1. Capacity \in Nat \ {0}
  BY QueueAssumption
<1>2. ASSUME NEW x \in Nat, NEW y \in Nat, x < y, y - x < Capacity,
             x % Capacity = y % Capacity
      PROVE  FALSE
  <2> DEFINE p == x \div Capacity
             q == y \div Capacity
  <2>1. x = Capacity * p + (x % Capacity) /\ p \in Int /\ x % Capacity \in Nat
    BY SMT, <1>1
  <2>2. y = Capacity * q + (y % Capacity) /\ q \in Int /\ y % Capacity \in Nat
    BY SMT, <1>1
  <2> HIDE DEF p, q
  <2>3. y - x = Capacity * (q - p)
    BY SMT, <1>1, <1>2, <2>1, <2>2
  <2>4. CASE q - p <= 0
    <3>1. Capacity * (q - p) <= 0
      BY SMT, <1>1, <2>1, <2>2, <2>4
    <3> QED BY SMT, <1>2, <2>3, <3>1
  <2>5. CASE q - p >= 1
    <3>1. Capacity * (q - p) >= Capacity
      BY SMT, <1>1, <2>1, <2>2, <2>5
    <3> QED BY SMT, <1>1, <1>2, <2>3, <3>1
  <2> QED BY SMT, <2>1, <2>2, <2>4, <2>5
<1> QED
  <2>1. CASE a < b
    BY <1>2, <2>1 DEF Index
  <2>2. CASE b < a
    BY <1>2, <2>2 DEF Index
  <2> QED BY SMT, <2>1, <2>2

\* The slot invariant: the publishers' and the handlers' windows never meet.
LEMMA NoRace == QueueInv => NoSlotRace
<1> SUFFICES ASSUME QueueInv PROVE NoSlotRace
  OBVIOUS
<1>0. /\ Capacity \in Nat \ {0}
      /\ 0 \in Workers
      /\ TypeOK
  BY SMT, QueueAssumption DEF QueueInv, Workers
<1>1. ASSUME NEW j \in Jobs, Holds(j), NEW w \in Workers
      PROVE  seq[j] \in Nat /\ cursor[w] < seq[j] /\ seq[j] <= cursor[w] + Capacity
  BY SMT, <1>0, <1>1 DEF QueueInv, RingInv, PublishInv, TypeOK
<1>2. ASSUME NEW j \in Jobs, NEW k \in Jobs, j # k, Holds(j), Holds(k)
      PROVE  Index(seq[k]) # Index(seq[j])
  <2>1. seq[k] # seq[j]
    BY <1>2 DEF QueueInv, PublishInv
  <2>2. /\ seq[j] \in Nat /\ cursor[0] < seq[j] /\ seq[j] <= cursor[0] + Capacity
        /\ seq[k] \in Nat /\ cursor[0] < seq[k] /\ seq[k] <= cursor[0] + Capacity
        /\ cursor[0] \in Int
    BY SMT, <1>0, <1>1, <1>2 DEF TypeOK
  <2>3. seq[k] - seq[j] < Capacity /\ seq[j] - seq[k] < Capacity
    BY SMT, <1>0, <2>2
  <2> QED BY <2>1, <2>2, <2>3, IndexInjective
<1>3. ASSUME NEW j \in Jobs, NEW w \in Workers, Holds(j), InBatch(w)
      PROVE  Index(pos[w]) # Index(seq[j])
  <2>1. /\ cursor[w] < pos[w] /\ pos[w] <= upper[w] /\ pos[w] \in committed
        /\ pos[w] \in Nat /\ cursor[w] \in Int /\ upper[w] \in Int
    BY SMT, <1>0, <1>3 DEF QueueInv, RingInv, TypeOK
  <2>2. pos[w] <= cursor[w] + Capacity
    BY SMT, <1>0, <1>3, <2>1 DEF QueueInv, RingInv, TypeOK
  <2>3. seq[j] \in Nat /\ cursor[w] < seq[j] /\ seq[j] <= cursor[w] + Capacity
    BY <1>1, <1>3
  <2>4. pos[w] # seq[j]
    BY <1>3, <2>1 DEF QueueInv, PublishInv
  <2>5. pos[w] - seq[j] < Capacity /\ seq[j] - pos[w] < Capacity
    BY SMT, <1>0, <2>1, <2>2, <2>3
  <2> QED BY <2>1, <2>3, <2>4, <2>5, IndexInjective
<1>4. ASSUME NEW v \in Workers, NEW w \in Workers, v # w, Owns(v), Owns(w)
      PROVE  Index(pos[v]) # Index(pos[w])
  BY <1>4 DEF QueueInv, SlotInv, HandlerInv
<1> QED
  BY <1>2, <1>3, <1>4 DEF NoSlotRace, Holds, Owns

-----------------------------------------------------------------------------
(* The invariant is inductive *)

\* Initially the ring is empty and every handler is idle.
LEMMA QueueInit == Init => QueueInv
<1> SUFFICES ASSUME Init PROVE QueueInv
  OBVIOUS
<1>0. Capacity \in Nat \ {0} /\ MaxWorkers \in Nat \ {0}
  BY QueueAssumption
<1>1. TypeOK
  <2>1. slotWorker \in [0..(Capacity - 1) -> Workers \cup {Unassigned}]
    BY DEF Init
  <2>2. cancelled \in BOOLEAN
    BY ZenonT(30) DEF Init
  <2>3. activeWorkers \in 0..MaxWorkers
    BY SMT, <1>0 DEF Init
  <2>4. pos \in [Workers -> Nat \cup {-1}] /\ upper \in [Workers -> Nat \cup {-1}]
        /\ cursor \in [Workers -> Nat \cup {-1}] /\ seq \in [Jobs -> Nat \cup {-1}]
    BY DEF Init
  <2>5. cand \in [Workers -> Workers \cup {Unassigned}]
    BY DEF Init
  <2> QED BY SMT, <2>1, <2>2, <2>3, <2>4, <2>5 DEF Init, TypeOK
<1>2. RingInv
  <2>1. /\ reserved = -1 /\ committed = {}
        /\ \A w \in Workers : cursor[w] = -1 /\ hpc[w] = "idle"
    BY DEF Init
  <2> QED BY SMT, <1>0, <2>1 DEF RingInv, InBatch
<1>3. PublishInv
  BY DEF Init, PublishInv, Holds
<1>4. SlotInv
  BY <1>0 DEF Init, SlotInv, HandlerInv, JobInv, Owns
<1> QED
  BY <1>1, <1>2, <1>3, <1>4 DEF QueueInv

\* A step of publish keeps the invariant.  FillSlot writes a slot that no handler
\* is in (NoRace); Reserve stays within a lap of the slowest cursor.
LEMMA PublishKeeps ==
  ASSUME QueueInv, NEW j \in Jobs, Offer(j) \/ PublishStep(j)
  PROVE  QueueInv'
<1>0. /\ Capacity \in Nat \ {0} /\ MaxWorkers \in Nat \ {0} /\ NoJob \notin Jobs
      /\ NoSlotRace
  BY QueueAssumption, NoRace
<1> USE <1>0 DEF QueueInv
<1>1. CASE Offer(j) \/ CheckOpen(j)
  <2>0. /\ pc[j] \in {"idle", "check"}
        /\ pc' = [pc EXCEPT ![j] = pc'[j]] /\ pc'[j] \in {"check", "reserve", "failed"}
    BY <1>1 DEF TypeOK, Offer, CheckOpen
  <2>1. TypeOK'
    BY ZenonT(60), <1>1 DEF TypeOK, Offer, CheckOpen, slotVars, handlerVars, metricVars, closeVars
  <2>2. RingInv'
    BY <1>1 DEF RingInv, InBatch, Offer, CheckOpen, handlerVars
  <2>3. PublishInv'
    BY SMTT(60), <1>1 DEF TypeOK, PublishInv, Holds, Offer, CheckOpen
  <2>4. SlotInv'
    <3>1. UNCHANGED <<seq, slotVars, handlerVars, done>>
      BY <1>1 DEF Offer, CheckOpen
    <3>2. \A k \in Jobs : pc[k] \in {"commit", "published"} => pc'[k] = pc[k]
      BY <2>0 DEF TypeOK
    <3> QED BY <3>1, <3>2 DEF TypeOK, SlotInv, HandlerInv, JobInv, Owns, slotVars, handlerVars
  <2> QED BY <2>1, <2>2, <2>3, <2>4
<1>2. CASE Reserve(j) /\ HasRoom
  <2>0. /\ pc[j] = "reserve" /\ pc' = [pc EXCEPT ![j] = "fill"]
        /\ reserved' = reserved + 1 /\ reserved' \in Nat
        /\ seq' = [seq EXCEPT ![j] = reserved']
        /\ UNCHANGED <<committed, slotVars, activeWorkers, handlerVars, metricVars,
                       done, closeVars>>
    BY SMT, <1>2 DEF Reserve, TypeOK
  <2>1. TypeOK'
    BY <2>0 DEF TypeOK, slotVars, handlerVars, metricVars, closeVars
  <2>2. RingInv'
    BY SMT, <1>2, <2>0 DEF TypeOK, RingInv, InBatch, HasRoom, handlerVars
  <2>3. PublishInv'
    BY SMT, <2>0 DEF TypeOK, RingInv, PublishInv, Holds
  <2>4. SlotInv'
    BY <2>0 DEF TypeOK, SlotInv, HandlerInv, JobInv, Owns, slotVars, handlerVars
  <2> QED BY <2>1, <2>2, <2>3, <2>4
<1>5. CASE Reserve(j) /\ ~HasRoom
  <2>0. /\ pc[j] = "reserve" /\ pc' = [pc EXCEPT ![j] = "check"]
        /\ UNCHANGED <<reserved, seq, committed, slotVars, activeWorkers,
                       handlerVars, metricVars, done, closeVars>>
    BY <1>5 DEF Reserve
  <2>1. TypeOK'
    BY <2>0 DEF TypeOK, slotVars, handlerVars, metricVars, closeVars
  <2>2. RingInv'
    BY <2>0 DEF RingInv, InBatch, handlerVars
  <2>3. PublishInv'
    BY <2>0 DEF TypeOK, PublishInv, Holds
  <2>4. SlotInv'
    BY <2>0 DEF TypeOK, SlotInv, HandlerInv, JobInv, Owns, slotVars, handlerVars
  <2> QED BY <2>1, <2>2, <2>3, <2>4
<1>3. CASE FillSlot(j)
  <2>0. seq[j] \in Nat /\ Index(seq[j]) \in 0..(Capacity - 1)
    BY SMT, <1>3, IndexInRing DEF TypeOK, PublishInv, Holds, FillSlot
  <2>1. TypeOK'
    BY SMT, <1>3, <2>0 DEF TypeOK, FillSlot, handlerVars, closeVars
  <2>2. RingInv'
    BY <1>3 DEF RingInv, InBatch, FillSlot, handlerVars
  <2>3. PublishInv'
    BY <1>3 DEF TypeOK, PublishInv, Holds, FillSlot
  <2>4. SlotInv'
    BY SMT, <1>3, <2>0 DEF TypeOK, SlotInv, HandlerInv, JobInv, Owns, FillSlot, handlerVars, NoSlotRace, InBatch
  <2> QED BY <2>1, <2>2, <2>3, <2>4
<1>4. CASE Commit(j)
  <2>0. seq[j] \in 0..reserved /\ seq[j] \in Nat
    BY SMT, <1>4 DEF PublishInv, Holds, Commit, TypeOK
  <2>1. TypeOK'
    BY ZenonT(30), <1>4, <2>0 DEF TypeOK, Commit, slotVars, handlerVars, metricVars, closeVars
  <2>2. RingInv'
    BY SMT, <1>4, <2>0 DEF RingInv, InBatch, Commit, handlerVars
  <2>3. PublishInv'
    BY <1>4 DEF TypeOK, PublishInv, Holds, Commit
  <2>4. SlotInv'
    BY <1>4 DEF TypeOK, SlotInv, HandlerInv, JobInv, Owns, Commit, slotVars, handlerVars
  <2> QED BY <2>1, <2>2, <2>3, <2>4
<1> QED
  BY <1>1, <1>2, <1>3, <1>4, <1>5 DEF PublishStep

HandlerTypes ==
  /\ hpc \in [Workers -> {"idle", "look", "assign", "own", "busy", "run", "exited"}]
  /\ pos \in [Workers -> Nat \cup {-1}]
  /\ cursor \in [Workers -> Nat \cup {-1}]

\* A handler's move to its next sequence, or back to the listener loop, keeps the
\* types and the ring.
LEMMA AdvanceKeeps ==
  ASSUME TypeOK, RingInv, NEW w \in Workers, InBatch(w), Advance(w),
         UNCHANGED <<upper, committed, reserved>>
  PROVE  /\ RingInv'
         /\ HandlerTypes'
         /\ hpc' = [hpc EXCEPT ![w] = hpc'[w]] /\ hpc'[w] \in {"look", "idle"}
         /\ \A v \in Workers \ {w} : pos'[v] = pos[v]
<1>0. Capacity \in Nat
  BY QueueAssumption
<1>1. CASE pos[w] < upper[w]
  <2>1. /\ pos' = [pos EXCEPT ![w] = pos[w] + 1] /\ pos[w] + 1 \in Nat
        /\ hpc' = [hpc EXCEPT ![w] = "look"]
        /\ UNCHANGED <<cursor, upper, committed, reserved>>
    BY SMT, <1>1 DEF TypeOK, RingInv, Advance
  <2>2. RingInv'
    BY SMTT(60), <1>0, <1>1, <2>1 DEF TypeOK, RingInv, InBatch
  <2> QED BY <2>1, <2>2 DEF TypeOK, HandlerTypes
<1>2. CASE ~(pos[w] < upper[w])
  <2>1. /\ cursor' = [cursor EXCEPT ![w] = upper[w]] /\ upper[w] \in Nat
        /\ hpc' = [hpc EXCEPT ![w] = "idle"]
        /\ UNCHANGED <<pos, upper, committed, reserved>>
    BY SMT, <1>2 DEF TypeOK, RingInv, Advance
  <2>2. cursor[w] < upper[w] /\ upper[w] \in committed /\ upper[w] <= reserved
    BY SMT, <2>1 DEF TypeOK, RingInv
  <2>3. \A s \in 0..upper[w] : s \in committed
    BY SMT, <2>1 DEF TypeOK, RingInv
  <2>4. RingInv'
    BY SMTT(60), <1>0, <2>1, <2>2, <2>3 DEF TypeOK, RingInv, InBatch
  <2> QED BY <2>1, <2>4 DEF TypeOK, HandlerTypes
<1> QED BY <1>1, <1>2

\* A handler that moves on keeps the invariant, provided that the slots of the
\* other handlers and the place of every job are kept.
LEMMA MoveOnKeeps ==
  ASSUME QueueInv, NEW w \in Workers, InBatch(w), Advance(w), TypeOK', JobInv',
         UNCHANGED <<upper, publishVars>>,
         \A v \in Workers \ {w} :
           /\ cand'[v] = cand[v]
           /\ Owns(v) => /\ slotWorker'[Index(pos[v])] = slotWorker[Index(pos[v])]
                         /\ slotJob'[Index(pos[v])] = slotJob[Index(pos[v])]
  PROVE  QueueInv'
<1> USE DEF QueueInv
<1>1. /\ RingInv'
      /\ hpc' = [hpc EXCEPT ![w] = hpc'[w]] /\ hpc'[w] \in {"look", "idle"}
      /\ \A v \in Workers \ {w} : pos'[v] = pos[v]
  BY SMTT(60), AdvanceKeeps DEF publishVars
<1>2. PublishInv'
  BY DEF PublishInv, Holds, publishVars
<1>3. HandlerInv'
  <2>1. \A v \in Workers \ {w} : hpc'[v] = hpc[v] /\ pos'[v] = pos[v]
    BY <1>1 DEF TypeOK
  <2> QED BY SMT, <1>1, <2>1 DEF SlotInv, HandlerInv, Owns
<1> QED BY <1>1, <1>2, <1>3 DEF SlotInv

\* A step of a handler keeps the invariant.
LEMMA HandlerKeeps ==
  ASSUME QueueInv, NEW w \in Workers, HandlerStep(w)
  PROVE  QueueInv'
<1>0. /\ Capacity \in Nat \ {0} /\ MaxWorkers \in Nat \ {0} /\ NoJob \notin Jobs
      /\ Unassigned \notin Workers /\ Unassigned = -1 /\ w \in Nat
      /\ NoSlotRace
  BY SMT, QueueAssumption, NoRace DEF Workers, Unassigned
<1> USE <1>0 DEF QueueInv
<1>p. InBatch(w) => pos[w] \in Nat /\ Index(pos[w]) \in 0..(Capacity - 1)
  <2>1. InBatch(w) => pos[w] \in Nat
    BY SMT DEF RingInv, TypeOK
  <2> QED BY <2>1, IndexInRing
<1>1. CASE TakeBatch(w)
  <2>0. PICK u \in committed :
          /\ cursor[w] < u
          /\ \A s \in (cursor[w] + 1)..u : s \in committed
          /\ upper' = [upper EXCEPT ![w] = u]
    BY ZenonT(30), <1>1 DEF TakeBatch
  <2>1. /\ hpc[w] = "idle"
        /\ pos' = [pos EXCEPT ![w] = cursor[w] + 1] /\ cursor[w] + 1 \in Nat
        /\ hpc' = [hpc EXCEPT ![w] = "look"] /\ u \in Nat
        /\ UNCHANGED <<publishVars, slotVars, activeWorkers, cand, cursor,
                       metricVars, done, closeVars>>
    BY SMTT(60), <1>1 DEF TakeBatch, TypeOK
  <2>2. TypeOK'
    BY SMTT(60), <2>0, <2>1 DEF TypeOK, publishVars, slotVars, metricVars, closeVars
  <2>3. RingInv'
    <3>1. \A v \in Workers \ {w} :
            hpc'[v] = hpc[v] /\ pos'[v] = pos[v] /\ upper'[v] = upper[v]
      BY <2>0, <2>1 DEF TypeOK
    <3>2. pos'[w] = cursor[w] + 1 /\ upper'[w] = u
      BY <2>0, <2>1 DEF TypeOK
    <3>3. cursor[w] \in Int /\ cursor[w] < cursor[w] + 1 /\ cursor[w] + 1 <= u
      BY SMT, <2>0, <2>1 DEF TypeOK
    <3> QED BY <2>0, <2>1, <3>1, <3>2, <3>3 DEF TypeOK, RingInv, InBatch, publishVars
  <2>4. PublishInv'
    BY <2>1 DEF PublishInv, Holds, publishVars
  <2>5. SlotInv'
    BY <2>1 DEF TypeOK, SlotInv, HandlerInv, JobInv, Owns, publishVars, slotVars
  <2> QED BY <2>2, <2>3, <2>4, <2>5
<1>2. CASE Look(w)
  <2> DEFINE n == IF activeWorkers < 1 THEN 1 ELSE activeWorkers
  <2>0. hpc[w] = "look" /\ InBatch(w)
    BY <1>2 DEF Look, InBatch
  <2>1. CASE slotWorker[Index(pos[w])] = Unassigned
    <3>1. pos[w] % n \in Workers
      <4>1. n \in Nat \ {0} /\ n <= MaxWorkers
        BY SMT DEF TypeOK
      <4> HIDE DEF n
      <4>2. pos[w] % n \in 0..(n - 1)
        BY SMT, <1>p, <2>0, <4>1
      <4> QED BY SMT, <4>1, <4>2 DEF Workers
    <3>2. /\ cand' = [cand EXCEPT ![w] = pos[w] % n]
          /\ hpc' = [hpc EXCEPT ![w] = "assign"]
          /\ UNCHANGED <<pos, cursor, publishVars, slotVars, activeWorkers, upper,
                         metricVars, done, closeVars>>
      BY <1>2, <2>1 DEF Look
    <3> HIDE DEF n
    <3>3. TypeOK'
      BY <3>1, <3>2 DEF TypeOK, publishVars, slotVars, metricVars, closeVars
    <3>4. RingInv'
      BY <2>0, <3>2 DEF TypeOK, RingInv, InBatch, publishVars
    <3>5. PublishInv'
      BY <3>2 DEF PublishInv, Holds, publishVars
    <3>6. SlotInv'
      BY <3>1, <3>2 DEF TypeOK, SlotInv, HandlerInv, JobInv, Owns, publishVars, slotVars
    <3> QED BY <3>3, <3>4, <3>5, <3>6
  <2>2. CASE slotWorker[Index(pos[w])] = w
    <3>1. /\ hpc' = [hpc EXCEPT ![w] = "own"]
          /\ UNCHANGED <<pos, cursor, cand, publishVars, slotVars, activeWorkers,
                         upper, metricVars, done, closeVars>>
      BY <1>2, <2>2 DEF Look, Decide
    <3>2. TypeOK'
      BY SMTT(60), <3>1 DEF TypeOK, publishVars, slotVars, metricVars, closeVars
    <3>3. RingInv'
      BY <2>0, <3>1 DEF TypeOK, RingInv, InBatch, publishVars
    <3>4. PublishInv'
      BY <3>1 DEF PublishInv, Holds, publishVars
    <3>5. SlotInv'
      BY <2>2, <3>1 DEF TypeOK, SlotInv, HandlerInv, JobInv, Owns, publishVars, slotVars
    <3> QED BY <3>2, <3>3, <3>4, <3>5
  <2>3. CASE slotWorker[Index(pos[w])] \notin {Unassigned, w}
    <3>1. /\ Advance(w)
          /\ UNCHANGED <<upper, cand, publishVars, slotVars, activeWorkers, metricVars,
                         done, closeVars>>
      BY <1>2, <2>3 DEF Look, Decide
    <3>2. TypeOK' /\ JobInv'
      <4>1. TypeOK'
        BY ZenonT(30), <2>0, <3>1, AdvanceKeeps DEF TypeOK, HandlerTypes, publishVars, slotVars, metricVars, closeVars
      <4> QED BY SMTT(60), <3>1, <4>1 DEF SlotInv, JobInv, publishVars, slotVars
    <3> QED BY <2>0, <3>1, <3>2, MoveOnKeeps DEF slotVars
  <2> QED BY <2>0, <1>p, <2>1, <2>2, <2>3
<1>3. CASE Assign(w)
  <2> DEFINE i == Index(pos[w])
  <2>0. /\ hpc[w] = "assign" /\ InBatch(w) /\ cand[w] \in Workers
        /\ cand' = [cand EXCEPT ![w] = Unassigned] /\ i \in 0..(Capacity - 1)
        /\ UNCHANGED <<publishVars, slotJob, activeWorkers, upper, metricVars, done,
                       closeVars>>
    BY <1>3, <1>p DEF Assign, InBatch, SlotInv, HandlerInv
  <2> HIDE DEF i
  <2>1. CASE slotWorker[i] # Unassigned
    <3>1. hpc' = [hpc EXCEPT ![w] = "look"] /\ UNCHANGED <<slotWorker, pos, cursor>>
      BY <1>3, <2>1 DEF Assign, i
    <3>2. TypeOK'
      BY SMTT(60), <2>0, <3>1 DEF TypeOK, publishVars, metricVars, closeVars
    <3>3. RingInv'
      BY SMTT(60), <2>0, <3>1 DEF TypeOK, RingInv, InBatch, publishVars
    <3>4. PublishInv'
      BY <2>0 DEF PublishInv, Holds, publishVars
    <3>5. SlotInv'
      BY <2>0, <3>1 DEF TypeOK, SlotInv, HandlerInv, JobInv, Owns, publishVars
    <3> QED BY <3>2, <3>3, <3>4, <3>5
  <2>2. CASE slotWorker[i] = Unassigned
    <3>1. slotWorker' = [slotWorker EXCEPT ![i] = cand[w]] /\ Decide(w, cand[w])
      BY <1>3, <2>2 DEF Assign, i
    <3>2. \A v \in Workers \ {w} : Owns(v) =>
            slotWorker'[Index(pos[v])] = slotWorker[Index(pos[v])]
      BY SMT, <2>2, <3>1 DEF SlotInv, HandlerInv, TypeOK
    <3>3. CASE cand[w] = w
      <4>1. hpc' = [hpc EXCEPT ![w] = "own"] /\ UNCHANGED <<pos, cursor>>
        BY SMTT(60), <3>1, <3>3 DEF Decide
      <4>2. TypeOK'
        BY SMTT(60), <2>0, <3>1, <4>1 DEF TypeOK, publishVars, metricVars, closeVars
      <4>3. RingInv'
        BY <2>0, <4>1 DEF TypeOK, RingInv, InBatch, publishVars
      <4>4. PublishInv'
        BY <2>0 DEF PublishInv, Holds, publishVars
      <4>5. JobInv'
        BY SMTT(60), <2>0 DEF SlotInv, JobInv, publishVars
      <4>6. HandlerInv'
        <5>1. slotWorker'[i] = w
          BY SMTT(60), <2>0, <3>1, <3>3 DEF TypeOK
        <5> QED BY <2>0, <3>2, <4>1, <5>1 DEF TypeOK, SlotInv, HandlerInv, Owns, i
      <4> QED BY <4>2, <4>3, <4>4, <4>5, <4>6 DEF SlotInv
    <3>4. CASE cand[w] # w
      <4>1. Advance(w)
        BY <3>1, <3>4 DEF Decide
      <4>2. TypeOK'
        BY ZenonT(30), <2>0, <3>1, <4>1, AdvanceKeeps DEF TypeOK, HandlerTypes, publishVars, metricVars, closeVars
      <4>3. JobInv'
        BY <2>0 DEF SlotInv, JobInv, publishVars
      <4> QED BY ZenonT(30), <2>0, <3>2, <4>1, <4>2, <4>3, MoveOnKeeps DEF TypeOK
    <3> QED BY <3>3, <3>4
  <2> QED BY <2>1, <2>2
<1>4. CASE StartJob(w) /\ slotJob[Index(pos[w])] = NoJob
  <2>1. /\ hpc[w] = "own" /\ InBatch(w) /\ Advance(w)
        /\ UNCHANGED <<publishVars, slotVars, activeWorkers, upper, cand, metricVars,
                       done, closeVars>>
    BY SMTT(60), <1>4 DEF StartJob, InBatch, metricVars
  <2>2. TypeOK'
    BY ZenonT(30), <2>1, AdvanceKeeps DEF TypeOK, HandlerTypes, publishVars, slotVars, metricVars,
                              closeVars
  <2>3. JobInv'
    BY <2>1 DEF SlotInv, JobInv, publishVars, slotVars
  <2> QED BY <2>1, <2>2, <2>3, MoveOnKeeps DEF slotVars
<1>5. CASE StartJob(w) /\ slotJob[Index(pos[w])] # NoJob
  <2>1. /\ hpc[w] = "own" /\ hpc' = [hpc EXCEPT ![w] = "busy"]
        /\ jobQueueDepth' = jobQueueDepth - 1
        /\ UNCHANGED <<pos, cursor, publishVars, slotVars, activeWorkers, upper, cand,
                       busyWorkers, done, closeVars>>
    BY <1>5 DEF StartJob
  <2>2. TypeOK'
    BY SMTT(60), <2>1 DEF TypeOK, publishVars, slotVars, closeVars
  <2>3. RingInv'
    BY SMTT(60), <2>1 DEF TypeOK, RingInv, InBatch, publishVars
  <2>4. PublishInv'
    BY SMTT(60), <2>1 DEF PublishInv, Holds, publishVars
  <2>5. SlotInv'
    BY SMTT(60), <1>5, <2>1 DEF TypeOK, SlotInv, HandlerInv, JobInv, Owns, publishVars, slotVars
  <2> QED BY <2>2, <2>3, <2>4, <2>5
<1>6. CASE IncBusyWorker(w)
  <2>1. /\ hpc[w] = "busy" /\ hpc' = [hpc EXCEPT ![w] = "run"]
        /\ busyWorkers' = busyWorkers + 1
        /\ UNCHANGED <<pos, cursor, publishVars, slotVars, activeWorkers, upper, cand,
                       jobQueueDepth, done, closeVars>>
    BY <1>6 DEF IncBusyWorker
  <2>2. TypeOK'
    BY SMTT(60), <2>1 DEF TypeOK, publishVars, slotVars, closeVars
  <2>3. RingInv'
    BY SMTT(60), <2>1 DEF TypeOK, RingInv, InBatch, publishVars
  <2>4. PublishInv'
    BY SMTT(60), <2>1 DEF PublishInv, Holds, publishVars
  <2>5. SlotInv'
    BY SMTT(60), <2>1 DEF TypeOK, SlotInv, HandlerInv, JobInv, Owns, publishVars, slotVars
  <2> QED BY <2>2, <2>3, <2>4, <2>5
<1>7. CASE FinishJob(w)
  <2> DEFINE i == Index(pos[w])
  <2>1. /\ hpc[w] = "run" /\ InBatch(w) /\ Advance(w)
        /\ i \in 0..(Capacity - 1) /\ slotJob[i] \in Jobs
        /\ done' = done \cup {slotJob[i]}
        /\ slotJob' = [slotJob EXCEPT ![i] = NoJob]
        /\ busyWorkers' = busyWorkers - 1
        /\ UNCHANGED <<publishVars, slotWorker, activeWorkers, upper, cand,
                       jobQueueDepth, closeVars>>
    BY <1>7, <1>p DEF FinishJob, InBatch, SlotInv, HandlerInv, TypeOK
  <2>2. \A v \in Workers \ {w} : Owns(v) => Index(pos[v]) # i
    BY ZenonT(30), <2>1 DEF NoSlotRace, Owns
  <2>3. pc[slotJob[i]] = "published" /\ Index(seq[slotJob[i]]) = i
    BY <2>1 DEF NoSlotRace, SlotInv, JobInv
  <2> HIDE DEF i
  <2>4. TypeOK'
    <3>1. HandlerTypes'
      BY <2>1, AdvanceKeeps DEF publishVars
    <3> QED BY SMTT(60), <2>1, <3>1 DEF TypeOK, HandlerTypes, publishVars, closeVars
  <2>5. JobInv'
    BY <2>1, <2>3 DEF TypeOK, SlotInv, JobInv, publishVars
  <2>6. \A v \in Workers \ {w} : Owns(v) => slotJob'[Index(pos[v])] = slotJob[Index(pos[v])]
    BY SMT, <2>1, <2>2 DEF TypeOK
  <2> QED BY ZenonT(30), <2>1, <2>4, <2>5, <2>6, MoveOnKeeps
<1>8. CASE HandlerExit(w)
  <2>1. /\ hpc[w] = "idle" /\ hpc' = [hpc EXCEPT ![w] = "exited"]
        /\ UNCHANGED <<publishVars, slotVars, activeWorkers, pos, upper, cand, cursor,
                       metricVars, done, closeVars>>
    BY <1>8 DEF HandlerExit
  <2>2. TypeOK'
    BY <2>1 DEF TypeOK, publishVars, slotVars, metricVars, closeVars
  <2>3. RingInv'
    BY <2>1 DEF TypeOK, RingInv, InBatch, publishVars
  <2>4. PublishInv'
    BY SMTT(60), <2>1 DEF PublishInv, Holds, publishVars
  <2>5. SlotInv'
    BY <2>1 DEF TypeOK, SlotInv, HandlerInv, JobInv, Owns, publishVars, slotVars
  <2> QED BY <2>2, <2>3, <2>4, <2>5
<1> QED
  BY <1>1, <1>2, <1>3, <1>4, <1>5, <1>6, <1>7, <1>8 DEF HandlerStep

\* Every step keeps the invariant.
LEMMA QueueStep == QueueInv /\ [Next]_vars => QueueInv'
<1> SUFFICES ASSUME QueueInv, [Next]_vars PROVE QueueInv'
  OBVIOUS
<1>1. ASSUME NEW j \in Jobs, Offer(j) \/ PublishStep(j) PROVE QueueInv'
  BY <1>1, PublishKeeps
<1>2. ASSUME NEW w \in Workers, HandlerStep(w) PROVE QueueInv'
  BY <1>2, HandlerKeeps
<1>3. CASE \/ \E n \in 0..MaxWorkers : SetActiveWorkers(n)
           \/ CancelPool \/ CloseQueue \/ CloseDisruptor \/ CloseReturns
           \/ UNCHANGED vars
  <2>1. UNCHANGED <<publishVars, slotVars, handlerVars, metricVars, done>>
    BY SMTT(60), <1>3 DEF SetActiveWorkers, CancelPool, CloseQueue, CloseDisruptor, CloseReturns,
                vars, publishVars, slotVars, handlerVars, metricVars
  <2>2. activeWorkers' \in 0..MaxWorkers
    BY SMTT(60), <1>3, QueueAssumption DEF QueueInv, TypeOK, SetActiveWorkers, CancelPool,
       CloseQueue, CloseDisruptor, CloseReturns, vars
  <2>3. cancelled' \in BOOLEAN
    BY ZenonT(30), <1>3 DEF QueueInv, TypeOK, SetActiveWorkers, CancelPool, CloseQueue,
       CloseDisruptor, CloseReturns, closeVars, vars
  <2>4. life' \in {"open", "closed", "draining", "returned"} /\ sealed' \subseteq Nat
    BY ZenonT(30), <1>3 DEF QueueInv, TypeOK, SetActiveWorkers, CancelPool, CloseQueue,
       CloseDisruptor, CloseReturns, closeVars, vars
  <2>5. TypeOK'
    BY SMTT(60), <2>1, <2>2, <2>3, <2>4 DEF QueueInv, TypeOK, publishVars, slotVars, handlerVars,
                                  metricVars
  <2>6. RingInv'
    BY ZenonT(30), <2>1 DEF QueueInv, RingInv, InBatch, publishVars, handlerVars
  <2>7. PublishInv'
    BY <2>1 DEF QueueInv, PublishInv, Holds, publishVars
  <2>8. SlotInv'
    BY <2>1 DEF QueueInv, SlotInv, HandlerInv, JobInv, Owns, publishVars, slotVars,
                handlerVars
  <2> QED BY SMTT(60), <2>5, <2>6, <2>7, <2>8 DEF QueueInv
<1> QED
  BY <1>1, <1>2, <1>3 DEF Next

\* For any number of jobs, handlers and slots the queue keeps its types; the
\* worker a slot is assigned to (assignedWorker) always exists.
THEOREM TypeCorrect == Spec => []TypeOK
<1>1. QueueInv => TypeOK
  BY DEF QueueInv
<1> QED
  BY QueueInit, QueueStep, <1>1, PTL DEF Spec

\* No publisher and handler, no two publishers and no two owners are ever in one
\* slot at a time, although publish and Handle access kind and job without
\* synchronisation.
THEOREM SlotsNotRaced == Spec => []NoSlotRace
BY QueueInit, QueueStep, NoRace, PTL DEF Spec

\* A slot's assignment never changes while a handler is at its sequence: FillSlot
\* works on other slots, and a compare-and-swap from unassigned fails.
THEOREM AssignmentStands == Spec => AssignmentStable
<1>1. QueueInv /\ [Next]_vars =>
        [\A w \in Workers :
           (InBatch(w) /\ slotWorker[Index(pos[w])] # Unassigned) =>
             slotWorker'[Index(pos[w])] = slotWorker[Index(pos[w])]]_vars
  <2> SUFFICES ASSUME QueueInv, Next, NEW w \in Workers, InBatch(w),
                      slotWorker[Index(pos[w])] # Unassigned
               PROVE  slotWorker'[Index(pos[w])] = slotWorker[Index(pos[w])]
    OBVIOUS
  <2>0. NoSlotRace /\ TypeOK
    BY SMTT(60), NoRace DEF QueueInv
  <2>1. ASSUME NEW j \in Jobs, FillSlot(j)
        PROVE  slotWorker'[Index(pos[w])] = slotWorker[Index(pos[w])]
    BY SMTT(60), <2>0, <2>1 DEF NoSlotRace, FillSlot, TypeOK
  <2>2. ASSUME NEW v \in Workers, Assign(v)
        PROVE  slotWorker'[Index(pos[w])] = slotWorker[Index(pos[w])]
    <3>1. CASE slotWorker[Index(pos[v])] = Unassigned
      <4>1. /\ Index(pos[w]) # Index(pos[v])
            /\ slotWorker' = [slotWorker EXCEPT ![Index(pos[v])] = cand[v]]
        BY Zenon, <2>2, <3>1 DEF Assign
      <4>2. pos[w] \in Nat
        BY SMT, <2>0 DEF QueueInv, RingInv, TypeOK
      <4>3. Index(pos[w]) \in 0..(Capacity - 1)
        BY SMTT(60), <4>2, IndexInRing
      <4> QED BY SMTT(60), <2>0, <4>1, <4>3 DEF TypeOK
    <3>2. CASE slotWorker[Index(pos[v])] # Unassigned
      BY <2>2, <3>2 DEF Assign
    <3> QED BY <3>1, <3>2
  <2>3. CASE UNCHANGED slotWorker
    BY <2>3
  <2>4. ASSUME NEW j \in Jobs, Offer(j) \/ CheckOpen(j) \/ Reserve(j) \/ Commit(j)
        PROVE  UNCHANGED slotWorker
    BY SMTT(60), <2>4 DEF Offer, CheckOpen, Reserve, Commit, slotVars
  <2>5. ASSUME NEW v \in Workers,
               \/ TakeBatch(v) \/ Look(v) \/ StartJob(v) \/ IncBusyWorker(v)
               \/ FinishJob(v) \/ HandlerExit(v)
        PROVE  UNCHANGED slotWorker
    BY SMTT(60), <2>5 DEF TakeBatch, Look, StartJob, IncBusyWorker, FinishJob, HandlerExit,
                          slotVars
  <2>6. CASE \/ \E n \in 0..MaxWorkers : SetActiveWorkers(n)
             \/ CancelPool \/ CloseQueue \/ CloseDisruptor \/ CloseReturns
    BY ZenonT(60), <2>6 DEF SetActiveWorkers, CancelPool, CloseQueue, CloseDisruptor, CloseReturns,
                slotVars
  <2> QED
    BY <2>1, <2>2, <2>3, <2>4, <2>5, <2>6 DEF Next, PublishStep, HandlerStep
<1> QED
  BY QueueInit, QueueStep, <1>1, PTL DEF Spec, AssignmentStable

-----------------------------------------------------------------------------
(* What a step starts and finishes *)

\* A running job is published, not yet done, and in nobody else's hands.
LEMMA RunningJob ==
  ASSUME QueueInv
  PROVE  /\ \A w \in Workers : hpc[w] \in {"busy", "run"} =>
              /\ Running(w) \in Jobs \ done
              /\ pc[Running(w)] = "published"
              /\ Index(seq[Running(w)]) = Index(pos[w])
         /\ \A v, w \in Workers :
              (v # w /\ Running(v) = Running(w)) => Running(v) = NoJob
<1>0. NoSlotRace /\ TypeOK /\ SlotInv /\ RingInv
  BY NoRace DEF QueueInv
<1>1. ASSUME NEW w \in Workers, InBatch(w), slotJob[Index(pos[w])] # NoJob
      PROVE  /\ slotJob[Index(pos[w])] \in Jobs \ done
             /\ pc[slotJob[Index(pos[w])]] = "published"
             /\ Index(seq[slotJob[Index(pos[w])]]) = Index(pos[w])
  <2>1. pos[w] \in Nat
    BY SMT, <1>0, <1>1 DEF RingInv, TypeOK
  <2>2. Index(pos[w]) \in 0..(Capacity - 1)
    BY <2>1, IndexInRing
  <2> QED BY SMT, <1>0, <1>1, <2>2 DEF SlotInv, JobInv, NoSlotRace, TypeOK
<1>2. \A w \in Workers : hpc[w] \in {"busy", "run"} =>
        InBatch(w) /\ slotJob[Index(pos[w])] # NoJob
  BY <1>0 DEF SlotInv, HandlerInv, InBatch
<1>3. \A v, w \in Workers :
        (v # w /\ Running(v) = Running(w)) => Running(v) = NoJob
  BY SMT, <1>0, <1>1, <1>2 DEF Running, NoSlotRace, Owns
<1> QED BY <1>1, <1>2, <1>3 DEF Running

\* No step of publish starts or finishes a job: FillSlot writes a slot that no
\* handler is in.
LEMMA PublishRuns ==
  ASSUME QueueInv, NEW j \in Jobs, Offer(j) \/ PublishStep(j)
  PROVE  /\ UNCHANGED <<hpc, pos, done>> /\ pc' = [pc EXCEPT ![j] = pc'[j]]
         /\ \A w \in Workers : Running(w)' = Running(w)
         /\ \A k \in Jobs : Started(k)' <=> Started(k)
         /\ pc[j] # "published" => ~Started(j)
<1>0. NoSlotRace /\ TypeOK /\ \A k \in done : pc[k] = "published"
  BY NoRace DEF QueueInv, SlotInv, JobInv
<1>1. \A w \in Workers : hpc[w] \in {"busy", "run"} => pc[Running(w)] = "published"
  BY RunningJob
<1>2. pc[j] # "published" => ~Started(j)
  BY SMT, <1>0, <1>1, QueueAssumption DEF Started, Running
<1>3. UNCHANGED <<hpc, pos, done>>
  BY DEF Offer, PublishStep, CheckOpen, Reserve, FillSlot, Commit, handlerVars
<1>4. \A w \in Workers : Running(w)' = Running(w)
  <2>1. CASE FillSlot(j)
    BY SMT, <1>0, <1>3, <2>1 DEF FillSlot, NoSlotRace, InBatch, Running, TypeOK
  <2>2. CASE ~FillSlot(j)
    <3>1. UNCHANGED slotJob
      BY <2>2 DEF Offer, PublishStep, CheckOpen, Reserve, Commit, slotVars
    <3> QED BY <1>3, <3>1 DEF Running
  <2> QED BY <2>1, <2>2
<1>5. \A k \in Jobs : Started(k)' <=> Started(k)
  BY <1>3, <1>4 DEF Started
<1>6. pc' = [pc EXCEPT ![j] = pc'[j]]
  BY <1>0 DEF Offer, PublishStep, CheckOpen, Reserve, FillSlot, Commit, TypeOK
<1> QED BY <1>2, <1>3, <1>4, <1>5, <1>6

\* A handler's step that does not start or finish a job leaves every job where it
\* is.
LEMMA HandlerPasses ==
  ASSUME QueueInv, NEW w \in Workers, HandlerStep(w), ~FinishJob(w), ~IncBusyWorker(w),
         ~(StartJob(w) /\ slotJob[Index(pos[w])] # NoJob)
  PROVE  /\ hpc[w] \notin {"busy", "run"} /\ hpc'[w] \notin {"busy", "run"} /\ UNCHANGED <<pc, slotJob, done, metricVars>>
         /\ \A v \in Workers \ {w} : hpc'[v] = hpc[v]
         /\ \A v \in Workers : Running(v)' = Running(v)
<1>0. TypeOK
  BY DEF QueueInv
<1>1. ASSUME Advance(w)
      PROVE  hpc'[w] \notin {"busy", "run"} /\ \A v \in Workers \ {w} : hpc'[v] = hpc[v] /\ pos'[v] = pos[v]
  BY <1>0, <1>1 DEF Advance, TypeOK
<1>2. /\ hpc[w] \notin {"busy", "run"} /\ hpc'[w] \notin {"busy", "run"} /\ UNCHANGED <<slotJob, done>>
      /\ \A v \in Workers \ {w} : hpc'[v] = hpc[v] /\ pos'[v] = pos[v]
  <2>1. CASE TakeBatch(w) \/ HandlerExit(w)
    BY <1>0, <2>1 DEF TakeBatch, HandlerExit, TypeOK, slotVars
  <2>2. CASE Look(w)
    BY <1>0, <1>1, <2>2 DEF Look, Decide, TypeOK, slotVars
  <2>3. CASE Assign(w)
    BY <1>0, <1>1, <2>3 DEF Assign, Decide, TypeOK, slotVars
  <2>4. CASE StartJob(w)
    BY <1>1, <2>4 DEF StartJob, slotVars
  <2> QED BY <2>1, <2>2, <2>3, <2>4 DEF HandlerStep
<1>3. UNCHANGED <<pc, metricVars>>
  BY ZenonT(30) DEF HandlerStep, TakeBatch, Look, Assign, StartJob, HandlerExit, publishVars,
                    metricVars
<1>4. \A v \in Workers : Running(v)' = Running(v)
  BY <1>2 DEF Running
<1> QED BY <1>2, <1>3, <1>4

\* handleJob starts a job that was published, had not been started, and is in
\* nobody else's hands.
LEMMA JobStarts ==
  ASSUME QueueInv, NEW w \in Workers, StartJob(w), slotJob[Index(pos[w])] # NoJob
  PROVE  /\ hpc[w] = "own" /\ hpc' = [hpc EXCEPT ![w] = "busy"] /\ UNCHANGED <<pc, done>>
         /\ \E j \in Jobs \ done :
              /\ pc[j] = "published" /\ Running(w) = NoJob /\ Running(w)' = j
              /\ \A v \in Workers \ {w} : Running(v)' = Running(v)
              /\ Started(j)' /\ ~Started(j)
              /\ \A k \in Jobs \ {j} : Started(k)' <=> Started(k)
<1>0. NoSlotRace /\ TypeOK /\ NoJob \notin Jobs /\ UNCHANGED pc
  BY NoRace, QueueAssumption DEF QueueInv, StartJob, publishVars
<1>1. /\ hpc[w] = "own" /\ hpc' = [hpc EXCEPT ![w] = "busy"]
      /\ UNCHANGED <<pos, slotJob, done>> /\ InBatch(w)
  BY DEF StartJob, slotVars, InBatch
<1>2. PICK j \in Jobs \ done :
        /\ j = slotJob[Index(pos[w])] /\ pc[j] = "published"
        /\ Index(seq[j]) = Index(pos[w])
  <2>1. pos[w] \in Nat
    BY SMT, <1>1 DEF QueueInv, RingInv, TypeOK
  <2>2. Index(pos[w]) \in 0..(Capacity - 1)
    BY <2>1, IndexInRing
  <2> QED BY SMT, <1>0, <1>1, <2>2 DEF QueueInv, SlotInv, JobInv, NoSlotRace, TypeOK
<1>3. \A v \in Workers : Running(v) # j
  <2> SUFFICES ASSUME NEW v \in Workers, Running(v) = j PROVE FALSE
    OBVIOUS
  <2>1. hpc[v] \in {"busy", "run"} /\ v # w
    BY <1>0, <1>1, <1>2 DEF Running
  <2>2. Index(pos[v]) = Index(pos[w])
    BY <1>2, <2>1, RunningJob
  <2> QED BY <1>0, <1>1, <2>1, <2>2 DEF NoSlotRace, Owns
<1>4. Running(w) = NoJob /\ Running(w)' = j
      /\ \A v \in Workers \ {w} : Running(v)' = Running(v)
  BY <1>0, <1>1, <1>2 DEF Running, TypeOK
<1>5. Started(j)' /\ ~Started(j) /\ \A k \in Jobs \ {j} : Started(k)' <=> Started(k)
  <2>1. ~Started(j)
    BY <1>2, <1>3 DEF Started
  <2>2. Started(j)'
    BY <1>4 DEF Started
  <2>3. ASSUME NEW k \in Jobs \ {j} PROVE Started(k)' <=> Started(k)
    BY <1>0, <1>1, <1>4 DEF Started
  <2> QED BY <2>1, <2>2, <2>3
<1> QED BY <1>0, <1>1, <1>2, <1>4, <1>5

\* The step from decJobQueued to incBusyWorker changes nothing but the handler's
\* place and the counter.
LEMMA BusyCounted ==
  ASSUME QueueInv, NEW w \in Workers, IncBusyWorker(w)
  PROVE  /\ hpc[w] = "busy" /\ hpc' = [hpc EXCEPT ![w] = "run"]
         /\ busyWorkers' = busyWorkers + 1
         /\ UNCHANGED <<pc, slotJob, done, jobQueueDepth>>
         /\ \A v \in Workers : Running(v)' = Running(v)
<1>1. /\ hpc[w] = "busy" /\ hpc' = [hpc EXCEPT ![w] = "run"]
      /\ busyWorkers' = busyWorkers + 1
      /\ UNCHANGED <<pc, pos, slotJob, done, jobQueueDepth>>
  BY DEF IncBusyWorker, publishVars, slotVars
<1>2. \A v \in Workers : Running(v)' = Running(v)
  BY <1>1 DEF QueueInv, TypeOK, Running
<1> QED BY <1>1, <1>2

\* processJob returns: the job is done and its handler free, and nothing else has
\* started or finished.
LEMMA JobFinishes ==
  ASSUME QueueInv, NEW w \in Workers, FinishJob(w)
  PROVE  /\ hpc[w] = "run" /\ hpc'[w] \notin {"busy", "run"} /\ UNCHANGED pc
         /\ \A v \in Workers \ {w} : hpc'[v] = hpc[v]
         /\ \E j \in Jobs \ done :
              /\ pc[j] = "published" /\ Running(w) = j /\ Running(w)' = NoJob
              /\ done' = done \cup {j}
              /\ \A v \in Workers \ {w} : Running(v)' = Running(v)
              /\ \A k \in Jobs : Started(k)' <=> Started(k)
<1>j. PICK j : j = slotJob[Index(pos[w])]
  OBVIOUS
<1>0. NoSlotRace /\ TypeOK /\ NoJob \notin Jobs /\ UNCHANGED pc
  BY NoRace, QueueAssumption DEF QueueInv, FinishJob, publishVars
<1>1. /\ hpc[w] = "run" /\ done' = done \cup {j} /\ Advance(w)
      /\ slotJob' = [slotJob EXCEPT ![Index(pos[w])] = NoJob]
      /\ j = Running(w)
  BY <1>j DEF FinishJob, Running
<1>2. j \in Jobs \ done /\ pc[j] = "published" /\ \A v \in Workers \ {w} : Running(v) # j
  BY <1>0, <1>1, RunningJob
<1>3. /\ hpc'[w] \notin {"busy", "run"}
      /\ \A v \in Workers \ {w} : hpc'[v] = hpc[v] /\ pos'[v] = pos[v]
  BY <1>0, <1>1 DEF Advance, TypeOK
<1>4. Running(w)' = NoJob /\ \A v \in Workers \ {w} : Running(v)' = Running(v)
  BY SMT, <1>0, <1>1, <1>3 DEF Running, NoSlotRace, Owns, TypeOK
<1>5. \A k \in Jobs \ {j} : Started(k)' <=> Started(k)
  BY ZenonT(30), <1>0, <1>1, <1>2, <1>4 DEF Started
<1>6. Started(j) /\ Started(j)'
  BY <1>1 DEF Started
<1> QED BY <1>0, <1>1, <1>2, <1>3, <1>4, <1>5, <1>6

-----------------------------------------------------------------------------
(* The queue implements WorkPool: under the invariant every step maps to a *)
(* step of the pool or to a stutter.                                       *)

\* What the pool does not see: a step that starts and finishes nothing and that
\* changes no outcome of publish.
LEMMA PoolStutters ==
  ASSUME QueueInv, \A w \in Workers : Running(w)' = Running(w), done' = done,
         \A j \in Jobs : /\ pc'[j] = "published" <=> pc[j] = "published"
                         /\ pc'[j] = "failed" <=> pc[j] = "failed"
  PROVE  UNCHANGED <<poolStatus, poolRunning>>
<1>1. \A j \in Jobs : Started(j)' <=> Started(j)
  BY DEF Started
<1>2. poolRunning' = poolRunning
  BY DEF poolRunning
<1>3. poolStatus' = poolStatus
  BY <1>1 DEF poolStatus
<1> QED BY <1>2, <1>3

\* A step of publish is invisible to the pool, or rejects or accepts the job.
LEMMA PublishRefines ==
  ASSUME QueueInv, NEW j \in Jobs, Offer(j) \/ PublishStep(j)
  PROVE  Pool!Reject(j) \/ Pool!Accept(j) \/ UNCHANGED <<poolStatus, poolRunning>>
<1>0. TypeOK /\ pc' = [pc EXCEPT ![j] = pc'[j]] /\ UNCHANGED done
  BY PublishRuns DEF QueueInv
<1>1. \A w \in Workers : Running(w)' = Running(w)
  BY PublishRuns
<1>2. pc[j] # "published" => ~Started(j)
  BY PublishRuns
<1>3. \A k \in Jobs : Started(k)' <=> Started(k)
  BY PublishRuns
<1>4. poolRunning' = poolRunning
  BY <1>1 DEF poolRunning
<1>5. CASE pc[j] # "published" /\ pc[j] # "failed" /\ pc'[j] = "failed"
  <2>1. poolStatus[j] = "offered"
    BY <1>2, <1>5 DEF poolStatus, Started
  <2>2. poolStatus' = [poolStatus EXCEPT ![j] = "rejected"]
    BY ZenonT(30), <1>0, <1>2, <1>3, <1>5 DEF poolStatus, Started, TypeOK
  <2> QED BY <1>4, <2>1, <2>2 DEF Pool!Reject
<1>6. CASE pc[j] # "published" /\ pc[j] # "failed" /\ pc'[j] = "published"
  <2>1. poolStatus[j] = "offered"
    BY <1>2, <1>6 DEF poolStatus, Started
  <2>2. poolStatus' = [poolStatus EXCEPT ![j] = "accepted"]
    BY ZenonT(60), <1>0, <1>2, <1>3, <1>6 DEF poolStatus, Started, TypeOK
  <2> QED BY <1>4, <2>1, <2>2 DEF Pool!Accept
<1>7. CASE pc'[j] \notin {"published", "failed"} /\ pc[j] \notin {"published", "failed"}
  BY <1>0, <1>1, <1>7, PoolStutters DEF TypeOK
<1> QED
  BY <1>5, <1>6, <1>7 DEF Offer, PublishStep, CheckOpen, Reserve, FillSlot, Commit

\* A step of a handler is invisible to the pool, or starts or finishes a job.
LEMMA HandlerRefines ==
  ASSUME QueueInv, NEW w \in Workers, HandlerStep(w)
  PROVE  \/ Pool!Finish(w) \/ \E j \in Jobs : Pool!Start(w, j)
         \/ UNCHANGED <<poolStatus, poolRunning>>
<1>0. NoJob \notin Jobs
  BY QueueAssumption
<1>1. CASE /\ ~FinishJob(w) /\ ~IncBusyWorker(w)
           /\ ~(StartJob(w) /\ slotJob[Index(pos[w])] # NoJob)
  <2>1. UNCHANGED <<pc, done>> /\ \A v \in Workers : Running(v)' = Running(v)
    BY <1>1, HandlerPasses
  <2> QED BY <2>1, PoolStutters
<1>2. CASE StartJob(w) /\ slotJob[Index(pos[w])] # NoJob
  <2>1. UNCHANGED <<pc, done>>
    BY <1>2, JobStarts
  <2>2. PICK j \in Jobs \ done :
          /\ pc[j] = "published" /\ Running(w) = NoJob /\ Running(w)' = j
          /\ \A v \in Workers \ {w} : Running(v)' = Running(v)
          /\ Started(j)' /\ ~Started(j)
          /\ \A k \in Jobs \ {j} : Started(k)' <=> Started(k)
    BY <1>2, JobStarts
  <2>3. poolRunning[w] = NoJob /\ poolRunning' = [poolRunning EXCEPT ![w] = j]
    BY ZenonT(30), <2>2 DEF poolRunning
  <2>4. poolStatus[j] = "accepted" /\ poolStatus' = [poolStatus EXCEPT ![j] = "running"]
    BY ZenonT(30), <2>1, <2>2 DEF poolStatus
  <2> QED BY <2>3, <2>4 DEF Pool!Start
<1>3. CASE FinishJob(w)
  <2>1. UNCHANGED pc
    BY <1>3, JobFinishes
  <2>2. PICK j \in Jobs \ done :
          /\ pc[j] = "published" /\ Running(w) = j /\ Running(w)' = NoJob
          /\ done' = done \cup {j}
          /\ \A v \in Workers \ {w} : Running(v)' = Running(v)
          /\ \A k \in Jobs : Started(k)' <=> Started(k)
    BY <1>3, JobFinishes
  <2>3. poolRunning[w] = j /\ poolRunning' = [poolRunning EXCEPT ![w] = NoJob]
    BY ZenonT(30), <2>2 DEF poolRunning
  <2>4. poolStatus' = [poolStatus EXCEPT ![j] = "done"]
    BY ZenonT(30), <2>1, <2>2 DEF poolStatus
  <2> QED BY <1>0, <2>2, <2>3, <2>4 DEF Pool!Finish
<1>4. CASE IncBusyWorker(w)
  <2>1. UNCHANGED <<pc, done>> /\ \A v \in Workers : Running(v)' = Running(v)
    BY <1>4, BusyCounted
  <2> QED BY <2>1, PoolStutters
<1> QED BY <1>1, <1>2, <1>3, <1>4

\* For any number of jobs, handlers and slots the disruptor queue implements the
\* pool: no job runs twice, on two workers, before it is accepted or after publish
\* has reported an error.
THEOREM QueueImplementsPool == Spec => ImplementsWorkPool
<1>1. Init => Pool!PoolInit
  <2> SUFFICES ASSUME Init PROVE Pool!PoolInit
    OBVIOUS
  <2>1. \A w \in Workers : Running(w) = NoJob
    BY DEF Init, Running
  <2>2. \A j \in Jobs : ~Started(j) /\ pc[j] = "idle"
    BY <2>1, QueueAssumption DEF Init, Started
  <2> QED BY <2>1, <2>2 DEF Pool!PoolInit, poolStatus, poolRunning, Started
<1>2. QueueInv /\ [Next]_vars => [Pool!PoolNext]_<<poolStatus, poolRunning>>
  <2> SUFFICES ASSUME QueueInv, [Next]_vars
               PROVE  Pool!PoolNext \/ UNCHANGED <<poolStatus, poolRunning>>
    OBVIOUS
  <2>1. ASSUME NEW j \in Jobs, Offer(j) \/ PublishStep(j)
        PROVE  Pool!PoolNext \/ UNCHANGED <<poolStatus, poolRunning>>
    BY <2>1, PublishRefines DEF Pool!PoolNext
  <2>2. ASSUME NEW w \in Workers, HandlerStep(w)
        PROVE  Pool!PoolNext \/ UNCHANGED <<poolStatus, poolRunning>>
    BY <2>2, HandlerRefines DEF Pool!PoolNext
  <2>3. CASE \/ \E n \in 0..MaxWorkers : SetActiveWorkers(n)
             \/ CancelPool \/ CloseQueue \/ CloseDisruptor \/ CloseReturns
             \/ UNCHANGED vars
    <3>1. UNCHANGED <<pc, slotJob, hpc, pos, done>>
      BY <2>3 DEF SetActiveWorkers, CancelPool, CloseQueue, CloseDisruptor, CloseReturns,
                  vars, publishVars, slotVars, handlerVars
    <3>2. \A w \in Workers : Running(w)' = Running(w)
      BY <3>1 DEF Running
    <3> QED BY <3>1, <3>2, PoolStutters
  <2> QED BY <2>1, <2>2, <2>3 DEF Next
<1> QED
  BY QueueInit, QueueStep, <1>1, <1>2, PTL DEF Spec, ImplementsWorkPool, Pool!PoolSpec,
     Pool!poolVars
-----------------------------------------------------------------------------
(* The counters agree with the ring *)

Unstarted == {j \in Jobs : pc[j] \in {"commit", "published"} /\ ~Started(j)}
Busy == {w \in Workers : hpc[w] = "run"}

MetricsInv == QueueInv /\ MetricsAgree

\* The sets the counters count are finite.
LEMMA CountedFinite ==
  /\ IsFiniteSet(Unstarted) /\ IsFiniteSet(Busy)
  /\ Cardinality(Unstarted) \in Nat /\ Cardinality(Busy) \in Nat
<1>1. IsFiniteSet(Jobs) /\ Unstarted \subseteq Jobs
  BY QueueAssumption DEF Unstarted
<1>2. IsFiniteSet(Workers) /\ Busy \subseteq Workers
  BY SMT, QueueAssumption, FS_Interval DEF Workers, Busy
<1> QED BY <1>1, <1>2, FS_Subset, FS_CardinalityType

\* publish counts a job when it writes it to its slot, and nothing else.
LEMMA PublishCounts ==
  ASSUME MetricsInv, NEW j \in Jobs, Offer(j) \/ PublishStep(j)
  PROVE  MetricsAgree'
<1>0. /\ TypeOK /\ UNCHANGED hpc /\ pc' = [pc EXCEPT ![j] = pc'[j]]
      /\ \A k \in Jobs : Started(k)' <=> Started(k)
      /\ pc[j] # "published" => ~Started(j)
  BY PublishRuns DEF MetricsInv, QueueInv
<1>1. Busy' = Busy /\ UNCHANGED busyWorkers
  BY <1>0 DEF Busy, Offer, PublishStep, CheckOpen, Reserve, FillSlot, Commit, metricVars
<1>2. jobQueueDepth' = Cardinality(Unstarted')
  <2>1. CASE FillSlot(j)
    <3>1. /\ pc[j] = "fill" /\ pc'[j] = "commit" /\ ~Started(j)
          /\ jobQueueDepth' = jobQueueDepth + 1
      BY <1>0, <2>1 DEF FillSlot, TypeOK
    <3>2. Unstarted' = Unstarted \cup {j} /\ j \notin Unstarted
      BY <1>0, <3>1 DEF Unstarted, TypeOK
    <3>3. Cardinality(Unstarted') = Cardinality(Unstarted) + 1
      BY <3>2, CountedFinite, FS_AddElement
    <3> QED BY <3>1, <3>3 DEF MetricsInv, MetricsAgree, Unstarted
  <2>2. CASE ~FillSlot(j)
    <3>1. /\ UNCHANGED jobQueueDepth
          /\ pc[j] \in {"commit", "published"} <=> pc'[j] \in {"commit", "published"}
      BY <1>0, <2>2 DEF Offer, PublishStep, CheckOpen, Reserve, Commit, metricVars, TypeOK
    <3>2. Unstarted' = Unstarted
      BY <1>0, <3>1 DEF Unstarted, TypeOK
    <3> QED BY <3>1, <3>2 DEF MetricsInv, MetricsAgree, Unstarted
  <2> QED BY <2>1, <2>2
<1> QED BY <1>1, <1>2 DEF MetricsInv, MetricsAgree, Unstarted, Busy

\* handleJob takes a job out of the depth as it starts it, then counts its handler
\* as busy until processJob returns.
LEMMA HandlerCounts ==
  ASSUME MetricsInv, NEW w \in Workers, HandlerStep(w)
  PROVE  MetricsAgree'
<1>0. /\ QueueInv /\ TypeOK
      /\ jobQueueDepth = Cardinality(Unstarted) /\ busyWorkers = Cardinality(Busy)
  BY DEF MetricsInv, QueueInv, MetricsAgree, Unstarted, Busy
<1>1. CASE /\ ~FinishJob(w) /\ ~IncBusyWorker(w)
           /\ ~(StartJob(w) /\ slotJob[Index(pos[w])] # NoJob)
  <2>1. /\ hpc[w] \notin {"busy", "run"} /\ hpc'[w] \notin {"busy", "run"}
        /\ UNCHANGED <<pc, done, metricVars>>
        /\ \A v \in Workers \ {w} : hpc'[v] = hpc[v]
        /\ \A v \in Workers : Running(v)' = Running(v)
    BY <1>0, <1>1, HandlerPasses
  <2>2. Unstarted' = Unstarted
    BY <2>1 DEF Unstarted, Started
  <2>3. Busy' = Busy
    BY <2>1 DEF Busy
  <2> QED BY <1>0, <2>1, <2>2, <2>3 DEF MetricsAgree, Unstarted, Busy, metricVars
<1>2. CASE StartJob(w) /\ slotJob[Index(pos[w])] # NoJob
  <2>1. /\ hpc[w] = "own" /\ hpc' = [hpc EXCEPT ![w] = "busy"] /\ UNCHANGED pc
        /\ jobQueueDepth' = jobQueueDepth - 1 /\ UNCHANGED busyWorkers
    BY <1>2 DEF StartJob, publishVars
  <2>2. PICK j \in Jobs \ done :
          /\ pc[j] = "published" /\ Started(j)' /\ ~Started(j)
          /\ \A k \in Jobs \ {j} : Started(k)' <=> Started(k)
    BY <1>0, <1>2, JobStarts
  <2>3. Unstarted' = Unstarted \ {j} /\ j \in Unstarted
    BY <2>1, <2>2 DEF Unstarted
  <2>4. Busy' = Busy
    BY <1>0, <2>1 DEF Busy, TypeOK
  <2>5. Cardinality(Unstarted') = Cardinality(Unstarted) - 1
    BY <2>3, CountedFinite, FS_RemoveElement
  <2> QED BY <1>0, <2>1, <2>4, <2>5 DEF MetricsAgree, Unstarted, Busy
<1>3. CASE FinishJob(w)
  <2>1. /\ hpc[w] = "run" /\ hpc'[w] \notin {"busy", "run"} /\ UNCHANGED pc
        /\ \A v \in Workers \ {w} : hpc'[v] = hpc[v]
        /\ \A k \in Jobs : Started(k)' <=> Started(k)
    BY <1>0, <1>3, JobFinishes
  <2>2. busyWorkers' = busyWorkers - 1 /\ UNCHANGED jobQueueDepth
    BY <1>3 DEF FinishJob
  <2>3. Unstarted' = Unstarted
    BY <2>1 DEF Unstarted
  <2>4. Busy' = Busy \ {w} /\ w \in Busy
    BY <2>1 DEF Busy
  <2>5. Cardinality(Busy') = Cardinality(Busy) - 1
    BY <2>4, CountedFinite, FS_RemoveElement
  <2> QED BY <1>0, <2>2, <2>3, <2>5 DEF MetricsAgree, Unstarted, Busy
<1>4. CASE IncBusyWorker(w)
  <2>1. /\ hpc[w] = "busy" /\ hpc' = [hpc EXCEPT ![w] = "run"]
        /\ busyWorkers' = busyWorkers + 1 /\ UNCHANGED <<pc, done, jobQueueDepth>>
        /\ \A v \in Workers : Running(v)' = Running(v)
    BY <1>0, <1>4, BusyCounted
  <2>2. Unstarted' = Unstarted
    BY <2>1 DEF Unstarted, Started
  <2>3. Busy' = Busy \cup {w} /\ w \notin Busy
    BY <1>0, <2>1 DEF Busy, TypeOK
  <2>4. Cardinality(Busy') = Cardinality(Busy) + 1
    BY <2>3, CountedFinite, FS_AddElement
  <2> QED BY <1>0, <2>1, <2>2, <2>4 DEF MetricsAgree, Unstarted, Busy
<1> QED BY <1>1, <1>2, <1>3, <1>4

\* For any number of jobs, handlers and slots, jobQueueDepth is the number of jobs
\* written to the ring and not yet started, so it is never negative, and
\* busyWorkers the number of handlers inside processJob, however the publishers
\* and the handlers interleave.
THEOREM CountersAgree == Spec => []MetricsAgree
<1>1. Init => MetricsInv
  <2> SUFFICES ASSUME Init PROVE MetricsAgree
    BY QueueInit DEF MetricsInv
  <2>1. Unstarted = {} /\ Busy = {}
    BY DEF Init, Unstarted, Busy
  <2>2. jobQueueDepth = Cardinality(Unstarted) /\ busyWorkers = Cardinality(Busy)
    BY <2>1, FS_EmptySet DEF Init
  <2> QED BY <2>2 DEF MetricsAgree, Unstarted, Busy
<1>2. MetricsInv /\ [Next]_vars => MetricsInv'
  <2> SUFFICES ASSUME MetricsInv, [Next]_vars PROVE MetricsInv'
    OBVIOUS
  <2>0. QueueInv'
    BY QueueStep DEF MetricsInv
  <2>1. ASSUME NEW j \in Jobs, Offer(j) \/ PublishStep(j) PROVE MetricsAgree'
    BY <2>1, PublishCounts
  <2>2. ASSUME NEW w \in Workers, HandlerStep(w) PROVE MetricsAgree'
    BY <2>2, HandlerCounts
  <2>3. CASE \/ \E n \in 0..MaxWorkers : SetActiveWorkers(n)
             \/ CancelPool \/ CloseQueue \/ CloseDisruptor \/ CloseReturns
             \/ UNCHANGED vars
    <3>1. UNCHANGED <<pc, slotJob, hpc, pos, done, metricVars>>
      BY <2>3 DEF SetActiveWorkers, CancelPool, CloseQueue, CloseDisruptor, CloseReturns,
                  vars, publishVars, slotVars, handlerVars, metricVars
    <3>2. Unstarted' = Unstarted /\ Busy' = Busy
      BY <3>1 DEF Unstarted, Busy, Started, Running
    <3> QED BY <2>0, <3>1, <3>2 DEF MetricsInv, MetricsAgree, Unstarted, Busy, metricVars
  <2> QED BY <2>0, <2>1, <2>2, <2>3 DEF Next, MetricsInv
<1>3. MetricsInv => MetricsAgree
  BY DEF MetricsInv
<1> QED
  BY <1>1, <1>2, <1>3, PTL DEF Spec

-----------------------------------------------------------------------------
(* Close drains the ring *)

\* A job that lies in the ring, and a handler that has still to come to it.
Waits(j) == pc[j] \in {"commit", "published"} /\ j \notin done
Ahead(w, s) == cursor[w] < s /\ (InBatch(w) => pos[w] <= s)

\* A job stays in its slot until it is done, and neither the handler it is
\* assigned to nor, while it is unassigned, any handler has gone past it.
PlaceInv ==
  /\ \A j \in Jobs : pc[j] = "published" => seq[j] \in committed
  /\ \A j \in Jobs : Waits(j) =>
       /\ slotJob[Index(seq[j])] = j
       /\ \A w \in Workers :
            slotWorker[Index(seq[j])] \in {Unassigned, w} => Ahead(w, seq[j])

\* What was sealed is behind every handler that has left, and Close returns after
\* the last of them.
SealInv ==
  /\ \A s \in sealed : 0..s \subseteq committed
  /\ \A w \in Workers : hpc[w] = "exited" =>
       life \in {"draining", "returned"} /\ \A s \in sealed : s <= cursor[w]
  /\ life = "returned" => \A w \in Workers : hpc[w] = "exited"

DrainInv == QueueInv /\ PlaceInv /\ SealInv

\* A job in the ring has a sequence and a slot.
LEMMA WaitsInRing ==
  ASSUME QueueInv, PlaceInv, NEW j \in Jobs, Waits(j)
  PROVE  seq[j] \in 0..reserved /\ seq[j] \in Nat /\ Index(seq[j]) \in 0..(Capacity - 1)
<1>1. seq[j] \in 0..reserved /\ seq[j] \in Nat
  <2>1. CASE pc[j] = "commit"
    BY SMT, <2>1 DEF QueueInv, TypeOK, PublishInv, Holds
  <2>2. CASE pc[j] = "published"
    BY SMT, <2>2 DEF QueueInv, TypeOK, RingInv, PlaceInv
  <2> QED BY <2>1, <2>2 DEF Waits
<1> QED BY <1>1, IndexInRing

\* Every handler has still to come to a sequence that is not committed.
LEMMA UncommittedAhead ==
  ASSUME TypeOK, RingInv, NEW s \in Nat, s \notin committed, NEW w \in Workers
  PROVE  Ahead(w, s)
<1>1. cursor[w] \in Nat \cup {-1} /\ pos[w] \in Nat \cup {-1} /\ upper[w] \in Nat \cup {-1}
  BY DEF TypeOK
<1>2. cursor[w] < s
  <2>1. s \in 0..cursor[w] => s \in committed
    BY DEF RingInv
  <2> QED BY SMT, <1>1, <2>1
<1>3. InBatch(w) => pos[w] <= s
  <2>1. InBatch(w) =>
          pos[w] <= upper[w] /\ (s \in (cursor[w] + 1)..upper[w] => s \in committed)
    BY DEF RingInv
  <2> QED BY SMT, <1>1, <1>2, <2>1
<1> QED BY <1>2, <1>3 DEF Ahead

\* publish never overwrites a job: some handler has still to come to it, and the
\* gate of TryReserve keeps the publisher less than a lap ahead of that one.
LEMMA FillsFreeSlot ==
  ASSUME QueueInv, PlaceInv, NEW j \in Jobs, pc[j] = "fill", NEW k \in Jobs \ {j}, Waits(k)
  PROVE  Index(seq[k]) # Index(seq[j])
<1>0. /\ Capacity \in Nat \ {0} /\ 0 \in Workers /\ TypeOK /\ RingInv /\ NoSlotRace
      /\ Unassigned = -1
  BY SMT, QueueAssumption, NoRace DEF QueueInv, Workers, Unassigned
<1>1. CASE pc[k] = "commit"
  BY <1>0, <1>1 DEF NoSlotRace
<1>2. CASE pc[k] = "published"
  <2>1. seq[k] \in 0..reserved /\ seq[k] \in Nat /\ Index(seq[k]) \in 0..(Capacity - 1)
    BY WaitsInRing
  <2>2. PICK v \in Workers : slotWorker[Index(seq[k])] \in {Unassigned, v}
    BY <1>0, <2>1 DEF TypeOK
  <2>3. cursor[v] < seq[k]
    BY <2>2 DEF PlaceInv, Ahead
  <2>4. seq[j] \in 0..reserved /\ seq[j] \in Nat /\ seq[j] \notin committed
    BY SMT DEF QueueInv, PublishInv, Holds, TypeOK
  <2>5. cursor[v] < seq[j] /\ reserved <= cursor[v] + Capacity /\ cursor[v] \in Int
        /\ reserved \in Int
    BY SMT, <1>0, <2>4 DEF TypeOK, RingInv
  <2>6. seq[k] # seq[j]
    BY <1>2, <2>4 DEF PlaceInv
  <2>7. seq[k] - seq[j] < Capacity /\ seq[j] - seq[k] < Capacity
    BY SMT, <1>0, <2>1, <2>3, <2>4, <2>5
  <2> QED BY <2>1, <2>4, <2>6, <2>7, IndexInjective
<1> QED BY <1>1, <1>2 DEF Waits

\* publish keeps every job in its place and adds its own.
LEMMA PublishPlaces ==
  ASSUME QueueInv, PlaceInv, NEW j \in Jobs, Offer(j) \/ PublishStep(j)
  PROVE  PlaceInv'
<1>0. /\ TypeOK /\ RingInv /\ UNCHANGED <<hpc, pos, cursor, done>>
      /\ pc' = [pc EXCEPT ![j] = pc'[j]]
  BY ZenonT(30), PublishRuns DEF QueueInv, Offer, PublishStep, CheckOpen, Reserve, FillSlot,
     Commit, handlerVars
<1>1. \A w \in Workers, s \in Nat : Ahead(w, s)' <=> Ahead(w, s)
  BY <1>0 DEF Ahead, InBatch
<1>2. CASE FillSlot(j)
  <2>1. /\ pc[j] = "fill" /\ pc' = [pc EXCEPT ![j] = "commit"] /\ UNCHANGED <<seq, committed>>
        /\ slotWorker' = [slotWorker EXCEPT ![Index(seq[j])] = Unassigned]
        /\ slotJob' = [slotJob EXCEPT ![Index(seq[j])] = j]
    BY <1>2 DEF FillSlot
  <2>2. seq[j] \in Nat /\ seq[j] \notin committed /\ Index(seq[j]) \in 0..(Capacity - 1)
    BY SMT, <2>1, IndexInRing DEF QueueInv, PublishInv, Holds, TypeOK
  <2>3. \A w \in Workers : Ahead(w, seq[j])
    BY <1>0, <2>2, UncommittedAhead
  <2>4. ASSUME NEW k \in Jobs, pc'[k] = "published" PROVE seq'[k] \in committed'
    BY <1>0, <2>1, <2>4 DEF PlaceInv, TypeOK
  <2>5. ASSUME NEW k \in Jobs \ {j}, Waits(k)'
        PROVE  /\ slotJob'[Index(seq[k])] = k /\ seq[k] \in Nat
               /\ \A w \in Workers :
                    slotWorker'[Index(seq[k])] \in {Unassigned, w} => Ahead(w, seq[k])
    <3>1. Waits(k)
      BY <1>0, <2>1, <2>5 DEF Waits, TypeOK
    <3>2. /\ Index(seq[k]) # Index(seq[j]) /\ seq[k] \in Nat
          /\ Index(seq[k]) \in 0..(Capacity - 1)
      BY <2>1, <3>1, FillsFreeSlot, WaitsInRing
    <3>3. /\ slotWorker'[Index(seq[k])] = slotWorker[Index(seq[k])]
          /\ slotJob'[Index(seq[k])] = slotJob[Index(seq[k])]
      BY <1>0, <2>1, <3>2 DEF TypeOK
    <3> QED BY <3>1, <3>2, <3>3 DEF PlaceInv
  <2>6. slotJob'[Index(seq[j])] = j
    BY <1>0, <2>1, <2>2 DEF TypeOK
  <2> QED BY <1>1, <2>1, <2>2, <2>3, <2>4, <2>5, <2>6 DEF PlaceInv
<1>3. CASE Commit(j)
  <2>1. /\ pc[j] = "commit" /\ pc' = [pc EXCEPT ![j] = "published"]
        /\ committed' = committed \cup {seq[j]} /\ UNCHANGED <<seq, slotWorker, slotJob>>
    BY <1>3 DEF Commit, slotVars
  <2>2. \A k \in Jobs : Waits(k)' <=> Waits(k)
    BY <1>0, <2>1 DEF Waits, TypeOK
  <2>3. \A k \in Jobs : Waits(k) => seq[k] \in Nat
    BY WaitsInRing
  <2> QED BY SMT, <1>0, <1>1, <2>1, <2>2, <2>3 DEF PlaceInv, TypeOK, Index
<1>4. CASE ~FillSlot(j) /\ ~Commit(j)
  <2>1. /\ pc[j] \notin {"commit", "published"} /\ pc'[j] \notin {"commit", "published"}
        /\ UNCHANGED <<committed, slotWorker, slotJob>>
        /\ \A k \in Jobs \ {j} : seq'[k] = seq[k]
    BY <1>0, <1>4 DEF Offer, PublishStep, CheckOpen, Reserve, slotVars, TypeOK
  <2>2. \A k \in Jobs : (Waits(k)' <=> Waits(k)) /\ (Waits(k) => k # j)
    BY <1>0, <2>1 DEF Waits, TypeOK
  <2>3. \A k \in Jobs : Waits(k) => seq[k] \in Nat
    BY WaitsInRing
  <2> QED BY SMT, <1>0, <1>1, <2>1, <2>2, <2>3 DEF PlaceInv, TypeOK, Index
<1> QED BY <1>2, <1>3, <1>4

\* A handler that moves on, and neither passes a job it has to run nor one that
\* nobody has been assigned, keeps every job in its place.
LEMMA MovePlaces ==
  ASSUME QueueInv, PlaceInv, NEW w \in Workers, InBatch(w), Advance(w),
         UNCHANGED <<upper, publishVars>>, done \subseteq done',
         \A j \in Jobs : Waits(j)' =>
           /\ slotJob'[Index(seq[j])] = j
           /\ \A v \in Workers : slotWorker'[Index(seq[j])] \in {Unassigned, v} =>
                /\ slotWorker[Index(seq[j])] \in {Unassigned, v}
                /\ v = w => pos[w] # seq[j]
  PROVE  PlaceInv'
<1>0. TypeOK /\ RingInv /\ UNCHANGED <<pc, seq, committed>>
  BY DEF QueueInv, publishVars
<1>1. ASSUME NEW v \in Workers, NEW s \in Nat, Ahead(v, s), v = w => pos[w] # s
      PROVE  Ahead(v, s)'
  <2>0. cursor[w] \in Int /\ pos[w] \in Int /\ upper[w] \in Int /\ pos[w] <= upper[w]
    BY SMT, <1>0 DEF TypeOK, RingInv
  <2>1. CASE v # w
    BY SMT, <1>0, <1>1, <2>1 DEF Advance, Ahead, InBatch, TypeOK
  <2>2. CASE v = w
    <3>0. pos[w] <= s /\ pos[w] # s
      BY <1>1, <2>2 DEF Ahead
    <3>1. pos[w] < s
      BY SMT, <2>0, <3>0
    <3>2. CASE pos[w] < upper[w]
      BY SMTT(30), <1>0, <1>1, <2>0, <2>2, <3>1, <3>2 DEF Advance, Ahead, TypeOK
    <3>3. CASE ~(pos[w] < upper[w])
      BY SMTT(30), <1>0, <2>0, <2>2, <3>1, <3>3 DEF Advance, Ahead, InBatch, TypeOK
    <3> QED BY <3>2, <3>3
  <2> QED BY <2>1, <2>2
<1>2. ASSUME NEW j \in Jobs, Waits(j)' PROVE Waits(j) /\ seq[j] \in Nat
  <2>1. Waits(j)
    BY <1>0, <1>2 DEF Waits
  <2> QED BY <2>1, WaitsInRing
<1> QED BY <1>0, <1>1, <1>2 DEF PlaceInv

\* A handler that stays at its sequence, or goes to the one behind its cursor,
\* keeps every job in its place.
LEMMA StayPlaces ==
  ASSUME QueueInv, PlaceInv, UNCHANGED <<publishVars, slotJob, cursor, done>>,
         \A v \in Workers : InBatch(v)' =>
           \/ InBatch(v) /\ pos'[v] = pos[v]
           \/ pos'[v] = cursor[v] + 1,
         \A j \in Jobs, v \in Workers :
           (Waits(j) /\ slotWorker'[Index(seq[j])] \in {Unassigned, v}) =>
             slotWorker[Index(seq[j])] \in {Unassigned, v}
  PROVE  PlaceInv'
<1>0. TypeOK /\ UNCHANGED <<pc, seq, committed>>
  BY DEF QueueInv, publishVars
<1>1. ASSUME NEW v \in Workers, NEW s \in Nat, Ahead(v, s) PROVE Ahead(v, s)'
  BY SMTT(30), <1>0, <1>1 DEF Ahead, TypeOK
<1>2. \A j \in Jobs : (Waits(j)' <=> Waits(j)) /\ (Waits(j) => seq[j] \in Nat)
  BY <1>0, WaitsInRing DEF Waits
<1> QED BY <1>0, <1>1, <1>2 DEF PlaceInv

\* A handler's step keeps every job in its place until the job is done.
LEMMA HandlerPlaces ==
  ASSUME QueueInv, PlaceInv, NEW w \in Workers, HandlerStep(w)
  PROVE  PlaceInv'
<1>0. /\ TypeOK /\ RingInv /\ NoJob \notin Jobs /\ UNCHANGED publishVars
      /\ Unassigned \notin Workers
  <2>1. UNCHANGED publishVars
    BY ZenonT(30) DEF HandlerStep, TakeBatch, Look, Assign, StartJob, IncBusyWorker, FinishJob,
                      HandlerExit
  <2>2. Unassigned \notin Workers
    BY SMT, QueueAssumption DEF Workers, Unassigned
  <2> QED BY <2>1, <2>2, QueueAssumption DEF QueueInv
<1>p. \A j \in Jobs : Waits(j) =>
        slotJob[Index(seq[j])] = j /\ Index(seq[j]) \in 0..(Capacity - 1)
  BY WaitsInRing DEF PlaceInv
<1>q. InBatch(w) => Index(pos[w]) \in 0..(Capacity - 1)
  <2>1. InBatch(w) => pos[w] \in Nat
    BY SMT, <1>0 DEF RingInv, TypeOK
  <2> QED BY <2>1, IndexInRing
<1>1. CASE TakeBatch(w) \/ IncBusyWorker(w) \/ HandlerExit(w)
  <2>1. UNCHANGED <<slotWorker, slotJob, cursor, done>>
    BY ZenonT(30), <1>1 DEF TakeBatch, IncBusyWorker, HandlerExit, slotVars
  <2>2. \A v \in Workers : InBatch(v)' =>
          (InBatch(v) /\ pos'[v] = pos[v]) \/ pos'[v] = cursor[v] + 1
    BY SMT, <1>0, <1>1 DEF TakeBatch, IncBusyWorker, HandlerExit, InBatch, TypeOK
  <2> QED BY <1>0, <2>1, <2>2, StayPlaces
<1>2. CASE Look(w)
  <2>0. UNCHANGED <<slotWorker, slotJob, done, upper>> /\ InBatch(w)
    BY <1>2 DEF Look, slotVars, InBatch
  <2>1. CASE slotWorker[Index(pos[w])] \notin {Unassigned, w}
    <3>1. Advance(w)
      BY <1>2, <2>1 DEF Look, Decide
    <3>2. \A j \in Jobs : Waits(j)' => Waits(j)
      BY <1>0, <2>0 DEF Waits, publishVars
    <3> QED BY <1>0, <1>p, <2>0, <2>1, <3>1, <3>2, MovePlaces
  <2>2. CASE slotWorker[Index(pos[w])] \in {Unassigned, w}
    <3>1. UNCHANGED <<pos, cursor>> /\ \A v \in Workers : InBatch(v)' => InBatch(v)
      BY <1>0, <1>2, <2>2 DEF Look, Decide, InBatch, TypeOK
    <3> QED BY <1>0, <2>0, <3>1, StayPlaces
  <2> QED BY <2>1, <2>2
<1>3. CASE Assign(w)
  <2>0. UNCHANGED <<slotJob, done, upper>> /\ InBatch(w) /\ hpc[w] = "assign" /\ cand[w] \in Workers
    BY <1>3 DEF Assign, InBatch, QueueInv, SlotInv, HandlerInv
  <2>1. CASE slotWorker[Index(pos[w])] = Unassigned
    <3>0. slotWorker' = [slotWorker EXCEPT ![Index(pos[w])] = cand[w]] /\ Decide(w, cand[w])
      BY <1>3, <2>1 DEF Assign
    <3>1. ASSUME NEW j \in Jobs, Waits(j), NEW v \in Workers,
                 slotWorker'[Index(seq[j])] \in {Unassigned, v}
          PROVE  /\ slotWorker[Index(seq[j])] \in {Unassigned, v}
                 /\ pos[w] = seq[j] => v = cand[w]
      BY <1>0, <1>p, <1>q, <2>0, <2>1, <3>0, <3>1 DEF TypeOK
    <3>2. CASE cand[w] = w
      <4>1. UNCHANGED <<pos, cursor>> /\ \A v \in Workers : InBatch(v)' => InBatch(v)
        BY <1>0, <2>0, <3>0, <3>2 DEF Decide, InBatch, TypeOK
      <4> QED BY <1>0, <2>0, <3>1, <4>1, StayPlaces
    <3>3. CASE cand[w] # w
      <4>1. Advance(w)
        BY <3>0, <3>3 DEF Decide
      <4>2. \A j \in Jobs : Waits(j)' => Waits(j)
        BY <1>0, <2>0 DEF Waits, publishVars
      <4> QED BY <1>0, <1>p, <2>0, <3>1, <3>3, <4>1, <4>2, MovePlaces
    <3> QED BY <3>2, <3>3
  <2>2. CASE slotWorker[Index(pos[w])] # Unassigned
    <3>1. UNCHANGED <<slotWorker, pos, cursor>> /\ \A v \in Workers : InBatch(v)' => InBatch(v)
      BY <1>0, <1>3, <2>2 DEF Assign, InBatch, TypeOK
    <3> QED BY <1>0, <2>0, <3>1, StayPlaces
  <2> QED BY <2>1, <2>2
<1>4. CASE StartJob(w)
  <2>0. UNCHANGED <<slotWorker, slotJob, done, upper>> /\ InBatch(w)
    BY <1>4 DEF StartJob, slotVars, InBatch
  <2>1. CASE slotJob[Index(pos[w])] = NoJob
    <3>1. Advance(w)
      BY <1>4, <2>1 DEF StartJob
    <3>2. \A j \in Jobs : Waits(j)' => Waits(j)
      BY <1>0, <2>0 DEF Waits, publishVars
    <3>3. \A j \in Jobs : Waits(j) => pos[w] # seq[j]
      BY <1>0, <1>p, <2>1
    <3> QED BY <1>0, <1>p, <2>0, <3>1, <3>2, <3>3, MovePlaces
  <2>2. CASE slotJob[Index(pos[w])] # NoJob
    <3>1. UNCHANGED <<pos, cursor>> /\ \A v \in Workers : InBatch(v)' => InBatch(v)
      BY <1>0, <1>4, <2>2 DEF StartJob, InBatch, TypeOK
    <3> QED BY <1>0, <2>0, <3>1, StayPlaces
  <2> QED BY <2>1, <2>2
<1>5. CASE FinishJob(w)
  <2>0. /\ UNCHANGED <<slotWorker, upper>> /\ InBatch(w) /\ Advance(w)
        /\ done' = done \cup {slotJob[Index(pos[w])]}
        /\ slotJob' = [slotJob EXCEPT ![Index(pos[w])] = NoJob]
    BY <1>5 DEF FinishJob, InBatch
  <2>1. ASSUME NEW j \in Jobs, Waits(j)'
        PROVE  Waits(j) /\ Index(seq[j]) # Index(pos[w])
    <3>1. Waits(j) /\ j # slotJob[Index(pos[w])]
      BY <1>0, <2>0, <2>1 DEF Waits, publishVars
    <3> QED BY <1>p, <3>1
  <2>2. ASSUME NEW j \in Jobs, Waits(j)'
        PROVE  slotJob'[Index(seq[j])] = j /\ pos[w] # seq[j]
    BY <1>0, <1>p, <2>0, <2>1, <2>2 DEF TypeOK
  <2> QED BY <1>0, <2>0, <2>1, <2>2, MovePlaces
<1> QED BY <1>1, <1>2, <1>3, <1>4, <1>5 DEF HandlerStep

\* A handler leaves when the sequence behind its cursor is not committed: what was
\* sealed lies behind it.
LEMMA HandlerSeals ==
  ASSUME QueueInv, SealInv, NEW w \in Workers, HandlerStep(w)
  PROVE  SealInv'
<1>0. TypeOK /\ RingInv /\ UNCHANGED <<committed, life, sealed>>
  BY ZenonT(30) DEF QueueInv, HandlerStep, TakeBatch, Look, Assign, StartJob, IncBusyWorker,
     FinishJob, HandlerExit, publishVars, closeVars
<1>1. hpc[w] # "exited"
  BY DEF HandlerStep, TakeBatch, Look, Assign, StartJob, IncBusyWorker, FinishJob, HandlerExit
<1>2. CASE HandlerExit(w)
  <2>1. /\ life = "draining" /\ cursor[w] + 1 \notin committed
        /\ hpc' = [hpc EXCEPT ![w] = "exited"] /\ UNCHANGED cursor
    BY <1>2 DEF HandlerExit
  <2>2. ASSUME NEW s \in sealed PROVE s <= cursor[w]
    <3>1. s \in Nat /\ 0..s \subseteq committed /\ cursor[w] \in Nat \cup {-1}
      BY <1>0, <2>2 DEF SealInv, TypeOK
    <3>2. s > cursor[w] => cursor[w] + 1 \in 0..s
      BY SMT, <3>1
    <3> QED BY SMT, <2>1, <3>1, <3>2
  <2> QED BY <1>0, <2>1, <2>2 DEF SealInv, TypeOK
<1>3. CASE ~HandlerExit(w)
  <2>1. /\ hpc'[w] # "exited"
        /\ \A v \in Workers \ {w} : hpc'[v] = hpc[v] /\ cursor'[v] = cursor[v]
    <3>1. CASE TakeBatch(w)
      BY <1>0, <3>1 DEF TakeBatch, TypeOK
    <3>2. CASE Look(w) \/ Assign(w)
      BY <1>0, <3>2 DEF Look, Assign, Decide, Advance, TypeOK
    <3>3. CASE StartJob(w) \/ IncBusyWorker(w) \/ FinishJob(w)
      BY <1>0, <3>3 DEF StartJob, IncBusyWorker, FinishJob, Advance, TypeOK
    <3> QED BY <1>3, <3>1, <3>2, <3>3 DEF HandlerStep
  <2> QED BY <1>0, <1>1, <2>1 DEF SealInv
<1> QED BY <1>2, <1>3

\* Every step keeps the drain invariant.
LEMMA DrainStep == DrainInv /\ [Next]_vars => DrainInv'
<1> SUFFICES ASSUME DrainInv, [Next]_vars PROVE DrainInv'
  OBVIOUS
<1>0. QueueInv' /\ QueueInv /\ PlaceInv /\ SealInv /\ TypeOK
  BY QueueStep DEF DrainInv, QueueInv
<1>1. ASSUME NEW j \in Jobs, Offer(j) \/ PublishStep(j) PROVE DrainInv'
  <2>1. UNCHANGED <<hpc, cursor, life, sealed>> /\ committed \subseteq committed'
    BY ZenonT(30), <1>1 DEF Offer, PublishStep, CheckOpen, Reserve, FillSlot, Commit, handlerVars,
       closeVars
  <2>2. SealInv'
    BY <1>0, <2>1 DEF SealInv
  <2> QED BY <1>0, <1>1, <2>2, PublishPlaces DEF DrainInv
<1>2. ASSUME NEW w \in Workers, HandlerStep(w) PROVE DrainInv'
  BY <1>0, <1>2, HandlerPlaces, HandlerSeals DEF DrainInv
<1>3. CASE \/ \E n \in 0..MaxWorkers : SetActiveWorkers(n)
           \/ CancelPool \/ CloseQueue \/ CloseDisruptor \/ CloseReturns
           \/ UNCHANGED vars
  <2>1. UNCHANGED <<publishVars, slotVars, handlerVars, done>>
    BY <1>3 DEF SetActiveWorkers, CancelPool, CloseQueue, CloseDisruptor, CloseReturns, vars,
       publishVars, slotVars, handlerVars
  <2>2. PlaceInv'
    BY ZenonT(30), <1>0, <2>1 DEF PlaceInv, Waits, Ahead, InBatch, publishVars, slotVars, handlerVars
  <2>3. SealInv'
    <3>1. CASE CloseDisruptor
      <4>1. /\ life = "closed" /\ life' = "draining"
            /\ sealed' = {s \in committed : 0..s \subseteq committed}
        BY <3>1 DEF CloseDisruptor
      <4>2. \A w \in Workers : hpc'[w] # "exited"
        BY <1>0, <2>1, <4>1 DEF SealInv, handlerVars
      <4> QED BY <2>1, <4>1, <4>2 DEF SealInv, publishVars
    <3>2. CASE ~CloseDisruptor
      <4>1. /\ UNCHANGED <<hpc, cursor, committed, sealed>>
            /\ \/ UNCHANGED life
               \/ life \in {"open", "closed"} /\ life' = "closed"
               \/ /\ life = "draining" /\ life' = "returned"
                  /\ \A w \in Workers : hpc[w] = "exited"
        BY <1>3, <2>1, <3>2 DEF SetActiveWorkers, CancelPool, CloseQueue, CloseReturns, vars, publishVars,
           handlerVars, closeVars
      <4> QED BY <1>0, <4>1 DEF SealInv
    <3> QED BY <3>1, <3>2
  <2> QED BY <1>0, <2>2, <2>3 DEF DrainInv
<1> QED BY <1>1, <1>2, <1>3 DEF Next

\* For any number of jobs, handlers and slots: when Close has returned, every job
\* in the ring's committed prefix at the time the disruptor was closed has been
\* processed.  A handler leaves only behind that prefix, and no handler goes past
\* a job that is assigned to it or not assigned at all.
THEOREM CloseDrains == Spec => []DrainedOnClose
<1>1. Init => DrainInv
  <2> SUFFICES ASSUME Init PROVE DrainInv
    OBVIOUS
  <2>1. PlaceInv /\ SealInv
    BY DEF Init, PlaceInv, SealInv, Waits
  <2> QED BY <2>1, QueueInit DEF DrainInv
<1>2. DrainInv => DrainedOnClose
  <2> SUFFICES ASSUME DrainInv, life = "returned", NEW j \in Jobs, pc[j] = "published",
                      seq[j] \in sealed, j \notin done
               PROVE  FALSE
    BY DEF DrainedOnClose
  <2>1. QueueInv /\ PlaceInv /\ SealInv /\ TypeOK /\ Waits(j)
    BY DEF DrainInv, QueueInv, Waits
  <2>2. Index(seq[j]) \in 0..(Capacity - 1) /\ seq[j] \in Nat /\ 0 \in Workers
    BY SMT, <2>1, WaitsInRing, QueueAssumption DEF Workers
  <2>3. PICK v \in Workers : slotWorker[Index(seq[j])] \in {Unassigned, v}
    BY <2>1, <2>2 DEF TypeOK
  <2>4. cursor[v] < seq[j]
    BY <2>1, <2>3 DEF PlaceInv, Ahead
  <2>5. seq[j] <= cursor[v]
    BY <2>1 DEF SealInv
  <2>6. cursor[v] \in Int
    BY SMT, <2>1 DEF TypeOK
  <2> QED BY SMT, <2>2, <2>4, <2>5, <2>6
<1> QED
  BY <1>1, <1>2, DrainStep, PTL DEF Spec
=============================================================================
