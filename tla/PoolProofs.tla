------------------------------ MODULE PoolProofs ------------------------------
(***************************************************************************)
(* Proofs about the pool. Scaler, for any number of calls of Observe: the  *)
(* queue spreads jobs over handlers it has, and the worker count is the    *)
(* number of registered workers and of those on their way in or out; for   *)
(* calls that do not overlap, the queue is told that count, and the        *)
(* minimum is kept. Pool, the life of a job, for any jobs: it waits for    *)
(* the values of its dependencies, its outcome is recorded once, and       *)
(* nothing executes once Close has returned.                               *)
(***************************************************************************)
EXTENDS Scaler, Pool, FiniteSetTheorems, TLAPS

-----------------------------------------------------------------------------
(* The scaler *)

\* The labels of a call that holds a worker the registry does not.
Held == {"push", "dec"}

\* The inductive invariant.  The bound on what a call has loaded is what makes the
\* bound on activeWorkers inductive; the count is above zero whenever it is
\* decremented because the worker is still in Moving or held by Close.
ScalerInv ==
  /\ workerCount \in 0..MaxWorkers
  /\ tokens \in Nat
  /\ ActiveInRange
  /\ opc \in [Observers -> Labels]
  /\ loaded \in [Observers -> 0..MaxWorkers]
  /\ close \in {"open", "pop", "dec", "done"}
  /\ TokensCounted

\* Moving is finite, so that its cardinality is a number.
LEMMA MovingFinite == IsFiniteSet(Moving) /\ Cardinality(Moving) \in Nat
<1>1. Moving \subseteq Observers
  BY DEF Moving
<1>2. IsFiniteSet(Moving)
  BY <1>1, ScalerAssumption, FS_Subset
<1> QED
  BY <1>2, FS_CardinalityType

\* A call that takes hold of a worker: one more is moving.
LEMMA MovesIn ==
  ASSUME opc \in [Observers -> Labels], NEW o \in Observers, opc[o] \notin Held,
         NEW l \in Held, opc' = [opc EXCEPT ![o] = l]
  PROVE  Cardinality(Moving') = Cardinality(Moving) + 1
<1>1. Moving' = Moving \cup {o}
  BY DEF Moving, Held
<1>2. o \notin Moving
  BY DEF Moving, Held
<1> QED
  BY ZenonT(30), <1>1, <1>2, MovingFinite, FS_AddElement

\* A call that lets go of it: one fewer.
LEMMA MovesOut ==
  ASSUME opc \in [Observers -> Labels], NEW o \in Observers, opc[o] \in Held,
         NEW l \in Labels, l \notin Held, opc' = [opc EXCEPT ![o] = l]
  PROVE  Cardinality(Moving') = Cardinality(Moving) - 1 /\ Cardinality(Moving) > 0
<1>1. Moving' = Moving \ {o}
  BY DEF Moving, Held
<1>2. o \in Moving
  BY DEF Moving, Held
<1>3. Cardinality(Moving') = Cardinality(Moving) - 1
  BY SMTT(60), <1>1, <1>2, MovingFinite, FS_RemoveElement
<1>4. IsFiniteSet(Moving') /\ Cardinality(Moving') \in Nat
  BY <1>1, MovingFinite, FS_Subset, FS_CardinalityType
<1> QED
  BY <1>3, <1>4, MovingFinite

\* A call that moves on without either.
LEMMA MovesOn ==
  ASSUME opc \in [Observers -> Labels], NEW o \in Observers, opc[o] \notin Held,
         NEW l \in Labels, l \notin Held, opc' = [opc EXCEPT ![o] = l]
  PROVE  Cardinality(Moving') = Cardinality(Moving)
<1>1. Moving' = Moving
  BY DEF Moving, Held
<1> QED
  BY <1>1

\* Steps of a call that change neither the pool nor what was loaded, but its label.
LEMMA LabelStep ==
  ASSUME ScalerInv, NEW o \in Observers, opc[o] \notin Held,
         NEW l \in Labels, l \notin Held, opc' = [opc EXCEPT ![o] = l],
         UNCHANGED <<workerCount, tokens, activeWorkers, loaded, close>>
  PROVE  ScalerInv'
<1>1. Cardinality(Moving') = Cardinality(Moving)
  BY ZenonT(60), MovesOn DEF ScalerInv
<1> QED
  BY <1>1 DEF ScalerInv, ActiveInRange, TokensCounted

\* It holds initially.
LEMMA InitInv == ScalerInit => ScalerInv
<1> SUFFICES ASSUME ScalerInit PROVE ScalerInv
  OBVIOUS
<1>1. Moving = {}
  BY DEF ScalerInit, Moving
<1>2. Cardinality(Moving) = 0
  BY <1>1, FS_EmptySet
<1> QED
  BY <1>2, ScalerAssumption DEF ScalerInit, ScalerInv, ActiveInRange, TokensCounted, Labels

\* Every step keeps the invariant.
LEMMA NextInv == ScalerInv /\ [ScalerNext]_scalerVars => ScalerInv'
<1> SUFFICES ASSUME ScalerInv, [ScalerNext]_scalerVars PROVE ScalerInv'
  OBVIOUS
<1>m. Cardinality(Moving) \in Nat
  BY MovingFinite
<1>c. MaxWorkers \in Nat \ {0}
  BY ScalerAssumption
<1>1. ASSUME NEW o \in Observers, CollectReading(o) PROVE ScalerInv'
  BY ZenonT(30), <1>1, LabelStep DEF CollectReading, Goto, pool, Labels, Held
<1>2. ASSUME NEW o \in Observers, Observe(o) PROVE ScalerInv'
  BY ZenonT(60), <1>2, LabelStep DEF Observe, Goto, pool, Labels, Held
<1>3. ASSUME NEW o \in Observers, LoadReading(o) PROVE ScalerInv'
  BY ZenonT(60), <1>3, LabelStep DEF LoadReading, Goto, pool, Labels, Held
<1>4. ASSUME NEW o \in Observers, ScaleUp(o) PROVE ScalerInv'
  <2>1. PICK l \in {"start", "down"} : Goto(o, l)
    BY ZenonT(30), <1>4 DEF ScaleUp, Goto
  <2> QED
    BY ZenonT(30), <1>4, <2>1, LabelStep DEF ScaleUp, Goto, pool, Labels, Held
<1>5. ASSUME NEW o \in Observers, ScaleDown(o) PROVE ScalerInv'
  <2>1. PICK l \in {"pop", "idle"} : Goto(o, l)
    BY ZenonT(30), <1>5 DEF ScaleDown, Goto
  <2> QED
    BY ZenonT(30), <1>5, <2>1, LabelStep DEF ScaleDown, Goto, pool, Labels, Held
<1>6. ASSUME NEW o \in Observers, NoteScaleDown(o) PROVE ScalerInv'
  BY ZenonT(30), <1>6, LabelStep DEF NoteScaleDown, Goto, pool, Labels, Held
<1>7. ASSUME NEW o \in Observers, TryInc(o) PROVE ScalerInv'
  <2>1. CASE workerCount < MaxWorkers
    <3>1. opc' = [opc EXCEPT ![o] = "push"] /\ opc[o] = "start"
      BY <1>7, <2>1 DEF TryInc, Goto
    <3>2. Cardinality(Moving') = Cardinality(Moving) + 1
      BY ZenonT(30), <3>1, MovesIn DEF ScalerInv, Held
    <3> QED
      BY <1>7, <1>m, <1>c, <2>1, <3>1, <3>2
      DEF TryInc, ScalerInv, ActiveInRange, TokensCounted, Labels
  <2>2. CASE ~(workerCount < MaxWorkers)
    <3>1. PICK l \in {"start", "down"} : Goto(o, l)
      BY <1>7, <2>2 DEF TryInc, Again, Goto
    <3> QED
      BY ZenonT(30), <1>7, <2>2, <3>1, LabelStep DEF TryInc, Goto, Labels, Held
  <2> QED
    BY <2>1, <2>2
<1>8. ASSUME NEW o \in Observers, Push(o) PROVE ScalerInv'
  <2>1. opc' = [opc EXCEPT ![o] = "loadUp"] /\ opc[o] = "push"
    BY SMTT(60), <1>8 DEF Push, Goto
  <2>2. Cardinality(Moving') = Cardinality(Moving) - 1
    BY ZenonT(30), <2>1, MovesOut DEF ScalerInv, Held, Labels
  <2> QED
    BY <1>8, <1>m, <2>1, <2>2 DEF Push, ScalerInv, ActiveInRange, TokensCounted, Labels
<1>9. ASSUME NEW o \in Observers, LoadCount(o) PROVE ScalerInv'
  <2>1. PICK l \in {"setUp", "setDown"} : opc' = [opc EXCEPT ![o] = l]
    BY ZenonT(30), <1>9 DEF LoadCount, Goto
  <2>2. Cardinality(Moving') = Cardinality(Moving)
    BY ZenonT(30), <1>9, <2>1, MovesOn DEF LoadCount, ScalerInv, Held, Labels
  <2> QED
    BY <1>9, <2>1, <2>2
    DEF LoadCount, pool, ScalerInv, ActiveInRange, TokensCounted, Labels
<1>10. ASSUME NEW o \in Observers, SetActive(o) PROVE ScalerInv'
  <2>1. PICK l \in {"start", "down", "pop", "note"} : opc' = [opc EXCEPT ![o] = l]
    BY SMTT(60), <1>10 DEF SetActive, Again, Goto
  <2>2. Cardinality(Moving') = Cardinality(Moving)
    BY ZenonT(30), <1>10, <2>1, MovesOn DEF SetActive, ScalerInv, Held, Labels
  <2>3. activeWorkers' \in 1..MaxWorkers
    BY <1>10, <1>c DEF SetActive, MaxOf, ScalerInv
  <2> QED
    BY <1>10, <1>c, <2>1, <2>2, <2>3
    DEF SetActive, ScalerInv, ActiveInRange, TokensCounted, Labels
<1>11. ASSUME NEW o \in Observers, Pop(o) PROVE ScalerInv'
  <2>1. CASE tokens > 0
    <3>1. opc' = [opc EXCEPT ![o] = "dec"] /\ opc[o] = "pop"
      BY <1>11, <2>1 DEF Pop, Goto
    <3>2. Cardinality(Moving') = Cardinality(Moving) + 1
      BY ZenonT(30), <3>1, MovesIn DEF ScalerInv, Held
    <3> QED
      BY <1>11, <1>m, <2>1, <3>1, <3>2
      DEF Pop, ScalerInv, ActiveInRange, TokensCounted, Labels
  <2>2. CASE ~(tokens > 0)
    BY <1>11, <2>2, LabelStep DEF Pop, Goto, Labels, Held
  <2> QED
    BY <2>1, <2>2
<1>12. ASSUME NEW o \in Observers, Dec(o) PROVE ScalerInv'
  <2>1. opc' = [opc EXCEPT ![o] = "loadDown"] /\ opc[o] = "dec"
    BY <1>12 DEF Dec, Goto
  <2>2. Cardinality(Moving') = Cardinality(Moving) - 1 /\ Cardinality(Moving) > 0
    BY ZenonT(30), <2>1, MovesOut DEF ScalerInv, Held, Labels
  <2> QED
    BY <1>12, <1>m, <1>c, <2>1, <2>2
    DEF Dec, ScalerInv, ActiveInRange, TokensCounted, Labels
<1>13. CASE CooldownEnds
  BY <1>13 DEF CooldownEnds, pool, ScalerInv, ActiveInRange, TokensCounted, Moving
<1>14. CASE ClosePop
  <2>1. Cardinality(Moving') = Cardinality(Moving)
    BY <1>14 DEF ClosePop, Moving
  <2> QED
    BY <1>14, <1>m, <2>1 DEF ClosePop, MaxOf, ScalerInv, ActiveInRange, TokensCounted
<1>15. CASE CloseDec
  <2>1. Cardinality(Moving') = Cardinality(Moving)
    BY <1>15 DEF CloseDec, Moving
  <2> QED
    BY <1>15, <1>m, <1>c, <2>1 DEF CloseDec, ScalerInv, ActiveInRange, TokensCounted
<1>16. CASE UNCHANGED scalerVars
  BY <1>16 DEF scalerVars, ScalerInv, ActiveInRange, TokensCounted, Moving
<1> QED
  BY <1>1, <1>2, <1>3, <1>4, <1>5, <1>6, <1>7, <1>8, <1>9, <1>10, <1>11, <1>12, <1>13,
     <1>14, <1>15, <1>16 DEF ScalerNext, ObserveStep

-----------------------------------------------------------------------------
(* One call of Observe at a time *)

Readings == [workers : Nat, depth : Nat]

\* The labels between a change of workerCount and the store that follows it.
Resizing == {"push", "loadUp", "setUp", "dec", "loadDown", "setDown"}

\* A reading that counted no more workers than there are.
Fresh(r) == r \in Readings /\ r.workers <= workerCount

\* What a call of Observe relies on at each place: its reading until it has scaled
\* down, the count it loaded, and that the workers it is still to remove leave
\* MinWorkers.
Place(o) ==
  /\ opc[o] \in {"observe", "up", "start", "push", "loadUp", "setUp", "down"} =>
       Fresh(read[o])
  /\ opc[o] = "load" => Fresh(reading)
  /\ opc[o] \in {"setUp", "setDown"} => loaded[o] = workerCount
  /\ opc[o] \in {"pop", "dec"} => todo[o] >= 1 /\ workerCount - todo[o] >= MinWorkers
  /\ opc[o] \in {"loadDown", "setDown"} =>
       todo[o] >= 1 /\ workerCount - todo[o] + 1 >= MinWorkers

Alone ==
  /\ todo \in [Observers -> Int]
  /\ read \in [Observers -> Readings \cup {NoReading}]
  /\ workerCount >= MinWorkers
  /\ (\A o \in Observers : opc[o] \notin Resizing) => activeWorkers = workerCount
  /\ \A o, p \in Observers : opc[o] # "idle" /\ opc[p] # "idle" => o = p
  /\ \A o \in Observers : Place(o)

AloneInv == (close = "open" /\ ~overlapped) => Alone

\* What evaluate decides to add or remove is a number, and scaling down leaves
\* MinWorkers of the workers it has read.
LEMMA RemovalBounded ==
  ASSUME NEW r \in Readings
  PROVE  /\ ToAdd(r) \in Int /\ ToRemove(r) \in Int
         /\ ToRemove(r) > 0 => ToRemove(r) <= r.workers - MinWorkers
<1>1. r.workers \in Nat /\ r.depth \in Nat
  BY DEF Readings
<1>2. MinWorkers \in Nat /\ MaxWorkers \in Nat /\ TargetLoad \in Nat \ {0}
  BY ScalerAssumption
<1>3. CeilDiv(r.depth, TargetLoad) \in Int
  BY <1>1, <1>2 DEF CeilDiv
<1>4. \A n \in Int : n \div 2 \in Int
  OBVIOUS
<1>5. ToAdd(r) \in Int
  BY <1>1, <1>2, <1>3 DEF ToAdd, MinOf, MaxOf
<1> DEFINE needed == MaxOf(CeilDiv(r.depth, TargetLoad), MinWorkers)
<1>6. needed \in Int
  BY <1>2, <1>3 DEF MaxOf
<1> DEFINE half == MaxOf(1, (r.workers - needed) \div 2)
<1>7. half \in Int
  BY <1>1, <1>4, <1>6 DEF MaxOf
<1>8. ToRemove(r) = 0 \/ ToRemove(r) = MinOf(r.workers - MinWorkers, half)
  BY DEF ToRemove
<1> HIDE DEF half
<1>9. ToRemove(r) \in Int /\ (ToRemove(r) > 0 => ToRemove(r) <= r.workers - MinWorkers)
  BY <1>1, <1>2, <1>7, <1>8 DEF MinOf
<1> QED
  BY <1>5, <1>9

\* A step of the only call under way.
LEMMA AloneMoves ==
  ASSUME ScalerInv, Alone, NEW o \in Observers, opc[o] # "idle",
         NEW l \in Labels, opc' = [opc EXCEPT ![o] = l],
         NEW n \in Int, todo' = [todo EXCEPT ![o] = n],
         read' \in [Observers -> Readings \cup {NoReading}],
         workerCount' >= MinWorkers,
         l \notin Resizing => activeWorkers' = workerCount',
         Place(o)'
  PROVE  Alone'
<1>1. \A p \in Observers : p # o => opc[p] = "idle" /\ opc'[p] = "idle"
  BY DEF Alone, ScalerInv
<1>2. opc'[o] = l /\ todo' \in [Observers -> Int]
  BY DEF Alone, ScalerInv
<1>3. \A p \in Observers : Place(p)'
  <2> SUFFICES ASSUME NEW p \in Observers, p # o PROVE Place(p)'
    OBVIOUS
  <2> QED
    BY <1>1 DEF Place
<1> QED
  BY <1>1, <1>2, <1>3 DEF Alone

\* Each step of the only call under way.
LEMMA AloneStep ==
  ASSUME ScalerInv, Alone, close = "open", NEW o \in Observers, ObserveStep(o)
  PROVE  Alone'
<1>c. MinWorkers \in Nat \ {0} /\ MaxWorkers \in Nat
  BY ScalerAssumption
<1>t. /\ workerCount \in Nat /\ todo[o] \in Int /\ Place(o) /\ opc[o] \in Labels
      /\ workerCount >= MinWorkers /\ todo = [todo EXCEPT ![o] = todo[o]]
      /\ read \in [Observers -> Readings \cup {NoReading}]
      /\ opc[o] # "idle" => \A p \in Observers : p # o => opc[p] = "idle"
  BY DEF ScalerInv, Alone
<1>a. opc[o] \notin Resizing /\ opc[o] # "idle" => activeWorkers = workerCount
  <2> SUFFICES ASSUME opc[o] \notin Resizing, opc[o] # "idle"
               PROVE  \A p \in Observers : opc[p] \notin Resizing
    BY DEF Alone
  <2> QED
    BY <1>t DEF Resizing
<1>1. CASE Observe(o)
  <2>1. opc[o] = "observe" /\ opc' = [opc EXCEPT ![o] = "load"] /\ reading' = read[o]
        /\ UNCHANGED <<workerCount, activeWorkers, todo, read>>
    BY <1>1 DEF Observe, Goto, pool
  <2>2. opc'[o] = "load"
    BY <2>1 DEF ScalerInv
  <2>3. Place(o)'
    BY <1>t, <2>1, <2>2 DEF Place, Fresh
  <2> QED
    BY <1>a, <1>t, <2>1, <2>3, AloneMoves DEF Labels, Resizing
<1>2. CASE LoadReading(o)
  <2>1. opc[o] = "load" /\ opc' = [opc EXCEPT ![o] = "up"]
        /\ read' = [read EXCEPT ![o] = reading]
        /\ UNCHANGED <<workerCount, activeWorkers, todo>>
    BY <1>2 DEF LoadReading, Goto, pool
  <2>2. opc'[o] = "up" /\ read'[o] = reading /\ reading \in Readings
    BY <1>t, <2>1 DEF ScalerInv, Alone, Place, Fresh
  <2>3. Place(o)' /\ read' \in [Observers -> Readings \cup {NoReading}]
    BY <1>t, <2>1, <2>2 DEF Place, Fresh, Alone
  <2> QED
    BY <1>a, <1>t, <2>1, <2>3, AloneMoves DEF Labels, Resizing
<1>3. CASE ScaleUp(o)
  <2> DEFINE n == MinOf(MaxWorkers - workerCount, ToAdd(read[o]))
  <2>1. PICK l \in {"start", "down"} :
          todo' = [todo EXCEPT ![o] = n] /\ opc' = [opc EXCEPT ![o] = l]
    BY ZenonT(30), <1>3 DEF ScaleUp, Goto
  <2>2. opc[o] = "up" /\ UNCHANGED <<workerCount, activeWorkers, read>>
    BY <1>3 DEF ScaleUp, pool
  <2>3. read[o] \in Readings
    BY <1>t, <2>2 DEF Place, Fresh
  <2>4. n \in Int
    BY <1>c, <1>t, <2>1, <2>3, RemovalBounded DEF MinOf
  <2> HIDE DEF n
  <2>5. opc'[o] = l
    BY <2>1 DEF ScalerInv
  <2>6. Place(o)'
    BY <1>t, <2>1, <2>2, <2>5 DEF Place, Fresh
  <2> QED
    BY <1>a, <1>t, <2>1, <2>2, <2>4, <2>6, AloneMoves DEF Labels, Resizing
<1>4. CASE ScaleDown(o)
  <2> DEFINE n == IF cooling THEN 0 ELSE ToRemove(read[o])
  <2>1. PICK l \in {"pop", "idle"} :
          /\ l = "pop" => n > 0
          /\ todo' = [todo EXCEPT ![o] = n] /\ opc' = [opc EXCEPT ![o] = l]
    BY ZenonT(30), <1>4 DEF ScaleDown, Goto
  <2>2. opc[o] = "down" /\ UNCHANGED <<workerCount, activeWorkers>>
        /\ read' = [read EXCEPT ![o] = NoReading]
    BY <1>4 DEF ScaleDown, pool
  <2>3. read[o] \in Readings /\ read[o].workers <= workerCount /\ read[o].workers \in Nat
    BY <1>t, <2>2 DEF Place, Fresh, Readings
  <2>4. n \in Int /\ (n > 0 => n <= workerCount - MinWorkers)
    BY <1>c, <1>t, <2>1, <2>3, RemovalBounded
  <2> HIDE DEF n
  <2>5. opc'[o] = l /\ todo'[o] = n /\ read' \in [Observers -> Readings \cup {NoReading}]
    BY <2>1, <2>2 DEF ScalerInv, Alone
  <2>6. Place(o)'
    BY <1>c, <1>t, <2>1, <2>2, <2>4, <2>5 DEF Place
  <2> QED
    BY <1>a, <1>t, <2>1, <2>2, <2>4, <2>5, <2>6, AloneMoves DEF Labels, Resizing
<1>5. CASE NoteScaleDown(o)
  <2>1. opc[o] = "note" /\ opc' = [opc EXCEPT ![o] = "idle"]
        /\ UNCHANGED <<workerCount, activeWorkers, todo, read>>
    BY <1>5 DEF NoteScaleDown, Goto, pool
  <2>2. opc'[o] = "idle"
    BY <2>1 DEF ScalerInv
  <2>3. Place(o)'
    BY <2>2 DEF Place
  <2> QED
    BY <1>a, <1>t, <2>1, <2>3, AloneMoves DEF Labels, Resizing
<1>6. CASE TryInc(o)
  <2>1. opc[o] = "start" /\ Fresh(read[o]) /\ UNCHANGED <<activeWorkers, read>>
    BY <1>t, <1>6 DEF TryInc, Place
  <2>2. CASE workerCount < MaxWorkers
    <3>1. workerCount' = workerCount + 1 /\ opc' = [opc EXCEPT ![o] = "push"] /\ todo' = todo
      BY <1>6, <2>2 DEF TryInc, Goto
    <3>2. opc'[o] = "push"
      BY <3>1 DEF ScalerInv
    <3>3. Place(o)'
      BY <1>t, <2>1, <3>1, <3>2 DEF Place, Fresh, Readings
    <3>4. workerCount' >= MinWorkers /\ todo' = [todo EXCEPT ![o] = todo[o]]
      BY <1>c, <1>t, <3>1
    <3>5. read' \in [Observers -> Readings \cup {NoReading}]
      BY <1>t, <2>1
    <3> QED
      BY <1>t, <2>1, <3>1, <3>3, <3>4, <3>5, AloneMoves DEF Labels, Resizing
  <2>3. CASE ~(workerCount < MaxWorkers)
    <3>1. PICK l \in {"start", "down"} : opc' = [opc EXCEPT ![o] = l]
      BY <1>6, <2>3 DEF TryInc, Again, Goto
    <3> DEFINE n == todo[o] - 1
    <3>2. todo' = [todo EXCEPT ![o] = n] /\ workerCount' = workerCount /\ n \in Int
      BY <1>t, <1>6, <2>3 DEF TryInc, Again
    <3> HIDE DEF n
    <3>3. opc'[o] = l
      BY <3>1 DEF ScalerInv
    <3>4. Place(o)'
      BY <1>t, <2>1, <3>2, <3>3 DEF Place, Fresh
    <3> QED
      BY <1>a, <1>t, <2>1, <3>1, <3>2, <3>4, AloneMoves DEF Labels, Resizing
  <2> QED
    BY <2>2, <2>3
<1>7. CASE Push(o)
  <2>1. opc[o] = "push" /\ opc' = [opc EXCEPT ![o] = "loadUp"]
        /\ UNCHANGED <<workerCount, activeWorkers, todo, read>>
    BY <1>7 DEF Push, Goto
  <2>2. opc'[o] = "loadUp"
    BY <2>1 DEF ScalerInv
  <2>3. Place(o)'
    BY <1>t, <2>1, <2>2 DEF Place, Fresh
  <2> QED
    BY <1>t, <2>1, <2>3, AloneMoves DEF Labels, Resizing
<1>8. CASE LoadCount(o)
  <2>1. PICK l \in {"setUp", "setDown"} :
          opc' = [opc EXCEPT ![o] = l] /\ opc[o] = IF l = "setUp" THEN "loadUp" ELSE "loadDown"
    BY ZenonT(30), <1>8 DEF LoadCount, Goto
  <2>2. loaded' = [loaded EXCEPT ![o] = workerCount]
        /\ UNCHANGED <<workerCount, activeWorkers, todo, read>>
    BY <1>8 DEF LoadCount, pool
  <2>3. opc'[o] = l /\ loaded'[o] = workerCount
    BY <2>1, <2>2 DEF ScalerInv
  <2>4. Place(o)'
    BY <1>t, <2>1, <2>2, <2>3 DEF Place, Fresh
  <2> QED
    BY <1>t, <2>1, <2>2, <2>4, AloneMoves DEF Labels, Resizing
<1>9. CASE SetActive(o)
  <2> DEFINE n == todo[o] - 1
  <2>1. opc[o] \in {"setUp", "setDown"} /\ activeWorkers' = MaxOf(1, loaded[o])
        /\ todo' = [todo EXCEPT ![o] = n] /\ n \in Int /\ UNCHANGED <<workerCount, read>>
    BY SMTT(30), <1>t, <1>9 DEF SetActive, Again
  <2>2. loaded[o] = workerCount
    BY <1>t, <2>1 DEF Place
  <2>3. activeWorkers' = workerCount'
    BY <1>c, <1>t, <2>1, <2>2 DEF MaxOf
  <2>4. PICK l \in {"start", "down", "pop", "note"} :
          /\ opc' = [opc EXCEPT ![o] = l]
          /\ l \in {"start", "down"} => opc[o] = "setUp"
          /\ l = "pop" => opc[o] = "setDown" /\ todo[o] > 1
    BY SMTT(30), <1>9 DEF SetActive, Again, Goto
  <2>5. opc'[o] = l /\ todo'[o] = todo[o] - 1
    BY <2>1, <2>4 DEF ScalerInv, Alone
  <2>6. Place(o)'
    BY <1>c, <1>t, <2>1, <2>4, <2>5 DEF Place, Fresh
  <2> HIDE DEF n
  <2> QED
    BY <1>t, <2>1, <2>3, <2>4, <2>6, AloneMoves DEF Labels, Resizing
<1>10. CASE Pop(o)
  <2>1. opc[o] = "pop" /\ UNCHANGED <<workerCount, activeWorkers, read>>
    BY <1>10 DEF Pop
  <2>2. CASE tokens > 0
    <3>1. opc' = [opc EXCEPT ![o] = "dec"] /\ todo' = todo
      BY <1>10, <2>2 DEF Pop, Goto
    <3>2. opc'[o] = "dec"
      BY <3>1 DEF ScalerInv
    <3>3. Place(o)'
      BY <1>t, <2>1, <3>1, <3>2 DEF Place
    <3> QED
      BY <1>t, <2>1, <3>1, <3>3, AloneMoves DEF Labels, Resizing
  <2>3. CASE ~(tokens > 0)
    <3>1. opc' = [opc EXCEPT ![o] = "note"] /\ todo' = [todo EXCEPT ![o] = 0]
      BY <1>10, <2>3 DEF Pop, Goto
    <3>2. opc'[o] = "note"
      BY <3>1 DEF ScalerInv
    <3>3. Place(o)'
      BY <3>2 DEF Place
    <3>4. 0 \in Int /\ activeWorkers' = workerCount' /\ opc[o] # "idle"
      BY <1>a, <2>1 DEF Resizing
    <3> QED
      BY <1>t, <2>1, <3>1, <3>3, <3>4, AloneMoves DEF Labels
  <2> QED
    BY <2>2, <2>3
<1>11. CASE Dec(o)
  <2>1. opc[o] = "dec" /\ opc' = [opc EXCEPT ![o] = "loadDown"]
        /\ workerCount' = workerCount - 1 /\ UNCHANGED <<activeWorkers, todo, read>>
    BY <1>11 DEF Dec, Goto
  <2>2. opc'[o] = "loadDown"
    BY <2>1 DEF ScalerInv
  <2>3. Place(o)' /\ workerCount' >= MinWorkers
    BY <1>c, <1>t, <2>1, <2>2 DEF Place
  <2> QED
    BY <1>t, <2>1, <2>3, AloneMoves DEF Labels, Resizing
<1> QED
  BY <1>1, <1>2, <1>3, <1>4, <1>5, <1>6, <1>7, <1>8, <1>9, <1>10, <1>11 DEF ObserveStep

\* A call that begins when no other is under way takes a fresh reading.
LEMMA AloneBegins ==
  ASSUME ScalerInv, Alone, NEW o \in Observers, CollectReading(o), ~overlapped'
  PROVE  Alone'
<1>1. PICK d \in Depths : read' = [read EXCEPT ![o] = [workers |-> workerCount, depth |-> d]]
  BY DEF CollectReading
<1>2. \A p \in Observers : opc[p] = "idle"
  BY DEF CollectReading
<1>3. opc' = [opc EXCEPT ![o] = "observe"] /\ UNCHANGED <<workerCount, activeWorkers, todo>>
  BY DEF CollectReading, Goto, pool
<1> DEFINE r == [workers |-> workerCount, depth |-> d]
<1>4. r \in Readings /\ r.workers = workerCount /\ workerCount \in Nat
  BY ScalerAssumption DEF Readings, ScalerInv
<1>5. read' = [read EXCEPT ![o] = r]
  BY <1>1
<1> HIDE DEF r
<1>6. read' \in [Observers -> Readings \cup {NoReading}] /\ read'[o] = r
  BY <1>4, <1>5 DEF Alone
<1>7. opc'[o] = "observe" /\ \A p \in Observers : p # o => opc'[p] = "idle"
  BY <1>2, <1>3 DEF ScalerInv
<1>8. \A p \in Observers : Place(p)'
  BY <1>3, <1>4, <1>6, <1>7 DEF Place, Fresh
<1>9. activeWorkers' = workerCount'
  BY <1>2, <1>3 DEF Alone, Resizing
<1> QED
  BY <1>3, <1>6, <1>7, <1>8, <1>9 DEF Alone

LEMMA InitAlone == ScalerInit => AloneInv
BY ScalerAssumption DEF ScalerInit, AloneInv, Alone, Place

LEMMA NextAlone == ScalerInv /\ AloneInv /\ [ScalerNext]_scalerVars => AloneInv'
<1> SUFFICES ASSUME ScalerInv, AloneInv, [ScalerNext]_scalerVars, close' = "open", ~overlapped'
             PROVE  Alone'
  BY DEF AloneInv
<1>1. CASE \E o \in Observers : CollectReading(o)
  BY <1>1, AloneBegins DEF AloneInv, CollectReading
<1>2. CASE \E o \in Observers : ObserveStep(o)
  <2>1. UNCHANGED <<close, overlapped>>
    BY <1>2 DEF ObserveStep, Observe, LoadReading, ScaleUp, ScaleDown, NoteScaleDown, TryInc,
                Push, LoadCount, SetActive, Pop, Dec
  <2> QED
    BY <1>2, <2>1, AloneStep DEF AloneInv
<1>3. CASE CooldownEnds \/ UNCHANGED scalerVars
  BY <1>3 DEF CooldownEnds, scalerVars, pool, AloneInv, Alone, Place, Fresh
<1>4. CASE ClosePop \/ CloseDec
  BY <1>4 DEF ClosePop, CloseDec
<1> QED
  BY <1>1, <1>2, <1>3, <1>4 DEF ScalerNext

\* However many calls of Observe overlap, with each other and with Close, jobs are
\* assigned only to handlers the queue has (setActiveWorkers, disruptor_queue.go).
THEOREM ActiveWorkersInRange == ScalerSpec => []ActiveInRange
<1>1. ScalerInv => ActiveInRange
  BY DEF ScalerInv
<1> QED
  BY <1>1, InitInv, NextInv, PTL DEF ScalerSpec

\* And workerCount never drifts from the registry (startWorker, scaleDownWorkers and
\* deactivateWorkers, lifecycle.go).
THEOREM WorkersCounted == ScalerSpec => []TokensCounted
<1>1. ScalerInv => TokensCounted
  BY DEF ScalerInv
<1> QED
  BY <1>1, InitInv, NextInv, PTL DEF ScalerSpec

\* As long as calls of Observe do not overlap, a scaler at rest has left the queue
\* spreading jobs over exactly the workers counted (Observe, startWorker,
\* scaleDownWorkers).
THEOREM ActiveFollowsCount == ScalerSpec => []ActiveAgrees
<1>1. ScalerInv /\ AloneInv => ActiveAgrees
  BY DEF AloneInv, Alone, ActiveAgrees, Quiet, Resizing
<1> QED
  BY <1>1, InitInv, NextInv, InitAlone, NextAlone, PTL DEF ScalerSpec

\* And then no sequence of readings, additions and removals leaves fewer than
\* MinWorkers workers before Close (evaluate, scaleDownWorkers).
THEOREM MinimumKept == ScalerSpec => []MinKeptAlone
<1>1. AloneInv => MinKeptAlone
  BY DEF AloneInv, Alone, MinKeptAlone
<1> QED
  BY <1>1, InitInv, NextInv, InitAlone, NextAlone, PTL DEF ScalerSpec

-----------------------------------------------------------------------------
(* The life of a job around the space: Pool, a specification of its own that sees    *)
(* the entries of a job, what is in them, and whether the space is open.             *)

\* Most steps are first-order reasoning, which Zenon does; the others name SMT.
USE Zenon

\* Where a call of Schedule stands.
CallerLabels == {"new", "rejected", "start", "enqueue", "spawn", "await", "pending"}

\* Where a job is before RecordJobOutcome.
Unrecorded == {"new", "deps", "enqueue", "publish", "queued", "attempt", "invoke", "delay",
               "failed", "succeeded"}

\* Where a job, a call of Close and a result may be.
JobLabels == Unrecorded \cup {"storeFailed", "store", "storeError", "done"}
CloserLabels == {"idle", "cancel", "queue", "handlers", "deps", "acquire", "space", "done"}
Results == {"value", "generic", "dependency", "schedule"}

\* Types.
JobTypes ==
  /\ spc \in [Jobs -> CallerLabels]
  /\ jpc \in [Jobs -> JobLabels]
  /\ queue \subseteq Jobs
  /\ error \in [Jobs -> Errors \cup {"none"}]
  /\ outcomes \in [Jobs -> Nat]

\* Whose entry a lookup may be given.
Key(j, c) == IF c \in Jobs THEN c ELSE j

EntryTypes ==
  /\ result \in [Jobs -> Seq(Results \cup {"none"})]
  /\ entry \in [Jobs -> [Lookups -> Int]]
  /\ \A j \in Jobs, c \in Lookups : entry[j][c] <= Len(result[Key(j, c)])

DepLabels == {"await", "register", "met", "unmet"}

DepTypes ==
  /\ dep = [j \in Jobs |-> dep[j]]
  /\ \A j \in Jobs : /\ DependsOn(j) \subseteq Jobs
                     /\ dep[j] \in [DependsOn(j) -> DepLabels]

Types == JobTypes /\ EntryTypes /\ DepTypes

\* An entry of k holds the result x.
Stored(k, x) == \E e \in DOMAIN result[k] : result[k][e] = x

\* A job is started once and stores once, at its end.  A dependency counts as met
\* when its value is there, and past resolveDependentJob all of them do.
OrderInv(j) ==
  /\ spc[j] \in {"new", "start", "spawn"} => jpc[j] = "new"
  /\ j \in queue => jpc[j] = "queued"
  /\ \A x \in Results : Stored(j, x) => jpc[j] = "done"
  /\ \A d \in DependsOn(j) : dep[j][d] = "met" => Stored(d, "value")
  /\ jpc[j] \in Executing \cup {"enqueue", "publish", "queued"} =>
       \A d \in DependsOn(j) : dep[j][d] = "met"

\* How often a job has been recorded follows from where it is; of the errors that
\* StoreError is given before a worker took the job, one was recorded.
CountInv(j) ==
  /\ jpc[j] \in Unrecorded => outcomes[j] = 0
  /\ jpc[j] \in {"storeFailed", "store"} => outcomes[j] = 1
  /\ jpc[j] = "storeError" => \/ error[j] = "dependency" /\ outcomes[j] = 1
                              \/ error[j] = "schedule" /\ outcomes[j] = 0
  /\ outcomes[j] <= 1
  /\ Stored(j, "value") \/ Stored(j, "generic") \/ Stored(j, "dependency") => outcomes[j] = 1
  /\ Stored(j, "schedule") => outcomes[j] = 0

\* The inductive invariant.
LifeInv == Types /\ \A j \in Jobs : OrderInv(j) /\ CountInv(j)

-----------------------------------------------------------------------------
(* What the calls do to the entries *)

\* Every result stays in its entry, and no other appears.
SameResults == EntryTypes' /\ \A k \in Jobs : \A x \in Results : Stored(k, x)' <=> Stored(k, x)

LEMMA SpaceStays ==
  ASSUME EntryTypes, UNCHANGED space
  PROVE  SameResults
  BY DEF EntryTypes, SameResults, Stored, space

\* A lookup that returns with an entry, or an entry that is dropped.
LEMMA EntryMoves ==
  ASSUME EntryTypes, NEW j \in Jobs, NEW c \in Lookups, UNCHANGED result,
         EntryTo(j, c, Len(result[Key(j, c)])) \/ EntryTo(j, c, Finding)
  PROVE  SameResults
<1>1. Key(j, c) \in Jobs
  BY DEF Key
<1>2. Len(result[Key(j, c)]) \in Nat
  BY SMT, <1>1 DEF EntryTypes
<1>3. PICK e \in Int : e <= Len(result[Key(j, c)]) /\ EntryTo(j, c, e)
  BY SMT, <1>2 DEF Finding
<1>4. /\ entry' \in [Jobs -> [Lookups -> Int]]
      /\ \A q \in Jobs, b \in Lookups : entry'[q][b] = IF q = j /\ b = c THEN e ELSE entry[q][b]
  BY SMT, <1>3 DEF EntryTypes, EntryTo
<1>5. EntryTypes'
  BY <1>3, <1>4 DEF EntryTypes, Key
<1>6. \A q \in Jobs : \A x \in Results : Stored(q, x)' <=> Stored(q, x)
  BY DEF Stored
<1> QED BY <1>5, <1>6 DEF SameResults

\* A new entry holds nothing.
LEMMA SearchMoves ==
  ASSUME EntryTypes, NEW j \in Jobs, NEW c \in Lookups, NEW k \in Jobs, Search(j, c, k)
  PROVE  SameResults
<1>1. PICK e \in {-1, -2} :
        /\ EntryTo(j, c, e)
        /\ UNCHANGED result \/ result' = [result EXCEPT ![k] = Append(result[k], "none")]
  BY DEF Search, Linking, Linked
<1>2. /\ entry' \in [Jobs -> [Lookups -> Int]]
      /\ \A q \in Jobs, b \in Lookups : entry'[q][b] \in {entry[q][b], -1, -2}
  BY SMT, <1>1 DEF EntryTypes, EntryTo
<1>3. /\ result' \in [Jobs -> Seq(Results \cup {"none"})]
      /\ \A q \in Jobs : /\ Len(result[q]) \in Nat /\ Len(result'[q]) \in Nat
                       /\ Len(result[q]) <= Len(result'[q])
      /\ \A q \in Jobs : \A x \in Results : Stored(q, x)' <=> Stored(q, x)
  <2>0. ASSUME NEW q \in Jobs
        PROVE  /\ result[q] \in Seq(Results \cup {"none"})
               /\ Len(result[q]) \in Nat /\ Len(result[q]) <= Len(result[q])
    <3>1. result[q] \in Seq(Results \cup {"none"})
      BY DEF EntryTypes
    <3> QED BY SMT, <3>1
  <2>1. CASE UNCHANGED result
    BY <2>0, <2>1 DEF EntryTypes, Stored
  <2>2. CASE result' = [result EXCEPT ![k] = Append(result[k], "none")]
    <3>1. result'[k] = Append(result[k], "none") /\ \A q \in Jobs \ {k} : result'[q] = result[q]
      BY <2>2 DEF EntryTypes
    <3>2. /\ DOMAIN result[k] = 1..Len(result[k]) /\ result'[k] \in Seq(Results \cup {"none"})
          /\ Len(result'[k]) \in Nat /\ Len(result[k]) <= Len(result'[k])
          /\ DOMAIN result'[k] = 1..(Len(result[k]) + 1)
          /\ \A e1 \in 1..Len(result[k]) : result'[k][e1] = result[k][e1]
          /\ result'[k][Len(result[k]) + 1] = "none"
      <4>1. result[k] \in Seq(Results \cup {"none"}) /\ "none" \in Results \cup {"none"}
        BY <2>0
      <4> QED BY SMT, <3>1, <4>1
    <3>3. result' \in [Jobs -> Seq(Results \cup {"none"})]
      BY <2>2, <3>2 DEF EntryTypes
    <3>4. ASSUME NEW x \in Results PROVE Stored(k, x)' <=> Stored(k, x)
      <4>1. x # "none"
        BY DEF Results
      <4>2. \A e1 \in DOMAIN result'[k] : e1 \in DOMAIN result[k] \/ e1 = Len(result[k]) + 1
        BY SMT, <2>0, <3>2
      <4>3. DOMAIN result[k] \subseteq DOMAIN result'[k]
        BY SMT, <2>0, <3>2
      <4> QED BY <3>2, <4>1, <4>2, <4>3 DEF Stored
    <3>5. \A q \in Jobs \ {k} : \A x \in Results : Stored(q, x)' <=> Stored(q, x)
      BY <3>1 DEF Stored
    <3> QED BY <2>0, <3>1, <3>2, <3>3, <3>4, <3>5
  <2> QED BY <1>1, <2>1, <2>2
<1>4. ASSUME NEW q \in Jobs, NEW b \in Lookups PROVE entry'[q][b] <= Len(result'[Key(q, b)])
  <2>0. Key(q, b) \in Jobs
    BY DEF Key
  <2>1. /\ entry[q][b] \in Int /\ entry[q][b] <= Len(result[Key(q, b)])
        /\ entry'[q][b] \in {entry[q][b], -1, -2}
        /\ Len(result[Key(q, b)]) \in Nat /\ Len(result'[Key(q, b)]) \in Nat
        /\ Len(result[Key(q, b)]) <= Len(result'[Key(q, b)])
    BY <1>2, <1>3, <2>0 DEF EntryTypes
  <2> QED BY SMT, <2>1
<1>5. EntryTypes'
  BY <1>2, <1>3, <1>4 DEF EntryTypes, Key
<1> QED BY <1>3, <1>5 DEF SameResults

\* Store puts a result into one entry of its job.
LEMMA StoreMoves ==
  ASSUME EntryTypes, NEW j \in Jobs, NEW x \in Results, StoreResult(j, x)
  PROVE  /\ EntryTypes'
         /\ \A k \in Jobs \ {j} : \A y \in Results : Stored(k, y)' <=> Stored(k, y)
         /\ \A y \in Results : Stored(j, y)' => Stored(j, y) \/ y = x
<1>1. CASE UNCHANGED space
  BY <1>1, SpaceStays DEF SameResults
<1>2. CASE /\ Found(j, "store", j) /\ EntryTo(j, "store", Finding)
           /\ result' = [result EXCEPT ![j][Len(result[j])] = x]
  <2> DEFINE n == Len(result[j])
  <2>1. /\ result[j] \in Seq(Results \cup {"none"}) /\ n \in Nat /\ n \in 1..n
        /\ DOMAIN result[j] = 1..n
    BY SMT, <1>2 DEF EntryTypes, Found
  <2> HIDE DEF n
  <2>2. result' = [result EXCEPT ![j] = [result[j] EXCEPT ![n] = x]]
    BY <1>2 DEF n
  <2>3. /\ result'[j] = [result[j] EXCEPT ![n] = x]
        /\ \A k \in Jobs \ {j} : result'[k] = result[k]
    BY <2>2 DEF EntryTypes
  <2>4. /\ result'[j] \in Seq(Results \cup {"none"})
        /\ Len(result'[j]) = n /\ DOMAIN result'[j] = 1..n
        /\ \A e \in 1..n : result'[j][e] = IF e = n THEN x ELSE result[j][e]
    BY SMT, <2>1, <2>3
  <2>5. result' \in [Jobs -> Seq(Results \cup {"none"})]
    BY <2>2, <2>3, <2>4 DEF EntryTypes
  <2>6. ASSUME NEW k \in Jobs PROVE Len(result'[k]) = Len(result[k]) /\ Len(result[k]) \in Nat
    <3>1. result[k] \in Seq(Results \cup {"none"})
      BY DEF EntryTypes
    <3>2. Len(result[k]) \in Nat
      BY SMT, <3>1
    <3> QED BY <2>3, <2>4, <3>2 DEF n
  <2>7. entry' \in [Jobs -> [Lookups -> Int]]
        /\ \A k \in Jobs, c \in Lookups : entry'[k][c] \in {entry[k][c], 0}
    BY SMT, <1>2 DEF EntryTypes, EntryTo, Finding, Lookups
  <2>8. EntryTypes'
    <3>1. ASSUME NEW k \in Jobs, NEW c \in Lookups PROVE entry'[k][c] <= Len(result'[Key(k, c)])
      <4>0. Key(k, c) \in Jobs
        BY DEF Key
      <4>1. /\ entry[k][c] <= Len(result[Key(k, c)]) /\ entry'[k][c] \in {entry[k][c], 0}
            /\ Len(result'[Key(k, c)]) = Len(result[Key(k, c)]) /\ Len(result[Key(k, c)]) \in Nat
        BY <2>6, <2>7, <4>0 DEF EntryTypes
      <4> QED BY SMT, <4>1
    <3> QED BY <2>5, <2>7, <3>1 DEF EntryTypes, Key
  <2>9. \A y \in Results : Stored(j, y)' => Stored(j, y) \/ y = x
    BY <2>1, <2>4 DEF Stored
  <2> QED BY <2>3, <2>8, <2>9 DEF Stored
<1> QED BY <1>1, <1>2 DEF StoreResult

-----------------------------------------------------------------------------
(* A step concerns one job *)

\* What a step on behalf of job j leaves alone.
Others(j) ==
  \A k \in Jobs \ {j} :
    /\ spc'[k] = spc[k] /\ jpc'[k] = jpc[k]
    /\ error'[k] = error[k] /\ outcomes'[k] = outcomes[k] /\ dep'[k] = dep[k]
    /\ k \in queue' => k \in queue
    /\ \A x \in Results : Stored(k, x)' <=> Stored(k, x)

\* A step that keeps the invariant of its own job, and the value the job may have
\* stored, keeps that of the others.
LEMMA OneJob ==
  ASSUME LifeInv, NEW j \in Jobs, Types', Others(j), OrderInv(j)', CountInv(j)',
         Stored(j, "value") => Stored(j, "value")'
  PROVE  LifeInv'
<1>1. ASSUME NEW k \in Jobs \ {j} PROVE OrderInv(k)' /\ CountInv(k)'
  <2>0. OrderInv(k) /\ CountInv(k) /\ DependsOn(k) \subseteq Jobs
    BY DEF LifeInv, Types, DepTypes
  <2>1. /\ spc'[k] = spc[k] /\ jpc'[k] = jpc[k]
        /\ error'[k] = error[k] /\ outcomes'[k] = outcomes[k] /\ dep'[k] = dep[k]
        /\ k \in queue' => k \in queue
        /\ \A x \in Results : Stored(k, x)' <=> Stored(k, x)
    BY DEF Others
  <2>2. \A d \in Jobs : Stored(d, "value") => Stored(d, "value")'
    BY DEF Others, Results
  <2>3. OrderInv(k)'
    BY <2>0, <2>1, <2>2 DEF OrderInv, DependsOn
  <2>4. CountInv(k)'
    BY <2>0, <2>1 DEF CountInv, Results
  <2> QED BY <2>3, <2>4
<1> QED BY <1>1 DEF LifeInv

\* A step that moves no job and stores nothing.
LEMMA NoJob ==
  ASSUME LifeInv, SameResults, UNCHANGED <<spc, jpc, queue, error, outcomes, dep>>
  PROVE  LifeInv'
<1>1. Types'
  BY DEF LifeInv, Types, JobTypes, DepTypes, DependsOn, SameResults
<1>2. ASSUME NEW j \in Jobs PROVE OrderInv(j)' /\ CountInv(j)'
  <2>0. OrderInv(j) /\ CountInv(j) /\ DependsOn(j) \subseteq Jobs
    BY DEF LifeInv, Types, DepTypes
  <2>1. OrderInv(j)'
    BY <2>0 DEF OrderInv, DependsOn, SameResults, Results
  <2>2. CountInv(j)'
    BY <2>0 DEF CountInv, SameResults, Results
  <2> QED BY <2>1, <2>2
<1> QED BY <1>1, <1>2 DEF LifeInv

\* The searches of getOrCreate.
LEMMA SearchKeeps ==
  ASSUME LifeInv, NEW j \in Jobs,
         AwaitSearches(j) \/ StoreSearches(j) \/ \E d \in DependsOn(j) : DepAwaits(j, d)
  PROVE  LifeInv'
<1>0. EntryTypes /\ DependsOn(j) \subseteq Jobs
  BY DEF LifeInv, Types, DepTypes
<1>1. UNCHANGED <<spc, jpc, queue, error, outcomes, dep>>
  BY DEF AwaitSearches, StoreSearches, DepAwaits, run, waits
<1>2. SameResults
  <2>1. CASE AwaitSearches(j) \/ StoreSearches(j)
    BY <1>0, <2>1, SearchMoves DEF AwaitSearches, StoreSearches, Lookups
  <2>2. ASSUME NEW d \in DependsOn(j), DepAwaits(j, d) PROVE SameResults
    <3>1. d \in Jobs /\ d \in Lookups /\ Key(j, d) = d
      BY <1>0 DEF Lookups, Key
    <3>2. Search(j, d, d) \/ (EntryTo(j, d, Len(result[Key(j, d)])) /\ UNCHANGED result)
      BY <2>2, <3>1 DEF DepAwaits
    <3> QED BY <1>0, <3>1, <3>2, SearchMoves, EntryMoves
  <2> QED BY <2>1, <2>2
<1> QED BY <1>1, <1>2, NoJob

\* Schedule, up to the goroutine that waits for the dependencies.
LEMMA CallerKeeps ==
  ASSUME LifeInv, NEW j \in Jobs, Reject(j) \/ Admit(j) \/ CheckStart(j) \/ Spawn(j) \/ Await(j)
  PROVE  LifeInv'
<1>0. /\ JobTypes /\ EntryTypes /\ DepTypes /\ OrderInv(j) /\ CountInv(j)
      /\ UNCHANGED <<queue, error, outcomes, dep>>
  BY DEF LifeInv, Types, Reject, Admit, CheckStart, Spawn, Await, run, waits
<1>s. SameResults
  <2>1. CASE ~Await(j)
    BY <1>0, <2>1, SpaceStays DEF Reject, Admit, CheckStart, Spawn
  <2>2. CASE Await(j)
    <3>1. "await" \in Lookups /\ Key(j, "await") = j
      BY PoolAssumption DEF Lookups, Key
    <3>2. UNCHANGED space \/ (UNCHANGED result /\ EntryTo(j, "await", Len(result[Key(j, "await")])))
      BY <2>2, <3>1 DEF Await, space
    <3> QED BY <1>0, <3>1, <3>2, SpaceStays, EntryMoves
  <2> QED BY <2>1, <2>2
<1>1. \/ /\ spc[j] \in {"new", "start", "await"} /\ UNCHANGED jpc
         /\ spc'[j] \in CallerLabels \ {"new"}
         /\ spc[j] = "await" => spc'[j] \in {"rejected", "pending"}
      \/ spc[j] = "spawn" /\ spc'[j] = "await" /\ jpc' = [jpc EXCEPT ![j] = "deps"]
      \/ /\ spc[j] = "new" /\ spc'[j] = "enqueue" /\ jpc' = [jpc EXCEPT ![j] = "enqueue"]
         /\ DependsOn(j) = {}
  <2>1. CASE Admit(j) /\ (stopping \/ DependsOn(j) # {})
    <3>1. jpc' = [jpc EXCEPT ![j] = "new"] /\ jpc[j] = "new"
      BY <1>0, <2>1 DEF Admit, JobTo, OrderInv
    <3>2. jpc' = jpc
      BY <1>0, <3>1 DEF JobTypes
    <3> QED BY <1>0, <2>1, <3>2 DEF Admit, Caller, JobTypes, CallerLabels
  <2>2. CASE Admit(j) /\ ~stopping /\ DependsOn(j) = {}
    BY <1>0, <2>2 DEF Admit, Caller, JobTo, JobTypes
  <2>3. CASE Reject(j) \/ CheckStart(j) \/ Await(j)
    BY <1>0, <2>3 DEF Reject, CheckStart, Await, Caller, JobTypes, CallerLabels
  <2>4. CASE Spawn(j)
    BY <1>0, <2>4 DEF Spawn, Caller, JobTo, JobTypes
  <2> QED BY <2>1, <2>2, <2>3, <2>4
<1>2. spc' = [spc EXCEPT ![j] = spc'[j]]
  BY <1>0 DEF Reject, Admit, CheckStart, Spawn, Await, Caller, JobTypes
<1>3. Types'
  <2>1. spc'[j] \in CallerLabels
    BY <1>1 DEF CallerLabels
  <2>2. jpc' \in [Jobs -> JobLabels]
    BY <1>0, <1>1 DEF JobTypes, JobLabels, Unrecorded
  <2>3. JobTypes'
    BY <1>0, <1>2, <2>1, <2>2 DEF JobTypes
  <2>4. DepTypes'
    BY <1>0 DEF DepTypes, DependsOn
  <2> QED BY <1>s, <2>3, <2>4 DEF Types, SameResults
<1>4. Others(j)
  BY <1>0, <1>s, <1>1, <1>2 DEF Others, JobTypes, SameResults
<1>5. OrderInv(j)'
  <2>1. \A d \in DependsOn(j) : Stored(d, "value") => Stored(d, "value")'
    BY <1>0, <1>s DEF SameResults, DepTypes, Results
  <2> QED BY <1>0, <1>s, <1>1, <2>1 DEF OrderInv, DependsOn, JobTypes, Executing, SameResults
<1>6. CountInv(j)'
  BY <1>0, <1>s, <1>1 DEF CountInv, OrderInv, JobTypes, Unrecorded, SameResults, Results
<1> QED BY <1>s, <1>3, <1>4, <1>5, <1>6, OneJob DEF SameResults, Results

\* waitOneDependency marks a dependency met only on its value; waitDependencies
\* goes on only if all are met.
LEMMA DepsKeep ==
  ASSUME LifeInv, NEW j \in Jobs, (\E d \in DependsOn(j) : DepStep(j, d)) \/ Resolve(j)
  PROVE  LifeInv'
<1>0. JobTypes /\ EntryTypes /\ DepTypes /\ OrderInv(j) /\ CountInv(j)
  BY DEF LifeInv, Types
<1>1. ASSUME NEW d \in DependsOn(j), DepArrives(j, d) \/ DepExpires(j, d) \/ DepRegisters(j, d)
      PROVE  LifeInv'
  <2>0. jpc[j] = "deps" /\ UNCHANGED <<spc, queue, jpc, error, outcomes>>
    BY <1>1 DEF DepArrives, DepExpires, DepRegisters, run
  <2>s. SameResults /\ d \in Jobs /\ d \in Lookups
    <3>1. d \in Jobs /\ d \in Lookups
      BY <1>0 DEF DepTypes, Lookups
    <3>2. Search(j, d, j) \/ (UNCHANGED result /\ EntryTo(j, d, Finding))
      BY <1>1 DEF DepArrives, DepExpires, DepRegisters
    <3> QED BY <1>0, <3>1, <3>2, SearchMoves, EntryMoves
  <2>1. PICK l \in DepLabels :
          /\ dep' = [dep EXCEPT ![j] = [dep[j] EXCEPT ![d] = l]]
          /\ l = "met" => Stored(d, "value")
    <3>1. CASE UNCHANGED dep
      <4>1. dep[j] = [dep[j] EXCEPT ![d] = dep[j][d]] /\ dep[j][d] \in DepLabels
        BY <1>0 DEF DepTypes
      <4>2. dep' = [dep EXCEPT ![j] = [dep[j] EXCEPT ![d] = dep[j][d]]]
        BY <1>0, <3>1, <4>1 DEF DepTypes
      <4> QED BY <1>0, <4>1, <4>2 DEF OrderInv
    <3>2. CASE DepEnds(j, d, "unmet") \/ DepEnds(j, d, "register")
      BY <3>2 DEF DepEnds, DepLabels
    <3>3. CASE DepArrives(j, d)
      <4>1. entry[j][d] \in DOMAIN result[d]
        <5>1. /\ result[d] \in Seq(Results \cup {"none"}) /\ entry[j][d] \in Int
              /\ entry[j][d] <= Len(result[d]) /\ entry[j][d] > 0
          BY <1>0, <2>s, <3>3 DEF EntryTypes, DepArrives, Given, Key
        <5> QED BY SMT, <5>1
      <4> QED BY <3>3, <4>1 DEF DepArrives, DepEnds, Stored, DepLabels
    <3> QED BY <1>1, <3>1, <3>2, <3>3 DEF DepExpires, DepRegisters, waits
  <2>2. /\ dep'[j] = [dep[j] EXCEPT ![d] = l] /\ DependsOn(j)' = DependsOn(j)
        /\ \A k \in Jobs \ {j} : dep'[k] = dep[k]
    BY <1>0, <2>1 DEF DepTypes, DependsOn
  <2>3. DepTypes'
    <3>1. dep' = [k \in Jobs |-> dep'[k]]
      BY <1>0, <2>1 DEF DepTypes
    <3>2. dep'[j] \in [DependsOn(j)' -> DepLabels]
      <4>1. dep[j] \in [DependsOn(j) -> DepLabels]
        BY <1>0 DEF DepTypes
      <4>2. [dep[j] EXCEPT ![d] = l] \in [DependsOn(j) -> DepLabels]
        BY SMT, <4>1
      <4> QED BY <2>2, <4>2
    <3> QED BY <1>0, <2>2, <3>1, <3>2 DEF DepTypes, DependsOn
  <2>4. Types'
    BY <1>0, <2>0, <2>s, <2>3 DEF JobTypes, Types, SameResults
  <2>5. Others(j)
    BY <1>0, <2>0, <2>s, <2>2 DEF Others, SameResults
  <2>6. OrderInv(j)'
    <3>1. \A e \in DependsOn(j) : dep'[j][e] = "met" => Stored(e, "value")
      BY <1>0, <2>1, <2>2 DEF OrderInv, DepTypes
    <3>2. \A e \in DependsOn(j) : Stored(e, "value") => Stored(e, "value")'
      BY <1>0, <2>s DEF SameResults, DepTypes, Results
    <3> QED BY <1>0, <2>0, <2>s, <2>2, <3>1, <3>2 DEF OrderInv, Executing, SameResults
  <2>7. CountInv(j)'
    BY <1>0, <2>0, <2>s DEF CountInv, SameResults, Results
  <2> QED BY <2>s, <2>4, <2>5, <2>6, <2>7, OneJob DEF SameResults, Results
<1>2. CASE Resolve(j)
  <2>0. jpc[j] = "deps" /\ UNCHANGED <<spc, queue, dep>> /\ Settled(j)
    BY <1>2 DEF Resolve, waits
  <2>s. SameResults
    BY <1>0, <1>2, SpaceStays DEF Resolve
  <2>1. \/ /\ jpc' = [jpc EXCEPT ![j] = "storeError"]
           /\ error' = [error EXCEPT ![j] = "dependency"]
           /\ outcomes' = [outcomes EXCEPT ![j] = outcomes[j] + 1]
        \/ /\ jpc' = [jpc EXCEPT ![j] = "enqueue"] /\ UNCHANGED <<error, outcomes>>
           /\ \A d \in DependsOn(j) : dep[j][d] # "unmet"
    BY <1>2 DEF Resolve, JobTo
  <2>2. Types'
    <3>1. JobTypes'
      <4>1. jpc' \in [Jobs -> JobLabels]
        BY <1>0, <2>1 DEF JobTypes, JobLabels, Unrecorded
      <4>2. error' \in [Jobs -> Errors \cup {"none"}]
        BY <1>0, <2>1 DEF JobTypes, Errors
      <4>3. outcomes' \in [Jobs -> Nat]
        <5>1. outcomes' \in {outcomes, [outcomes EXCEPT ![j] = outcomes[j] + 1]}
          BY <2>1
        <5>2. outcomes \in [Jobs -> Nat]
          BY <1>0 DEF JobTypes
        <5> QED BY SMT, <5>1, <5>2
      <4> QED BY <1>0, <2>0, <4>1, <4>2, <4>3 DEF JobTypes
    <3>2. DepTypes'
      BY <1>0, <2>0 DEF DepTypes, DependsOn
    <3> QED BY <2>s, <3>1, <3>2 DEF Types, SameResults
  <2>3. Others(j)
    BY <1>0, <2>0, <2>s, <2>1 DEF Others, JobTypes, SameResults
  <2>4. \A d \in DependsOn(j) : dep[j][d] # "unmet" => dep[j][d] = "met"
    BY <1>0, <2>0 DEF Settled, DepTypes
  <2>5. OrderInv(j)'
    <3>1. \A d \in DependsOn(j) : Stored(d, "value") => Stored(d, "value")'
      BY <1>0, <2>s DEF SameResults, DepTypes, Results
    <3>2. \A x \in Results : ~Stored(j, x)'
      BY <1>0, <2>0, <2>s DEF OrderInv, SameResults
    <3> QED BY <1>0, <2>0, <2>1, <2>4, <3>1, <3>2 DEF OrderInv, JobTypes, DependsOn, Executing
  <2>6. CountInv(j)'
    <3>1. jpc[j] = "deps" /\ outcomes[j] = 0 /\ \A x \in Results : ~Stored(j, x)'
      BY <1>0, <2>0, <2>s DEF CountInv, OrderInv, Unrecorded, SameResults
    <3>2. \/ jpc'[j] = "storeError" /\ error'[j] = "dependency" /\ outcomes'[j] = 1
          \/ jpc'[j] = "enqueue" /\ outcomes'[j] = 0
      <4>1. outcomes' = [outcomes EXCEPT ![j] = outcomes[j] + 1] => outcomes'[j] = 1
        BY SMT, <1>0, <3>1 DEF JobTypes
      <4> QED BY <1>0, <2>1, <3>1, <4>1 DEF JobTypes
    <3>3. 0 <= 1 /\ 1 <= 1
      BY SMT
    <3> QED BY <3>1, <3>2, <3>3 DEF CountInv, Unrecorded, Results
  <2> QED BY <2>s, <2>2, <2>3, <2>5, <2>6, OneJob DEF SameResults, Results
<1> QED BY <1>1, <1>2, SearchKeeps DEF DepStep

\* enqueueJob, which publishes the job or ends it with an error.
LEMMA EnqueueKeeps ==
  ASSUME LifeInv, NEW j \in Jobs, CheckEnqueue(j) \/ Publish(j) \/ PublishFails(j)
  PROVE  LifeInv'
<1>0. /\ JobTypes /\ EntryTypes /\ DepTypes /\ OrderInv(j) /\ CountInv(j)
      /\ jpc[j] \in {"enqueue", "publish"} /\ UNCHANGED <<space, dep, outcomes>>
  BY DEF LifeInv, Types, CheckEnqueue, Publish, PublishFails, EnqueueFails, waits, run
<1>s. SameResults
  BY <1>0, SpaceStays
<1>1. /\ spc' = [spc EXCEPT ![j] = spc'[j]] /\ spc'[j] \in {spc[j], "rejected", "await"}
      /\ jpc' = [jpc EXCEPT ![j] = jpc'[j]]
      /\ \/ jpc'[j] \in {"done", "storeError"} /\ queue' = queue
            /\ error' = [error EXCEPT ![j] = "schedule"]
         \/ jpc'[j] = "publish" /\ queue' = queue /\ error' = error
         \/ jpc'[j] = "queued" /\ queue' = queue \cup {j} /\ error' = error
  <2>1. CASE CheckEnqueue(j) /\ ~(stopping \/ cancelled \/ queueClosed)
    BY <1>0, <2>1 DEF CheckEnqueue, JobTo, JobTypes, run
  <2>2. CASE EnqueueFails(j)
    BY <1>0, <2>2 DEF EnqueueFails, Caller, JobTo, JobTypes
  <2>3. CASE Publish(j)
    BY <1>0, <2>3 DEF Publish, Caller, JobTo, JobTypes, run
  <2> QED BY <2>1, <2>2, <2>3 DEF CheckEnqueue, PublishFails
<1>2. Types'
  <2>1. spc'[j] \in CallerLabels /\ jpc'[j] \in JobLabels
    BY <1>0, <1>1 DEF JobTypes, CallerLabels, JobLabels, Unrecorded
  <2>2. JobTypes'
    BY <1>0, <1>1, <2>1 DEF JobTypes, Errors
  <2>3. DepTypes'
    BY <1>0 DEF DepTypes, DependsOn
  <2> QED BY <1>s, <2>2, <2>3 DEF Types, SameResults
<1>3. Others(j)
  BY <1>0, <1>s, <1>1 DEF Others, JobTypes, SameResults
<1>4. OrderInv(j)'
  <2>1. \A d \in DependsOn(j) : Stored(d, "value") => Stored(d, "value")'
    BY <1>0, <1>s DEF SameResults, DepTypes, Results
  <2>2. \A x \in Results : ~Stored(j, x)'
    BY <1>0, <1>s DEF OrderInv, SameResults
  <2> QED BY <1>0, <1>1, <2>1, <2>2 DEF OrderInv, DependsOn, Executing
<1>5. CountInv(j)'
  BY <1>0, <1>s, <1>1 DEF CountInv, OrderInv, JobTypes, Unrecorded, SameResults, Results
<1> QED BY <1>s, <1>2, <1>3, <1>4, <1>5, OneJob DEF SameResults, Results

\* processJob, up to the recording of the outcome.
LEMMA ExecuteKeeps ==
  ASSUME LifeInv, NEW j \in Jobs,
         \/ Take(j) \/ ContextEnds(j) \/ Attempt(j) \/ FnSucceeds(j) \/ FnFails(j)
         \/ Delay(j) \/ Record(j)
  PROVE  LifeInv'
<1>0. /\ JobTypes /\ EntryTypes /\ DepTypes /\ OrderInv(j) /\ CountInv(j)
      /\ UNCHANGED <<spc, space, dep, error>>
  BY ZenonT(30) DEF LifeInv, Types, Take, ContextEnds, Attempt, FnSucceeds, FnFails, Delay, Record,
     waits, run
<1>s. SameResults
  BY <1>0, SpaceStays
<1>1. /\ jpc[j] \in {"queued", "attempt", "invoke", "delay", "failed", "succeeded"}
      /\ jpc' = [jpc EXCEPT ![j] = jpc'[j]]
      /\ queue' \subseteq queue /\ j \notin queue'
      /\ \/ /\ jpc'[j] \in {"attempt", "invoke", "delay", "failed", "succeeded"}
            /\ outcomes' = outcomes
         \/ /\ jpc'[j] \in {"storeFailed", "store"}
            /\ outcomes' = [outcomes EXCEPT ![j] = outcomes[j] + 1]
  <2>1. CASE Take(j)
    BY <1>0, <2>1 DEF Take, JobTo, JobTypes, OrderInv
  <2>2. CASE ContextEnds(j) \/ FnFails(j)
    BY <1>0, <2>2 DEF ContextEnds, FnFails, Ends, JobTo, JobTypes, OrderInv
  <2>3. CASE Attempt(j) \/ FnSucceeds(j) \/ Delay(j)
    BY <1>0, <2>3 DEF Attempt, FnSucceeds, Delay, Ends, JobTo, JobTypes, OrderInv, run
  <2>4. CASE Record(j)
    BY <1>0, <2>4 DEF Record, JobTo, JobTypes, OrderInv
  <2> QED BY <2>1, <2>2, <2>3, <2>4
<1>2. Types'
  <2>1. jpc'[j] \in JobLabels
    BY <1>1 DEF JobLabels, Unrecorded
  <2>2. outcomes' \in [Jobs -> Nat]
    BY SMT, <1>0, <1>1 DEF JobTypes
  <2>3. JobTypes'
    BY <1>0, <1>1, <2>1, <2>2 DEF JobTypes
  <2>4. DepTypes'
    BY <1>0 DEF DepTypes, DependsOn
  <2> QED BY <1>s, <2>3, <2>4 DEF Types, SameResults
<1>3. Others(j)
  BY <1>0, <1>s, <1>1 DEF Others, JobTypes, SameResults
<1>n. \A x \in Results : ~Stored(j, x)'
  BY <1>0, <1>s, <1>1 DEF OrderInv, SameResults
<1>4. OrderInv(j)'
  <2>1. \A d \in DependsOn(j) : Stored(d, "value") => Stored(d, "value")'
    BY <1>0, <1>s DEF SameResults, DepTypes, Results
  <2> QED BY <1>0, <1>1, <1>n, <2>1 DEF OrderInv, DependsOn, Executing
<1>5. CountInv(j)'
  <2>1. outcomes[j] = 0
    BY <1>0, <1>1 DEF CountInv, Unrecorded
  <2>2. ~Stored(j, "value")' /\ ~Stored(j, "generic")' /\ ~Stored(j, "dependency")'
        /\ ~Stored(j, "schedule")'
    BY <1>n DEF Results
  <2>3. outcomes'[j] = IF jpc'[j] \in {"storeFailed", "store"} THEN 1 ELSE 0
    BY SMT, <1>0, <1>1, <2>1 DEF JobTypes
  <2> QED BY SMT, <1>0, <1>1, <2>2, <2>3 DEF CountInv, Unrecorded
<1> QED BY <1>s, <1>2, <1>3, <1>4, <1>5, OneJob DEF SameResults, Results

\* The end of a job: its value or its error is stored, unless the space is closed.
LEMMA StoreKeeps ==
  ASSUME LifeInv, NEW j \in Jobs, StoreUnmet(j) \/ StoreFailed(j) \/ Store(j)
  PROVE  LifeInv'
<1>0. /\ JobTypes /\ EntryTypes /\ DepTypes /\ OrderInv(j) /\ CountInv(j)
      /\ jpc' = [jpc EXCEPT ![j] = "done"] /\ UNCHANGED <<spc, queue, dep, outcomes>>
      /\ jpc[j] \in {"storeError", "storeFailed", "store"}
      /\ error' \in {error, [error EXCEPT ![j] = "encoding"]}
  BY DEF LifeInv, Types, StoreUnmet, StoreFailed, Store, JobTo, waits, run
<1>1. PICK x \in Results :
        /\ UNCHANGED space \/ StoreResult(j, x)
        /\ IF jpc[j] = "storeError" THEN x = error[j] ELSE x \in {"generic", "value"}
  <2>1. CASE StoreUnmet(j)
    <3>1. error[j] \in Results
      BY <2>1, <1>0 DEF StoreUnmet, CountInv, Results
    <3> QED BY <2>1, <3>1 DEF StoreUnmet
  <2>2. CASE StoreFailed(j)
    BY <2>2 DEF StoreFailed, Results
  <2>3. CASE Store(j)
    BY <2>3 DEF Store, Results
  <2> QED BY <2>1, <2>2, <2>3
<1>2. /\ EntryTypes'
      /\ \A k \in Jobs \ {j} : \A y \in Results : Stored(k, y)' <=> Stored(k, y)
      /\ \A y \in Results : Stored(j, y)' => Stored(j, y) \/ y = x
  <2>1. CASE UNCHANGED space
    BY <1>0, <2>1, SpaceStays DEF SameResults
  <2>2. CASE StoreResult(j, x)
    BY <1>0, <2>2, StoreMoves
  <2> QED BY <1>1, <2>1, <2>2
<1>3. \A y \in Results : ~Stored(j, y) /\ (Stored(j, y)' => y = x)
  BY <1>0, <1>2 DEF OrderInv
<1>4. Types'
  <2>1. JobTypes'
    BY <1>0 DEF JobTypes, JobLabels, Errors
  <2>2. DepTypes'
    BY <1>0 DEF DepTypes, DependsOn
  <2> QED BY <1>2, <2>1, <2>2 DEF Types
<1>5. Others(j)
  BY <1>0, <1>2 DEF Others, JobTypes
<1>6. OrderInv(j)'
  <2>1. \A d \in DependsOn(j) : Stored(d, "value") => Stored(d, "value")'
    BY <1>0, <1>2, <1>3 DEF DepTypes, Results
  <2> QED BY <1>0, <2>1 DEF OrderInv, DependsOn, JobTypes, Executing
<1>7. CountInv(j)'
  BY <1>0, <1>1, <1>3 DEF CountInv, JobTypes, Unrecorded, Results
<1> QED BY <1>3, <1>4, <1>5, <1>6, <1>7, OneJob DEF Results

\* Initially no job has been scheduled.
LEMMA LifeStart == Init => LifeInv
<1> SUFFICES ASSUME Init PROVE LifeInv
  OBVIOUS
<1>1. PICK g \in Graphs : dep = [j \in Jobs |-> [d \in g[j] |-> "await"]]
  BY DEF Init
<1>2. g \in [Jobs -> SUBSET Jobs]
  BY PoolAssumption
<1>3. DepTypes
  BY <1>1, <1>2 DEF DepTypes, DepLabels, DependsOn
<1>4. JobTypes
  BY DEF Init, JobTypes, CallerLabels, JobLabels, Unrecorded
<1>e. EntryTypes /\ \A j \in Jobs : \A x \in Results : ~Stored(j, x)
  <2>1. result = [j \in Jobs |-> << >>] /\ entry = [j \in Jobs |-> [c \in Lookups |-> 0]]
    BY DEF Init, Finding
  <2>2. EntryTypes
    BY SMT, <2>1 DEF EntryTypes
  <2>3. \A j \in Jobs : \A x \in Results : ~Stored(j, x)
    BY SMT, <2>1 DEF Stored
  <2> QED BY <2>2, <2>3
<1>5. ASSUME NEW j \in Jobs PROVE OrderInv(j) /\ CountInv(j)
  <2>1. \A d \in DependsOn(j) : dep[j][d] # "met"
    BY <1>1, <1>2 DEF DependsOn
  <2>2. OrderInv(j)
    BY <1>e, <2>1 DEF Init, OrderInv, Executing
  <2>3. CountInv(j)
    <3>1. /\ jpc[j] = "new" /\ outcomes[j] = 0 /\ ~Stored(j, "value") /\ ~Stored(j, "generic")
          /\ ~Stored(j, "dependency") /\ ~Stored(j, "schedule")
      BY <1>e DEF Init, Results
    <3> QED BY SMT, <3>1 DEF CountInv
  <2> QED BY <2>2, <2>3
<1> QED BY <1>3, <1>4, <1>e, <1>5 DEF LifeInv, Types

\* Every step keeps the invariant.
LEMMA LifeStep == LifeInv /\ [Next]_vars => LifeInv'
<1> SUFFICES ASSUME LifeInv, [Next]_vars PROVE LifeInv'
  OBVIOUS
<1>1. ASSUME NEW j \in Jobs, Reject(j) \/ Admit(j) \/ CallerStep(j) PROVE LifeInv'
  BY <1>1, CallerKeeps, SearchKeeps DEF CallerStep
<1>2. ASSUME NEW j \in Jobs, JobStep(j) PROVE LifeInv'
  BY <1>2, DepsKeep, EnqueueKeeps, ExecuteKeeps, SearchKeeps, StoreKeeps DEF JobStep
<1>3. CASE \/ \E j \in Jobs : DepsDone(j)
           \/ \E c \in Closers : SetStopping(c) \/ CloserStep(c)
           \/ CancelParent \/ HandlersExit \/ UNCHANGED vars
  <2>1. UNCHANGED <<spc, jpc, queue, space, error, outcomes, dep>>
    <3>1. CASE UNCHANGED vars
      BY <3>1 DEF vars, space
    <3>2. CASE ~UNCHANGED vars
      BY <1>3, <3>2 DEF DepsDone, SetStopping, CloserStep, CancelPool, CloseQueue, AwaitHandlers,
         GroupCheck, GroupAcquire, CloseSpace, CancelParent, HandlersExit, waits, run
    <3> QED BY <3>1, <3>2
  <2> QED BY <2>1, SpaceStays, NoJob DEF LifeInv, Types
<1> QED BY <1>1, <1>2, <1>3 DEF Next, Progress

-----------------------------------------------------------------------------
(* The theorems *)

\* Whatever the jobs and their dependencies, circles included: a job is published
\* only when every job it depends on has stored its value (resolveDependentJob).
THEOREM DependenciesComeFirst == Spec => []DependenciesFirst
<1>1. LifeInv => DependenciesFirst
  <2>1. ASSUME LifeInv, NEW j \in Jobs, NEW d \in DependsOn(j),
               jpc[j] \in Executing \cup {"publish", "queued"}
        PROVE  Stored(d, "value")
    BY <2>1 DEF LifeInv, OrderInv
  <2> QED BY <2>1 DEF DependenciesFirst, Stored
<1> QED
  BY LifeStart, LifeStep, <1>1, PTL DEF Spec

\* Whatever the jobs: an outcome is recorded at most once, exactly once for a value
\* or failure that can be read, and never for a job that could not be enqueued.
THEOREM OutcomesCountedOnce == Spec => []CountedOnce
<1>1. LifeInv => CountedOnce
  BY DEF LifeInv, CountInv, CountedOnce, Stored
<1> QED
  BY LifeStart, LifeStep, <1>1, PTL DEF Spec

\* The handlers leave when nothing executes and take no job afterwards; of the calls
\* of Close, the one that closed the queue waits for them.
CloseInv ==
  /\ cpc \in [Closers -> CloserLabels]
  /\ ~handling => \A j \in Jobs : jpc[j] \notin Executing
  /\ (\E c \in Closers : cpc[c] \notin {"idle", "cancel", "queue"}) => queueClosed
  /\ (queueClosed /\ handling) => \E c \in Closers : cpc[c] = "handlers"
  /\ (\E c \in Closers : cpc[c] = "done") => ~spaceOpen

\* For any number of concurrent calls of Close: when the calls made have returned, no
\* job executes and the space is closed.
THEOREM CloseQuiets == Spec => []QuietAfterClose
<1>1. Init => CloseInv
  BY DEF Init, CloseInv, CloserLabels
<1>2. LifeInv /\ CloseInv /\ [Next]_vars => CloseInv'
  <2> SUFFICES ASSUME LifeInv, CloseInv, [Next]_vars PROVE CloseInv'
    OBVIOUS
  <2>0. JobTypes
    BY DEF LifeInv, Types
  <2>1. ASSUME NEW j \in Jobs, Reject(j) \/ Admit(j) \/ CallerStep(j) \/ JobStep(j) \/ DepsDone(j)
        PROVE  CloseInv'
    <3>1. UNCHANGED closure
      BY ZenonT(60), <2>1 DEF Reject, CallerStep, Admit, CheckStart, Spawn, AwaitSearches, Await, JobStep,
         CheckEnqueue, Publish, PublishFails, EnqueueFails, DepStep, DepAwaits, DepArrives, DepExpires,
         DepRegisters, Resolve, StoreSearches, StoreUnmet, Take,
         ContextEnds, Attempt, FnSucceeds, FnFails, Delay, Record, StoreFailed, Store, DepsDone
    <3>2. /\ \A k \in Jobs \ {j} : jpc'[k] = jpc[k]
          /\ ~handling /\ jpc[j] \notin Executing => jpc'[j] \notin Executing
      <4>1. CASE Reject(j) \/ Admit(j) \/ CallerStep(j) \/ DepsDone(j)
        BY <2>0, <4>1 DEF Reject, CallerStep, Admit, CheckStart, Spawn, AwaitSearches, Await, DepsDone,
           JobTo, JobTypes, Executing
      <4>2. CASE CheckEnqueue(j) \/ Publish(j) \/ PublishFails(j)
        <5>1. \E l \in {"publish", "queued", "done", "storeError"} : JobTo(j, l)
          BY <4>2 DEF CheckEnqueue, Publish, PublishFails, EnqueueFails
        <5> QED BY <2>0, <5>1 DEF JobTo, JobTypes, Executing
      <4>3. CASE (\E d \in DependsOn(j) : DepStep(j, d)) \/ Resolve(j) \/ StoreSearches(j)
                 \/ StoreUnmet(j) \/ StoreFailed(j) \/ Store(j)
        BY <2>0, <4>3 DEF DepStep, DepAwaits, DepArrives, DepExpires, DepRegisters, Resolve,
           StoreSearches, StoreUnmet, StoreFailed, Store, JobTo, JobTypes, Executing
      <4>4. CASE Take(j)
        BY <2>0, <4>4 DEF Take, JobTo, JobTypes
      <4>5. CASE \/ ContextEnds(j) \/ Attempt(j) \/ FnSucceeds(j) \/ FnFails(j)
                 \/ Delay(j) \/ Record(j)
        BY <2>0, <4>5 DEF ContextEnds, Attempt, FnSucceeds, FnFails, Ends, Delay, Record, JobTo, JobTypes,
           Executing
      <4> QED BY <2>1, <4>1, <4>2, <4>3, <4>4, <4>5 DEF JobStep
    <3> QED BY <3>1, <3>2 DEF CloseInv, closure
  <2>2. ASSUME NEW c \in Closers, SetStopping(c) \/ CloserStep(c) PROVE CloseInv'
    <3>0. UNCHANGED <<jpc, handling>> /\ cpc' = [cpc EXCEPT ![c] = cpc'[c]]
      BY <2>2 DEF SetStopping, CloserStep, CancelPool, CloseQueue, AwaitHandlers, GroupCheck,
         GroupAcquire, CloseSpace, CloserTo, CloseInv
    <3>1. CASE SetStopping(c) \/ CancelPool(c)
      <4>1. /\ cpc[c] \in {"idle", "cancel"} /\ cpc'[c] \in {"cancel", "queue"}
            /\ UNCHANGED <<queueClosed, spaceOpen>>
        BY <3>1 DEF SetStopping, CancelPool, CloserTo, CloseInv
      <4> QED BY <3>0, <4>1 DEF CloseInv, CloserLabels
    <3>2. CASE CloseQueue(c)
      <4>1. /\ cpc[c] = "queue" /\ queueClosed' /\ UNCHANGED spaceOpen
            /\ cpc'[c] = IF queueClosed THEN "deps" ELSE "handlers"
        BY <3>2 DEF CloseQueue, CloserTo, CloseInv
      <4> QED BY <3>0, <4>1 DEF CloseInv, CloserLabels
    <3>3. CASE AwaitHandlers(c)
      <4>1. cpc[c] = "handlers" /\ cpc'[c] = "deps" /\ ~handling /\ UNCHANGED <<queueClosed, spaceOpen>>
        BY <3>3 DEF AwaitHandlers, CloserTo, CloseInv
      <4> QED BY <3>0, <4>1 DEF CloseInv, CloserLabels
    <3>4. CASE GroupCheck(c) \/ GroupAcquire(c)
      <4>1. /\ cpc[c] \in {"deps", "acquire"} /\ cpc'[c] \in {"acquire", "space", "deps"}
            /\ UNCHANGED <<queueClosed, spaceOpen>>
        BY <3>4 DEF GroupCheck, GroupAcquire, CloserTo, CloseInv
      <4> QED BY <3>0, <4>1 DEF CloseInv, CloserLabels
    <3>5. CASE CloseSpace(c)
      <4>1. cpc[c] = "space" /\ cpc'[c] = "done" /\ ~spaceOpen' /\ UNCHANGED queueClosed
        BY <3>5 DEF CloseSpace, CloserTo, CloseInv
      <4> QED BY <3>0, <4>1 DEF CloseInv, CloserLabels
    <3> QED BY <2>2, <3>1, <3>2, <3>3, <3>4, <3>5 DEF CloserStep
  <2>3. CASE HandlersExit
    BY <2>3 DEF HandlersExit, CloseInv
  <2>4. CASE CancelParent \/ UNCHANGED vars
    BY SMT, <2>4 DEF CancelParent, CloseInv, vars
  <2> QED BY <2>1, <2>2, <2>3, <2>4 DEF Next, Progress
<1>3. CloseInv => QuietAfterClose
  BY DEF CloseInv, QuietAfterClose
<1> QED
  BY LifeStart, LifeStep, <1>1, <1>2, <1>3, PTL DEF Spec
=============================================================================
