--------------------------- MODULE FastPathProofs ---------------------------
(***************************************************************************)
(* Proofs about FastPath, for any number of callers, workers, nodes and    *)
(* tasks.  That the workers stay bounded holds torn stack or not: the      *)
(* inductive invariant counts, workerCount being the workers started and   *)
(* the callers that have added themselves in vain and not yet taken that   *)
(* back.  That no idle worker is lost holds while the stack is not torn:   *)
(* every node is then spare, being pushed, on the stack or popped, and     *)
(* only one of these.                                                      *)
(***************************************************************************)
EXTENDS FastPath, FiniteSetTheorems, TLAPS

NodeOrNil == Nodes \cup {Nil}

TaskNo == 0..MaxTasks

CallerType ==
  [pc : {"idle", "load", "next", "cas", "free", "ready", "count", "retract"},
   task : TaskNo, top : NodeOrNil, next : NodeOrNil, slot : Workers \cup {Nil}]

WorkerType ==
  [pc : {"none", "run", "alloc", "load", "cas", "park", "parked"},
   task : TaskNo, item : NodeOrNil, top : NodeOrNil]

TypeOK ==
  /\ top \in NodeOrNil
  /\ next \in [Nodes -> NodeOrNil]
  /\ value \in [Nodes -> Workers \cup {Nil}]
  /\ workerCount \in Nat
  /\ submitted \in TaskNo
  /\ caller \in [Callers -> CallerType]
  /\ worker \in [Workers -> WorkerType]

\* Who follows a pointer has one.
Holding ==
  /\ \A c \in Callers : /\ caller[c].pc \in {"next", "cas", "free"} => caller[c].top \in Nodes
                        /\ caller[c].pc = "ready" => caller[c].slot \in Workers
  /\ \A w \in Workers : worker[w].pc \in {"load", "cas"} => worker[w].item \in Nodes

Retracting == {c \in Callers : caller[c].pc = "retract"}

Counted == workerCount = Cardinality(Started) + Cardinality(Retracting)

FastInv == TypeOK /\ Holding /\ Counted /\ WorkersBounded

LEMMA FiniteCounts ==
  /\ IsFiniteSet(Started) /\ Cardinality(Started) \in Nat
  /\ IsFiniteSet(Retracting) /\ Cardinality(Retracting) \in Nat
<1>1. Started \subseteq Workers /\ Retracting \subseteq Callers
  BY DEF Started, Retracting
<1> QED BY <1>1, FastPathAssumption, FS_Subset, FS_CardinalityType

LEMMA FastInit == Init => FastInv
<1> SUFFICES ASSUME Init PROVE FastInv
  OBVIOUS
<1>1. TypeOK /\ Holding
  BY FastPathAssumption DEF Init, TypeOK, Holding, Outside, NotStarted, NodeOrNil,
     CallerType, WorkerType, TaskNo
<1>2. Started = {} /\ Retracting = {}
  BY DEF Init, Started, Retracting, Outside, NotStarted
<1>3. Cardinality(Started) = 0 /\ Cardinality(Retracting) = 0
  BY <1>2, FS_EmptySet
<1> QED BY <1>1, <1>3, FastPathAssumption DEF FastInv, Counted, WorkersBounded, Init

\* A step that starts no worker and moves no caller into or out of its vain attempt.
LEMMA CountKept ==
  ASSUME FastInv, UNCHANGED workerCount, Started' = Started, Retracting' = Retracting
  PROVE  Counted' /\ WorkersBounded'
BY DEF FastInv, Counted, WorkersBounded

\* The callers' steps that read or take from the stack.
LEMMA PopKeeps ==
  ASSUME FastInv, NEW c \in Callers,
         Submit(c) \/ PopLoad(c) \/ PopNext(c) \/ PopSwap(c)
  PROVE  FastInv'
<1>1. TypeOK /\ Holding
  BY DEF FastInv
<1>2. TypeOK'
  <2>1. CASE Submit(c)
    <3>1. submitted + 1 \in TaskNo
      BY <1>1, <2>1, FastPathAssumption DEF Submit, TypeOK, TaskNo
    <3> DEFINE r == [caller[c] EXCEPT !.pc = "load", !.task = submitted + 1]
    <3>2. r \in CallerType
      BY <1>1, <3>1 DEF TypeOK, CallerType
    <3>3. caller' = [caller EXCEPT ![c] = r]
      BY <2>1 DEF Submit
    <3> HIDE DEF r
    <3>4. submitted' = submitted + 1 /\ UNCHANGED <<top, next, value, workerCount, worker>>
      BY <2>1 DEF Submit, stackVars
    <3> QED BY <1>1, <3>1, <3>2, <3>3, <3>4 DEF TypeOK
  <2>2. CASE PopLoad(c)
    <3>1. caller' \in [Callers -> CallerType]
      BY <1>1, <2>2 DEF PopLoad, TypeOK, CallerType
    <3> QED BY <1>1, <2>2, <3>1 DEF PopLoad, TypeOK, stackVars, taskVars
  <2>3. CASE PopNext(c)
    <3>1. next[caller[c].top] \in NodeOrNil
      BY <1>1, <2>3 DEF PopNext, TypeOK, Holding
    <3>2. caller' \in [Callers -> CallerType]
      BY <1>1, <2>3, <3>1 DEF PopNext, TypeOK, CallerType
    <3> QED BY <1>1, <2>3, <3>2 DEF PopNext, TypeOK, stackVars, taskVars
  <2>4. CASE PopSwap(c)
    <3>1. caller[c].next \in NodeOrNil /\ Nil \in NodeOrNil
      BY <1>1 DEF TypeOK, CallerType, NodeOrNil
    <3>2. caller' \in [Callers -> CallerType]
      BY <1>1, <2>4, <3>1 DEF PopSwap, TypeOK, CallerType
    <3> QED BY <1>1, <2>4, <3>1, <3>2 DEF PopSwap, TypeOK, taskVars
  <2> QED BY <2>1, <2>2, <2>3, <2>4
<1>3. UNCHANGED <<worker, workerCount>>
  BY DEF Submit, PopLoad, PopNext, PopSwap
<1>4. /\ \A d \in Callers \ {c} : caller'[d] = caller[d]
      /\ caller[c].pc # "retract" /\ caller'[c].pc # "retract"
      /\ caller'[c].pc # "ready"
      /\ caller'[c].pc \in {"next", "cas", "free"} => caller'[c].top \in Nodes
  <2>1. CASE Submit(c)
    BY <1>1, <2>1 DEF Submit, TypeOK, CallerType
  <2>2. CASE PopLoad(c)
    BY <1>1, <2>2 DEF PopLoad, TypeOK, CallerType, NodeOrNil
  <2>3. CASE PopNext(c)
    BY <1>1, <2>3 DEF PopNext, TypeOK, CallerType, Holding
  <2>4. CASE PopSwap(c)
    BY <1>1, <2>4 DEF PopSwap, TypeOK, CallerType, Holding
  <2> QED BY <2>1, <2>2, <2>3, <2>4
<1>5. Holding'
  BY <1>1, <1>3, <1>4 DEF Holding
<1>6. Started' = Started /\ Retracting' = Retracting
  BY <1>3, <1>4 DEF Started, Retracting
<1> QED BY <1>2, <1>3, <1>5, <1>6, CountKept DEF FastInv

\* The caller takes the slot out of the node it has popped.
LEMMA PopFreeKeeps ==
  ASSUME FastInv, NEW c \in Callers, PopFree(c)
  PROVE  FastInv'
<1> DEFINE n == caller[c].top
           s == value[n]
<1>1. TypeOK /\ Holding
  BY DEF FastInv
<1>2. n \in Nodes /\ s \in Workers \cup {Nil} /\ Nil \in NodeOrNil /\ caller[c].task \in TaskNo
  BY <1>1 DEF PopFree, Holding, TypeOK, CallerType, NodeOrNil
<1>3. value' \in [Nodes -> Workers \cup {Nil}] /\ next' \in [Nodes -> NodeOrNil]
  BY <1>1, <1>2 DEF PopFree, TypeOK
<1>4. UNCHANGED <<top, workerCount, submitted>>
  BY DEF PopFree, taskVars
<1>5. caller' \in [Callers -> CallerType] /\ worker' \in [Workers -> WorkerType]
  <2>1. CASE s = Nil
    BY <1>1, <1>2, <2>1 DEF PopFree, TypeOK, CallerType
  <2>2. CASE s # Nil
    <3>1. worker' \in [Workers -> WorkerType]
      BY <1>1, <1>2, <2>2 DEF PopFree, TypeOK, WorkerType
    <3>2. caller' \in [Callers -> CallerType]
      BY <1>1, <1>2, <2>2 DEF PopFree, TypeOK, CallerType
    <3> QED BY <3>1, <3>2
  <2> QED BY <2>1, <2>2
<1>6. /\ \A d \in Callers \ {c} : caller'[d] = caller[d]
      /\ caller[c].pc # "retract" /\ caller'[c].pc \in {"count", "ready"}
      /\ caller'[c].pc = "ready" => caller'[c].slot \in Workers
  BY <1>1, <1>2 DEF PopFree, TypeOK, CallerType
<1>7. \A w \in Workers : worker'[w].pc = worker[w].pc /\ worker'[w].item = worker[w].item
  BY <1>1, <1>2 DEF PopFree, TypeOK, WorkerType
<1>8. TypeOK'
  BY <1>1, <1>3, <1>4, <1>5 DEF TypeOK
<1>9. Holding'
  BY <1>1, <1>6, <1>7 DEF Holding
<1>10. Started' = Started /\ Retracting' = Retracting
  BY <1>6, <1>7 DEF Started, Retracting
<1> QED BY <1>4, <1>8, <1>9, <1>10, CountKept DEF FastInv

LEMMA ReadyKeeps ==
  ASSUME FastInv, NEW c \in Callers, SafeReady(c)
  PROVE  FastInv'
<1> DEFINE s == caller[c].slot
<1>1. TypeOK /\ Holding
  BY DEF FastInv
<1>2. s \in Workers /\ worker[s].pc = "parked" /\ Outside \in CallerType /\ Outside.pc = "idle"
  BY <1>1, FastPathAssumption
     DEF SafeReady, Holding, Outside, CallerType, NodeOrNil, TaskNo
<1>3. /\ caller' = [caller EXCEPT ![c] = Outside]
      /\ worker' = [worker EXCEPT ![s].pc = "run"]
      /\ caller[c].pc = "ready"
      /\ UNCHANGED <<top, next, value, workerCount, submitted>>
  BY DEF SafeReady, stackVars, taskVars
<1> HIDE DEF s
<1>4. TypeOK'
  BY <1>1, <1>2, <1>3 DEF TypeOK, WorkerType
<1>5. /\ \A d \in Callers : caller'[d] = IF d = c THEN Outside ELSE caller[d]
      /\ \A w \in Workers : /\ worker'[w].item = worker[w].item
                            /\ worker'[w].pc = IF w = s THEN "run" ELSE worker[w].pc
  BY <1>1, <1>2, <1>3 DEF TypeOK, WorkerType
<1>6. Holding'
  BY <1>1, <1>2, <1>5 DEF Holding
<1>7. Started' = Started /\ Retracting' = Retracting
  BY <1>2, <1>3, <1>5 DEF Started, Retracting
<1> QED BY <1>3, <1>4, <1>6, <1>7, CountKept DEF FastInv

\* The caller adds itself to workerCount: it starts a worker, or is to retract.
LEMMA CountKeeps ==
  ASSUME FastInv, NEW c \in Callers, Count(c)
  PROVE  FastInv'
<1>1. TypeOK /\ Holding /\ Counted /\ WorkersBounded
  BY DEF FastInv
<1>2. /\ workerCount' = workerCount + 1 /\ caller[c].pc = "count"
      /\ UNCHANGED <<top, next, value, submitted>>
  BY DEF Count, stackVars, taskVars
<1>3. CASE CountedIn
  <2> DEFINE w == CHOOSE x \in NewWorkers : TRUE
             r == [worker[w] EXCEPT !.pc = "run", !.task = caller[c].task]
  <2>1. w \in Workers /\ worker[w].pc = "none"
    BY <1>3 DEF Count, NewWorkers
  <2>2. /\ worker' = [worker EXCEPT ![w] = r]
        /\ caller' = [caller EXCEPT ![c] = Outside]
    BY <1>3 DEF Count
  <2> HIDE DEF w
  <2>3. r \in WorkerType /\ r.pc = "run"
    BY <1>1, <2>1 DEF TypeOK, WorkerType, CallerType
  <2>4. Outside \in CallerType /\ Outside.pc = "idle"
    BY FastPathAssumption DEF Outside, CallerType, NodeOrNil, TaskNo
  <2> HIDE DEF r
  <2>5. TypeOK'
    BY <1>1, <1>2, <2>1, <2>2, <2>3, <2>4 DEF TypeOK
  <2>6. /\ \A d \in Callers : caller'[d] = IF d = c THEN Outside ELSE caller[d]
        /\ \A x \in Workers : worker'[x] = IF x = w THEN r ELSE worker[x]
    BY <1>1, <2>1, <2>2 DEF TypeOK
  <2>7. Holding'
    BY <1>1, <2>3, <2>4, <2>6 DEF Holding
  <2>8. Retracting' = Retracting
    BY <1>2, <2>4, <2>6 DEF Retracting
  <2>9. Started' = Started \cup {w} /\ w \notin Started
    BY <2>1, <2>3, <2>6 DEF Started
  <2>10. Cardinality(Started') = Cardinality(Started) + 1
    BY <2>9, FiniteCounts, FS_AddElement
  <2>11. Counted'
    BY <1>1, <1>2, <2>8, <2>10, FiniteCounts DEF Counted
  <2>12. WorkersBounded'
    BY <1>1, <1>3, <2>10, FiniteCounts, FastPathAssumption DEF CountedIn, Counted, WorkersBounded
  <2> QED BY <2>5, <2>7, <2>11, <2>12 DEF FastInv
<1>4. CASE ~CountedIn
  <2>1. caller' = [caller EXCEPT ![c].pc = "retract"] /\ UNCHANGED worker
    BY <1>4 DEF Count
  <2>2. TypeOK'
    BY <1>1, <1>2, <2>1 DEF TypeOK, CallerType
  <2>3. /\ \A d \in Callers \ {c} : caller'[d] = caller[d]
        /\ caller'[c].pc = "retract"
    BY <1>1, <2>1 DEF TypeOK, CallerType
  <2>4. Holding'
    BY <1>1, <2>1, <2>3 DEF Holding
  <2>5. Retracting' = Retracting \cup {c} /\ c \notin Retracting /\ Started' = Started
    BY <1>2, <2>1, <2>3 DEF Retracting, Started
  <2>6. Cardinality(Retracting') = Cardinality(Retracting) + 1
    BY <2>5, FiniteCounts, FS_AddElement
  <2>7. Counted' /\ WorkersBounded'
    BY <1>1, <1>2, <2>5, <2>6, FiniteCounts DEF Counted, WorkersBounded
  <2> QED BY <2>2, <2>4, <2>7 DEF FastInv
<1> QED BY <1>3, <1>4

LEMMA RetractKeeps ==
  ASSUME FastInv, NEW c \in Callers, Retract(c)
  PROVE  FastInv'
<1>1. TypeOK /\ Holding /\ Counted /\ WorkersBounded
  BY DEF FastInv
<1>2. /\ workerCount' = workerCount - 1 /\ caller[c].pc = "retract"
      /\ caller' = [caller EXCEPT ![c].pc = "load"]
      /\ UNCHANGED <<top, next, value, worker, submitted>>
  BY DEF Retract, stackVars, taskVars
<1>3. /\ \A d \in Callers \ {c} : caller'[d] = caller[d]
      /\ caller'[c].pc = "load"
  BY <1>1, <1>2 DEF TypeOK, CallerType
<1>4. Retracting' = Retracting \ {c} /\ c \in Retracting /\ Started' = Started
  BY <1>2, <1>3 DEF Retracting, Started
<1>5. Cardinality(Retracting') = Cardinality(Retracting) - 1
  BY <1>4, FiniteCounts, FS_RemoveElement
<1>6. Cardinality(Retracting') \in Nat
  BY <1>4, FiniteCounts, FS_Subset, FS_CardinalityType
<1>7. Counted' /\ WorkersBounded' /\ workerCount' \in Nat
  BY <1>1, <1>2, <1>4, <1>5, <1>6, FiniteCounts DEF Counted, WorkersBounded
<1>8. TypeOK'
  BY <1>1, <1>2, <1>7 DEF TypeOK, CallerType
<1>9. Holding'
  BY <1>1, <1>2, <1>3 DEF Holding
<1> QED BY <1>7, <1>8, <1>9 DEF FastInv

\* A worker's step starts nobody and leaves the callers alone.
LEMMA WorkerKeeps ==
  ASSUME FastInv, NEW w \in Workers, loopQ(w)
  PROVE  FastInv'
<1>1. TypeOK /\ Holding
  BY DEF FastInv
<1>2. UNCHANGED <<caller, workerCount, submitted>>
  BY DEF loopQ, Run, PushAlloc, PushLoad, PushSwap, FastPark, taskVars
<1>3. /\ worker' \in [Workers -> WorkerType]
      /\ \A x \in Workers \ {w} : worker'[x] = worker[x]
      /\ worker[w].pc # "none" /\ worker'[w].pc # "none"
      /\ worker'[w].pc \in {"load", "cas"} => worker'[w].item \in Nodes
  <2>1. CASE Run(w) \/ FastPark(w)
    BY <1>1, <2>1 DEF Run, FastPark, TypeOK, WorkerType
  <2>2. CASE PushAlloc(w)
    <3>1. PICK n \in Nodes : worker' = [worker EXCEPT ![w].item = n, ![w].pc = "load"]
      BY <2>2 DEF PushAlloc
    <3>2. worker[w].pc = "alloc" /\ n \in NodeOrNil
      BY <2>2 DEF PushAlloc, NodeOrNil
    <3> QED BY <1>1, <3>1, <3>2 DEF TypeOK, WorkerType
  <2>3. CASE PushLoad(w)
    BY <1>1, <2>3 DEF PushLoad, TypeOK, WorkerType, Holding
  <2>4. CASE PushSwap(w)
    <3>1. Nil \in NodeOrNil
      BY DEF NodeOrNil
    <3> QED BY <1>1, <2>4, <3>1 DEF PushSwap, TypeOK, WorkerType, Holding
  <2> QED BY <2>1, <2>2, <2>3, <2>4 DEF loopQ
<1>4. /\ top' \in NodeOrNil
      /\ next' \in [Nodes -> NodeOrNil]
      /\ value' \in [Nodes -> Workers \cup {Nil}]
  <2>1. CASE Run(w) \/ FastPark(w)
    BY <1>1, <2>1 DEF Run, FastPark, TypeOK, stackVars
  <2>2. CASE PushAlloc(w)
    BY <1>1, <2>2 DEF PushAlloc, TypeOK
  <2>3. CASE PushLoad(w)
    BY <1>1, <2>3 DEF PushLoad, TypeOK
  <2>4. CASE PushSwap(w)
    BY <1>1, <2>4 DEF PushSwap, TypeOK, Holding, NodeOrNil
  <2> QED BY <2>1, <2>2, <2>3, <2>4 DEF loopQ
<1>5. TypeOK'
  BY <1>1, <1>2, <1>3, <1>4 DEF TypeOK
<1>6. Holding'
  BY <1>1, <1>2, <1>3 DEF Holding
<1>7. Started' = Started /\ Retracting' = Retracting
  BY <1>2, <1>3 DEF Started, Retracting
<1> QED BY <1>2, <1>5, <1>6, <1>7, CountKept DEF FastInv

LEMMA FastStep == FastInv /\ [Next]_vars => FastInv'
<1> SUFFICES ASSUME FastInv, [Next]_vars PROVE FastInv'
  OBVIOUS
<1>1. CASE UNCHANGED vars
  <2>1. TypeOK' /\ Holding'
    BY <1>1 DEF vars, stackVars, taskVars, FastInv, TypeOK, Holding
  <2>2. Started' = Started /\ Retracting' = Retracting
    BY <1>1 DEF vars, Started, Retracting
  <2> QED BY <1>1, <2>1, <2>2, CountKept DEF vars, FastInv
<1> QED BY <1>1, PopKeeps, PopFreeKeeps, ReadyKeeps, CountKeeps, RetractKeeps, WorkerKeeps
        DEF Next, ScheduleFast

\* However many callers add themselves to workerCount and take that back at the same
\* time, and whatever becomes of the stack, ScheduleFast never starts more than
\* maxWorkers workers.
THEOREM WorkersStayBounded == Spec => []WorkersBounded
<1>1. FastInv => WorkersBounded
  BY DEF FastInv
<1> QED BY <1>1, FastInit, FastStep, PTL DEF Spec

-----------------------------------------------------------------------------
(* Lists of nodes *)

\* The list that the pointer n begins, along the next pointers f.
Rest(f, n) ==
  {m \in Nodes : \A S \in SUBSET Nodes :
     (n \in S \cup {Nil} /\ \A x \in S : f[x] \in S \cup {Nil}) => m \in S}

\* A list holds the node it begins with, and what any of its nodes points to.
LEMMA RestClosed ==
  ASSUME NEW f \in [Nodes -> NodeOrNil], NEW n \in NodeOrNil
  PROVE  /\ Rest(f, n) \subseteq Nodes /\ n \in Rest(f, n) \cup {Nil}
         /\ \A x \in Rest(f, n) : f[x] \in Rest(f, n) \cup {Nil}
<1>1. Rest(f, n) \subseteq Nodes
  BY DEF Rest
<1>2. n \in Rest(f, n) \cup {Nil}
  BY DEF Rest, NodeOrNil
<1>3. ASSUME NEW x \in Rest(f, n) PROVE f[x] \in Rest(f, n) \cup {Nil}
  <2> SUFFICES ASSUME f[x] # Nil PROVE f[x] \in Rest(f, n)
    OBVIOUS
  <2>1. f[x] \in Nodes
    BY <1>1 DEF NodeOrNil
  <2>2. ASSUME NEW S \in SUBSET Nodes, n \in S \cup {Nil}, \A y \in S : f[y] \in S \cup {Nil}
        PROVE  f[x] \in S
    BY <2>2 DEF Rest
  <2> QED BY <2>1, <2>2 DEF Rest
<1> QED BY <1>1, <1>2, <1>3

\* It is the least set that does.
LEMMA RestLeast ==
  ASSUME NEW f, NEW n, NEW S \in SUBSET Nodes,
         n \in S \cup {Nil}, \A x \in S : f[x] \in S \cup {Nil}
  PROVE  Rest(f, n) \subseteq S
BY DEF Rest

\* A list is its first node and what that points to, which lies within it.
LEMMA RestSplits ==
  ASSUME NEW f \in [Nodes -> NodeOrNil], NEW n \in Nodes
  PROVE  Rest(f, n) = {n} \cup Rest(f, f[n])
<1>0. n \in NodeOrNil /\ n # Nil /\ f[n] \in NodeOrNil
  BY FastPathAssumption DEF NodeOrNil
<1>1. /\ n \in Rest(f, n) /\ f[n] \in Rest(f, n) \cup {Nil} /\ Rest(f, n) \in SUBSET Nodes
      /\ \A x \in Rest(f, n) : f[x] \in Rest(f, n) \cup {Nil}
      /\ Rest(f, f[n]) \in SUBSET Nodes /\ f[n] \in Rest(f, f[n]) \cup {Nil}
      /\ \A x \in Rest(f, f[n]) : f[x] \in Rest(f, f[n]) \cup {Nil}
  BY <1>0, RestClosed
<1>2. Rest(f, f[n]) \subseteq Rest(f, n)
  BY <1>1, RestLeast
<1>3. Rest(f, n) \subseteq {n} \cup Rest(f, f[n])
  <2> DEFINE S == {n} \cup Rest(f, f[n])
  <2>1. S \in SUBSET Nodes /\ n \in S \cup {Nil} /\ \A x \in S : f[x] \in S \cup {Nil}
    BY <1>1
  <2> HIDE DEF S
  <2>2. Rest(f, n) \subseteq S
    BY <2>1, RestLeast
  <2> QED BY <2>2 DEF S
<1> QED BY <1>1, <1>2, <1>3

LEMMA RestWithin ==
  ASSUME NEW f \in [Nodes -> NodeOrNil], NEW n \in NodeOrNil, NEW x \in Rest(f, n)
  PROVE  Rest(f, f[x]) \subseteq Rest(f, n)
<1>1. /\ Rest(f, n) \in SUBSET Nodes /\ f[x] \in Rest(f, n) \cup {Nil}
      /\ \A y \in Rest(f, n) : f[y] \in Rest(f, n) \cup {Nil}
  BY RestClosed
<1> QED BY <1>1, RestLeast

\* e are the pointers f after the one of p, outside the list of n, has changed.
Repointed(f, e, p, n) ==
  /\ f \in [Nodes -> NodeOrNil] /\ p \in Nodes /\ n \in NodeOrNil /\ p \notin Rest(f, n)
  /\ \E h \in NodeOrNil : e = [f EXCEPT ![p] = h]

\* That does not matter to the list.
LEMMA RestElsewhere ==
  ASSUME NEW f, NEW e, NEW p, NEW n, Repointed(f, e, p, n)
  PROVE  Rest(e, n) = Rest(f, n)
<1>0. /\ f \in [Nodes -> NodeOrNil] /\ n \in NodeOrNil /\ p \notin Rest(f, n)
      /\ e \in [Nodes -> NodeOrNil] /\ \A x \in Nodes \ {p} : e[x] = f[x]
  BY DEF Repointed
<1>1. Rest(e, n) \subseteq Rest(f, n)
  <2>1. /\ Rest(f, n) \in SUBSET Nodes /\ n \in Rest(f, n) \cup {Nil}
        /\ \A x \in Rest(f, n) : e[x] \in Rest(f, n) \cup {Nil}
    BY <1>0, RestClosed
  <2> QED BY <2>1, RestLeast
<1>2. Rest(f, n) \subseteq Rest(e, n)
  <2>1. /\ Rest(e, n) \in SUBSET Nodes /\ n \in Rest(e, n) \cup {Nil}
        /\ \A x \in Rest(e, n) : f[x] \in Rest(e, n) \cup {Nil}
    BY <1>0, <1>1, RestClosed
  <2> QED BY <2>1, RestLeast
<1> QED BY <1>1, <1>2

\* Nor to the lists within it.
LEMMA StackElsewhere ==
  ASSUME NEW f, NEW e, NEW p, NEW n, Repointed(f, e, p, n)
  PROVE  \A x \in Rest(f, n) : e[x] = f[x] /\ Rest(e, e[x]) = Rest(f, f[x])
<1> SUFFICES ASSUME NEW x \in Rest(f, n)
             PROVE  e[x] = f[x] /\ Rest(e, e[x]) = Rest(f, f[x])
  OBVIOUS
<1>1. x \in Nodes /\ f[x] \in NodeOrNil /\ e[x] = f[x]
  BY DEF Repointed, Rest
<1>2. p \notin Rest(f, f[x])
  BY RestWithin DEF Repointed
<1>3. Repointed(f, e, p, f[x])
  BY <1>1, <1>2 DEF Repointed
<1> QED BY <1>1, <1>3, RestElsewhere

-----------------------------------------------------------------------------
(* The stack, until a pop tears it *)

Popped == {c \in Callers : caller[c].pc = "free"}

Pushing == {w \in Workers : worker[w].pc \in {"load", "cas"}}

\* Workers that have pushed their slot.
Idle == {w \in Workers : worker[w].pc \in {"park", "parked"}}

\* Nodes that hold such a slot, on the stack or just popped from it.
Shelved == Rest(next, top) \cup {caller[c].top : c \in Popped}

\* A node in the sync.Pool, or never used, is there once and nowhere else.
SpareInv ==
  \A n \in Nodes :
    /\ pooled[n] \in {0, 1} /\ (n \in fresh => pooled[n] = 0)
    /\ (n \in fresh \/ pooled[n] = 1) => n \notin Shelved /\ \A w \in Pushing : worker[w].item # n

PopInv ==
  /\ \A c \in Popped : caller[c].top \notin Rest(next, top)
  /\ \A c, d \in Popped : caller[c].top = caller[d].top => c = d

PushInv ==
  \A w \in Pushing : /\ worker[w].item \notin Shelved /\ value[worker[w].item] = w
                     /\ worker[w].pc = "cas" => next[worker[w].item] = worker[w].top

ShelfInv ==
  /\ \A n \in Shelved : value[n] \in Idle
  /\ \A m, n \in Shelved : value[m] = value[n] => m = n

\* A slot that a caller has taken out is in no node and with no other caller.
TakenInv ==
  /\ \A c \in Callers : caller[c].slot # Nil =>
       caller[c].slot \in Idle /\ \A n \in Shelved : value[n] # caller[c].slot
  /\ \A c, d \in Callers : caller[c].slot = caller[d].slot /\ caller[c].slot # Nil => c = d

IdleInv ==
  \A w \in Idle : (\E n \in Shelved : value[n] = w) \/ \E c \in Callers : caller[c].slot = w

Acyclic == \A x \in Rest(next, top) : x \notin Rest(next, next[x])

Clean == SpareInv /\ PopInv /\ PushInv /\ ShelfInv /\ TakenInv /\ IdleInv /\ Acyclic

\* Torn or not, the supply of nodes is one, and only a caller in safe_ready has a slot.
SupplyInv ==
  /\ fresh \subseteq Nodes /\ pooled \in [Nodes -> Nat]
  /\ \A c \in Callers : caller[c].slot # Nil => caller[c].pc = "ready"

StackInv == FastInv /\ SupplyInv /\ (~torn => Clean)

\* What the stack does not notice.
LEMMA CleanKept ==
  ASSUME Clean, UNCHANGED <<top, next, value, pooled, fresh>>,
         Popped' = Popped, \A c \in Popped : caller'[c].top = caller[c].top,
         \A c \in Callers : caller'[c].slot = caller[c].slot,
         Idle' = Idle, Pushing' = Pushing,
         \A w \in Pushing : /\ worker'[w].item = worker[w].item
                            /\ worker'[w].pc = "cas" =>
                                 worker[w].pc = "cas" /\ worker'[w].top = worker[w].top
  PROVE  Clean'
<1>1. Shelved' = Shelved
  BY DEF Shelved
<1>2. SpareInv'
  BY <1>1 DEF Clean, SpareInv
<1>3. PopInv'
  BY DEF Clean, PopInv
<1>4. PushInv'
  BY <1>1 DEF Clean, PushInv
<1>5. ShelfInv' /\ TakenInv' /\ IdleInv'
  BY <1>1 DEF Clean, ShelfInv, TakenInv, IdleInv
<1>6. Acyclic'
  BY DEF Clean, Acyclic
<1> QED BY <1>2, <1>3, <1>4, <1>5, <1>6 DEF Clean

\* A pop that finds the head it loaded, and the rest as it loaded it.
LEMMA PopCleans ==
  ASSUME FastInv, Clean, NEW c \in Callers, PopSwap(c),
         top = caller[c].top, caller[c].next = next[top]
  PROVE  Clean'
<1> DEFINE n == caller[c].top
<1>0. /\ n \in Nodes /\ top = n /\ next \in [Nodes -> NodeOrNil] /\ next[n] \in NodeOrNil
      /\ caller \in [Callers -> CallerType]
  BY DEF FastInv, TypeOK, Holding, PopSwap
<1>1. /\ top' = next[n] /\ UNCHANGED <<next, value, pooled, fresh, worker>>
      /\ caller[c].pc = "cas"
  BY DEF PopSwap
<1>2. /\ \A d \in Callers \ {c} : caller'[d] = caller[d]
      /\ caller'[c].pc = "free" /\ caller'[c].top = n /\ caller'[c].slot = caller[c].slot
  BY <1>0 DEF PopSwap, CallerType
<1> HIDE DEF n
<1>3. Rest(next, top) = {n} \cup Rest(next, next[n]) /\ n \notin Rest(next, next[n])
  BY <1>0, RestSplits DEF Clean, Acyclic
<1>4. Rest(next', top') = Rest(next, top) \ {n}
  BY <1>1, <1>3
<1>5. Popped' = Popped \cup {c} /\ c \notin Popped
  BY <1>1, <1>2 DEF Popped
<1>6. \A d \in Popped : caller'[d].top = caller[d].top
  BY <1>2, <1>5 DEF Popped
<1>7. Shelved' = Shelved
  BY <1>2, <1>3, <1>4, <1>5, <1>6 DEF Shelved
<1>8. Idle' = Idle /\ Pushing' = Pushing
  BY <1>1 DEF Idle, Pushing
<1>9. SpareInv'
  BY <1>1, <1>7, <1>8 DEF Clean, SpareInv
<1>10. PopInv'
  BY <1>2, <1>3, <1>4, <1>5, <1>6 DEF Clean, PopInv
<1>11. PushInv'
  BY <1>1, <1>7, <1>8 DEF Clean, PushInv
<1>12. ShelfInv'
  BY <1>1, <1>7, <1>8 DEF Clean, ShelfInv
<1>13. TakenInv' /\ IdleInv'
  <2>1. \A d \in Callers : caller'[d].slot = caller[d].slot
    BY <1>2
  <2> QED BY <1>1, <1>7, <1>8, <2>1 DEF Clean, TakenInv, IdleInv
<1>14. Acyclic'
  BY <1>1, <1>4 DEF Clean, Acyclic
<1> QED BY <1>9, <1>10, <1>11, <1>12, <1>13, <1>14 DEF Clean

\* The caller takes the slot out of the node, which goes back to the sync.Pool.
LEMMA FreeCleans ==
  ASSUME FastInv, SupplyInv, Clean, NEW c \in Callers, PopFree(c)
  PROVE  Clean'
<1> DEFINE n == caller[c].top
           s == value[n]
<1>0. /\ n \in Nodes /\ top \in NodeOrNil /\ next \in [Nodes -> NodeOrNil] /\ Nil \in NodeOrNil
      /\ value \in [Nodes -> Workers \cup {Nil}]
      /\ caller \in [Callers -> CallerType] /\ worker \in [Workers -> WorkerType]
      /\ pooled \in [Nodes -> Nat] /\ caller[c].slot = Nil /\ c \in Popped
  BY DEF FastInv, SupplyInv, TypeOK, Holding, PopFree, NodeOrNil, Popped
<1>1. n \in Shelved /\ n \notin Rest(next, top) /\ s \in Idle /\ s \in Workers /\ s # Nil
  BY <1>0, FastPathAssumption DEF Shelved, Clean, PopInv, ShelfInv, Idle
<1>2. /\ value' = [value EXCEPT ![n] = Nil] /\ next' = [next EXCEPT ![n] = Nil]
      /\ pooled' = [pooled EXCEPT ![n] = @ + 1] /\ UNCHANGED <<top, fresh>>
  BY DEF PopFree
<1>3. /\ \A d \in Callers \ {c} : caller'[d] = caller[d]
      /\ caller'[c].pc = "ready" /\ caller'[c].slot = s
  BY <1>0, <1>1 DEF PopFree, CallerType
<1>4. \A w \in Workers : /\ worker'[w].pc = worker[w].pc /\ worker'[w].item = worker[w].item
                         /\ worker'[w].top = worker[w].top
  BY <1>0, <1>1 DEF PopFree, WorkerType
<1> HIDE DEF n
<1>5. \A m \in Nodes \ {n} : value'[m] = value[m] /\ next'[m] = next[m] /\ pooled'[m] = pooled[m]
  BY <1>0, <1>2
<1>6. /\ Rest(next', top') = Rest(next, top)
      /\ \A x \in Rest(next, top) : next'[x] = next[x] /\ Rest(next', next'[x]) = Rest(next, next[x])
  <2>1. Repointed(next, next', n, top)
    BY <1>0, <1>1, <1>2 DEF Repointed
  <2>2. /\ Rest(next', top) = Rest(next, top)
        /\ \A x \in Rest(next, top) : next'[x] = next[x] /\ Rest(next', next'[x]) = Rest(next, next[x])
    BY <2>1, RestElsewhere, StackElsewhere
  <2> QED BY <1>2, <2>2
<1>7. Popped' = Popped \ {c}
  BY <1>3 DEF Popped
<1>8. Shelved' = Shelved \ {n}
  <2>1. \A d \in Popped \ {c} : caller'[d].top = caller[d].top /\ caller[d].top # n
    BY <1>0, <1>3 DEF Clean, PopInv, Popped, n
  <2> QED BY <1>0, <1>1, <1>6, <1>7, <2>1 DEF Shelved, n
<1>9. Shelved \subseteq Nodes
  <2>1. \A d \in Popped : caller[d].top \in Nodes
    BY DEF FastInv, Holding, Popped
  <2>2. Rest(next, top) \subseteq Nodes
    BY DEF Rest
  <2> QED BY <2>1, <2>2 DEF Shelved
<1>10. Idle' = Idle /\ Pushing' = Pushing
  BY <1>4 DEF Idle, Pushing
<1>11. pooled'[n] = 1 /\ n \notin fresh /\ \A w \in Pushing : worker[w].item # n
  <2>1. pooled[n] = 0 /\ n \notin fresh
    BY <1>0, <1>1 DEF Clean, SpareInv
  <2>2. \A w \in Pushing : worker[w].item # n
    BY <1>1 DEF Clean, PushInv
  <2> QED BY <1>0, <1>2, <2>1, <2>2
<1>12. SpareInv'
  BY <1>2, <1>4, <1>5, <1>8, <1>10, <1>11 DEF Clean, SpareInv, Pushing
<1>13. PopInv'
  BY <1>3, <1>6, <1>7 DEF Clean, PopInv, Popped
<1>14. PushInv'
  <2>1. \A w \in Pushing : worker[w].item \in Nodes \ {n}
    BY <1>11 DEF FastInv, Holding, Pushing
  <2> QED BY <1>4, <1>5, <1>8, <1>10, <2>1 DEF Clean, PushInv, Pushing
<1>15. \A m \in Shelved' : m \in Shelved /\ value'[m] = value[m] /\ value[m] # s
  BY <1>1, <1>5, <1>8, <1>9 DEF Clean, ShelfInv
<1>16. ShelfInv'
  BY <1>10, <1>15 DEF Clean, ShelfInv
<1>17. TakenInv'
  <2>1. \A d \in Callers \ {c} : caller[d].slot # s
    BY <1>1 DEF Clean, TakenInv
  <2> QED BY <1>1, <1>3, <1>10, <1>15, <2>1 DEF Clean, TakenInv
<1>18. IdleInv'
  <2> SUFFICES ASSUME NEW w \in Idle
               PROVE  (\E m \in Shelved' : value'[m] = w) \/ \E d \in Callers : caller'[d].slot = w
    BY <1>10 DEF IdleInv
  <2>1. w # Nil
    BY FastPathAssumption DEF Idle
  <2>2. (\E m \in Shelved : value[m] = w) \/ \E d \in Callers : caller[d].slot = w
    BY DEF Clean, IdleInv
  <2> QED BY <1>0, <1>3, <1>5, <1>8, <1>9, <2>1, <2>2
<1>19. Acyclic'
  BY <1>6 DEF Clean, Acyclic
<1> QED BY <1>12, <1>13, <1>14, <1>16, <1>17, <1>18, <1>19 DEF Clean

\* safe_ready: the worker is idle no more, and the caller leaves with the slot.
LEMMA ReadyCleans ==
  ASSUME FastInv, SupplyInv, Clean, NEW c \in Callers, SafeReady(c)
  PROVE  Clean'
<1> DEFINE s == caller[c].slot
<1>0. /\ caller \in [Callers -> CallerType] /\ worker \in [Workers -> WorkerType]
      /\ s \in Workers /\ s # Nil /\ worker[s].pc = "parked" /\ caller[c].pc = "ready"
  BY FastPathAssumption DEF FastInv, TypeOK, Holding, SafeReady
<1>1. UNCHANGED <<top, next, value, pooled, fresh>>
  BY DEF SafeReady, stackVars
<1>2. /\ \A d \in Callers \ {c} : caller'[d] = caller[d]
      /\ caller'[c].pc = "idle" /\ caller'[c].slot = Nil
  BY <1>0 DEF SafeReady, Outside
<1>3. worker' = [worker EXCEPT ![s].pc = "run"]
  BY DEF SafeReady
<1>4. (\A n \in Shelved : value[n] # s) /\ \A d \in Callers \ {c} : caller[d].slot # s
  BY <1>0 DEF Clean, TakenInv
<1> HIDE DEF s
<1>5. worker'[s].pc = "run" /\ \A w \in Workers \ {s} : worker'[w] = worker[w]
  BY <1>0, <1>3 DEF WorkerType
<1>6. Idle' = Idle \ {s} /\ Pushing' = Pushing /\ s \notin Pushing
  BY <1>0, <1>5 DEF Idle, Pushing
<1>7. Popped' = Popped /\ c \notin Popped
  BY <1>0, <1>2 DEF Popped
<1>8. \A d \in Popped : caller'[d].top = caller[d].top
  BY <1>2, <1>7 DEF Popped
<1>9. Shelved' = Shelved
  BY <1>1, <1>7, <1>8 DEF Shelved
<1>10. SpareInv'
  BY <1>1, <1>5, <1>6, <1>9 DEF Clean, SpareInv, Pushing
<1>11. PopInv'
  BY <1>1, <1>7, <1>8 DEF Clean, PopInv
<1>12. PushInv'
  BY <1>1, <1>5, <1>6, <1>9 DEF Clean, PushInv, Pushing
<1>13. ShelfInv'
  BY <1>1, <1>4, <1>6, <1>9 DEF Clean, ShelfInv
<1>14. TakenInv'
  BY <1>1, <1>2, <1>4, <1>6, <1>9 DEF Clean, TakenInv
<1>15. IdleInv'
  BY <1>1, <1>2, <1>6, <1>9 DEF Clean, IdleInv, s
<1>16. Acyclic'
  BY <1>1 DEF Clean, Acyclic
<1> QED BY <1>10, <1>11, <1>12, <1>13, <1>14, <1>15, <1>16 DEF Clean

\* push: the worker puts its slot into a spare node.
LEMMA AllocCleans ==
  ASSUME FastInv, SupplyInv, Clean, NEW w \in Workers, PushAlloc(w)
  PROVE  Clean'
<1>0. /\ worker \in [Workers -> WorkerType] /\ value \in [Nodes -> Workers \cup {Nil}]
      /\ fresh \subseteq Nodes /\ pooled \in [Nodes -> Nat] /\ worker[w].pc = "alloc"
  BY DEF FastInv, SupplyInv, TypeOK, PushAlloc
<1>1. UNCHANGED <<top, next, caller>>
  BY DEF PushAlloc
<1>2. PICK n \in Nodes :
        /\ \/ n \in fresh /\ fresh' = fresh \ {n} /\ pooled' = pooled
           \/ pooled[n] > 0 /\ pooled' = [pooled EXCEPT ![n] = @ - 1] /\ fresh' = fresh
        /\ value' = [value EXCEPT ![n] = w]
        /\ worker' = [worker EXCEPT ![w].item = n, ![w].pc = "load"]
  BY DEF PushAlloc
<1>3. n \in fresh \/ pooled[n] = 1
  BY <1>0, <1>2 DEF Clean, SpareInv
<1>4. n \notin Shelved /\ \A v \in Pushing : worker[v].item # n
  BY <1>3 DEF Clean, SpareInv
<1>5. /\ worker'[w].pc = "load" /\ worker'[w].item = n
      /\ \A v \in Workers \ {w} : worker'[v] = worker[v]
  BY <1>0, <1>2 DEF WorkerType
<1>6. Idle' = Idle /\ Pushing' = Pushing \cup {w} /\ w \notin Pushing
  BY <1>0, <1>5 DEF Idle, Pushing
<1>7. Popped' = Popped /\ Shelved' = Shelved
  BY <1>1 DEF Popped, Shelved
<1>8. value'[n] = w /\ \A m \in Nodes \ {n} : value'[m] = value[m]
  BY <1>0, <1>2
<1>9. /\ n \notin fresh' /\ pooled'[n] = 0
      /\ \A m \in Nodes \ {n} : pooled'[m] = pooled[m] /\ (m \in fresh' <=> m \in fresh)
  <2>1. CASE n \in fresh /\ fresh' = fresh \ {n} /\ pooled' = pooled
    BY <2>1 DEF Clean, SpareInv
  <2>2. CASE pooled[n] > 0 /\ pooled' = [pooled EXCEPT ![n] = @ - 1] /\ fresh' = fresh
    <3>1. pooled[n] = 1 /\ n \notin fresh
      BY <1>0, <2>2 DEF Clean, SpareInv
    <3> QED BY <1>0, <2>2, <3>1
  <2> QED BY <1>2, <2>1, <2>2
<1>10. Shelved \subseteq Nodes \ {n}
  <2>1. \A d \in Popped : caller[d].top \in Nodes
    BY DEF FastInv, Holding, Popped
  <2>2. Rest(next, top) \subseteq Nodes
    BY DEF Rest
  <2> QED BY <1>4, <2>1, <2>2 DEF Shelved
<1>11. SpareInv'
  BY <1>5, <1>6, <1>7, <1>9 DEF Clean, SpareInv, Pushing
<1>12. PopInv'
  BY <1>1, <1>7 DEF Clean, PopInv
<1>13. PushInv'
  <2>1. \A v \in Pushing : worker'[v] = worker[v] /\ worker[v].item \in Nodes \ {n}
    BY <1>4, <1>5, <1>6 DEF FastInv, Holding, Pushing
  <2> QED BY <1>1, <1>4, <1>5, <1>6, <1>7, <1>8, <2>1 DEF Clean, PushInv
<1>14. ShelfInv' /\ TakenInv' /\ IdleInv'
  BY <1>1, <1>6, <1>7, <1>8, <1>10 DEF Clean, ShelfInv, TakenInv, IdleInv
<1>15. Acyclic'
  BY <1>1 DEF Clean, Acyclic
<1> QED BY <1>11, <1>12, <1>13, <1>14, <1>15 DEF Clean

\* It loads the head, and links its node to it.
LEMMA LoadCleans ==
  ASSUME FastInv, Clean, NEW w \in Workers, PushLoad(w)
  PROVE  Clean'
<1> DEFINE i == worker[w].item
<1>0. /\ worker \in [Workers -> WorkerType] /\ next \in [Nodes -> NodeOrNil]
      /\ i \in Nodes /\ top \in NodeOrNil /\ w \in Pushing
  BY DEF FastInv, TypeOK, Holding, PushLoad, Pushing
<1>1. next' = [next EXCEPT ![i] = top] /\ UNCHANGED <<top, value, pooled, fresh, caller>>
  BY DEF PushLoad
<1>2. /\ worker'[w].pc = "cas" /\ worker'[w].item = i /\ worker'[w].top = top
      /\ \A v \in Workers \ {w} : worker'[v] = worker[v]
  BY <1>0 DEF PushLoad, WorkerType
<1>3. i \notin Shelved /\ value[i] = w
  BY <1>0 DEF Clean, PushInv
<1> HIDE DEF i
<1>4. Idle' = Idle /\ Pushing' = Pushing
  <2>1. worker[w].pc = "load"
    BY DEF PushLoad
  <2> QED BY <1>2, <2>1 DEF Idle, Pushing
<1>5. /\ Rest(next', top') = Rest(next, top)
      /\ \A x \in Rest(next, top) : next'[x] = next[x] /\ Rest(next', next'[x]) = Rest(next, next[x])
  <2>1. Repointed(next, next', i, top)
    BY <1>0, <1>1, <1>3 DEF Repointed, Shelved
  <2>2. /\ Rest(next', top) = Rest(next, top)
        /\ \A x \in Rest(next, top) : next'[x] = next[x] /\ Rest(next', next'[x]) = Rest(next, next[x])
    BY <2>1, RestElsewhere, StackElsewhere
  <2> QED BY <1>1, <2>2
<1>6. Popped' = Popped /\ Shelved' = Shelved
  BY <1>1, <1>5 DEF Popped, Shelved
<1>7. \A v \in Pushing : worker'[v].item = worker[v].item
  BY <1>2 DEF Pushing, i
<1>8. SpareInv'
  BY <1>1, <1>4, <1>6, <1>7 DEF Clean, SpareInv
<1>9. PopInv'
  BY <1>1, <1>5, <1>6 DEF Clean, PopInv
<1>10. PushInv'
  <2>1. next'[i] = top /\ \A m \in Nodes \ {i} : next'[m] = next[m]
    BY <1>0, <1>1
  <2>2. ASSUME NEW v \in Pushing \ {w}
        PROVE  worker'[v] = worker[v] /\ worker[v].item \in Nodes \ {i}
    BY <1>2, <1>3 DEF FastInv, Holding, Pushing, Clean, PushInv
  <2> QED BY <1>0, <1>1, <1>2, <1>3, <1>4, <1>6, <2>1, <2>2 DEF Clean, PushInv
<1>11. ShelfInv' /\ TakenInv' /\ IdleInv'
  BY <1>1, <1>4, <1>6 DEF Clean, ShelfInv, TakenInv, IdleInv
<1>12. Acyclic'
  BY <1>5 DEF Clean, Acyclic
<1> QED BY <1>8, <1>9, <1>10, <1>11, <1>12 DEF Clean

\* It swaps its node in, if the head is still the one it loaded.
LEMMA PushCleans ==
  ASSUME FastInv, Clean, NEW w \in Workers, PushSwap(w), top = worker[w].top
  PROVE  Clean'
<1> DEFINE i == worker[w].item
<1>0. /\ worker \in [Workers -> WorkerType] /\ next \in [Nodes -> NodeOrNil]
      /\ i \in Nodes /\ top \in NodeOrNil /\ w \in Pushing /\ worker[w].pc = "cas"
  BY DEF FastInv, TypeOK, Holding, PushSwap, Pushing
<1>1. top' = i /\ UNCHANGED <<next, value, pooled, fresh, caller>>
  BY DEF PushSwap
<1>2. /\ worker'[w].pc = "park" /\ \A v \in Workers \ {w} : worker'[v] = worker[v]
  BY <1>0 DEF PushSwap, WorkerType
<1>3. i \notin Shelved /\ value[i] = w /\ next[i] = top
  BY <1>0 DEF Clean, PushInv
<1>4. \A n \in Nodes : (n \in fresh \/ pooled[n] = 1) => n # i
  BY <1>0 DEF Clean, SpareInv
<1>5. \A v \in Pushing \ {w} : worker[v].item # i
  BY <1>3 DEF Clean, PushInv
<1> HIDE DEF i
<1>6. Idle' = Idle \cup {w} /\ Pushing' = Pushing \ {w} /\ w \notin Idle
  BY <1>0, <1>2 DEF Idle, Pushing
<1>7. Rest(next', top') = {i} \cup Rest(next, top)
  <2>1. Rest(next, i) = {i} \cup Rest(next, next[i])
    BY <1>0, RestSplits
  <2> QED BY <1>1, <1>3, <2>1
<1>8. Popped' = Popped /\ Shelved' = Shelved \cup {i}
  BY <1>1, <1>7 DEF Popped, Shelved
<1>9. \A v \in Pushing' : worker'[v] = worker[v] /\ v \in Pushing \ {w}
  BY <1>2, <1>6 DEF Pushing
<1>10. SpareInv'
  BY <1>1, <1>4, <1>8, <1>9 DEF Clean, SpareInv
<1>11. PopInv'
  <2>1. \A c \in Popped : caller[c].top # i
    BY <1>3 DEF Shelved
  <2> QED BY <1>1, <1>7, <1>8, <2>1 DEF Clean, PopInv
<1>12. PushInv'
  BY <1>1, <1>5, <1>8, <1>9 DEF Clean, PushInv
<1>13. ShelfInv'
  BY <1>1, <1>3, <1>6, <1>8 DEF Clean, ShelfInv
<1>14. TakenInv'
  BY <1>1, <1>3, <1>6, <1>8 DEF Clean, TakenInv
<1>15. IdleInv'
  BY <1>1, <1>3, <1>6, <1>8 DEF Clean, IdleInv
<1>16. Acyclic'
  <2>1. i \notin Rest(next, top)
    BY <1>3 DEF Shelved
  <2> QED BY <1>1, <1>3, <1>7, <2>1 DEF Clean, Acyclic
<1> QED BY <1>10, <1>11, <1>12, <1>13, <1>14, <1>15, <1>16 DEF Clean

\* A caller outside safe_ready has no slot, and gets one only from PopFree.
LEMMA NoSlot ==
  ASSUME FastInv, SupplyInv, NEW c \in Callers,
         Submit(c) \/ PopLoad(c) \/ PopNext(c) \/ PopSwap(c) \/ Count(c) \/ Retract(c)
  PROVE  /\ \A d \in Callers \ {c} : caller'[d] = caller[d]
         /\ caller[c].slot = Nil /\ caller'[c].slot = Nil
<1>0. caller \in [Callers -> CallerType]
  BY DEF FastInv, TypeOK
<1>1. caller[c].slot = Nil
  BY DEF SupplyInv, Submit, PopLoad, PopNext, PopSwap, Count, Retract
<1>2. Outside.slot = Nil
  BY DEF Outside
<1>3. CASE Submit(c) \/ PopLoad(c) \/ PopNext(c)
  BY <1>0, <1>1, <1>3 DEF Submit, PopLoad, PopNext, CallerType
<1>4. CASE PopSwap(c) \/ Retract(c)
  BY <1>0, <1>1, <1>4 DEF PopSwap, Retract, CallerType
<1>5. CASE Count(c)
  BY <1>0, <1>1, <1>2, <1>5 DEF Count, CallerType
<1> QED BY <1>1, <1>3, <1>4, <1>5

LEMMA SupplyStep == FastInv /\ SupplyInv /\ [Next]_vars => SupplyInv'
<1> SUFFICES ASSUME FastInv, SupplyInv, [Next]_vars PROVE SupplyInv'
  OBVIOUS
<1>1. fresh' \subseteq Nodes /\ pooled' \in [Nodes -> Nat]
  <2>1. CASE UNCHANGED <<fresh, pooled>>
    BY <2>1 DEF SupplyInv
  <2>2. ASSUME NEW c \in Callers, PopFree(c) PROVE fresh' \subseteq Nodes /\ pooled' \in [Nodes -> Nat]
    <3>1. PICK n \in Nodes : pooled' = [pooled EXCEPT ![n] = @ + 1] /\ fresh' = fresh
      BY <2>2 DEF PopFree, FastInv, Holding
    <3> QED BY <3>1 DEF SupplyInv
  <2>3. ASSUME NEW w \in Workers, PushAlloc(w)
        PROVE  fresh' \subseteq Nodes /\ pooled' \in [Nodes -> Nat]
    <3>1. PICK n \in Nodes :
            \/ fresh' = fresh \ {n} /\ pooled' = pooled
            \/ pooled[n] > 0 /\ pooled' = [pooled EXCEPT ![n] = @ - 1] /\ fresh' = fresh
      BY <2>3 DEF PushAlloc
    <3>2. pooled[n] > 0 => pooled[n] - 1 \in Nat
      BY DEF SupplyInv
    <3> QED BY <3>1, <3>2 DEF SupplyInv
  <2>4. CASE \E c \in Callers : \/ Submit(c) \/ PopLoad(c) \/ PopNext(c) \/ PopSwap(c)
                               \/ SafeReady(c) \/ Count(c) \/ Retract(c)
    BY <2>1, <2>4 DEF Submit, PopLoad, PopNext, PopSwap, SafeReady, Count, Retract, stackVars
  <2>5. CASE \E w \in Workers : Run(w) \/ PushLoad(w) \/ PushSwap(w) \/ FastPark(w)
    BY <2>1, <2>5 DEF Run, PushLoad, PushSwap, FastPark, stackVars
  <2> QED BY <2>1, <2>2, <2>3, <2>4, <2>5 DEF Next, ScheduleFast, loopQ, vars, stackVars
<1>2. ASSUME NEW d \in Callers PROVE caller'[d].slot # Nil => caller'[d].pc = "ready"
  <2>1. CASE UNCHANGED caller
    BY <2>1 DEF SupplyInv
  <2>2. ASSUME NEW c \in Callers,
               Submit(c) \/ PopLoad(c) \/ PopNext(c) \/ PopSwap(c) \/ Count(c) \/ Retract(c)
        PROVE  caller'[d].slot # Nil => caller'[d].pc = "ready"
    BY <2>2, NoSlot DEF SupplyInv
  <2>3. ASSUME NEW c \in Callers, PopFree(c)
        PROVE  caller'[d].slot # Nil => caller'[d].pc = "ready"
    <3>1. caller \in [Callers -> CallerType] /\ caller[c].slot = Nil
      BY <2>3 DEF FastInv, TypeOK, SupplyInv, PopFree
    <3> QED BY <2>3, <3>1 DEF PopFree, CallerType, SupplyInv
  <2>4. ASSUME NEW c \in Callers, SafeReady(c)
        PROVE  caller'[d].slot # Nil => caller'[d].pc = "ready"
    <3>1. caller \in [Callers -> CallerType] /\ Outside.slot = Nil
      BY DEF FastInv, TypeOK, Outside
    <3> QED BY <2>4, <3>1 DEF SafeReady, SupplyInv
  <2>5. CASE \E w \in Workers : loopQ(w)
    BY <2>1, <2>5 DEF loopQ, Run, PushAlloc, PushLoad, PushSwap, FastPark
  <2> QED BY <2>1, <2>2, <2>3, <2>4, <2>5 DEF Next, ScheduleFast, vars
<1> QED BY <1>1, <1>2 DEF SupplyInv

\* The callers' steps that take nothing off the stack.
LEMMA CallerCleans ==
  ASSUME FastInv, SupplyInv, Clean, NEW c \in Callers,
         \/ Submit(c) \/ PopLoad(c) \/ PopNext(c) \/ Count(c) \/ Retract(c)
         \/ PopSwap(c) /\ top # caller[c].top
  PROVE  Clean'
<1>0. caller \in [Callers -> CallerType] /\ worker \in [Workers -> WorkerType]
  BY DEF FastInv, TypeOK
<1>1. /\ \A d \in Callers \ {c} : caller'[d] = caller[d]
      /\ \A d \in Callers : caller'[d].slot = caller[d].slot
  BY NoSlot
<1>2. UNCHANGED <<top, next, value, pooled, fresh>>
  BY DEF Submit, PopLoad, PopNext, PopSwap, Count, Retract, stackVars
<1>3. caller[c].pc # "free" /\ caller'[c].pc # "free"
  <2>1. Outside.pc = "idle"
    BY DEF Outside
  <2> QED BY <1>0, <2>1 DEF Submit, PopLoad, PopNext, PopSwap, Count, Retract, CallerType
<1>4. Popped' = Popped /\ \A d \in Popped : caller'[d].top = caller[d].top
  BY <1>1, <1>3 DEF Popped
<1>5. CASE UNCHANGED worker
  BY <1>1, <1>2, <1>4, <1>5, CleanKept DEF Idle, Pushing
<1>6. CASE Count(c) /\ CountedIn
  <2> DEFINE w == CHOOSE x \in NewWorkers : TRUE
             r == [worker[w] EXCEPT !.pc = "run", !.task = caller[c].task]
  <2>1. w \in Workers /\ worker[w].pc = "none"
    BY <1>6 DEF Count, NewWorkers
  <2>2. worker' = [worker EXCEPT ![w] = r] /\ r.pc = "run"
    BY <1>0, <1>6, <2>1 DEF Count, WorkerType
  <2> HIDE DEF w, r
  <2>3. worker'[w].pc = "run" /\ \A x \in Workers \ {w} : worker'[x] = worker[x]
    BY <1>0, <2>1, <2>2
  <2>4. Idle' = Idle /\ Pushing' = Pushing /\ \A x \in Pushing : worker'[x] = worker[x]
    BY <2>1, <2>3 DEF Idle, Pushing
  <2> QED BY <1>1, <1>2, <1>4, <2>4, CleanKept
<1> QED BY <1>5, <1>6 DEF Submit, PopLoad, PopNext, PopSwap, Count, Retract

\* The workers' steps away from the stack, and a push that finds another head.
LEMMA WorkerCleans ==
  ASSUME FastInv, Clean, NEW w \in Workers,
         Run(w) \/ FastPark(w) \/ (PushSwap(w) /\ top # worker[w].top)
  PROVE  Clean'
<1>0. worker \in [Workers -> WorkerType]
  BY DEF FastInv, TypeOK
<1>1. UNCHANGED <<top, next, value, pooled, fresh, caller>>
  BY DEF Run, FastPark, PushSwap, stackVars
<1>2. Popped' = Popped
  BY <1>1 DEF Popped
<1>3. \A v \in Workers \ {w} : worker'[v] = worker[v]
  BY <1>0 DEF Run, FastPark, PushSwap
<1>4. CASE Run(w) \/ FastPark(w)
  <2>1. (worker[w].pc = "run" /\ worker'[w].pc = "alloc")
        \/ (worker[w].pc = "park" /\ worker'[w].pc = "parked")
    BY <1>0, <1>4 DEF Run, FastPark, WorkerType
  <2>2. Idle' = Idle /\ Pushing' = Pushing /\ \A v \in Pushing : worker'[v] = worker[v]
    BY <1>3, <2>1 DEF Idle, Pushing
  <2> QED BY <1>1, <1>2, <2>2, CleanKept
<1>5. CASE PushSwap(w) /\ top # worker[w].top
  <2>1. worker[w].pc = "cas" /\ worker'[w].pc = "load" /\ worker'[w].item = worker[w].item
    BY <1>0, <1>5 DEF PushSwap, WorkerType
  <2>2. Idle' = Idle /\ Pushing' = Pushing
    BY <1>3, <2>1 DEF Idle, Pushing
  <2>3. \A v \in Pushing : /\ worker'[v].item = worker[v].item
                           /\ worker'[v].pc = "cas" =>
                                worker[v].pc = "cas" /\ worker'[v].top = worker[v].top
    BY <1>3, <2>1 DEF Pushing
  <2> QED BY <1>1, <1>2, <2>2, <2>3, CleanKept
<1> QED BY <1>4, <1>5

LEMMA StackInit == Init => StackInv
<1> SUFFICES ASSUME Init PROVE StackInv
  OBVIOUS
<1>1. FastInv
  BY FastInit
<1>2. /\ \A c \in Callers : caller[c].pc = "idle" /\ caller[c].slot = Nil
      /\ \A w \in Workers : worker[w].pc = "none"
  BY DEF Init, Outside, NotStarted
<1>3. SupplyInv
  BY <1>2 DEF Init, SupplyInv
<1>4. Rest(next, top) = {}
  <2>1. {} \in SUBSET Nodes /\ top \in {} \cup {Nil} /\ \A x \in {} : next[x] \in {} \cup {Nil}
    BY DEF Init
  <2> QED BY Zenon, <2>1 DEF Rest
<1>5. Popped = {} /\ Pushing = {} /\ Idle = {}
  BY <1>2 DEF Popped, Pushing, Idle
<1>6. Shelved = {}
  BY <1>4, <1>5 DEF Shelved
<1>7. SpareInv
  BY <1>5, <1>6 DEF SpareInv, Init
<1>8. PopInv /\ PushInv /\ ShelfInv /\ TakenInv /\ IdleInv /\ Acyclic
  BY <1>2, <1>4, <1>5, <1>6 DEF PopInv, PushInv, ShelfInv, TakenInv, IdleInv, Acyclic
<1> QED BY <1>1, <1>3, <1>7, <1>8 DEF StackInv, Clean

LEMMA StackStep == StackInv /\ [Next]_vars => StackInv'
<1> SUFFICES ASSUME StackInv, [Next]_vars PROVE StackInv'
  OBVIOUS
<1>1. FastInv' /\ SupplyInv'
  BY FastStep, SupplyStep DEF StackInv
<1>2. ASSUME ~torn' PROVE Clean'
  <2>1. ~torn /\ \A c \in Callers : PopSwap(c) /\ top = caller[c].top => caller[c].next = next[top]
    <3>1. CASE UNCHANGED torn
      BY Zenon, <1>2, <3>1 DEF PopSwap
    <3>2. CASE \E c \in Callers : PopSwap(c)
      BY Zenon, <1>2, <3>2 DEF PopSwap
    <3> QED
      BY Zenon, <3>1, <3>2 DEF Next, ScheduleFast, loopQ, vars, Submit, PopLoad, PopNext, PopFree,
         SafeReady, Count, Retract, Run, PushAlloc, PushLoad, PushSwap, FastPark
  <2>2. FastInv /\ SupplyInv /\ Clean
    BY <2>1 DEF StackInv
  <2>3. CASE UNCHANGED vars
    BY <2>2, <2>3, CleanKept DEF vars, stackVars, Popped, Idle, Pushing
  <2>4. ASSUME NEW c \in Callers, Submit(c) \/ ScheduleFast(c) PROVE Clean'
    BY <2>1, <2>2, <2>4, CallerCleans, PopCleans, FreeCleans, ReadyCleans DEF ScheduleFast
  <2>5. ASSUME NEW w \in Workers, loopQ(w) PROVE Clean'
    <3>1. CASE PushAlloc(w) \/ PushLoad(w)
      BY <2>2, <3>1, AllocCleans, LoadCleans
    <3>2. CASE PushSwap(w) /\ top = worker[w].top
      BY <2>2, <3>2, PushCleans
    <3>3. CASE Run(w) \/ FastPark(w) \/ (PushSwap(w) /\ top # worker[w].top)
      BY <2>2, <3>3, WorkerCleans
    <3> QED BY Zenon, <2>5, <3>1, <3>2, <3>3 DEF loopQ
  <2> QED BY <2>3, <2>4, <2>5 DEF Next
<1> QED BY <1>1, <1>2 DEF StackInv

\* Until a pop swaps in an outdated rest of the stack, ScheduleFast loses no idle
\* worker and can hand none to two callers, for any number of callers and workers.
THEOREM NoWorkerLost == Spec => []IdleReachable
<1>1. StackInv => IdleReachable
  <2> SUFFICES ASSUME StackInv, ~torn, NEW w \in Workers
               PROVE  Cardinality({n \in Reached : value[n] = w}) =
                        IF /\ worker[w].pc \in {"park", "parked"}
                           /\ \A c \in Callers :
                                /\ caller[c].slot # w
                                /\ caller[c].pc = "free" => value[caller[c].top] # w
                        THEN 1 ELSE 0
    BY DEF IdleReachable
  <2> DEFINE A == {n \in Rest(next, top) : value[n] = w}
  <2>0. Clean /\ Reached = Rest(next, top) /\ w # Nil
    BY FastPathAssumption DEF StackInv, Reached, Rest
  <2>1. CASE /\ w \in Idle
             /\ \A c \in Callers : caller[c].slot # w /\ (c \in Popped => value[caller[c].top] # w)
    <3>1. PICK n \in Shelved : value[n] = w
      BY <2>0, <2>1 DEF Clean, IdleInv
    <3>2. n \in Rest(next, top)
      BY <2>1, <3>1 DEF Shelved, Popped
    <3>3. A = {n}
      BY <2>0, <3>1, <3>2 DEF Clean, ShelfInv, Shelved
    <3>4. Cardinality(A) = 1
      BY <3>3, FS_Singleton
    <3> QED BY <2>0, <2>1, <3>4 DEF Idle, Popped
  <2>2. CASE ~(/\ w \in Idle
               /\ \A c \in Callers : caller[c].slot # w /\ (c \in Popped => value[caller[c].top] # w))
    <3>1. ASSUME NEW n \in A PROVE FALSE
      <4>1. n \in Shelved /\ value[n] = w /\ w \in Idle /\ n \in Rest(next, top)
        BY <2>0 DEF Shelved, Clean, ShelfInv
      <4>2. PICK c \in Callers : caller[c].slot = w \/ (c \in Popped /\ value[caller[c].top] = w)
        BY <2>2, <4>1
      <4>3. caller[c].slot # w
        BY <2>0, <4>1 DEF Clean, TakenInv
      <4>4. caller[c].top = n
        BY <2>0, <4>1, <4>2, <4>3 DEF Clean, ShelfInv, Shelved
      <4> QED BY <2>0, <4>1, <4>2, <4>3, <4>4 DEF Clean, PopInv
    <3>2. A = {}
      BY <3>1
    <3>3. Cardinality(A) = 0
      BY <3>2, FS_EmptySet
    <3> QED BY <2>0, <2>2, <3>3 DEF Idle, Popped
  <2> QED BY <2>1, <2>2
<1> QED BY <1>1, StackInit, StackStep, PTL DEF Spec
=============================================================================
