------------------------- MODULE CircuitBreakerProofs -------------------------
(***************************************************************************)
(* The circuit breaker for any number of jobs and scalers and any limits:  *)
(* its half-open slots leak by unreported jobs only, its first reset       *)
(* timeout is honoured, and a closed breaker never goes half-open.         *)
(***************************************************************************)
EXTENDS CircuitBreaker, FiniteSetTheorems, TLAPS

\* A job that may count as taking a half-open slot: admitted, and not yet through
\* with safeDecHalfOpenInflight.
Holding == {"running", "unreported", "succeeded", "failed", "decSucceeded", "decFailed"}

Labels ==
  Asking \cup Holding \cup
  {"idle", "acquire", "slot", "rejected", "done", "count", "add", "reset", "close",
   "open", "stamp", "openZero", "openZeroInflight"}

Types ==
  /\ state \in {"closed", "open", "half"}
  /\ openSince \in Nat /\ now \in Nat /\ halfOpenInflight \in Nat
  /\ pc \in [Procs -> Labels] /\ asked \in [Procs -> Nat]
  /\ opens \in Nat /\ openedAt \in Nat /\ early \in BOOLEAN

\* Until the breaker opens a second time, an openSince that is set is not before
\* the opening, and whoever has found the timeout over read the clock after it.
FirstInv ==
  /\ \A p \in Procs : asked[p] <= now
  /\ openedAt <= now
  /\ opens = 0 => /\ state = "closed" /\ openSince = 0
                  /\ \A p \in Procs : pc[p] \notin {"half", "stamp"}
  /\ opens = 1 => /\ openSince # 0 => openedAt <= openSince
                  /\ \A p \in Procs : pc[p] = "half" => asked[p] - openedAt > ResetTimeout
  /\ opens <= 1 => ~early

Holders == {j \in Jobs : pc[j] \in Holding}

\* Whoever made the breaker half-open has still to zero its counters.
Zeroing == \E p \in Procs : pc[p] \in {"zero", "zeroInflight"}

\* In a half-open breaker whose counters have been zeroed no more slots are taken
\* than there are jobs to give them back, or that never will.
SlotInv == (state = "half" /\ ~Zeroing) => halfOpenInflight <= Cardinality(Holders)

BreakerInv == Types /\ FirstInv /\ SlotInv

-----------------------------------------------------------------------------
(* The steps *)

\* What a step of p leaves alone.
Others(p) == \A q \in Procs \ {p} : pc'[q] = pc[q] /\ asked'[q] = asked[q]

\* Goto moves one goroutine and keeps the time it read only where it is needed.
LEMMA GotoMoves ==
  ASSUME Types, NEW p \in Procs, NEW l \in Labels, Goto(p, l)
  PROVE  /\ pc'[p] = l /\ Others(p) /\ asked'[p] \in {asked[p], 0}
         /\ l \in Asking => asked'[p] = asked[p]
         /\ pc' \in [Procs -> Labels] /\ asked' \in [Procs -> Nat]
BY DEF Types, Goto, Others

\* The steps that the invariant hardly notices.
Plain(p) ==
  /\ UNCHANGED <<state, openSince, halfOpenInflight, now, hist>>
  /\ Others(p) /\ asked'[p] \in {asked[p], 0, now}
  /\ pc' \in [Procs -> Labels] /\ asked' \in [Procs -> Nat]
  /\ pc'[p] \notin {"half", "stamp"}
  /\ pc[p] = "zero" => pc'[p] = "zeroInflight"
  /\ pc[p] # "zeroInflight"
  /\ (pc[p] \in Holding /\ state = "half") => pc'[p] \in Holding

\* The slots taken are compared with finite sets.
LEMMA JobsFinite == \A S \in SUBSET Jobs : IsFiniteSet(S) /\ Cardinality(S) \in Nat
BY BreakerAssumption, FS_Subset, FS_CardinalityType

\* More holders only make room for the slots taken.
LEMMA SlotsCovered ==
  ASSUME Types, SlotInv, UNCHANGED <<state, halfOpenInflight>>,
         state = "half" => (Zeroing => Zeroing') /\ Holders \subseteq Holders'
  PROVE  SlotInv'
<1> SUFFICES ASSUME state = "half", ~Zeroing'
             PROVE  halfOpenInflight' <= Cardinality(Holders')
  BY DEF SlotInv
<1>1. halfOpenInflight' <= Cardinality(Holders) /\ halfOpenInflight' \in Nat
  BY DEF SlotInv, Types
<1>2. Holders \subseteq Jobs /\ Holders' \subseteq Jobs
  BY DEF Holders
<1>3. /\ IsFiniteSet(Holders')
      /\ Cardinality(Holders) \in Nat /\ Cardinality(Holders') \in Nat
  BY <1>2, JobsFinite
<1>4. Cardinality(Holders) <= Cardinality(Holders')
  BY <1>3, FS_Subset
<1> QED BY <1>1, <1>3, <1>4

\* A plain step keeps the invariant.
LEMMA PlainKeeps ==
  ASSUME BreakerInv, NEW p \in Procs, Plain(p)
  PROVE  BreakerInv'
<1>0. Types /\ FirstInv /\ SlotInv
  BY DEF BreakerInv
<1>1. Types'
  BY <1>0 DEF Types, Plain, hist
<1>2. FirstInv'
  BY <1>0 DEF FirstInv, Types, Plain, Others, hist
<1>3. SlotInv'
  <2>1. Zeroing => Zeroing'
    BY <1>0 DEF Zeroing, Plain, Others
  <2>2. state = "half" => Holders \subseteq Holders'
    BY <1>0 DEF Holders, Plain, Others, Procs
  <2> QED BY <1>0, <2>1, <2>2, SlotsCovered DEF Plain
<1> QED BY <1>1, <1>2, <1>3 DEF BreakerInv

\* The steps of Allow and Renormalize.
LEMMA TryKeeps ==
  ASSUME BreakerInv, NEW p \in Procs, TryStep(p)
  PROVE  BreakerInv'
<1>0. Types /\ FirstInv /\ SlotInv /\ ResetTimeout \in Nat
  BY BreakerAssumption DEF BreakerInv
<1>1. CASE Enter(p)
  <2>1. Plain(p)
    BY <1>0, <1>1 DEF Enter, Plain, Others, Types, Labels, Asking, Holding, counts
  <2> QED BY <2>1, PlainKeeps
<1>2. ASSUME NEW moved \in BOOLEAN, TryReturns(p, moved)
      PROVE  \E l \in {"allow", "rejected", "done"} : Goto(p, l)
  BY <1>2 DEF TryReturns
<1>3. CASE TryLoadState(p) \/ TryAgain(p) \/ ZeroSuccess(p)
  <2>1. PICK l \in {"since", "zeroInflight", "allow", "rejected", "done"} :
          Goto(p, l) /\ (pc[p] = "zero" => l = "zeroInflight")
    BY <1>2, <1>3 DEF TryLoadState, TryAgain, ZeroSuccess
  <2>2. Plain(p)
    <3>1. l \in Labels
      BY DEF Labels, Asking
    <3>2. /\ pc'[p] = l /\ Others(p) /\ asked'[p] \in {asked[p], 0}
          /\ pc' \in [Procs -> Labels] /\ asked' \in [Procs -> Nat]
      BY <1>0, <2>1, <3>1, GotoMoves
    <3>3. /\ UNCHANGED <<state, openSince, halfOpenInflight, now, hist>>
          /\ pc[p] \in {"try", "again", "zero"}
      BY <1>3 DEF TryLoadState, TryAgain, ZeroSuccess, counts
    <3> QED BY <2>1, <3>2, <3>3 DEF Plain, Holding
  <2> QED BY <2>2, PlainKeeps
<1>4. CASE TryElapsed(p)
  <2>0. pc[p] = "since" /\ UNCHANGED <<state, openSince, halfOpenInflight, now, hist>>
    BY <1>4 DEF TryElapsed, counts
  <2>1. CASE openSince = 0 \/ asked[p] - openSince <= ResetTimeout
    <3>1. PICK l \in {"allow", "rejected", "done"} : Goto(p, l)
      BY <1>2, <1>4, <2>1 DEF TryElapsed
    <3>2. l \in Labels
      BY DEF Labels, Asking
    <3>3. /\ pc'[p] = l /\ Others(p) /\ asked'[p] \in {asked[p], 0}
          /\ pc' \in [Procs -> Labels] /\ asked' \in [Procs -> Nat]
      BY <1>0, <3>1, <3>2, GotoMoves
    <3>4. Plain(p)
      BY <2>0, <3>3 DEF Plain, Holding
    <3> QED BY <3>4, PlainKeeps
  <2>2. CASE ~(openSince = 0 \/ asked[p] - openSince <= ResetTimeout)
    <3>1. Goto(p, "half") /\ "half" \in Labels /\ "half" \in Asking
      BY <1>4, <2>2 DEF TryElapsed, Labels, Asking
    <3>2. /\ pc'[p] = "half" /\ Others(p) /\ asked'[p] = asked[p]
          /\ pc' \in [Procs -> Labels] /\ asked' \in [Procs -> Nat]
      BY <1>0, <3>1, GotoMoves
    <3>3. Types'
      BY <1>0, <2>0, <3>2 DEF Types, hist
    <3>4. FirstInv'
      BY <1>0, <2>0, <2>2, <3>2 DEF FirstInv, Types, Others, hist
    <3>5. SlotInv'
      <4>1. Zeroing => Zeroing'
        BY <2>0, <3>2 DEF Zeroing, Others
      <4>2. Holders \subseteq Holders'
        BY <2>0, <3>2 DEF Holders, Holding, Others, Procs
      <4> QED BY <1>0, <2>0, <4>1, <4>2, SlotsCovered
    <3> QED BY <3>3, <3>4, <3>5 DEF BreakerInv
  <2> QED BY <2>1, <2>2
<1>5. CASE TrySwap(p)
  <2>0. pc[p] = "half" /\ UNCHANGED <<openSince, halfOpenInflight, now, opens, openedAt>>
    BY <1>5 DEF TrySwap, counts
  <2>1. CASE state = "open"
    <3>1. /\ Goto(p, "zero") /\ "zero" \in Labels /\ "zero" \in Asking /\ state' = "half"
          /\ early' = (early \/ now - openedAt <= ResetTimeout)
      BY <1>5, <2>1 DEF TrySwap, Labels, Asking
    <3>2. /\ pc'[p] = "zero" /\ Others(p) /\ asked'[p] = asked[p]
          /\ pc' \in [Procs -> Labels] /\ asked' \in [Procs -> Nat]
      BY <1>0, <3>1, GotoMoves
    <3>3. early' \in BOOLEAN
      BY ZenonT(30), <3>1
    <3>4. Types'
      BY <1>0, <2>0, <3>1, <3>2, <3>3 DEF Types
    <3>5. opens = 1 => ~(now - openedAt <= ResetTimeout)
      BY <1>0, <2>0 DEF FirstInv, Types
    <3>6. opens # 0
      BY <1>0, <2>0 DEF FirstInv
    <3>7. opens <= 1 => ~early'
      <4>1. opens <= 1 => opens = 1 /\ ~early
        BY <1>0, <3>6 DEF FirstInv, Types
      <4> QED BY ZenonT(30), <3>1, <3>5, <4>1
    <3>8. FirstInv'
      BY <1>0, <2>0, <3>2, <3>6, <3>7 DEF FirstInv, Types, Others
    <3>9. SlotInv'
      BY <3>2 DEF SlotInv, Zeroing
    <3> QED BY <3>4, <3>8, <3>9 DEF BreakerInv
  <2>2. CASE state # "open"
    <3>1. Goto(p, "again") /\ "again" \in Labels /\ UNCHANGED <<state, early>>
      BY <1>5, <2>2 DEF TrySwap, Labels, Asking
    <3>2. /\ pc'[p] = "again" /\ Others(p) /\ asked'[p] \in {asked[p], 0}
          /\ pc' \in [Procs -> Labels] /\ asked' \in [Procs -> Nat]
      BY <1>0, <3>1, GotoMoves
    <3>3. Plain(p)
      BY <2>0, <3>1, <3>2 DEF Plain, Holding, hist
    <3> QED BY <3>3, PlainKeeps
  <2> QED BY <2>1, <2>2
<1>6. CASE ZeroInflight(p)
  <2>0. /\ pc[p] = "zeroInflight" /\ halfOpenInflight' = 0
        /\ UNCHANGED <<state, openSince, now, hist>>
    BY <1>6 DEF ZeroInflight
  <2>1. PICK l \in {"allow", "rejected", "done"} : Goto(p, l)
    BY <1>2, <1>6 DEF ZeroInflight
  <2>2. l \in Labels
    BY DEF Labels, Asking
  <2>3. /\ pc'[p] = l /\ Others(p) /\ asked'[p] \in {asked[p], 0}
        /\ pc' \in [Procs -> Labels] /\ asked' \in [Procs -> Nat]
    BY <1>0, <2>1, <2>2, GotoMoves
  <2>4. Types'
    BY <1>0, <2>0, <2>3 DEF Types, hist
  <2>5. FirstInv'
    BY <1>0, <2>0, <2>3 DEF FirstInv, Types, Others, hist
  <2>6. SlotInv'
    <3>1. Holders' \subseteq Jobs
      BY DEF Holders
    <3>2. Cardinality(Holders') \in Nat
      BY <3>1, JobsFinite
    <3> QED BY <2>0, <3>2 DEF SlotInv
  <2> QED BY <2>4, <2>5, <2>6 DEF BreakerInv
<1> QED BY <1>1, <1>3, <1>4, <1>5, <1>6 DEF TryStep

\* The steps of Allow that only a job takes, RecordSuccess and RecordFailure.
LEMMA JobKeeps ==
  ASSUME BreakerInv, NEW j \in Jobs, JobStep(j)
  PROVE  BreakerInv'
<1>0. Types /\ FirstInv /\ SlotInv /\ j \in Procs
  BY DEF BreakerInv, Procs
<1>g. ASSUME NEW l \in Labels, Goto(j, l)
      PROVE  /\ pc'[j] = l /\ Others(j) /\ asked'[j] \in {asked[j], 0}
             /\ pc' \in [Procs -> Labels] /\ asked' \in [Procs -> Nat]
  BY <1>0, <1>g, GotoMoves
<1>c. Holders' \subseteq Jobs /\ Holders \subseteq Jobs /\ Cardinality(Holders') \in Nat
  <2>1. Holders' \subseteq Jobs /\ Holders \subseteq Jobs
    BY DEF Holders
  <2> QED BY <2>1, JobsFinite
<1>1. CASE \/ Allow(j) \/ AcquireLoadState(j) \/ ScheduleFails(j) \/ RecordSuccess(j)
           \/ RecordFailure(j) \/ SuccessSwitch(j) \/ FailureSwitch(j) \/ AddSuccess(j)
           \/ ResetSuccess(j) \/ CountFailures(j) \/ OpenZeroSuccess(j)
           \/ (AcquireSlot(j) /\ halfOpenInflight >= HalfOpenMax)
  <2>1. UNCHANGED <<state, openSince, halfOpenInflight, now, hist>>
    BY <1>1 DEF Allow, AcquireLoadState, ScheduleFails, RecordSuccess, RecordFailure, SuccessSwitch,
       FailureSwitch, AddSuccess, ResetSuccess, CountFailures, OpenZeroSuccess, AcquireSlot, counts, hist
  <2>2. PICK l \in Labels \ {"half", "stamp"} :
          /\ Goto(j, l) /\ pc[j] \notin {"zero", "zeroInflight"}
          /\ (pc[j] \in Holding /\ state = "half") => l \in Holding
    <3>1. CASE Allow(j) \/ AcquireLoadState(j) \/ (AcquireSlot(j) /\ halfOpenInflight >= HalfOpenMax)
      BY <1>0, <3>1 DEF Allow, AcquireLoadState, AcquireSlot, Types, Labels, Asking, Holding
    <3>2. CASE ScheduleFails(j) \/ RecordSuccess(j) \/ RecordFailure(j)
      BY <3>2 DEF ScheduleFails, RecordSuccess, RecordFailure, Labels, Asking, Holding
    <3>3. CASE SuccessSwitch(j) \/ FailureSwitch(j)
      BY <1>0, <3>3 DEF SuccessSwitch, FailureSwitch, Types, Labels, Asking, Holding
    <3>4. CASE AddSuccess(j) \/ ResetSuccess(j) \/ CountFailures(j) \/ OpenZeroSuccess(j)
      BY <3>4 DEF AddSuccess, ResetSuccess, CountFailures, OpenZeroSuccess, Labels, Asking, Holding
    <3> QED BY <1>1, <3>1, <3>2, <3>3, <3>4
  <2>3. Plain(j)
    BY <1>g, <2>1, <2>2 DEF Plain
  <2> QED BY <1>0, <2>3, PlainKeeps
<1>2. CASE AcquireSlot(j) /\ ~(halfOpenInflight >= HalfOpenMax)
  <2>1. /\ pc[j] = "slot" /\ Goto(j, "running") /\ halfOpenInflight' = halfOpenInflight + 1
        /\ "running" \in Labels /\ UNCHANGED <<state, openSince, now, hist>>
    BY <1>2 DEF AcquireSlot, Labels, Holding
  <2>2. /\ pc'[j] = "running" /\ Others(j) /\ asked'[j] \in {asked[j], 0}
        /\ pc' \in [Procs -> Labels] /\ asked' \in [Procs -> Nat]
    BY <1>g, <2>1
  <2>3. Types'
    BY <1>0, <2>1, <2>2 DEF Types, hist
  <2>4. FirstInv'
    BY <1>0, <2>1, <2>2 DEF FirstInv, Types, Others, hist
  <2>5. SlotInv'
    <3>1. Zeroing => Zeroing'
      BY <2>1, <2>2 DEF Zeroing, Others
    <3>2. Holders' = Holders \cup {j} /\ j \notin Holders
      BY <2>1, <2>2 DEF Holders, Holding, Others, Procs
    <3>3. /\ Cardinality(Holders') = Cardinality(Holders) + 1
          /\ Cardinality(Holders) \in Nat
      BY <1>c, <3>2, JobsFinite, FS_AddElement
    <3> QED BY <1>0, <2>1, <3>1, <3>3 DEF SlotInv, Types
  <2> QED BY <2>3, <2>4, <2>5 DEF BreakerInv
<1>3. CASE SafeDec(j)
  <2>1. PICK l \in {"open", "add"} : Goto(j, l)
    BY <1>3 DEF SafeDec
  <2>2. /\ pc[j] \in {"decSucceeded", "decFailed"} /\ l \in Labels
        /\ halfOpenInflight' = IF halfOpenInflight > 0 THEN halfOpenInflight - 1
                               ELSE halfOpenInflight
        /\ UNCHANGED <<state, openSince, now, hist>>
    BY <1>3 DEF SafeDec, Labels
  <2>3. /\ pc'[j] = l /\ Others(j) /\ asked'[j] \in {asked[j], 0}
        /\ pc' \in [Procs -> Labels] /\ asked' \in [Procs -> Nat]
    BY <1>g, <2>1, <2>2
  <2>4. Types'
    BY <1>0, <2>2, <2>3 DEF Types, hist
  <2>5. FirstInv'
    BY <1>0, <2>2, <2>3 DEF FirstInv, Types, Others, hist
  <2>6. SlotInv'
    <3>1. Zeroing => Zeroing'
      BY <2>2, <2>3 DEF Zeroing, Others
    <3>2. Holders' = Holders \ {j} /\ j \in Holders
      BY <2>2, <2>3 DEF Holders, Holding, Others, Procs
    <3>3. /\ Cardinality(Holders') = Cardinality(Holders) - 1
          /\ Cardinality(Holders) \in Nat
      BY <1>c, <3>2, JobsFinite, FS_RemoveElement
    <3> QED BY <1>0, <1>c, <2>2, <3>1, <3>3 DEF SlotInv, Types
  <2> QED BY <2>4, <2>5, <2>6 DEF BreakerInv
<1>4. CASE CloseCircuit(j)
  <2>1. /\ pc[j] = "close" /\ Goto(j, "done") /\ "done" \in Labels /\ state' = "closed"
        /\ UNCHANGED <<openSince, halfOpenInflight, now, hist>>
    BY <1>4 DEF CloseCircuit, Labels, counts
  <2>2. /\ pc'[j] = "done" /\ Others(j) /\ asked'[j] \in {asked[j], 0}
        /\ pc' \in [Procs -> Labels] /\ asked' \in [Procs -> Nat]
    BY <1>g, <2>1
  <2>3. Types'
    BY <1>0, <2>1, <2>2 DEF Types, hist
  <2>4. FirstInv'
    BY <1>0, <2>1, <2>2 DEF FirstInv, Types, Others, hist
  <2>5. SlotInv'
    BY <2>1 DEF SlotInv
  <2> QED BY <2>3, <2>4, <2>5 DEF BreakerInv
<1>5. CASE OpenCircuit(j)
  <2>1. /\ pc[j] = "open" /\ Goto(j, "stamp") /\ "stamp" \in Labels /\ state' = "open"
        /\ \/ state = "open" /\ UNCHANGED <<opens, openedAt>>
           \/ state # "open" /\ opens' = opens + 1 /\ openedAt' = now
        /\ UNCHANGED <<openSince, halfOpenInflight, now, early>>
    BY <1>5 DEF OpenCircuit, Labels, counts
  <2>2. /\ pc'[j] = "stamp" /\ Others(j) /\ asked'[j] \in {asked[j], 0}
        /\ pc' \in [Procs -> Labels] /\ asked' \in [Procs -> Nat]
    BY <1>g, <2>1
  <2>3. Types'
    BY <1>0, <2>1, <2>2 DEF Types
  <2>4. FirstInv'
    <3>1. \A p \in Procs : asked'[p] <= now'
      BY <1>0, <2>1, <2>2 DEF FirstInv, Types, Others
    <3>2. \A p \in Procs : pc'[p] = "half" => pc[p] = "half" /\ asked'[p] = asked[p]
      BY <2>2 DEF Others
    <3>3. CASE state = "open"
      BY <1>0, <2>1, <3>1, <3>2, <3>3 DEF FirstInv, Types
    <3>4. CASE state # "open"
      BY <1>0, <2>1, <3>1, <3>2, <3>4 DEF FirstInv, Types
    <3> QED BY <3>3, <3>4
  <2>5. SlotInv'
    BY <2>1 DEF SlotInv
  <2> QED BY <2>3, <2>4, <2>5 DEF BreakerInv
<1>6. CASE StampOpen(j)
  <2>1. /\ pc[j] = "stamp" /\ Goto(j, "openZero") /\ "openZero" \in Labels
        /\ openSince' = IF now > openSince THEN now ELSE openSince
        /\ UNCHANGED <<state, halfOpenInflight, now, hist>>
    BY <1>6 DEF StampOpen, Labels, counts
  <2>2. /\ pc'[j] = "openZero" /\ Others(j) /\ asked'[j] \in {asked[j], 0}
        /\ pc' \in [Procs -> Labels] /\ asked' \in [Procs -> Nat]
    BY <1>g, <2>1
  <2>3. Types'
    BY <1>0, <2>1, <2>2 DEF Types, hist
  <2>4. FirstInv'
    BY <1>0, <2>1, <2>2 DEF FirstInv, Types, Others, hist
  <2>5. SlotInv'
    <3>1. Zeroing => Zeroing'
      BY <2>1, <2>2 DEF Zeroing, Others
    <3>2. Holders \subseteq Holders'
      BY <2>1, <2>2 DEF Holders, Holding, Others, Procs
    <3> QED BY <1>0, <2>1, <3>1, <3>2, SlotsCovered
  <2> QED BY <2>3, <2>4, <2>5 DEF BreakerInv
<1>7. CASE OpenZeroInflight(j)
  <2>1. /\ pc[j] = "openZeroInflight" /\ Goto(j, "done") /\ "done" \in Labels
        /\ halfOpenInflight' = 0 /\ UNCHANGED <<state, openSince, now, hist>>
    BY <1>7 DEF OpenZeroInflight, Labels
  <2>2. /\ pc'[j] = "done" /\ Others(j) /\ asked'[j] \in {asked[j], 0}
        /\ pc' \in [Procs -> Labels] /\ asked' \in [Procs -> Nat]
    BY <1>g, <2>1
  <2>3. Types'
    BY <1>0, <2>1, <2>2 DEF Types, hist
  <2>4. FirstInv'
    BY <1>0, <2>1, <2>2 DEF FirstInv, Types, Others, hist
  <2>5. SlotInv'
    BY <1>c, <2>1 DEF SlotInv
  <2> QED BY <2>3, <2>4, <2>5 DEF BreakerInv
<1> QED BY <1>1, <1>2, <1>3, <1>4, <1>5, <1>6, <1>7 DEF JobStep

\* The breaker starts out closed, with nobody asking.
LEMMA BreakerInit == Init => BreakerInv
<1> SUFFICES ASSUME Init PROVE BreakerInv
  OBVIOUS
<1>1. Types
  <2>1. early \in BOOLEAN
    BY ZenonT(30) DEF Init
  <2> QED BY <2>1 DEF Init, Types, Labels
<1>2. FirstInv
  BY DEF Init, FirstInv
<1>3. SlotInv
  BY DEF Init, SlotInv
<1> QED BY <1>1, <1>2, <1>3 DEF BreakerInv

\* Every step keeps the invariant.
LEMMA BreakerStep == BreakerInv /\ [Next]_vars => BreakerInv'
<1> SUFFICES ASSUME BreakerInv, [Next]_vars PROVE BreakerInv'
  OBVIOUS
<1>0. Types /\ FirstInv /\ SlotInv
  BY DEF BreakerInv
<1>1. CASE Tick \/ UNCHANGED vars
  <2>1. /\ now' \in {now, now + 1}
        /\ UNCHANGED <<state, openSince, halfOpenInflight, pc, asked, hist>>
    BY <1>1 DEF Tick, vars, counts, hist
  <2>2. Types'
    BY <1>0, <2>1 DEF Types, hist
  <2>3. FirstInv'
    BY <1>0, <2>1 DEF FirstInv, Types, hist
  <2>4. SlotInv'
    BY <1>0, <2>1 DEF SlotInv, Zeroing, Holders
  <2> QED BY <2>2, <2>3, <2>4 DEF BreakerInv
<1> QED BY <1>1, TryKeeps, JobKeeps DEF Next

-----------------------------------------------------------------------------
(* The theorems *)

\* For any number of jobs and any limits: when nobody is using a half-open breaker,
\* every slot it counts as taken is that of a job that Schedule gave up after Allow.
\* A slot that RecordSuccess or RecordFailure does not give back, because the
\* breaker is no longer half-open, is wiped out before the next probe asks for one.
THEOREM SlotsLeakOnlyUnreported == Spec => []SlotsLeakUnreported
<1>1. BreakerInv => SlotsLeakUnreported
  <2> SUFFICES ASSUME BreakerInv, state = "half",
                      \A p \in Procs : pc[p] \in {"idle", "done", "rejected", "unreported"}
               PROVE  halfOpenInflight <= Cardinality({j \in Jobs : pc[j] = "unreported"})
    BY DEF SlotsLeakUnreported
  <2>1. ~Zeroing
    BY DEF Zeroing
  <2>2. Holders = {j \in Jobs : pc[j] = "unreported"}
    BY DEF Holders, Holding, Procs
  <2> QED BY <2>1, <2>2 DEF BreakerInv, SlotInv
<1> QED
  BY BreakerInit, BreakerStep, <1>1, PTL DEF Spec

\* For any reset timeout: the breaker does not go half-open before the timeout
\* after it first opened, although transitionToOpen stores the state before the
\* time.
THEOREM FirstTimeoutHonoured == Spec => []FirstResetHonoured
<1>1. BreakerInv => FirstResetHonoured
  <2> SUFFICES ASSUME BreakerInv, early PROVE opens > 1
    BY DEF FirstResetHonoured
  <2>1. opens \in Nat /\ ~(opens <= 1)
    BY DEF BreakerInv, Types, FirstInv
  <2> QED BY <2>1
<1> QED
  BY BreakerInit, BreakerStep, <1>1, PTL DEF Spec
=============================================================================
