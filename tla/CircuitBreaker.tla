---------------------------- MODULE CircuitBreaker ----------------------------
(***************************************************************************)
(* The lock-free circuit breaker of circuitbreaker.go, with one action per *)
(* atomic access.  A job asks Allow, runs if it may, and reports with      *)
(* RecordSuccess or RecordFailure; Schedule may also fail after Allow, in  *)
(* which case nothing is ever reported.  The scaler calls Renormalize.     *)
(*                                                                         *)
(* A load/CAS loop whose failed iterations write nothing is one step       *)
(* (acquireHalfOpenSlot after its state test, safeDecHalfOpenInflight, the *)
(* update of openSinceNs, with the clock reading before it).               *)
(***************************************************************************)
EXTENDS Integers, FiniteSets

CONSTANTS
  Jobs,          \* goroutines that ask Allow, once each
  Unreported,    \* those among them whose Schedule may fail after Allow
  Scalers,       \* goroutines that call Renormalize, once each
  MaxFailures, HalfOpenMax,
  ResetTimeout,  \* in ticks of the clock
  MaxTime        \* bound on the clock

ASSUME BreakerAssumption ==
  /\ Unreported \subseteq Jobs /\ Jobs \cap Scalers = {} /\ IsFiniteSet(Jobs)
  /\ MaxFailures \in Int
  /\ HalfOpenMax \in Nat \ {0}   \* NewCircuitBreaker normalises it
  /\ ResetTimeout \in Nat \ {0}  \* tryOpenToHalfOpen normalises it
  /\ MaxTime \in Nat

Procs == Jobs \cup Scalers

VARIABLES
  state, failureCount, openSince, halfOpenSuccess, halfOpenInflight,
  now,       \* the clock; 0 is never read, so an openSince of 0 means never
  pc, asked, \* where a goroutine stands; the time Allow or Renormalize read
  opens, openedAt,  \* history: how often, and when last, the breaker opened
  early      \* history: it went half-open before the reset timeout was over

vars == <<state, failureCount, openSince, halfOpenSuccess, halfOpenInflight, now,
          pc, asked, opens, openedAt, early>>
counts == <<failureCount, halfOpenSuccess, halfOpenInflight>>
hist   == <<opens, openedAt, early>>

Init ==
  /\ state = "closed"
  /\ failureCount = 0
  /\ openSince = 0
  /\ halfOpenSuccess = 0
  /\ halfOpenInflight = 0
  /\ now = 1
  /\ pc = [p \in Procs |-> "idle"]
  /\ asked = [p \in Procs |-> 0]
  /\ opens = 0
  /\ openedAt = 0
  /\ early = FALSE

\* The places from which Allow or Renormalize still uses the time it read.
Asking == {"allow", "try", "since", "half", "again", "zero", "zeroInflight"}

Goto(p, label) ==
  /\ pc' = [pc EXCEPT ![p] = label]
  /\ asked' = [asked EXCEPT ![p] = IF label \in Asking THEN @ ELSE 0]

Tick ==
  /\ now < MaxTime
  /\ now' = now + 1
  /\ UNCHANGED <<state, counts, openSince, pc, asked, hist>>

-----------------------------------------------------------------------------
(* Allow and Renormalize *)

\* Both read the clock once.
Enter(p) ==
  /\ pc[p] = "idle"
  /\ asked' = [asked EXCEPT ![p] = now]
  /\ pc' = [pc EXCEPT ![p] = IF p \in Jobs THEN "allow" ELSE "try"]
  /\ UNCHANGED <<state, counts, openSince, now, hist>>

\* The switch at the top of Allow's loop.
Allow(j) ==
  /\ pc[j] = "allow"
  /\ Goto(j, CASE state = "closed" -> "running"
               [] state = "open"   -> "try"
               [] state = "half"   -> "acquire")
  /\ UNCHANGED <<state, counts, openSince, now, hist>>

\* What the result of tryOpenToHalfOpen leads to.
TryReturns(p, moved) ==
  Goto(p, IF p \in Jobs THEN IF moved THEN "allow" ELSE "rejected" ELSE "done")

TryLoadState(p) ==
  /\ pc[p] = "try"
  /\ IF state = "open" THEN Goto(p, "since") ELSE TryReturns(p, FALSE)
  /\ UNCHANGED <<state, counts, openSince, now, hist>>

\* Faulty variant: does not know that 0 stands for never.
TryElapsedUnset(p) ==
  /\ pc[p] = "since"
  /\ IF asked[p] - openSince <= ResetTimeout
       THEN TryReturns(p, FALSE) ELSE Goto(p, "half")
  /\ UNCHANGED <<state, counts, openSince, now, hist>>

TryElapsed(p) ==
  /\ pc[p] = "since"
  /\ IF openSince = 0 \/ asked[p] - openSince <= ResetTimeout
       THEN TryReturns(p, FALSE) ELSE Goto(p, "half")
  /\ UNCHANGED <<state, counts, openSince, now, hist>>

TrySwap(p) ==
  /\ pc[p] = "half"
  /\ IF state = "open"
       THEN /\ state' = "half"
            /\ early' = (early \/ now - openedAt <= ResetTimeout)
            /\ Goto(p, "zero")
       ELSE Goto(p, "again") /\ UNCHANGED <<state, early>>
  /\ UNCHANGED <<counts, openSince, now, opens, openedAt>>

\* The compare-and-swap failed: is the breaker still open?
TryAgain(p) ==
  /\ pc[p] = "again"
  /\ TryReturns(p, state # "open")
  /\ UNCHANGED <<state, counts, openSince, now, hist>>

ZeroSuccess(p) ==
  /\ pc[p] = "zero"
  /\ halfOpenSuccess' = 0
  /\ Goto(p, "zeroInflight")
  /\ UNCHANGED <<state, failureCount, halfOpenInflight, openSince, now, hist>>

ZeroInflight(p) ==
  /\ pc[p] = "zeroInflight"
  /\ halfOpenInflight' = 0
  /\ TryReturns(p, TRUE)
  /\ UNCHANGED <<state, failureCount, halfOpenSuccess, openSince, now, hist>>

\* acquireHalfOpenSlot
AcquireLoadState(j) ==
  /\ pc[j] = "acquire"
  /\ Goto(j, IF state = "half" THEN "slot" ELSE "rejected")
  /\ UNCHANGED <<state, counts, openSince, now, hist>>

AcquireSlot(j) ==
  /\ pc[j] = "slot"
  /\ IF halfOpenInflight >= HalfOpenMax
       THEN Goto(j, "rejected") /\ UNCHANGED halfOpenInflight
       ELSE /\ halfOpenInflight' = halfOpenInflight + 1
            /\ Goto(j, "running")
  /\ UNCHANGED <<state, failureCount, halfOpenSuccess, openSince, now, hist>>

-----------------------------------------------------------------------------
(* RecordSuccess and RecordFailure *)

\* Schedule returns an error after Allow has admitted the job.
ScheduleFails(j) ==
  /\ pc[j] = "running"
  /\ j \in Unreported
  /\ Goto(j, "unreported")
  /\ UNCHANGED <<state, counts, openSince, now, hist>>

\* The job succeeds: failureCount.Store(0).
RecordSuccess(j) ==
  /\ pc[j] = "running"
  /\ failureCount' = 0
  /\ Goto(j, "succeeded")
  /\ UNCHANGED <<state, halfOpenSuccess, halfOpenInflight, openSince, now, hist>>

\* The job fails: failureCount.Add(1).
RecordFailure(j) ==
  /\ pc[j] = "running"
  /\ failureCount' = failureCount + 1
  /\ Goto(j, "failed")
  /\ UNCHANGED <<state, halfOpenSuccess, halfOpenInflight, openSince, now,
                 opens, openedAt, early>>

\* Faulty variant: a success ends here, also that of a probe.
SuccessSwitchIgnored(j) ==
  /\ pc[j] = "succeeded"
  /\ Goto(j, "done")
  /\ UNCHANGED <<state, counts, openSince, now, hist>>

SuccessSwitch(j) ==
  /\ pc[j] = "succeeded"
  /\ Goto(j, IF state = "half" THEN "decSucceeded" ELSE "done")
  /\ UNCHANGED <<state, counts, openSince, now, hist>>

FailureSwitch(j) ==
  /\ pc[j] = "failed"
  /\ Goto(j, CASE state = "half"   -> "decFailed"
               [] state = "closed" -> "count"
               [] state = "open"   -> "done")
  /\ UNCHANGED <<state, counts, openSince, now, hist>>

\* safeDecHalfOpenInflight
SafeDec(j) ==
  /\ pc[j] \in {"decSucceeded", "decFailed"}
  /\ halfOpenInflight' = IF halfOpenInflight > 0 THEN halfOpenInflight - 1
                         ELSE halfOpenInflight
  /\ Goto(j, IF pc[j] = "decFailed" THEN "open" ELSE "add")
  /\ UNCHANGED <<state, failureCount, halfOpenSuccess, openSince, now, hist>>

AddSuccess(j) ==
  /\ pc[j] = "add"
  /\ halfOpenSuccess' = halfOpenSuccess + 1
  /\ Goto(j, IF halfOpenSuccess + 1 >= HalfOpenMax THEN "reset" ELSE "done")
  /\ UNCHANGED <<state, failureCount, halfOpenInflight, openSince, now, hist>>

ResetSuccess(j) ==
  /\ pc[j] = "reset"
  /\ halfOpenSuccess' = 0
  /\ Goto(j, "close")
  /\ UNCHANGED <<state, failureCount, halfOpenInflight, openSince, now, hist>>

CloseCircuit(j) ==
  /\ pc[j] = "close"
  /\ state' = "closed"
  /\ Goto(j, "done")
  /\ UNCHANGED <<counts, openSince, now, hist>>

CountFailures(j) ==
  /\ pc[j] = "count"
  /\ Goto(j, IF failureCount >= MaxFailures THEN "open" ELSE "done")
  /\ UNCHANGED <<state, counts, openSince, now, hist>>

\* transitionToOpen
OpenCircuit(j) ==
  /\ pc[j] = "open"
  /\ state' = "open"
  /\ IF state = "open" THEN UNCHANGED <<opens, openedAt>>
     ELSE opens' = opens + 1 /\ openedAt' = now
  /\ Goto(j, "stamp")
  /\ UNCHANGED <<counts, openSince, now, early>>

StampOpen(j) ==
  /\ pc[j] = "stamp"
  /\ openSince' = IF now > openSince THEN now ELSE openSince
  /\ Goto(j, "openZero")
  /\ UNCHANGED <<state, counts, now, hist>>

OpenZeroSuccess(j) ==
  /\ pc[j] = "openZero"
  /\ halfOpenSuccess' = 0
  /\ Goto(j, "openZeroInflight")
  /\ UNCHANGED <<state, failureCount, halfOpenInflight, openSince, now, hist>>

OpenZeroInflight(j) ==
  /\ pc[j] = "openZeroInflight"
  /\ halfOpenInflight' = 0
  /\ Goto(j, "done")
  /\ UNCHANGED <<state, failureCount, halfOpenSuccess, openSince, now, hist>>

-----------------------------------------------------------------------------

TryStep(p) ==
  \/ Enter(p) \/ TryLoadState(p) \/ TryElapsed(p) \/ TrySwap(p) \/ TryAgain(p)
  \/ ZeroSuccess(p) \/ ZeroInflight(p)

JobStep(j) ==
  \/ Allow(j) \/ AcquireLoadState(j) \/ AcquireSlot(j)
  \/ ScheduleFails(j) \/ RecordSuccess(j) \/ RecordFailure(j)
  \/ SuccessSwitch(j) \/ FailureSwitch(j) \/ SafeDec(j) \/ AddSuccess(j)
  \/ ResetSuccess(j) \/ CloseCircuit(j) \/ CountFailures(j)
  \/ OpenCircuit(j) \/ StampOpen(j) \/ OpenZeroSuccess(j) \/ OpenZeroInflight(j)

Next == Tick \/ (\E p \in Procs : TryStep(p)) \/ \E j \in Jobs : JobStep(j)

Spec == Init /\ [][Next]_vars
-----------------------------------------------------------------------------
(* Properties *)

\* Half-open slots leak only by jobs that Schedule gives up after Allow, which never
\* report: when nobody is using a half-open breaker, every slot it counts as taken
\* is that of such a job.
SlotsLeakUnreported ==
  (state = "half" /\ \A p \in Procs : pc[p] \in {"idle", "done", "rejected", "unreported"})
    => halfOpenInflight <= Cardinality({j \in Jobs : pc[j] = "unreported"})

\* The first time it opens, it does not go half-open before the reset timeout:
\* the value 0 of openSinceNs covers the gap between storing the state and the time.
FirstResetHonoured == early => opens > 1
=============================================================================
