----------------------------- MODULE RateLimiter -----------------------------
(***************************************************************************)
(* The token bucket of ratelimiter.go.  Schedule calls Limit, the scaler   *)
(* calls Renormalize, both concurrently.  Each of the code's three         *)
(* load/CAS loops writes nothing in a failed iteration and is one step: a  *)
(* refill claims the periods that have elapsed by advancing lastRefill,    *)
(* then adds them to tokens; Limit then takes a token.                     *)
(***************************************************************************)
EXTENDS Integers, FiniteSets

CONSTANTS
  Callers,
  MaxTokens,   \* the capacity, which NewRateLimiter makes non-negative
  RefillRate,  \* in ticks of the clock; NewRateLimiter makes it positive
  MaxTime      \* bound on the clock

ASSUME LimiterAssumption ==
  MaxTokens \in Nat /\ RefillRate \in Nat \ {0} /\ MaxTime \in Nat

VARIABLES
  tokens, lastRefill,
  now,      \* ticks since NewRateLimiter
  pc,       \* where each caller stands
  limits,   \* the callers that called Limit, not Renormalize
  read,     \* the time each caller read
  periods,  \* the periods each caller has claimed and not yet added
  granted,  \* history: calls of Limit that returned FALSE
  claimed,  \* history: periods claimed so far
  capped    \* history: the capacity made some refill discard tokens

vars == <<tokens, lastRefill, now, pc, limits, read, periods, granted, claimed, capped>>

Init ==
  /\ tokens = MaxTokens
  /\ lastRefill = 0
  /\ now = 0
  /\ pc = [c \in Callers |-> "idle"]
  /\ limits = {}
  /\ read = [c \in Callers |-> 0]
  /\ periods = [c \in Callers |-> 0]
  /\ granted = 0
  /\ claimed = 0
  /\ capped = FALSE

Tick ==
  /\ now < MaxTime
  /\ now' = now + 1
  /\ UNCHANGED <<tokens, lastRefill, pc, limits, read, periods, granted, claimed, capped>>

\* The call reads the clock; the refill may use the reading much later.
Call(c) ==
  /\ pc[c] = "idle"
  /\ pc' = [pc EXCEPT ![c] = "claim"]
  /\ read' = [read EXCEPT ![c] = now]

Limit(c) ==
  /\ Call(c)
  /\ limits' = limits \cup {c}
  /\ UNCHANGED <<tokens, lastRefill, now, periods, granted, claimed, capped>>

Renormalize(c) ==
  /\ Call(c)
  /\ limits' = limits \ {c}
  /\ UNCHANGED <<tokens, lastRefill, now, periods, granted, claimed, capped>>

Elapsed(c) == read[c] - lastRefill

\* Where the return from refillTokens leads.
Refilled(c) == IF c \in limits THEN "take" ELSE "idle"

\* Faulty variant: rounds the elapsed periods up.
ClaimRoundedUp(c) ==
  /\ pc[c] = "claim"
  /\ IF Elapsed(c) < 1
       THEN /\ pc' = [pc EXCEPT ![c] = Refilled(c)]
            /\ UNCHANGED <<lastRefill, periods, claimed>>
       ELSE /\ periods' = [periods EXCEPT ![c] = Elapsed(c) \div RefillRate + 1]
            /\ claimed' = claimed + Elapsed(c) \div RefillRate + 1
            /\ lastRefill' = lastRefill + (Elapsed(c) \div RefillRate + 1) * RefillRate
            /\ pc' = [pc EXCEPT ![c] = "add"]
  /\ read' = [read EXCEPT ![c] = 0]
  /\ UNCHANGED <<tokens, now, limits, granted, capped>>

\* refillTokens up to the successful compare-and-swap of lastRefill.
Claim(c) ==
  /\ pc[c] = "claim"
  /\ IF Elapsed(c) < RefillRate
       THEN /\ pc' = [pc EXCEPT ![c] = Refilled(c)]
            /\ UNCHANGED <<lastRefill, periods, claimed>>
       ELSE /\ periods' = [periods EXCEPT ![c] = Elapsed(c) \div RefillRate]
            /\ claimed' = claimed + Elapsed(c) \div RefillRate
            /\ lastRefill' = lastRefill + (Elapsed(c) \div RefillRate) * RefillRate
            /\ pc' = [pc EXCEPT ![c] = "add"]
  /\ read' = [read EXCEPT ![c] = 0]
  /\ UNCHANGED <<tokens, now, limits, granted, capped>>

\* The inner loop of refillTokens.
Add(c) ==
  /\ pc[c] = "add"
  /\ tokens' = IF tokens + periods[c] > MaxTokens THEN MaxTokens ELSE tokens + periods[c]
  /\ capped' = (capped \/ tokens + periods[c] > MaxTokens)
  /\ periods' = [periods EXCEPT ![c] = 0]
  /\ pc' = [pc EXCEPT ![c] = Refilled(c)]
  /\ UNCHANGED <<lastRefill, now, limits, read, granted, claimed>>

\* Limit's own loop.
Take(c) ==
  /\ pc[c] = "take"
  /\ IF tokens <= 0 THEN UNCHANGED <<tokens, granted>>
     ELSE tokens' = tokens - 1 /\ granted' = granted + 1
  /\ pc' = [pc EXCEPT ![c] = "idle"]
  /\ UNCHANGED <<lastRefill, now, limits, read, periods, claimed, capped>>

Next ==
  \/ Tick
  \/ \E c \in Callers :
       Limit(c) \/ Renormalize(c) \/ Claim(c) \/ Add(c) \/ Take(c)

Spec == Init /\ [][Next]_vars
-----------------------------------------------------------------------------
(* Properties *)

\* The variables keep their types; in particular the bucket never holds more than
\* its capacity nor less than nothing.
TypeOK ==
  /\ tokens \in 0..MaxTokens
  /\ lastRefill \in Nat /\ now \in Nat /\ granted \in Nat /\ claimed \in Nat
  /\ pc \in [Callers -> {"idle", "claim", "add", "take"}]
  /\ limits \subseteq Callers
  /\ read \in [Callers -> Nat]
  /\ periods \in [Callers -> Nat]
  /\ capped \in BOOLEAN

\* The rate is kept: beyond the initial burst of MaxTokens, Limit lets through at
\* most one call for each whole refill period that has elapsed, whatever stale
\* clock readings the callers refill with.
RateKept == (granted - MaxTokens) * RefillRate <= now

\* lastRefill only moves by whole periods and never past the clock: a part of a
\* period that has elapsed counts towards the next refill.
RefillAligned == lastRefill = claimed * RefillRate /\ lastRefill <= now

Batch(c, n) == {<<c, i>> : i \in 1..n}

\* One element for each period that some caller has claimed and not yet added.
InFlight == UNION {Batch(c, periods[c]) : c \in Callers}

\* Each elapsed period is credited exactly once: unless the capacity discarded
\* tokens, every claimed period is a token in the bucket, a granted call, or on
\* its way.
CreditedOnce ==
  ~capped => granted + tokens + Cardinality(InFlight) = MaxTokens + claimed
=============================================================================
