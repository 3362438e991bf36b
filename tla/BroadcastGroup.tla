---------------------------- MODULE BroadcastGroup ----------------------------
(***************************************************************************)
(* The group a subscriber belongs to: Acquire, Release, Poll, Send and     *)
(* Close of broadcastgroup.go around the consumer of module Consumer, the  *)
(* subscriber Me, which has no callback.  The others have one and no ring  *)
(* to speak of.  Me is acquired once; a consumer acquired again under its  *)
(* id would be a new object.  sync.Map's Range is modelled by its promise: *)
(* a key there all along is visited, one stored or deleted meanwhile may   *)
(* or may not be.                                                          *)
(***************************************************************************)
EXTENDS Consumer

CONSTANTS
  Me, Others,   \* the subscriber IDs
  Unnamed,      \* the one whose ID is the empty string
  Rangers       \* the senders whose artifacts have a destination

ASSUME GroupAssumption == Me \notin Others /\ Unnamed \in {Me} \cup Others /\ Rangers \subseteq Senders

Subscribers == {Me} \cup Others

VARIABLES
  ctxDone,      \* the group's context
  consumers,    \* the IDs in the map
  acquired,     \* Acquire has returned the consumer Me
  range         \* a Send in Range: the IDs left to visit, and those it owes a visit

group == <<ctxDone, consumers, acquired, range>>
gvars == <<vars, group>>

NoRange == [on |-> FALSE, left |-> {}, owed |-> {}]

GInit ==
  /\ Init
  /\ ctxDone = FALSE
  /\ consumers = {}
  /\ acquired = FALSE
  /\ range = [s \in Senders |-> NoRange]
-----------------------------------------------------------------------------
(* Acquire, Release, Close and Poll *)

\* An ID that is taken gets nil, as does every ID of a closed group.
Acquire(x) ==
  /\ ~ctxDone
  /\ x \notin consumers
  /\ x = Me => ~acquired
  /\ consumers' = consumers \cup {x}
  /\ acquired' = (acquired \/ x = Me)
  /\ UNCHANGED <<vars, ctxDone, range>>

\* LoadAndDelete, and ring.Close begins.
Release(x) ==
  /\ x \in consumers
  /\ consumers' = consumers \ {x}
  /\ range' = [s \in Senders |-> [range[s] EXCEPT !.owed = @ \ {x}]]
  /\ UNCHANGED <<vars, ctxDone, acquired>>

\* Close, or the end of its parent, ends the context.  Nobody is woken.
Close ==
  /\ ~ctxDone
  /\ ctxDone' = TRUE
  /\ UNCHANGED <<vars, consumers, acquired, range>>

\* One Pop of the ring, by Poll or by the ring.Close of Release and of Close, which
\* pops until there is nothing left and may still be at it when others push.
PopRing ==
  /\ acquired
  /\ OtherPop
  /\ UNCHANGED group
-----------------------------------------------------------------------------
(* Send; the visit of Me is the Send of module Consumer *)

Free(s) == wpc[s] = "idle" /\ ~range[s].on

\* Without a destination only the subscriber with the empty ID is sent to.
SendUnnamed(s) ==
  /\ Free(s)
  /\ ~ctxDone
  /\ Unnamed \in consumers
  /\ IF Unnamed = Me THEN Send(s) ELSE UNCHANGED vars
  /\ UNCHANGED group

\* With one, whatever it is, all are.
SendAll(s) ==
  /\ s \in Rangers
  /\ Free(s)
  /\ ~ctxDone
  /\ range' = [range EXCEPT ![s] = [on |-> TRUE, left |-> Subscribers, owed |-> consumers]]
  /\ UNCHANGED <<vars, ctxDone, consumers, acquired>>

\* Faulty variant: a callback that fails ends the Range.
VisitWhileGood(s, x) ==
  /\ range[s].on /\ wpc[s] = "idle"
  /\ x \in range[s].left \cap consumers
  /\ IF x = Me THEN Send(s) ELSE UNCHANGED vars
  /\ range' = [range EXCEPT ![s].left = IF x = Me THEN @ \ {x} ELSE {}, ![s].owed = @ \ {x}]
  /\ UNCHANGED <<ctxDone, consumers, acquired>>

\* The ring of Me is pushed to and woken; a callback is called, and an error it
\* returns is logged.
Visit(s, x) ==
  /\ range[s].on /\ wpc[s] = "idle"
  /\ x \in range[s].left \cap consumers
  /\ IF x = Me THEN Send(s) ELSE UNCHANGED vars
  /\ range' = [range EXCEPT ![s].left = @ \ {x}, ![s].owed = @ \ {x}]
  /\ UNCHANGED <<ctxDone, consumers, acquired>>

\* Range passes over a key that is not there, or was not all the time.
Pass(s, x) ==
  /\ range[s].on /\ wpc[s] = "idle"
  /\ x \in range[s].left \ range[s].owed
  /\ range' = [range EXCEPT ![s].left = @ \ {x}]
  /\ UNCHANGED <<vars, ctxDone, consumers, acquired>>

SendReturns(s) ==
  /\ range[s].on /\ wpc[s] = "idle"
  /\ range[s].left = {}
  /\ range' = [range EXCEPT ![s] = NoRange]
  /\ UNCHANGED <<vars, ctxDone, consumers, acquired>>

-----------------------------------------------------------------------------
Subscriber == ConsumerStep /\ UNCHANGED group
WakingUp(w) == Wake(w) /\ UNCHANGED group

GNext ==
  \/ acquired /\ Wait /\ UNCHANGED group
  \/ Cancel /\ UNCHANGED group
  \/ Subscriber
  \/ \E x \in Subscribers : Acquire(x) \/ Release(x)
  \/ PopRing \/ Close
  \/ \E s \in Senders :
       \/ SendUnnamed(s) \/ SendAll(s) \/ SendReturns(s)
       \/ \E x \in Subscribers : Visit(s, x) \/ Pass(s, x)
       \/ Push(s) /\ UNCHANGED group
  \/ \E w \in Wakers : WakingUp(w)

\* As in module Consumer.
GSpec ==
  /\ GInit /\ [][GNext]_gvars
  /\ WF_gvars(Subscriber) /\ \A w \in Wakers : WF_gvars(WakingUp(w))
-----------------------------------------------------------------------------
\* When Send's Range ends it has been to every subscriber that was there all the
\* time: a callback that fails, and subscribers that come and go, keep nobody
\* else from the artifact.
FanOut == \A s \in Senders : (range[s].on /\ range[s].left = {}) => range[s].owed = {}
=============================================================================
