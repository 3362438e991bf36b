-------------------------------- MODULE QSpace --------------------------------
(***************************************************************************)
(* The result space of qspace.go over the registry of registry.go: Await   *)
(* and Store find or create the entry of a key, the maintenance loop       *)
(* removes expired entries, and Close closes the slots that are left.      *)
(*                                                                         *)
(* One key and its shard are modelled, and the shard holds no other key:   *)
(* keys meet only in the linked list of a shard.  A lookup then is a load  *)
(* of the list's head.  getOrCreate, Remove and Walk are split at their    *)
(* accesses to shared memory.  The two lookups that open getOrCreate are   *)
(* one step: when the first finds nothing the second decides.  Deliver and *)
(* Close of a result slot are one step each; module ResultSlot has their   *)
(* inside.  An artifact is named after the goroutine that stores it, an    *)
(* entry after the one that allocates it.                                  *)
(***************************************************************************)
EXTENDS Naturals

CONSTANTS
  Awaiters,   \* goroutines that call Await, once each
  Storers,    \* goroutines that call Store or StoreError, once each
  Cleaner,    \* the maintenance loop
  Nil

ASSUME SpaceAssumption ==
  /\ Awaiters \cap Storers = {}
  /\ Cleaner \notin Awaiters \cup Storers
  /\ Nil \notin Awaiters \cup Storers \cup {Cleaner}

Callers == Awaiters \cup Storers
Entry   == Callers
Procs   == Callers \cup {Cleaner}

VARIABLES
  head, next,      \* the list of the shard
  stored,          \* entry.stored
  slot,            \* the state of entry.value, a result slot
  pc,              \* where a caller or the maintenance loop stands
  entry,           \* what getOrCreate has returned to a caller
  handle,          \* what Await has returned
  prev, cur, succ, \* local variables of Remove
  expired,         \* the artifacts whose TTL has elapsed
  due,             \* ... when the current cleanup read the time
  seen, visit,     \* cleanup: the artifact it loaded and the entry it is at
  stopped, maintDone,
  close, closing,  \* Close: where it stands and the entry it is at
  split,           \* history: the callers were given different entries, see InUse
  last             \* history: the artifact stored last

spaceVars == <<head, next, stored, slot, pc, entry, handle, prev, cur, succ, expired,
               due, seen, visit, stopped, maintDone, close, closing, split, last>>
list  == <<head, next>>
data  == <<stored, slot>>
walk  == <<prev, cur, succ>>
clean == <<due, seen, visit>>
ends  == <<stopped, maintDone, close, closing>>
hist  == <<split, last>>

\* The entries a lookup or a walk can still come across.
Linked ==
  {e \in Entry : head # Nil /\ \A S \in SUBSET Entry :
     (head \in S /\ \A x \in S : next[x] \in S \cup {Nil}) => e \in S}

\* getOrCreate has returned e to somebody.  Callers are split over two entries when
\* one is linked next to an entry in use, or when a goroutine that takes back its
\* own entry removes one in use.
InUse(e) == \E q \in Callers : entry[q] = e

Goto(p, label) == pc' = [pc EXCEPT ![p] = label]

SpaceInit ==
  /\ head = Nil
  /\ next = [e \in Entry |-> Nil]
  /\ stored = [e \in Entry |-> Nil]
  /\ slot = [e \in Entry |-> "pending"]
  /\ pc = [p \in Procs |-> IF p = Cleaner THEN "sleep" ELSE "start"]
  /\ entry = [p \in Callers |-> Nil]
  /\ handle = [a \in Awaiters |-> <<"none">>]
  /\ prev = [p \in Procs |-> Nil]
  /\ cur = [p \in Procs |-> Nil]
  /\ succ = [p \in Procs |-> Nil]
  /\ expired = {}
  /\ due = {}
  /\ seen = Nil
  /\ visit = Nil
  /\ stopped = FALSE
  /\ maintDone = FALSE
  /\ close = "idle"
  /\ closing = Nil
  /\ split = FALSE
  /\ last = Nil

-----------------------------------------------------------------------------
(* Await and Store up to the entry *)

\* Await returns an error handle; Store returns without having stored anything.
GiveUp(p) ==
  IF p \in Awaiters
    THEN handle' = [handle EXCEPT ![p] = <<"error">>] /\ Goto(p, "done")
    ELSE Goto(p, "dropped") /\ UNCHANGED handle

\* The first test of stopped; a value without an encoding ends Store there too.
Enter(p) ==
  /\ pc[p] = "start"
  /\ \/ (stopped \/ p \in Storers) /\ GiveUp(p)
     \/ ~stopped /\ Goto(p, "find") /\ UNCHANGED handle
  /\ UNCHANGED <<list, data, entry, walk, expired, clean, ends, hist>>

\* find at the top of getOrCreate and of its loop.
Find(p) ==
  /\ pc[p] = "find"
  /\ entry' = [entry EXCEPT ![p] = head]
  /\ Goto(p, IF head = Nil THEN "link" ELSE "use")
  /\ UNCHANGED <<list, data, handle, walk, expired, clean, ends, hist>>

\* prependOnce: load the head and point the new entry at it ...
Link(p) ==
  /\ pc[p] = "link"
  /\ next' = [next EXCEPT ![p] = head]
  /\ Goto(p, "cas")
  /\ UNCHANGED <<head, data, entry, handle, walk, expired, clean, ends, hist>>

\* ... and swing the head, unless it has moved; then the loop starts over.
Prepend(p) ==
  /\ pc[p] = "cas"
  /\ IF head = next[p]
       THEN /\ head' = p
            /\ split' = (split \/ \E e \in Linked : InUse(e))
            /\ Goto(p, "recheck")
       ELSE Goto(p, "find") /\ UNCHANGED <<head, split>>
  /\ UNCHANGED <<next, data, entry, handle, walk, expired, clean, ends, last>>

\* The lookup after the prepend: a newer entry wins over one's own.
Recheck(p) ==
  /\ pc[p] = "recheck"
  /\ entry' = [entry EXCEPT ![p] = IF head = Nil THEN p ELSE head]
  /\ Goto(p, IF head \in {Nil, p} THEN "use" ELSE "remove")
  /\ UNCHANGED <<list, data, handle, walk, expired, clean, ends, hist>>

-----------------------------------------------------------------------------
(* IntrusiveList.RemoveReturning, with the predicate of each of its callers *)

\* Faulty variant: getOrCreate, too, removes the first entry of the key.
MatchKey(p, e) == e \in Entry

\* getOrCreate removes its own entry, removeExpired the first one of the key.
Match(p, e) == p = Cleaner \/ e = p

RemoveReturns(p) ==
  /\ prev' = [prev EXCEPT ![p] = Nil]
  /\ cur' = [cur EXCEPT ![p] = Nil]
  /\ succ' = [succ EXCEPT ![p] = Nil]
  /\ Goto(p, IF p = Cleaner THEN "advance" ELSE "use")

RemoveFromHead(p) ==
  /\ pc[p] = "remove"
  /\ \/ head = Nil /\ RemoveReturns(p)
     \/ /\ head # Nil
        /\ prev' = [prev EXCEPT ![p] = Nil]
        /\ cur' = [cur EXCEPT ![p] = head]
        /\ Goto(p, "walk")
        /\ UNCHANGED succ
  /\ UNCHANGED <<list, data, entry, handle, expired, clean, ends, hist>>

RemoveWalk(p) ==
  /\ pc[p] = "walk"
  /\ LET after == next[cur[p]] IN
     \/ /\ Match(p, cur[p])
        /\ succ' = [succ EXCEPT ![p] = after]
        /\ Goto(p, "unlink")
        /\ UNCHANGED <<prev, cur>>
     \/ /\ ~Match(p, cur[p])
        /\ IF after = Nil
             THEN RemoveReturns(p)
             ELSE /\ prev' = [prev EXCEPT ![p] = cur[p]]
                  /\ cur' = [cur EXCEPT ![p] = after]
                  /\ UNCHANGED <<succ, pc>>
  /\ UNCHANGED <<list, data, entry, handle, expired, clean, ends, hist>>

\* A failed compare-and-swap, on the head or on a node, starts over.
RemoveUnlink(p) ==
  /\ pc[p] = "unlink"
  /\ LET unlinked == IF prev[p] = Nil THEN head = cur[p] ELSE next[prev[p]] = cur[p] IN
     IF unlinked
       THEN /\ \/ prev[p] = Nil /\ head' = succ[p] /\ UNCHANGED next
               \/ /\ prev[p] # Nil
                  /\ next' = [next EXCEPT ![prev[p]] = succ[p]]
                  /\ UNCHANGED head
            /\ split' = (split \/ (p # Cleaner /\ InUse(cur[p])))
            /\ RemoveReturns(p)
       ELSE Goto(p, "remove") /\ UNCHANGED <<list, walk, split>>
  /\ UNCHANGED <<data, entry, handle, expired, clean, ends, last>>

-----------------------------------------------------------------------------
(* Await and Store with the entry *)

\* Faulty variant: no second test of stopped.
UseUnchecked(p) ==
  /\ pc[p] = "use"
  /\ Goto(p, IF p \in Awaiters THEN "load" ELSE "put")
  /\ UNCHANGED <<list, data, entry, handle, walk, expired, clean, ends, hist>>

\* The second test of stopped.
Use(p) ==
  /\ pc[p] = "use"
  /\ IF stopped
       THEN GiveUp(p)
       ELSE /\ Goto(p, IF p \in Awaiters THEN "load" ELSE "put")
            /\ UNCHANGED handle
  /\ UNCHANGED <<list, data, entry, walk, expired, clean, ends, hist>>

\* Both loads of entry.stored.
LoadStored(a) ==
  /\ pc[a] \in {"load", "reload"}
  /\ IF stored[entry[a]] # Nil
       THEN /\ handle' = [handle EXCEPT ![a] = <<"value", stored[entry[a]]>>]
            /\ Goto(a, "done")
       ELSE IF pc[a] = "load"
              THEN Goto(a, "state") /\ UNCHANGED handle
              ELSE /\ handle' = [handle EXCEPT ![a] = <<"slot", entry[a]>>]
                   /\ Goto(a, "done")
  /\ UNCHANGED <<list, data, entry, walk, expired, clean, ends, hist>>

LoadState(a) ==
  /\ pc[a] = "state"
  /\ IF slot[entry[a]] = "ready"
       THEN Goto(a, "reload") /\ UNCHANGED handle
       ELSE /\ handle' = [handle EXCEPT ![a] = <<"slot", entry[a]>>]
            /\ Goto(a, "done")
  /\ UNCHANGED <<list, data, entry, walk, expired, clean, ends, hist>>

Put(s) ==
  /\ pc[s] = "put"
  /\ stored' = [stored EXCEPT ![entry[s]] = s]
  /\ last' = s
  /\ Goto(s, "deliver")
  /\ UNCHANGED <<list, slot, entry, handle, walk, expired, clean, ends, split>>

\* Deliver leaves a slot alone that is ready or closed.
Deliver(s) ==
  /\ pc[s] = "deliver"
  /\ slot' = [slot EXCEPT ![entry[s]] = IF @ = "pending" THEN "ready" ELSE @]
  /\ Goto(s, "done")
  /\ UNCHANGED <<list, stored, entry, handle, walk, expired, clean, ends, hist>>

-----------------------------------------------------------------------------
(* loop and cleanup *)

\* Time passes for an artifact that has been stored.
Expire(s) ==
  /\ pc[s] \in {"deliver", "done"}
  /\ s \notin expired
  /\ expired' = expired \cup {s}
  /\ UNCHANGED <<list, data, pc, entry, handle, walk, clean, ends, hist>>

\* Faulty variant: the loop does not look at stopped.
WakeUnstopped ==
  /\ pc[Cleaner] = "sleep"
  /\ due' = expired
  /\ visit' = head
  /\ Goto(Cleaner, IF head = Nil THEN "sleep" ELSE "visit")
  /\ UNCHANGED <<list, data, entry, handle, walk, expired, seen, ends, hist>>

\* The interval is over, or stopped ends the loop.
Wake ==
  /\ pc[Cleaner] = "sleep"
  /\ IF stopped
       THEN maintDone' = TRUE /\ Goto(Cleaner, "done") /\ UNCHANGED <<due, visit>>
       ELSE /\ due' = expired
            /\ visit' = head
            /\ Goto(Cleaner, IF head = Nil THEN "sleep" ELSE "visit")
            /\ UNCHANGED maintDone
  /\ UNCHANGED <<list, data, entry, handle, walk, expired, seen, stopped, close,
                 closing, hist>>

\* Faulty variant: cleanup takes every artifact for an expired one.
VisitUntimed ==
  /\ pc[Cleaner] = "visit"
  /\ seen' = stored[visit]
  /\ Goto(Cleaner, IF stored[visit] # Nil THEN "expire" ELSE "advance")
  /\ UNCHANGED <<list, data, entry, handle, walk, expired, due, visit, ends, hist>>

\* Faulty variant: an entry without an artifact counts as expired.
VisitEmpty ==
  /\ pc[Cleaner] = "visit"
  /\ seen' = stored[visit]
  /\ Goto(Cleaner, IF stored[visit] \in due \cup {Nil} THEN "expire" ELSE "advance")
  /\ UNCHANGED <<list, data, entry, handle, walk, expired, due, visit, ends, hist>>

\* The visitor up to the compare-and-swap.
Visit ==
  /\ pc[Cleaner] = "visit"
  /\ seen' = stored[visit]
  /\ Goto(Cleaner, IF stored[visit] \in due THEN "expire" ELSE "advance")
  /\ UNCHANGED <<list, data, entry, handle, walk, expired, due, visit, ends, hist>>

ClearStored ==
  /\ pc[Cleaner] = "expire"
  /\ IF stored[visit] = seen
       THEN stored' = [stored EXCEPT ![visit] = Nil] /\ Goto(Cleaner, "remove")
       ELSE Goto(Cleaner, "advance") /\ UNCHANGED stored
  /\ UNCHANGED <<list, slot, entry, handle, walk, expired, clean, ends, hist>>

\* Walk goes on; after the last entry the loop sleeps again.
Advance ==
  /\ pc[Cleaner] = "advance"
  /\ visit' = next[visit]
  /\ seen' = Nil
  /\ Goto(Cleaner, IF next[visit] = Nil THEN "sleep" ELSE "visit")
  /\ UNCHANGED <<list, data, entry, handle, walk, expired, due, ends, hist>>

-----------------------------------------------------------------------------
(* Close *)

\* stopped.Swap(true); the entries wait until the maintenance loop has ended.
Stop ==
  /\ close = "idle"
  /\ stopped' = TRUE
  /\ close' = "wait"
  /\ UNCHANGED <<list, data, pc, entry, handle, walk, expired, clean, maintDone,
                 closing, hist>>

CloseAll ==
  /\ close = "wait"
  /\ maintDone
  /\ closing' = head
  /\ close' = IF head = Nil THEN "returned" ELSE "walk"
  /\ UNCHANGED <<list, data, pc, entry, handle, walk, expired, clean, stopped,
                 maintDone, hist>>

\* One visit of closeAll's walk: slot.Close.
CloseSlot ==
  /\ close = "walk"
  /\ slot' = [slot EXCEPT ![closing] = "closed"]
  /\ closing' = next[closing]
  /\ close' = IF next[closing] = Nil THEN "returned" ELSE "walk"
  /\ UNCHANGED <<list, stored, pc, entry, handle, walk, expired, clean, stopped,
                 maintDone, hist>>

-----------------------------------------------------------------------------

GetOrCreate(p) == Find(p) \/ Link(p) \/ Prepend(p) \/ Recheck(p)
Remove(p) == RemoveFromHead(p) \/ RemoveWalk(p) \/ RemoveUnlink(p)
AwaitStep(a) == Enter(a) \/ GetOrCreate(a) \/ Remove(a) \/ Use(a) \/ LoadStored(a) \/ LoadState(a)
StoreStep(s) == Enter(s) \/ GetOrCreate(s) \/ Remove(s) \/ Use(s) \/ Put(s) \/ Deliver(s)
Maintain == Wake \/ Visit \/ ClearStored \/ Remove(Cleaner) \/ Advance

Finished ==
  /\ close = "returned"
  /\ \A p \in Callers : pc[p] \in {"done", "dropped"}
  /\ UNCHANGED spaceVars

SpaceNext ==
  \/ \E a \in Awaiters : AwaitStep(a)
  \/ \E s \in Storers : StoreStep(s) \/ Expire(s)
  \/ Maintain
  \/ Stop \/ CloseAll \/ CloseSlot
  \/ Finished

\* The maintenance loop's timer fires and a call of Close is scheduled.  Nobody is
\* obliged to close the space, nor is any other call obliged to go on.
Fairness == WF_spaceVars(Maintain) /\ WF_spaceVars(CloseAll \/ CloseSlot)

SpaceSpec == SpaceInit /\ [][SpaceNext]_spaceVars /\ Fairness
-----------------------------------------------------------------------------
(* Properties *)

\* A handle of a goroutine that Get would block on.
Blocked(a) == handle[a][1] = "slot" /\ slot[handle[a][2]] = "pending"

\* Its Store is about to deliver.
Delivering(a) == \E s \in Storers : pc[s] = "deliver" /\ entry[s] = handle[a][2]

\* A slot somebody waits on stays within reach of the Stores to come and of Close,
\* or its Deliver is under way: removing an expired entry, by its key, never takes a
\* slot out of the list that is still pending.
BlockedReachable ==
  ~split => \A a \in Awaiters : Blocked(a) => handle[a][2] \in Linked \/ Delivering(a)

\* getOrCreate has given the goroutine that allocated e another entry instead, and
\* takes e out of the list again.
TakenBack(e) == entry[e] \notin {Nil, e}

\* Also when getOrCreate has handed out two entries of the key, and Store has gone to
\* the other one, Close releases who is left waiting: both are in the list.  The
\* exception is an entry that somebody was given just before it was taken back; and
\* once an artifact has expired, cleanup may remove by its key the wrong one of two.
ReleasedThoughSplit ==
  (close = "returned" /\ expired = {}) =>
    \A a \in Awaiters : Blocked(a) => Delivering(a) \/ TakenBack(handle[a][2])

\* Close releases everybody whose Await has returned or is going to; only a Store
\* that has already begun may be left to do so.
ReleasedUnlessSplit ==
  (~split /\ close = "returned") => \A a \in Awaiters : Blocked(a) => Delivering(a)

\* The result stored last stays available to PeekResult and Await as long as no
\* artifact's TTL has elapsed.
RetainedUntilExpiry ==
  (~split /\ expired = {} /\ last # Nil) => head # Nil /\ stored[head] = last

\* Close returns, wherever the other calls stand or have stopped: its wait for the
\* maintenance loop is not in vain, and removing an expired entry does not retry
\* for ever.
SpaceCloseReturns == (close # "idle") ~> (close = "returned")
=============================================================================
