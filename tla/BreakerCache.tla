----------------------------- MODULE BreakerCache -----------------------------
(***************************************************************************)
(* The cache of circuit breakers that a pool shares between its callers: a *)
(* lock-free list of nodes, most recently used first, cut at its tail when *)
(* more than limit breakers are counted.                                   *)
(*                                                                         *)
(* A process is one call of getOrCreate, and a node and its breaker are    *)
(* named after the call that allocates them.  Steps are the accesses to    *)
(* the list; a load followed at once by a load of the node it returned is  *)
(* one step, and so is taking a breaker off the list and off the count.    *)
(***************************************************************************)
EXTENDS Integers, FiniteSets

CONSTANTS
    Calls,   \* calls of getOrCreate
    Ids,     \* the circuits they ask for
    Limit,   \* limit of the cache
    Nil

VARIABLES
    head, next, count,   \* the list and the breakers counted in it
    call,                \* position and locals of each call
    given,               \* breakers that getOrCreate has returned
    expected             \* history: see Begin

vars == <<head, next, count, call, given, expected>>

Init ==
    /\ head = Nil
    /\ next = [n \in Calls |-> Nil]
    /\ count = 0
    /\ call = [c \in Calls |-> [pc |-> "idle", id |-> Nil, stage |-> "first",
                                node |-> Nil, prev |-> Nil, seen |-> Nil]]
    /\ given = {}
    /\ expected = [c \in Calls |-> {}]

\* The nodes on the list.
Linked ==
    {n \in Calls : head # Nil /\ \A S \in SUBSET Calls :
       (head \in S /\ \A m \in S : next[m] \in S \cup {Nil}) => n \in S}

Goto(c, label) == call' = [call EXCEPT ![c].pc = label]

\* The breaker b leaves getOrCreate.
Return(c, b) ==
    /\ call' = [call EXCEPT ![c].pc = "returned", ![c].node = b]
    /\ given' = given \cup {b}

-----------------------------------------------------------------------------
\* A call for an id.  The breakers it may be expected to return are those that
\* earlier calls have returned for the id and that are still on the list.
Begin(c, id) ==
    /\ call[c].pc = "idle"
    /\ call' = [call EXCEPT ![c].pc = "find", ![c].id = id]
    /\ expected' = [expected EXCEPT ![c] =
                      {b \in given \cap Linked : call[b].id = id}]
    /\ UNCHANGED <<head, next, count, given>>

\* findNode: the walk over the list, from its head.
FindNode(c) ==
    /\ call[c].pc = "find"
    /\ call' = [call EXCEPT ![c].pc = "walk", ![c].node = head]
    /\ UNCHANGED <<head, next, count, given, expected>>

\* A node of the id is promoted.  None: the first lookup is followed by a new
\* node, one after a lost race by another attempt to link it, and one after it
\* was linked by counting it.
Walk(c) ==
    LET n == call[c].node IN
    /\ call[c].pc = "walk"
    /\ CASE n = Nil /\ call[c].stage = "linked" -> Goto(c, "count")
         [] n = Nil /\ call[c].stage = "first"  -> Goto(c, "create")
         [] n # Nil /\ call[n].id = call[c].id  -> Goto(c, "promote")
         [] OTHER -> call' = [call EXCEPT ![c].node = next[n]]
    /\ UNCHANGED <<head, next, count, given, expected>>

\* The node of getOrCreate: link it at the head.
Create(c) ==
    /\ call[c].pc = "create"
    /\ next' = [next EXCEPT ![c] = head]
    /\ call' = [call EXCEPT ![c].pc = "prepend", ![c].seen = head]
    /\ UNCHANGED <<head, count, given, expected>>

Prepend(c) ==
    /\ call[c].pc = "prepend"
    /\ IF head = call[c].seen
       THEN /\ head' = c
            /\ call' = [call EXCEPT ![c].pc = "find", ![c].stage = "linked"]
       ELSE /\ Goto(c, "find")
            /\ UNCHANGED head
    /\ UNCHANGED <<next, count, given, expected>>

\* find returns the breaker of the promoted node: the call returns it, unless it
\* is its own, which is counted.
Found(c) ==
    IF call[c].stage = "linked" /\ call[c].node = c
    THEN Goto(c, "count") /\ UNCHANGED given
    ELSE Return(c, call[c].node)

-----------------------------------------------------------------------------
\* promote: done when the node is the head, else detach it and link it there.

Promote(c) ==
    /\ call[c].pc = "promote"
    /\ IF head = call[c].node THEN Found(c)
       ELSE Goto(c, "detach") /\ UNCHANGED given
    /\ UNCHANGED <<head, next, count, expected>>

Detach(c) ==
    LET n == call[c].node IN
    /\ call[c].pc = "detach"
    /\ call' = IF head = n
               THEN [call EXCEPT ![c].pc = "behead", ![c].seen = next[n]]
               ELSE [call EXCEPT ![c].pc = "seek", ![c].prev = head]
    /\ UNCHANGED <<head, next, count, given, expected>>

DetachHead(c) ==
    /\ call[c].pc = "behead"
    /\ IF head = call[c].node
       THEN head' = call[c].seen /\ Goto(c, "clear")
       ELSE Goto(c, "detach") /\ UNCHANGED head
    /\ UNCHANGED <<next, count, given, expected>>

\* The walk to the node's predecessor; a node that is not met is not detached.
Seek(c) ==
    LET p == call[c].prev IN
    /\ call[c].pc = "seek"
    /\ call' = CASE p = Nil -> [call EXCEPT ![c].pc = "promote"]
                 [] p # Nil /\ next[p] = call[c].node ->
                      [call EXCEPT ![c].pc = "unlink",
                                   ![c].seen = next[call[c].node]]
                 [] OTHER -> [call EXCEPT ![c].prev = next[p]]
    /\ UNCHANGED <<head, next, count, given, expected>>

Unlink(c) ==
    LET p == call[c].prev IN
    /\ call[c].pc = "unlink"
    /\ IF next[p] = call[c].node
       THEN next' = [next EXCEPT ![p] = call[c].seen] /\ Goto(c, "clear")
       ELSE Goto(c, "promote") /\ UNCHANGED next
    /\ UNCHANGED <<head, count, given, expected>>

Clear(c) ==
    /\ call[c].pc = "clear"
    /\ next' = [next EXCEPT ![call[c].node] = Nil]
    /\ Goto(c, "relink")
    /\ UNCHANGED <<head, count, given, expected>>

Relink(c) ==
    /\ call[c].pc = "relink"
    /\ next' = [next EXCEPT ![call[c].node] = head]
    /\ call' = [call EXCEPT ![c].pc = "swing", ![c].seen = head]
    /\ UNCHANGED <<head, count, given, expected>>

Swing(c) ==
    /\ call[c].pc = "swing"
    /\ IF head = call[c].seen
       THEN head' = call[c].node /\ Found(c)
       ELSE Goto(c, "relink") /\ UNCHANGED <<head, given>>
    /\ UNCHANGED <<next, count, expected>>

-----------------------------------------------------------------------------
\* evictOverflow and evictTail.

Count(c) ==
    /\ call[c].pc = "count"
    /\ count' = count + 1
    /\ Goto(c, "overflow")
    /\ UNCHANGED <<head, next, given, expected>>

EvictOverflow(c) ==
    /\ call[c].pc = "overflow"
    /\ IF count > Limit THEN Goto(c, "evict") /\ UNCHANGED given ELSE Return(c, c)
    /\ UNCHANGED <<head, next, count, expected>>

\* evictTail loads the head and looks whether it is the last node.
EvictHead(c) ==
    /\ call[c].pc = "evict"
    /\ IF head = Nil THEN Return(c, c)
       ELSE /\ call' = [call EXCEPT ![c].prev = head,
                          ![c].pc = IF next[head] = Nil THEN "last" ELSE "tail"]
            /\ UNCHANGED given
    /\ UNCHANGED <<head, next, count, expected>>

\* A breaker leaves the list, and nobody can expect it any longer.
Evict(n) ==
    /\ count' = count - 1
    /\ expected' = [d \in Calls |-> expected[d] \ {n}]

\* A failed compare-and-swap starts evictTail over; the count is not looked at again.
EvictLast(c) ==
    /\ call[c].pc = "last"
    /\ IF head = call[c].prev
       THEN head' = Nil /\ Evict(head) /\ Goto(c, "overflow")
       ELSE Goto(c, "evict") /\ UNCHANGED <<head, count, expected>>
    /\ UNCHANGED <<next, given>>

\* The walk to the last node but one; it gives up when the list ends early.
SeekTail(c) ==
    LET n == next[call[c].prev] IN
    /\ call[c].pc = "tail"
    /\ CASE n = Nil -> Return(c, c)
         [] n # Nil /\ next[n] = Nil ->
              /\ call' = [call EXCEPT ![c].pc = "cut", ![c].seen = n]
              /\ UNCHANGED given
         [] OTHER -> call' = [call EXCEPT ![c].prev = n] /\ UNCHANGED given
    /\ UNCHANGED <<head, next, count, expected>>

EvictTail(c) ==
    LET p == call[c].prev IN
    /\ call[c].pc = "cut"
    /\ IF next[p] = call[c].seen
       THEN /\ next' = [next EXCEPT ![p] = Nil]
            /\ Evict(next[p])
            /\ Goto(c, "overflow")
            /\ UNCHANGED given
       ELSE Return(c, c) /\ UNCHANGED <<next, count, expected>>
    /\ UNCHANGED head

-----------------------------------------------------------------------------
getOrCreate(c) ==
    \/ FindNode(c) \/ Walk(c) \/ Create(c) \/ Prepend(c)
    \/ Promote(c) \/ Detach(c) \/ DetachHead(c) \/ Seek(c) \/ Unlink(c)
    \/ Clear(c) \/ Relink(c) \/ Swing(c)
    \/ Count(c) \/ EvictOverflow(c) \/ EvictHead(c) \/ EvictLast(c)
    \/ SeekTail(c) \/ EvictTail(c)

Next == \E c \in Calls : getOrCreate(c) \/ \E id \in Ids : Begin(c, id)

Spec == Init /\ [][Next]_vars

-----------------------------------------------------------------------------
\* "It should return the existing breaker and evict least-recently used entries"
\* (circuitbreaker_cache_test.go): the breaker returned for an id is the one that
\* was returned before the call, unless that has been evicted.
ExistingBreakerReturned ==
    \A c \in Calls : call[c].pc = "returned" => expected[c] \subseteq {call[c].node}
=============================================================================
