--------------------------- MODULE DependencyGraph ---------------------------
(***************************************************************************)
(* The dependency edges that registry.go keeps on the entries of the       *)
(* result space: AddRelationship, which refuses an edge that would close a *)
(* circle, RegisterDependent, which does not look, and cleanup, which      *)
(* removes an expired entry and then prunes the edges of its key.          *)
(*                                                                         *)
(* An entry is its key and its incarnation: an entry removed and created   *)
(* again has a new one, and what is pushed on the old one is lost.  Lookup *)
(* and creation of an entry are one step (module QSpace has their inside), *)
(* and so is an operation on one edge list, which becomes a set.  A call   *)
(* on a stopped space returns at once and is left out.                     *)
(***************************************************************************)
EXTENDS Naturals

CONSTANTS
    Linkers,      \* goroutines that add edges
    Keys,
    MaxCalls,     \* bound: calls made
    MaxExpiries   \* bound: entries whose result expires

ASSUME GraphAssumption == Linkers # {} /\ MaxCalls \in Nat /\ MaxExpiries \in Nat

VARIABLES
    live, incarnation,    \* the entries in the registry
    children, parents,    \* their edge lists
    call,                 \* position and locals of each caller
    pruning,              \* position of cleanup and the key it is at
    calls, expiries,
    overlapped,           \* history: callers another call has overlapped
    disturbed,            \* history: callers an end of whose edge expired or was pruned
    unchecked,            \* history: edges added without a check that counts
    recorded              \* history: edges whose call returned, see Return

entryVars == <<live, incarnation, children, parents>>
history == <<overlapped, disturbed, unchecked, recorded>>
graphVars == <<entryVars, call, pruning, calls, expiries, history>>

NoCall == [pc |-> "idle"]
NoPrune == [pc |-> "idle"]

GraphInit ==
    /\ live = {}
    /\ incarnation = [k \in Keys |-> 0]
    /\ children = [k \in Keys |-> {}]
    /\ parents = [k \in Keys |-> {}]
    /\ call = [c \in Linkers |-> NoCall]
    /\ pruning = NoPrune
    /\ calls = 0
    /\ expiries = 0
    /\ overlapped = {}
    /\ disturbed = {}
    /\ unchecked = {}
    /\ recorded = {}

-----------------------------------------------------------------------------
\* addRelationship and registerDependent.

Busy == {c \in Linkers : call[c].pc # "idle"}

Begin(c, pc, parent, child) ==
    /\ call[c] = NoCall
    /\ calls < MaxCalls
    /\ calls' = calls + 1
    /\ call' = [call EXCEPT ![c] =
                  [pc |-> pc, parent |-> parent, child |-> child,
                   checked |-> pc = "walk", visited |-> {}, stack |-> {child},
                   parentAt |-> 0, childAt |-> 0]]
    /\ overlapped' = IF Busy = {} THEN overlapped \ {c} ELSE Busy \cup {c}
    /\ disturbed' = disturbed \ {c}
    /\ UNCHANGED <<entryVars, pruning, expiries, unchecked, recorded>>

AddRelationship(c, parent, child) == Begin(c, "walk", parent, child)

RegisterDependent(c, dep, job) == Begin(c, "parent", dep, job)

\* Faulty variant: looks at the children of the child only.
WalkOneLevel(c) ==
    /\ call[c].pc = "walk"
    /\ call[c].stack # {}
    /\ \E k \in call[c].stack :
         IF k = call[c].parent
         THEN call' = [call EXCEPT ![c] = NoCall]
         ELSE call' = [call EXCEPT
                ![c].stack = (@ \ {k}) \cup
                               IF call[c].visited = {} THEN children[k] ELSE {},
                ![c].visited = @ \cup {k}]
    /\ UNCHANGED <<entryVars, pruning, calls, expiries, history>>

\* One round of wouldCreateCircle: meeting the parent refuses the edge; a key
\* not yet visited adds its children to what is still to be looked at.
Walk(c) ==
    /\ call[c].pc = "walk"
    /\ call[c].stack # {}
    /\ \E k \in call[c].stack :
         IF k = call[c].parent
         THEN call' = [call EXCEPT ![c] = NoCall]
         ELSE call' = [call EXCEPT
                ![c].stack = (@ \ {k}) \cup
                               IF k \in call[c].visited THEN {} ELSE children[k],
                ![c].visited = @ \cup {k}]
    /\ UNCHANGED <<entryVars, pruning, calls, expiries, history>>

NoCircle(c) ==
    /\ call[c].pc = "walk"
    /\ call[c].stack = {}
    /\ call' = [call EXCEPT ![c].pc = "parent", ![c].visited = {}]
    /\ UNCHANGED <<entryVars, pruning, calls, expiries, history>>

\* getOrCreate of the parent, then of the child.
GetParent(c) ==
    /\ call[c].pc = "parent"
    /\ live' = live \cup {call[c].parent}
    /\ call' = [call EXCEPT ![c].pc = "child",
                            ![c].parentAt = incarnation[call[c].parent]]
    /\ UNCHANGED <<incarnation, children, parents, pruning, calls, expiries, history>>

GetChild(c) ==
    /\ call[c].pc = "child"
    /\ live' = live \cup {call[c].child}
    /\ call' = [call EXCEPT ![c].pc = "push",
                            ![c].childAt = incarnation[call[c].child]]
    /\ UNCHANGED <<incarnation, children, parents, pruning, calls, expiries, history>>

\* parent.children.Push(child): the entry may have been removed meanwhile.
PushChild(c) ==
    LET p == call[c].parent
        k == call[c].child
        new == incarnation[p] = call[c].parentAt /\ k \notin children[p]
    IN /\ call[c].pc = "push"
       /\ children' = IF new THEN [children EXCEPT ![p] = @ \cup {k}] ELSE children
       /\ unchecked' = IF new /\ (~call[c].checked \/ c \in overlapped)
                       THEN unchecked \cup {<<p, k>>} ELSE unchecked
       /\ call' = [call EXCEPT ![c].pc = "link"]
       /\ UNCHANGED <<live, incarnation, parents, pruning, calls, expiries,
                      overlapped, disturbed, recorded>>

\* Neither end has expired or was pruned during the call, or is about to be.
SettledCall(c) ==
    /\ c \notin disturbed
    /\ pruning = NoPrune \/ pruning.key \notin {call[c].parent, call[c].child}

\* child.parents.Push(parent), and the call returns.
PushParent(c) ==
    LET p == call[c].parent
        k == call[c].child
    IN /\ call[c].pc = "link"
       /\ parents' = IF incarnation[k] = call[c].childAt
                     THEN [parents EXCEPT ![k] = @ \cup {p}] ELSE parents
       /\ recorded' = IF SettledCall(c) THEN recorded \cup {<<p, k>>} ELSE recorded
       /\ call' = [call EXCEPT ![c] = NoCall]
       /\ UNCHANGED <<live, incarnation, children, pruning, calls, expiries,
                      overlapped, disturbed, unchecked>>

Step(c) ==
    \/ Walk(c) \/ NoCircle(c)
    \/ GetParent(c) \/ GetChild(c)
    \/ PushChild(c) \/ PushParent(c)

-----------------------------------------------------------------------------
\* cleanup, for an entry whose stored result has expired.

CallsOn(k) == {c \in Busy : k \in {call[c].parent, call[c].child}}

RemoveExpired(k) ==
    /\ pruning = NoPrune
    /\ k \in live
    /\ expiries < MaxExpiries
    /\ expiries' = expiries + 1
    /\ live' = live \ {k}
    /\ incarnation' = [incarnation EXCEPT ![k] = @ + 1]
    /\ children' = [children EXCEPT ![k] = {}]
    /\ parents' = [parents EXCEPT ![k] = {}]
    /\ pruning' = [pc |-> "find", key |-> k]
    /\ recorded' = {e \in recorded : k \notin {e[1], e[2]}}
    /\ disturbed' = disturbed \cup CallsOn(k)
    /\ UNCHANGED <<call, calls, overlapped, unchecked>>

\* pruneDependencyEdges looks the key up: there is nothing left to prune,
\* unless a caller has created the entry again.
PruneFind ==
    /\ pruning.pc = "find"
    /\ pruning' = IF pruning.key \in live
                  THEN [pruning EXCEPT !.pc = "children"] ELSE NoPrune
    /\ UNCHANGED <<entryVars, call, calls, expiries, history>>

\* Faulty variant: clears the lists of the children instead of one edge.
PruneChildrenWhole ==
    /\ pruning.pc = "children"
    /\ parents' = [k \in Keys |-> IF k \in children[pruning.key]
                                  THEN {} ELSE parents[k]]
    /\ pruning' = [pruning EXCEPT !.pc = "parents"]
    /\ UNCHANGED <<live, incarnation, children, call, calls, expiries, history>>

PruneChildren ==
    /\ pruning.pc = "children"
    /\ parents' = [k \in Keys |-> IF k \in children[pruning.key]
                                  THEN parents[k] \ {pruning.key} ELSE parents[k]]
    /\ pruning' = [pruning EXCEPT !.pc = "parents"]
    /\ UNCHANGED <<live, incarnation, children, call, calls, expiries, history>>

PruneParents ==
    /\ pruning.pc = "parents"
    /\ children' = [k \in Keys |-> IF k \in parents[pruning.key]
                                   THEN children[k] \ {pruning.key} ELSE children[k]]
    /\ pruning' = [pruning EXCEPT !.pc = "clear"]
    /\ UNCHANGED <<live, incarnation, parents, call, calls, expiries, history>>

PruneClear ==
    /\ pruning.pc = "clear"
    /\ children' = [children EXCEPT ![pruning.key] = {}]
    /\ parents' = [parents EXCEPT ![pruning.key] = {}]
    /\ pruning' = NoPrune
    /\ disturbed' = disturbed \cup CallsOn(pruning.key)
    /\ UNCHANGED <<live, incarnation, call, calls, expiries, overlapped,
                   unchecked, recorded>>

Cleanup ==
    \/ \E k \in Keys : RemoveExpired(k)
    \/ PruneFind \/ PruneChildren \/ PruneParents \/ PruneClear

-----------------------------------------------------------------------------
GraphNext ==
    \/ \E c \in Linkers :
         \/ \E p, k \in Keys : AddRelationship(c, p, k) \/ RegisterDependent(c, p, k)
         \/ Step(c)
    \/ Cleanup

GraphSpec == GraphInit /\ [][GraphNext]_graphVars

-----------------------------------------------------------------------------
Edges == {e \in Keys \X Keys : e[2] \in children[e[1]]}

\* k is in every set of keys that holds its successors and is closed under S: the
\* least of them is what lies beyond k.
OnCircle(S, k) ==
    \A C \in SUBSET Keys :
      (\A e \in S : e[1] \in C \cup {k} => e[2] \in C) => k \in C

\* Every circle of dependencies goes through an edge that RegisterDependent put
\* there unchecked, or that two calls added while neither saw the other's: the
\* walk of addRelationship misses no other circle, whatever cleanup removes and
\* prunes under it.
CirclesUnchecked == \A k \in Keys : ~OnCircle(Edges \ unchecked, k)

\* An edge whose call has returned is in the lists of both its ends until one of
\* the two expires.  The proviso of SettledCall: a call made between the removal of
\* an expired entry and the pruning of its key may lose the edge it has added.
RecordedStays ==
    \A e \in recorded : e[2] \in children[e[1]] /\ e[1] \in parents[e[2]]
=============================================================================
