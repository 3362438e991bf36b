----------------------------- MODULE QSpaceProofs -----------------------------
(***************************************************************************)
(* Proofs about the result space, for any sets of goroutines and keys.     *)
(* QSpace: an entry somebody waits on is found and released, and a result  *)
(* is kept. DependencyGraph, the edges between the entries:   *)
(* circles and lost edges.                                                 *)
(***************************************************************************)
EXTENDS QSpace, DependencyGraph, TLAPS

\* Most steps are first-order reasoning, which Zenon does; the others name SMT.
USE Zenon

-----------------------------------------------------------------------------
(* The inductive invariant *)

\* Where a caller is before it has linked an entry, where a Remove is, and where a
\* caller is with the entry that getOrCreate returned.  Opt(S) is S or nil.
Fresh == {"start", "find", "link", "cas"}
Removing == {"remove", "walk", "unlink"}
Given == {"use", "load", "state", "reload", "put", "deliver"}
Labels == Fresh \cup Removing \cup Given \cup {"recheck", "done", "dropped"}
Rounds == Removing \cup {"sleep", "visit", "expire", "advance", "done"}
Opt(S) == S \cup {Nil}

\* Types; the space has stopped once Close has begun.
SpaceTypes ==
  /\ head \in Opt(Entry) /\ next \in [Entry -> Opt(Entry)]
  /\ stored \in [Entry -> Opt(Storers)] /\ slot \in [Entry -> {"pending", "ready", "closed"}]
  /\ pc \in [Procs -> Labels \cup Rounds]
  /\ entry \in [Callers -> Opt(Entry)] /\ handle = [a \in Awaiters |-> handle[a]]
  /\ prev \in [Procs -> Opt(Entry)] /\ cur \in [Procs -> Opt(Entry)] /\ succ \in [Procs -> Opt(Entry)]
  /\ expired \subseteq Storers /\ due \subseteq expired
  /\ visit \in Opt(Entry)
  /\ stopped \in BOOLEAN /\ split \in BOOLEAN /\ last \in Opt(Storers)
  /\ close \in {"idle", "wait", "walk", "returned"} /\ closing \in Opt(Entry)
  /\ stopped <=> close # "idle"
  /\ close = "walk" => closing # Nil

\* Where a caller stands, what it has been given and what it may return.
CallerPlaces ==
  /\ \A p \in Callers : pc[p] \in Labels
  /\ \A p \in Callers : pc[p] \in Fresh \cup {"recheck"} => entry[p] = Nil
  /\ \A p \in Callers : pc[p] \in Removing \cup Given => entry[p] # Nil
  /\ \A p \in Callers : pc[p] = "walk" => cur[p] # Nil
  /\ \A p \in Callers : pc[p] = "unlink" => cur[p] = p
  /\ \A a \in Awaiters : handle[a][1] = "slot" =>
       handle[a][2] = entry[a] /\ entry[a] # Nil /\ pc[a] = "done"

\* Where the maintenance loop stands and what it has in hand there.
CleanerPlaces ==
  /\ pc[Cleaner] \in Rounds
  /\ pc[Cleaner] \notin {"sleep", "done"} => visit # Nil
  /\ pc[Cleaner] \in {"walk", "unlink"} => cur[Cleaner] # Nil
  /\ pc[Cleaner] = "expire" => seen \in due

\* s has put its artifact into the entry it was given.
HasPut(s) == pc[s] \in {"deliver", "done"}

\* A Store that has put its artifact was given an entry, and one that has returned
\* has delivered to it; an artifact is in the entry its Store was given.
Artifacts ==
  /\ \A s \in Storers : HasPut(s) => entry[s] # Nil
  /\ \A s \in Storers : pc[s] = "done" => slot[entry[s]] # "pending"
  /\ \A e \in Entry : stored[e] # Nil => entry[stored[e]] = e /\ HasPut(stored[e])
  /\ \A s \in expired : HasPut(s)
  /\ last # Nil => HasPut(last)

\* The slot of e is ready or closed, or a Deliver to it is under way.
SettledEntry(e) == slot[e] # "pending" \/ \E s \in Storers : pc[s] = "deliver" /\ entry[s] = e

\* r ranks the entries that can still be, or become, linked: next leads to a smaller
\* rank, and so does what a Remove is about to link.  An entry that cannot come back
\* has rank 0.  Of the ranked entries only the head is in use.
Below(r, x, y) == y = Nil \/ (y \in Entry /\ 0 < r[y] /\ r[y] < r[x])

Ranked(r) ==
  /\ head # Nil => 0 < r[head]
  /\ \A x \in Entry : 0 < r[x] => Below(r, x, next[x])
  /\ \A q \in Callers : pc[q] = "unlink" /\ 0 < r[q] => Below(r, q, succ[q])
  /\ pc[Cleaner] = "unlink" => Below(r, head, succ[Cleaner])
  /\ \A x \in Entry : 0 < r[x] => pc[x] \notin Fresh
  /\ \A x \in Entry : 0 < r[x] /\ InUse(x) => x = head
  /\ pc[Cleaner] \in {"visit", "expire"} => 0 < r[visit]
  /\ pc[Cleaner] = "advance" /\ next[visit] # Nil => 0 < r[next[visit]]

\* The list has no circle and nothing on it comes back once it is removed.
Chain == \E r \in [Entry -> Nat] : Ranked(r)

\* A lookup that starts at the head cannot miss p: U holds what lies above p.
Above(U, p) ==
  /\ head \in U \cup {p}
  /\ \A x \in U : next[x] \in U \cup {p}
  /\ \A q \in Callers : pc[q] = "unlink" /\ q \in U => succ[q] \in U \cup {p}
  /\ pc[Cleaner] = "unlink" => succ[Cleaner] \in U \cup {p}

\* p has linked its entry, and nobody has been given it yet.
Unseen(p) == pc[p] = "recheck" /\ ~InUse(p)

\* No entry that was linked and not yet found can be overlooked.
UnseenFound == \A p \in Callers : Unseen(p) => \E U \in SUBSET Entry : Above(U, p)

\* What the maintenance loop removes, the first entry of the key, is the one whose
\* artifact it has cleared.
CleanerAtHead ==
  /\ pc[Cleaner] \in Removing => visit = head /\ InUse(visit) /\ SettledEntry(visit) /\ expired # {}
  /\ pc[Cleaner] \in {"walk", "unlink"} => cur[Cleaner] = visit /\ prev[Cleaner] = Nil

\* An entry in use is where the next lookup finds it, unless an artifact has expired
\* and nobody can be left waiting on it.
UsedAtHead ==
  \A e \in Entry : InUse(e) => pc[e] \notin Fresh /\ (e = head \/ (SettledEntry(e) /\ expired # {}))

\* Await has passed its second test of stopped.
Admitted(a) == pc[a] \in {"load", "state", "reload"} \/ handle[a][1] = "slot"

\* Once Close walks the list, an Await that was admitted has a settled slot or the
\* one Close is about to close.
ClosingSettles ==
  close \in {"walk", "returned"} =>
    \A a \in Awaiters : Admitted(a) => SettledEntry(entry[a]) \/ (close = "walk" /\ closing = entry[a])

\* What holds as long as the callers were given one entry.
Unsplit == Chain /\ UnseenFound /\ CleanerAtHead /\ UsedAtHead /\ ClosingSettles /\ RetainedUntilExpiry

\* The inductive invariant.
SpaceInv ==
  /\ SpaceTypes /\ CallerPlaces /\ CleanerPlaces /\ Artifacts
  /\ ~split => Unsplit

-----------------------------------------------------------------------------
(* What every step keeps, and steps that leave the list alone *)

\* What no step takes back; only the head is newly given out.
Grows ==
  /\ split => split'
  /\ expired \subseteq expired'
  /\ \A e \in Entry : SettledEntry(e) => SettledEntry(e)'
  /\ \A e \in Entry : InUse(e) => InUse(e)'
  /\ \A e \in Entry : InUse(e)' => InUse(e) \/ e = head

\* The list stays, and nobody gets ready to change it.
Calm ==
  /\ UNCHANGED <<head, next>>
  /\ \A p \in Procs : pc'[p] = "unlink" => pc[p] = "unlink" /\ succ'[p] = succ[p]
  /\ \A p \in Callers : pc[p] \notin Fresh => pc'[p] \notin Fresh
  /\ \A p \in Callers : pc'[p] = "recheck" => pc[p] = "recheck"

\* The maintenance loop does not move.
CleanerSame ==
  /\ visit' = visit /\ pc'[Cleaner] = pc[Cleaner]
  /\ cur'[Cleaner] = cur[Cleaner] /\ prev'[Cleaner] = prev[Cleaner]

\* The assumptions on the constants, for callers.
LEMMA SpaceConstants ==
  /\ Awaiters \cap Storers = {} /\ Cleaner \notin Callers
  /\ Nil \notin Callers /\ Nil # Cleaner
  BY SpaceAssumption DEF Callers

\* A caller in a Remove, or back from one, is neither before its entry nor done.
LEMMA RemovingLabels ==
  \A l \in Removing \cup {"use"} :
    l \in Labels /\ l \notin Fresh \cup {"recheck", "deliver", "done"}
  BY SMT DEF Labels, Fresh, Removing, Given

\* A caller that is done is nowhere else.
LEMMA DoneLabel ==
  "done" \in Labels /\ "done" \notin Fresh \cup Removing \cup Given \cup {"recheck"}
  BY SMT DEF Labels, Fresh, Removing, Given

\* The order of ranks.
LEMMA RankOrder ==
  /\ \A i \in Nat : ~(i < i)
  /\ \A i, j, k \in Nat : i < j /\ j < k => i < k
  BY SMT

\* A caller that goes on with its entry, or returns, leaves the list alone.
LEMMA GivenCalm ==
  ASSUME NEW p \in Callers, UNCHANGED <<head, next, succ>>,
         \A q \in Procs : q # p => pc'[q] = pc[q],
         pc'[p] \in {"use", "remove", "deliver", "done"}
  PROVE  Calm
<1>1. pc'[p] \notin Fresh /\ pc'[p] \notin {"unlink", "recheck"}
  BY SMT DEF Fresh
<1> QED  BY <1>1 DEF Calm, Procs

\* A step that unsettles no slot takes nothing back.
LEMMA SlotsGrow ==
  ASSUME split' = split, expired' = expired,
         \A e \in Entry : InUse(e) <=> InUse(e)',
         \A e \in Entry : SettledEntry(e) => SettledEntry(e)'
  PROVE  Grows
  BY DEF Grows

\* A calm step keeps the chain,
LEMMA CalmChain ==
  ASSUME Chain, Calm, Grows, visit' = visit,
         pc'[Cleaner] \in {"visit", "expire"} => pc[Cleaner] \in {"visit", "expire"},
         pc'[Cleaner] = "advance" => pc[Cleaner] \in {"visit", "expire", "advance"} /\ visit \in Entry
  PROVE  Chain'
<1>1. PICK r \in [Entry -> Nat] : Ranked(r)
  BY DEF Chain
<1>2. Ranked(r)'
  <2>1. head' # Nil => 0 < r[head']
    BY <1>1 DEF Ranked, Calm
  <2>2. \A x \in Entry : 0 < r[x] => Below(r, x, next'[x])
    BY <1>1 DEF Ranked, Calm
  <2>3. \A q \in Callers : pc'[q] = "unlink" /\ 0 < r[q] => Below(r, q, succ'[q])
    BY <1>1 DEF Ranked, Calm, Procs
  <2>4. pc'[Cleaner] = "unlink" => Below(r, head', succ'[Cleaner])
    BY <1>1 DEF Ranked, Calm, Procs
  <2>5. \A x \in Entry : 0 < r[x] => pc'[x] \notin Fresh
    BY <1>1 DEF Ranked, Calm, Entry
  <2>6. \A x \in Entry : 0 < r[x] /\ InUse(x)' => x = head'
    BY <1>1 DEF Ranked, Calm, Grows
  <2>7. pc'[Cleaner] \in {"visit", "expire"} => 0 < r[visit']
    BY <1>1 DEF Ranked
  <2>8. pc'[Cleaner] = "advance" /\ next'[visit'] # Nil => 0 < r[next'[visit']]
    BY <1>1 DEF Ranked, Calm, Below
  <2> QED  BY <2>1, <2>2, <2>3, <2>4, <2>5, <2>6, <2>7, <2>8 DEF Ranked, Below
<1> QED  BY <1>2 DEF Chain

\* the way to what nobody has found yet,
LEMMA CalmUnseen ==
  ASSUME UnseenFound, Calm, Grows
  PROVE  UnseenFound'
<1> SUFFICES ASSUME NEW p \in Callers, Unseen(p)'
             PROVE  \E U \in SUBSET Entry : Above(U, p)'
  BY DEF UnseenFound
<1>1. Unseen(p)
  BY DEF Unseen, Calm, Grows, Entry
<1>2. PICK U \in SUBSET Entry : Above(U, p)
  BY <1>1 DEF UnseenFound
<1>3. Above(U, p)'
  BY <1>2 DEF Above, Calm, Procs
<1> QED  BY <1>3

\* what the maintenance loop knows of the head,
LEMMA CleanerStays ==
  ASSUME CleanerAtHead, CleanerSame, Grows, head' = head, visit \in Opt(Entry),
         visit # Nil \/ pc[Cleaner] \notin Removing
  PROVE  CleanerAtHead'
  BY DEF CleanerAtHead, CleanerSame, Grows, Opt

\* the entry in use at the head,
LEMMA UsedStays ==
  ASSUME UsedAtHead, Chain, Grows, Calm
  PROVE  UsedAtHead'
<1>1. head \in Entry => pc[head] \notin Fresh
  BY SpaceConstants DEF Chain, Ranked, Entry
<1> QED  BY <1>1 DEF UsedAtHead, Grows, Calm, Entry

\* what Close has settled,
LEMMA ClosingStays ==
  ASSUME ClosingSettles, Grows, UNCHANGED <<close, closing>>, close # "idle" => stopped,
         \A a \in Awaiters : stopped /\ Admitted(a)' => Admitted(a) /\ entry'[a] = entry[a],
         \A a \in Awaiters : Admitted(a) => entry[a] \in Entry
  PROVE  ClosingSettles'
<1>1. ASSUME close' \in {"walk", "returned"}, NEW a \in Awaiters, Admitted(a)'
      PROVE  SettledEntry(entry[a])' \/ (close' = "walk" /\ closing' = entry'[a])
  <2>1. Admitted(a) /\ entry'[a] = entry[a] /\ entry[a] \in Entry
    BY <1>1
  <2>2. SettledEntry(entry[a]) \/ (close = "walk" /\ closing = entry[a])
    BY <1>1, <2>1 DEF ClosingSettles
  <2>3. CASE SettledEntry(entry[a])
    <3>1. \E e \in Entry : e = entry[a] /\ SettledEntry(e)'
      BY <2>1, <2>3 DEF Grows
    <3> QED  BY <2>1, <3>1
  <2> QED  BY <2>1, <2>2, <2>3
<1> QED  BY <1>1 DEF ClosingSettles

\* and the result stored last.
LEMMA RetainedStays ==
  ASSUME RetainedUntilExpiry, Grows, UNCHANGED <<head, stored, last>>
  PROVE  RetainedUntilExpiry'
  BY DEF RetainedUntilExpiry, Grows

\* An Await that was admitted has an entry.
LEMMA AdmittedEntry ==
  ASSUME SpaceTypes, CallerPlaces
  PROVE  \A a \in Awaiters : Admitted(a) => entry[a] \in Entry
  BY SMT DEF SpaceTypes, CallerPlaces, Admitted, Given, Opt, Callers

\* A step of a caller that leaves the list, the artifacts and Close alone.
LEMMA CalmKeeps ==
  ASSUME SpaceInv, ~split', Calm, Grows, CleanerSame,
         UNCHANGED <<stored, last, close, closing>>,
         \A a \in Awaiters : stopped /\ Admitted(a)' => Admitted(a) /\ entry'[a] = entry[a]
  PROVE  Unsplit'
<1>1. SpaceTypes /\ CallerPlaces /\ CleanerPlaces /\ Unsplit
  BY DEF SpaceInv, Grows
<1>2. visit \in Opt(Entry) /\ (visit # Nil \/ pc[Cleaner] \in {"sleep", "done"})
  BY <1>1 DEF SpaceTypes, CleanerPlaces
<1>3. Chain'
  BY <1>1, <1>2, CalmChain DEF Unsplit, CleanerSame, Opt
<1>4. UnseenFound'
  BY <1>1, CalmUnseen DEF Unsplit
<1>5. CleanerAtHead'
  BY <1>1, <1>2, CleanerStays DEF Unsplit, Calm, Removing
<1>6. UsedAtHead'
  BY <1>1, UsedStays DEF Unsplit, Calm
<1>7. ClosingSettles'
  BY <1>1, ClosingStays, AdmittedEntry DEF Unsplit, SpaceTypes
<1>8. RetainedUntilExpiry'
  BY <1>1, RetainedStays DEF Unsplit, Calm
<1> QED  BY <1>3, <1>4, <1>5, <1>6, <1>7, <1>8 DEF Unsplit

\* A step of one caller takes nothing back when it delivers nothing and the caller
\* keeps its entry, or is given its first: the head, or one that is in use.
LEMMA CallerGrows ==
  ASSUME NEW p \in Callers, \A q \in Procs : q # p => pc'[q] = pc[q], pc[p] # "deliver",
         slot' = slot, expired' = expired, split => split',
         \A q \in Callers : q # p => entry'[q] = entry[q],
         entry'[p] = entry[p] \/ (entry[p] = Nil /\ (entry'[p] = head \/ InUse(entry'[p])))
  PROVE  Grows
<1>1. \A e \in Entry : SettledEntry(e) => SettledEntry(e)'
  BY DEF SettledEntry, Callers, Procs
<1>2. \A e \in Entry : InUse(e) => InUse(e)'
  BY SpaceConstants DEF InUse, Entry
<1>3. \A e \in Entry : InUse(e)' => InUse(e) \/ e = head
  BY DEF InUse
<1> QED  BY <1>1, <1>2, <1>3 DEF Grows

-----------------------------------------------------------------------------
(* Await and Store up to the entry *)

\* Await and Store test whether the space has stopped.
LEMMA EnterKeeps ==
  ASSUME SpaceInv, NEW p \in Callers, Enter(p)
  PROVE  SpaceInv'
<1>0. SpaceTypes /\ CallerPlaces /\ CleanerPlaces /\ Artifacts
  BY DEF SpaceInv
<1>a. pc[p] = "start" /\ UNCHANGED <<list, data, entry, walk, expired, clean, ends, hist>>
  BY DEF Enter
<1>b. /\ pc' \in [Procs -> Labels \cup Rounds] /\ \A q \in Procs : q # p => pc'[q] = pc[q]
      /\ pc'[p] \in {"find", "dropped"} \/ (p \in Awaiters /\ pc'[p] = "done")
  BY SMT, <1>0 DEF Enter, GiveUp, Goto, SpaceTypes, Labels, Rounds, Fresh, Removing, Given, Procs
<1>c. /\ handle' = [a \in Awaiters |-> handle'[a]]
      /\ \A a \in Awaiters : handle'[a][1] = "slot" => handle'[a] = handle[a]
  BY SMT, <1>0 DEF Enter, GiveUp, SpaceTypes
<1> USE SpaceConstants, <1>0, <1>a, <1>b, <1>c DEF list, data, walk, clean, ends, hist
<1>1. SpaceTypes'
  BY DEF SpaceTypes
<1>2. CallerPlaces'
  BY SMT DEF CallerPlaces, Labels, Fresh, Removing, Given, Callers, Entry, Procs
<1>3. CleanerPlaces'
  BY DEF CleanerPlaces, Procs
<1>4. Artifacts'
  BY SMT DEF Artifacts, SpaceTypes, HasPut, Callers, Procs, Entry, Opt
<1>5. ASSUME ~split' PROVE Unsplit'
  <2>1. Grows
    BY CallerGrows DEF Callers
  <2>2. Calm
    BY SMT DEF Calm, Fresh, Procs
  <2>3. CleanerSame
    BY DEF CleanerSame, Procs
  <2>4. \A a \in Awaiters : stopped /\ Admitted(a)' => Admitted(a) /\ entry'[a] = entry[a]
    BY SMT DEF Admitted, Callers, Procs
  <2> QED  BY <1>5, <2>1, <2>2, <2>3, <2>4, CalmKeeps
<1> QED  BY <1>1, <1>2, <1>3, <1>4, <1>5 DEF SpaceInv

\* getOrCreate looks the key up: what it finds is the head.
LEMMA FindKeeps ==
  ASSUME SpaceInv, NEW p \in Callers, Find(p)
  PROVE  SpaceInv'
<1>0. SpaceTypes /\ CallerPlaces /\ CleanerPlaces /\ Artifacts
  BY DEF SpaceInv
<1>a. pc[p] = "find" /\ UNCHANGED <<list, data, handle, walk, expired, clean, ends, hist>>
  BY DEF Find
<1>b. /\ pc' \in [Procs -> Labels \cup Rounds] /\ \A q \in Procs : q # p => pc'[q] = pc[q]
      /\ (pc'[p] = "link" /\ head = Nil) \/ (pc'[p] = "use" /\ head # Nil)
  BY SMT, <1>0 DEF Find, Goto, SpaceTypes, Labels, Fresh, Given, Procs
<1>c. /\ entry' \in [Callers -> Opt(Entry)] /\ \A q \in Callers : q # p => entry'[q] = entry[q]
      /\ entry'[p] = head /\ entry[p] = Nil
  BY SMT, <1>0, <1>a DEF Find, SpaceTypes, CallerPlaces, Fresh
<1> USE SpaceConstants, <1>0, <1>a, <1>b, <1>c DEF list, data, walk, clean, ends, hist
<1>1. SpaceTypes'
  BY DEF SpaceTypes
<1>2. CallerPlaces'
  BY SMT DEF CallerPlaces, Labels, Fresh, Removing, Given, Callers, Procs
<1>3. CleanerPlaces'
  BY DEF CleanerPlaces, Procs
<1>4. Artifacts'
  BY SMT DEF Artifacts, SpaceTypes, HasPut, Callers, Procs, Entry, Opt
<1>5. ASSUME ~split' PROVE Unsplit'
  <2>1. Grows
    BY CallerGrows
  <2>2. Calm
    BY SMT DEF Calm, Fresh, Procs
  <2>3. CleanerSame
    BY DEF CleanerSame, Procs
  <2>4. \A a \in Awaiters : stopped /\ Admitted(a)' => Admitted(a) /\ entry'[a] = entry[a]
    BY SMT DEF Admitted, CallerPlaces, Callers, Procs
  <2> QED  BY <1>5, <2>1, <2>2, <2>3, <2>4, CalmKeeps
<1> QED  BY <1>1, <1>2, <1>3, <1>4, <1>5 DEF SpaceInv

\* getOrCreate sets the next of its new entry, which nobody else can see.
LEMMA LinkKeeps ==
  ASSUME SpaceInv, NEW p \in Callers, Link(p)
  PROVE  SpaceInv'
<1>0. SpaceTypes /\ CallerPlaces /\ CleanerPlaces /\ Artifacts
  BY DEF SpaceInv
<1>a. pc[p] = "link" /\ UNCHANGED <<head, data, entry, handle, walk, expired, clean, ends, hist>>
  BY DEF Link
<1>b. /\ pc' \in [Procs -> Labels \cup Rounds] /\ \A q \in Procs : q # p => pc'[q] = pc[q]
      /\ pc'[p] = "cas"
  BY SMT, <1>0 DEF Link, Goto, SpaceTypes, Labels, Fresh, Procs
<1>c. /\ next' \in [Entry -> Opt(Entry)] /\ \A x \in Entry : x # p => next'[x] = next[x]
      /\ next'[p] = head
  BY SMT, <1>0 DEF Link, SpaceTypes, Entry
<1> USE SpaceConstants, <1>0, <1>a, <1>b, <1>c DEF data, walk, clean, ends, hist
<1>1. SpaceTypes'
  BY DEF SpaceTypes
<1>2. CallerPlaces'
  BY SMT DEF CallerPlaces, Labels, Fresh, Removing, Given, Callers, Procs
<1>3. CleanerPlaces'
  BY DEF CleanerPlaces, Procs
<1>4. Artifacts'
  BY SMT DEF Artifacts, SpaceTypes, HasPut, Callers, Procs, Entry, Opt
<1>5. ASSUME ~split' PROVE Unsplit'
  <2>0. Unsplit
    BY <1>5 DEF SpaceInv
  <2>1. Grows
    BY CallerGrows DEF Callers
  <2>2. CleanerSame
    BY DEF CleanerSame, Procs
  <2>3. Chain'
    <3>1. PICK r \in [Entry -> Nat] : Ranked(r)
      BY <2>0 DEF Unsplit, Chain
    <3>2. ~(0 < r[p]) /\ r[p] \in Nat
      BY <3>1 DEF Ranked, Fresh, Entry
    <3>3. Ranked(r)'
      BY SMT, <3>1, <3>2 DEF Ranked, Below, SpaceTypes, CleanerPlaces, Fresh, InUse, Callers, Procs, Entry, Opt
    <3> QED  BY <3>3 DEF Chain
  <2>4. UnseenFound'
    <3> SUFFICES ASSUME NEW q \in Callers, Unseen(q)'
                 PROVE  \E U \in SUBSET Entry : Above(U, q)'
      BY DEF UnseenFound
    <3>1. Unseen(q)
      BY DEF Unseen, InUse, Procs
    <3>2. PICK U \in SUBSET Entry : Above(U, q)
      BY <2>0, <3>1 DEF Unsplit, UnseenFound
    <3>3. Above(U, q)'
      BY SMT, <3>2 DEF Above, Procs
    <3> QED  BY <3>3
  <2>5. CleanerAtHead'
    BY <2>0, <2>1, <2>2, CleanerStays DEF Unsplit, SpaceTypes, CleanerPlaces, Removing
  <2>6. UsedAtHead'
    BY SMT, <2>0, <2>1 DEF Unsplit, UsedAtHead, Grows, InUse, Fresh, Entry, Procs
  <2>7. ClosingSettles'
    <3>1. \A a \in Awaiters : stopped /\ Admitted(a)' => Admitted(a) /\ entry'[a] = entry[a]
      BY SMT DEF Admitted, Callers, Procs
    <3> QED  BY <2>0, <2>1, <3>1, ClosingStays, AdmittedEntry DEF Unsplit, SpaceTypes
  <2>8. RetainedUntilExpiry'
    BY <2>0, <2>1, RetainedStays DEF Unsplit
  <2> QED  BY <2>3, <2>4, <2>5, <2>6, <2>7, <2>8 DEF Unsplit
<1> QED  BY <1>1, <1>2, <1>3, <1>4, <1>5 DEF SpaceInv

\* The head is within reach.
LEMMA HeadLinked ==
  ASSUME head \in Entry
  PROVE  head \in Linked
  BY SpaceConstants DEF Linked, Entry

\* The entry of the result stored last is in use.
LEMMA HeadHolds ==
  ASSUME SpaceTypes, Artifacts, RetainedUntilExpiry, ~split, expired = {}, last # Nil
  PROVE  head \in Entry /\ InUse(head)
<1>1. head # Nil /\ stored[head] = last
  BY DEF RetainedUntilExpiry
<1>2. head \in Entry /\ last \in Callers
  BY <1>1 DEF SpaceTypes, Opt, Callers
<1> QED  BY <1>1, <1>2 DEF Artifacts, InUse

\* There is a rank above any other.
LEMMA Higher ==
  /\ \E k \in Nat : 0 < k
  /\ \A n \in Nat : \E k \in Nat : 0 < k /\ n < k
<1>1. \A n \in Nat : n + 1 \in Nat /\ 0 < n + 1 /\ n < n + 1
  BY SMT
<1>2. 0 \in Nat
  BY SMT
<1> QED  BY <1>1, <1>2

\* u differs from r in the rank k of p.
Raised(r, u, p, k) == u[p] = k /\ \A x \in Entry : x # p => u[x] = r[x]

\* An entry can be given any rank.
LEMMA NewRank ==
  ASSUME NEW r \in [Entry -> Nat], NEW p \in Entry, NEW k \in Nat
  PROVE  \E u \in [Entry -> Nat] : Raised(r, u, p, k)
<1>1. [r EXCEPT ![p] = k] \in [Entry -> Nat]
  BY SMT
<1> QED  BY <1>1 DEF Raised

\* getOrCreate puts its entry in front of the list, if the head is still the one it
\* linked: the entry gets a rank above the old head's.
LEMMA PrependKeeps ==
  ASSUME SpaceInv, NEW p \in Callers, Prepend(p)
  PROVE  SpaceInv'
<1>0. SpaceTypes /\ CallerPlaces /\ CleanerPlaces /\ Artifacts
  BY DEF SpaceInv
<1>a. pc[p] = "cas" /\ UNCHANGED <<next, data, entry, handle, walk, expired, clean, ends, last>>
  BY DEF Prepend
<1>b. /\ pc' \in [Procs -> Labels \cup Rounds] /\ \A q \in Procs : q # p => pc'[q] = pc[q]
      /\ pc'[p] \in {"recheck", "find"}
  BY SMT, <1>0 DEF Prepend, Goto, SpaceTypes, Labels, Fresh, Procs
<1>c. \/ head = next[p] /\ head' = p /\ split' = (split \/ \E e \in Linked : InUse(e)) /\ pc'[p] = "recheck"
      \/ head' = head /\ split' = split /\ pc'[p] = "find"
  <2>1. p \in Procs /\ pc \in [Procs -> Labels \cup Rounds]
    BY <1>0 DEF SpaceTypes, Procs
  <2>2. CASE head = next[p]
    BY <2>1, <2>2 DEF Prepend, Goto
  <2>3. CASE head # next[p]
    BY <2>1, <2>3 DEF Prepend, Goto
  <2> QED  BY <2>2, <2>3
<1> USE SpaceConstants, <1>0, <1>a, <1>b DEF data, walk, clean, ends
<1>1. SpaceTypes'
  <2>1. head' \in {p, head} /\ split' \in BOOLEAN
    BY <1>c DEF SpaceTypes
  <2> QED  BY SMT, <2>1 DEF SpaceTypes, Opt, Entry
<1>2. CallerPlaces'
  BY SMT DEF CallerPlaces, Labels, Fresh, Removing, Given, Callers, Procs
<1>3. CleanerPlaces'
  BY DEF CleanerPlaces, Procs
<1>4. Artifacts'
  BY SMT DEF Artifacts, SpaceTypes, HasPut, Callers, Procs, Entry, Opt
<1>5. ASSUME ~split' PROVE Unsplit'
  <2>0. Unsplit /\ ~split
    BY SMT, <1>5, <1>c DEF SpaceInv, SpaceTypes
  <2>1. Grows
    BY <2>0, CallerGrows
  <2>2. CleanerSame
    BY DEF CleanerSame, Procs
  <2>3. \A a \in Awaiters : stopped /\ Admitted(a)' => Admitted(a) /\ entry'[a] = entry[a]
    BY SMT DEF Admitted, Callers, Procs
  <2>4. CASE head' = head /\ pc'[p] = "find"
    <3>1. Calm
      BY SMT, <2>4 DEF Calm, Fresh, Procs
    <3> QED  BY <1>5, <2>1, <2>2, <2>3, <3>1, CalmKeeps
  <2>5. CASE /\ head = next[p] /\ head' = p /\ pc'[p] = "recheck"
             /\ split' = (split \/ \E e \in Linked : InUse(e))
    <3>1. \A e \in Entry : InUse(e) => e # head /\ e # p
      <4>1. \A e \in Entry : InUse(e) => e # p
        BY <2>0 DEF Unsplit, UsedAtHead, Fresh
      <4>2. head \in Entry => ~InUse(head)
        BY <1>5, <2>0, <2>5, HeadLinked
      <4> QED  BY <4>1, <4>2
    <3>2. pc[Cleaner] \notin Removing
      BY <2>0, <3>1 DEF Unsplit, CleanerAtHead, SpaceTypes, CleanerPlaces, Removing, Opt
    <3>3. Chain'
      <4>1. PICK r \in [Entry -> Nat] : Ranked(r)
        BY <2>0 DEF Unsplit, Chain
      <4>2. ~(0 < r[p]) /\ p \in Entry
        BY <4>1 DEF Ranked, Fresh, Entry
      <4>3. PICK k \in Nat : 0 < k /\ (head # Nil => r[head] < k)
        <5>1. head # Nil => r[head] \in Nat
          BY <4>1 DEF SpaceTypes, Opt
        <5> QED  BY <5>1, Higher
      <4>4. PICK u \in [Entry -> Nat] : u[p] = k /\ \A x \in Entry : x # p => u[x] = r[x]
        <5>1. \E u \in [Entry -> Nat] : Raised(r, u, p, k)
          BY <4>2, NewRank
        <5> QED  BY <5>1 DEF Raised
      <4>5. \A x, y \in Entry : x # p /\ Below(r, x, y) => Below(u, x, y)
        BY SMT, <4>2, <4>4 DEF Below
      <4>6. Ranked(u)'
        <5>1. 0 < u[head']
          BY <2>5, <4>3, <4>4
        <5>2. \A x \in Entry : 0 < u[x] => Below(u, x, next'[x])
          <6>1. Below(u, p, head)
            BY SMT, <4>1, <4>2, <4>3, <4>4 DEF Ranked, Below, SpaceTypes, Opt
          <6>2. \A x \in Entry : x # p /\ 0 < u[x] => Below(u, x, next[x])
            <7> SUFFICES ASSUME NEW x \in Entry, x # p, 0 < u[x] PROVE Below(u, x, next[x])
              OBVIOUS
            <7>1. Below(r, x, next[x])
              BY <4>1, <4>4 DEF Ranked
            <7>2. CASE next[x] = Nil
              BY <7>2 DEF Below
            <7>3. CASE next[x] # Nil
              BY <4>5, <7>1, <7>3 DEF Below
            <7> QED  BY <7>2, <7>3
          <6> QED  BY <2>5, <6>1, <6>2
        <5>3. \A q \in Callers : pc'[q] = "unlink" /\ 0 < u[q] => Below(u, q, succ'[q])
          <6> SUFFICES ASSUME NEW q \in Callers, pc'[q] = "unlink", 0 < u[q] PROVE Below(u, q, succ[q])
            OBVIOUS
          <6>1. q # p /\ pc[q] = "unlink"
            BY <2>5 DEF Procs
          <6>2. Below(r, q, succ[q])
            BY <4>1, <4>4, <6>1 DEF Ranked, Entry
          <6>3. CASE succ[q] = Nil
            BY <6>3 DEF Below
          <6>4. CASE succ[q] # Nil
            BY <4>5, <6>1, <6>2, <6>4 DEF Below, Entry
          <6> QED  BY <6>3, <6>4
        <5>4. pc'[Cleaner] # "unlink"
          BY <3>2 DEF Procs, Removing
        <5>5. \A x \in Entry : 0 < u[x] => pc'[x] \notin Fresh
          BY SMT, <2>5, <4>1, <4>4 DEF Ranked, Fresh, Entry, Procs
        <5>6. \A x \in Entry : 0 < u[x] /\ InUse(x)' => x = head'
          BY <2>5, <3>1, <4>1, <4>4 DEF Ranked, InUse
        <5>7. pc'[Cleaner] \in {"visit", "expire"} => 0 < u[visit']
          BY <4>1, <4>3, <4>4 DEF Ranked, CleanerPlaces, SpaceTypes, Opt, Procs
        <5>8. pc'[Cleaner] = "advance" /\ next'[visit'] # Nil => 0 < u[next'[visit']]
          <6> SUFFICES ASSUME pc'[Cleaner] = "advance", next[visit] # Nil PROVE 0 < u[next[visit]]
            OBVIOUS
          <6>1. visit \in Entry /\ pc[Cleaner] = "advance"
            BY DEF CleanerPlaces, SpaceTypes, Opt, Procs
          <6>2. next[visit] \in Entry /\ 0 < r[next[visit]]
            BY <4>1, <6>1 DEF Ranked, SpaceTypes, Opt
          <6> QED  BY <4>3, <4>4, <6>2
        <5> QED  BY <5>1, <5>2, <5>3, <5>4, <5>5, <5>6, <5>7, <5>8 DEF Ranked, Below
      <4> QED  BY <4>6 DEF Chain
    <3>4. UnseenFound'
      <4> SUFFICES ASSUME NEW q \in Callers, Unseen(q)'
                   PROVE  \E U \in SUBSET Entry : Above(U, q)'
        BY DEF UnseenFound
      <4>0. pc'[Cleaner] # "unlink" /\ pc'[p] # "unlink"
        BY <2>5, <3>2 DEF Removing, Procs
      <4>1. CASE q = p
        <5>1. Above({}, p)'
          BY <2>5, <4>0 DEF Above
        <5> QED  BY <4>1, <5>1
      <4>2. CASE q # p
        <5>1. Unseen(q)
          BY <4>2 DEF Unseen, InUse, Procs
        <5>2. PICK U \in SUBSET Entry : Above(U, q)
          BY <2>0, <5>1 DEF Unsplit, UnseenFound
        <5>3. Above(U \cup {p}, q)'
          BY SMT, <2>5, <4>0, <5>2 DEF Above, Procs
        <5>4. U \cup {p} \in SUBSET Entry
          BY DEF Entry
        <5> QED  BY <5>3, <5>4
      <4> QED  BY <4>1, <4>2
    <3>5. CleanerAtHead'
      BY <3>2 DEF CleanerAtHead, Removing, Procs
    <3>6. UsedAtHead'
      <4> SUFFICES ASSUME NEW e \in Entry, InUse(e)'
                   PROVE  pc'[e] \notin Fresh /\ SettledEntry(e)' /\ expired' # {}
        BY DEF UsedAtHead
      <4>1. InUse(e)
        BY DEF InUse
      <4>2. e # p /\ e # head
        BY <3>1, <4>1
      <4>3. pc[e] \notin Fresh /\ SettledEntry(e) /\ expired # {}
        BY <2>0, <4>1, <4>2 DEF Unsplit, UsedAtHead
      <4>4. pc'[e] = pc[e]
        BY <4>2 DEF Entry, Procs
      <4> QED  BY <2>1, <4>3, <4>4 DEF Grows
    <3>7. ClosingSettles'
      BY <2>0, <2>1, <2>3, ClosingStays, AdmittedEntry DEF Unsplit, SpaceTypes
    <3>8. RetainedUntilExpiry'
      BY <2>0, <3>1, HeadHolds DEF Unsplit, RetainedUntilExpiry
    <3> QED  BY <3>3, <3>4, <3>5, <3>6, <3>7, <3>8 DEF Unsplit
  <2> QED  BY <1>c, <2>4, <2>5
<1> QED  BY <1>1, <1>2, <1>3, <1>4, <1>5 DEF SpaceInv

\* getOrCreate looks the key up again: it is given the head, its own entry or the one
\* that has come before it, which it then removes its own for.
LEMMA RecheckKeeps ==
  ASSUME SpaceInv, NEW p \in Callers, Recheck(p)
  PROVE  SpaceInv'
<1>0. SpaceTypes /\ CallerPlaces /\ CleanerPlaces /\ Artifacts
  BY DEF SpaceInv
<1>a. pc[p] = "recheck" /\ UNCHANGED <<list, data, handle, walk, expired, clean, ends, hist>>
  BY DEF Recheck
<1>b. /\ pc' \in [Procs -> Labels \cup Rounds] /\ \A q \in Procs : q # p => pc'[q] = pc[q]
      /\ pc'[p] \in {"use", "remove"}
  BY SMT, <1>0 DEF Recheck, Goto, SpaceTypes, Labels, Removing, Given, Procs
<1>c. /\ entry' \in [Callers -> Opt(Entry)] /\ \A q \in Callers : q # p => entry'[q] = entry[q]
      /\ entry'[p] = (IF head = Nil THEN p ELSE head) /\ entry[p] = Nil /\ entry'[p] # Nil
  BY SMT, <1>0, <1>a, SpaceConstants DEF Recheck, SpaceTypes, CallerPlaces, Opt, Entry
<1> USE SpaceConstants, <1>0, <1>a, <1>b, <1>c DEF list, data, walk, clean, ends, hist
<1>1. SpaceTypes'
  BY DEF SpaceTypes
<1>2. CallerPlaces'
  BY SMT DEF CallerPlaces, Labels, Fresh, Removing, Given, Callers, Procs
<1>3. CleanerPlaces'
  BY DEF CleanerPlaces, Procs
<1>4. Artifacts'
  BY SMT DEF Artifacts, SpaceTypes, HasPut, Callers, Procs, Entry, Opt
<1>5. ASSUME ~split' PROVE Unsplit'
  <2>1. Grows
    <3>1. head = Nil => InUse(p)
      <4> SUFFICES ASSUME head = Nil, ~InUse(p) PROVE FALSE
        OBVIOUS
      <4>1. \E U \in SUBSET Entry : Above(U, p)
        BY <1>5 DEF SpaceInv, Unsplit, UnseenFound, Unseen
      <4> QED  BY <4>1 DEF Above, Entry
    <3> QED  BY <3>1, CallerGrows
  <2>2. Calm
    BY GivenCalm
  <2>3. CleanerSame
    BY DEF CleanerSame, Procs
  <2>4. \A a \in Awaiters : stopped /\ Admitted(a)' => Admitted(a) /\ entry'[a] = entry[a]
    <3>1. \A a \in Awaiters : a = p => ~Admitted(a)'
      BY SMT, <1>0, <1>a, <1>b DEF Admitted, CallerPlaces
    <3>2. \A a \in Awaiters : a # p => pc'[a] = pc[a] /\ entry'[a] = entry[a]
      BY DEF Callers, Procs
    <3> QED  BY <3>1, <3>2 DEF Admitted
  <2> QED  BY <1>5, <2>1, <2>2, <2>3, <2>4, CalmKeeps
<1> QED  BY <1>1, <1>2, <1>3, <1>4, <1>5 DEF SpaceInv

-----------------------------------------------------------------------------
(* Await and Store with the entry *)

\* Await and Store test again whether the space has stopped.
LEMMA UseKeeps ==
  ASSUME SpaceInv, NEW p \in Callers, Use(p)
  PROVE  SpaceInv'
<1>0. SpaceTypes /\ CallerPlaces /\ CleanerPlaces /\ Artifacts
  BY DEF SpaceInv
<1>a. pc[p] = "use" /\ UNCHANGED <<list, data, entry, walk, expired, clean, ends, hist>>
  BY DEF Use
<1>b. /\ pc' \in [Procs -> Labels \cup Rounds] /\ \A q \in Procs : q # p => pc'[q] = pc[q]
      /\ \/ pc'[p] = "load" /\ ~stopped
         \/ pc'[p] \in {"put", "dropped"}
         \/ p \in Awaiters /\ pc'[p] = "done"
  BY SMT, <1>0 DEF Use, GiveUp, Goto, SpaceTypes, Labels, Given, Procs
<1>c. /\ handle' = [a \in Awaiters |-> handle'[a]]
      /\ \A a \in Awaiters : handle'[a][1] = "slot" => handle'[a] = handle[a]
  BY SMT, <1>0 DEF Use, GiveUp, SpaceTypes
<1> USE SpaceConstants, <1>0, <1>a, <1>b, <1>c DEF list, data, walk, clean, ends, hist
<1>1. SpaceTypes'
  BY SMT DEF SpaceTypes
<1>2. CallerPlaces'
  BY SMT DEF CallerPlaces, Labels, Fresh, Removing, Given, Callers, Procs
<1>3. CleanerPlaces'
  BY DEF CleanerPlaces, Callers, Procs
<1>4. Artifacts'
  BY SMT DEF Artifacts, SpaceTypes, HasPut, Callers, Procs, Entry, Opt
<1>5. ASSUME ~split' PROVE Unsplit'
  <2>1. Grows
    BY CallerGrows DEF Callers
  <2>2. Calm
    BY SMT DEF Calm, Fresh, Callers, Procs
  <2>3. CleanerSame
    BY DEF CleanerSame, Callers, Procs
  <2>4. \A a \in Awaiters : stopped /\ Admitted(a)' => Admitted(a) /\ entry'[a] = entry[a]
    BY SMT DEF Admitted, CallerPlaces, Callers, Procs
  <2> QED  BY <1>5, <2>1, <2>2, <2>3, <2>4, CalmKeeps
<1> QED  BY <1>1, <1>2, <1>3, <1>4, <1>5 DEF SpaceInv

\* Await loads the artifact of its entry.
LEMMA LoadStoredKeeps ==
  ASSUME SpaceInv, NEW p \in Awaiters, LoadStored(p)
  PROVE  SpaceInv'
<1>0. SpaceTypes /\ CallerPlaces /\ CleanerPlaces /\ Artifacts
  BY DEF SpaceInv
<1>a. pc[p] \in {"load", "reload"} /\ UNCHANGED <<list, data, entry, walk, expired, clean, ends, hist>>
  BY DEF LoadStored
<1>b. /\ pc' \in [Procs -> Labels \cup Rounds] /\ \A q \in Procs : q # p => pc'[q] = pc[q]
      /\ pc'[p] \in {"state", "done"} /\ p \in Callers /\ p \in Procs
  BY SMT, <1>0 DEF LoadStored, Goto, SpaceTypes, Labels, Given, Callers, Procs
<1>c. /\ handle' = [a \in Awaiters |-> handle'[a]]
      /\ \A a \in Awaiters : handle'[a][1] = "slot" =>
           handle'[a] = handle[a] \/ (a = p /\ pc'[p] = "done" /\ handle'[p][2] = entry[p])
  BY SMT, <1>0 DEF LoadStored, Goto, SpaceTypes, Callers, Procs
<1> USE SpaceConstants, <1>0, <1>a, <1>b, <1>c DEF list, data, walk, clean, ends, hist
<1>1. SpaceTypes'
  BY SMT DEF SpaceTypes
<1>2. CallerPlaces'
  BY SMT DEF CallerPlaces, Labels, Fresh, Removing, Given, Callers, Procs
<1>3. CleanerPlaces'
  BY DEF CleanerPlaces, Callers, Procs
<1>4. Artifacts'
  BY SMT DEF Artifacts, SpaceTypes, HasPut, Callers, Procs, Entry, Opt
<1>5. ASSUME ~split' PROVE Unsplit'
  <2>1. Grows
    BY CallerGrows DEF Callers
  <2>2. Calm
    BY SMT DEF Calm, Fresh, Callers, Procs
  <2>3. CleanerSame
    BY DEF CleanerSame, Callers, Procs
  <2>4. \A a \in Awaiters : stopped /\ Admitted(a)' => Admitted(a) /\ entry'[a] = entry[a]
    BY SMT DEF Admitted, CallerPlaces, Callers, Procs
  <2> QED  BY <1>5, <2>1, <2>2, <2>3, <2>4, CalmKeeps
<1> QED  BY <1>1, <1>2, <1>3, <1>4, <1>5 DEF SpaceInv

\* Await loads the state of the slot.
LEMMA LoadStateKeeps ==
  ASSUME SpaceInv, NEW p \in Awaiters, LoadState(p)
  PROVE  SpaceInv'
<1>0. SpaceTypes /\ CallerPlaces /\ CleanerPlaces /\ Artifacts
  BY DEF SpaceInv
<1>a. pc[p] = "state" /\ UNCHANGED <<list, data, entry, walk, expired, clean, ends, hist>>
  BY DEF LoadState
<1>b. /\ pc' \in [Procs -> Labels \cup Rounds] /\ \A q \in Procs : q # p => pc'[q] = pc[q]
      /\ pc'[p] \in {"reload", "done"} /\ p \in Callers /\ p \in Procs
  BY SMT, <1>0 DEF LoadState, Goto, SpaceTypes, Labels, Given, Callers, Procs
<1>c. /\ handle' = [a \in Awaiters |-> handle'[a]]
      /\ \A a \in Awaiters : handle'[a][1] = "slot" =>
           handle'[a] = handle[a] \/ (a = p /\ pc'[p] = "done" /\ handle'[p][2] = entry[p])
  BY SMT, <1>0 DEF LoadState, Goto, SpaceTypes, Callers, Procs
<1> USE SpaceConstants, <1>0, <1>a, <1>b, <1>c DEF list, data, walk, clean, ends, hist
<1>1. SpaceTypes'
  BY SMT DEF SpaceTypes
<1>2. CallerPlaces'
  BY SMT DEF CallerPlaces, Labels, Fresh, Removing, Given, Callers, Procs
<1>3. CleanerPlaces'
  BY DEF CleanerPlaces, Callers, Procs
<1>4. Artifacts'
  BY SMT DEF Artifacts, SpaceTypes, HasPut, Callers, Procs, Entry, Opt
<1>5. ASSUME ~split' PROVE Unsplit'
  <2>1. Grows
    BY CallerGrows DEF Callers
  <2>2. Calm
    BY SMT DEF Calm, Fresh, Callers, Procs
  <2>3. CleanerSame
    BY DEF CleanerSame, Callers, Procs
  <2>4. \A a \in Awaiters : stopped /\ Admitted(a)' => Admitted(a) /\ entry'[a] = entry[a]
    BY SMT DEF Admitted, CallerPlaces, Callers, Procs
  <2> QED  BY <1>5, <2>1, <2>2, <2>3, <2>4, CalmKeeps
<1> QED  BY <1>1, <1>2, <1>3, <1>4, <1>5 DEF SpaceInv

\* Store delivers to the slot of its entry.
LEMMA DeliverKeeps ==
  ASSUME SpaceInv, NEW s \in Storers, Deliver(s)
  PROVE  SpaceInv'
<1>0. SpaceTypes /\ CallerPlaces /\ CleanerPlaces /\ Artifacts
  BY DEF SpaceInv
<1>a. /\ pc[s] = "deliver" /\ UNCHANGED <<list, stored, entry, handle, walk, expired, clean, ends, hist>>
      /\ s \in Callers /\ s \in Procs /\ entry[s] \in Entry
  BY SMT, <1>0 DEF Deliver, Callers, Procs, SpaceTypes, CallerPlaces, Given, Opt
<1>b. /\ pc' \in [Procs -> Labels \cup Rounds] /\ \A q \in Procs : q # s => pc'[q] = pc[q]
      /\ pc'[s] = "done"
  BY SMT, <1>0, <1>a DEF Deliver, Goto, SpaceTypes, Labels
<1>c. /\ slot' \in [Entry -> {"pending", "ready", "closed"}] /\ slot'[entry[s]] # "pending"
      /\ \A e \in Entry : slot[e] # "pending" => slot'[e] # "pending"
  BY SMT, <1>0, <1>a DEF Deliver, SpaceTypes
<1> USE SpaceConstants, <1>0, <1>a, <1>b, <1>c DEF list, walk, clean, ends, hist
<1>1. SpaceTypes'
  BY SMT DEF SpaceTypes
<1>2. CallerPlaces'
  <2>1. \A q \in Callers : q # s => pc'[q] = pc[q]
    BY DEF Procs
  <2>2. s \notin Awaiters /\ \A a \in Awaiters : a \in Callers
    BY DEF Callers
  <2>3. entry' = entry /\ handle' = handle /\ cur' = cur
    OBVIOUS
  <2>4. \A q \in Callers : pc'[q] \in Labels
    BY <2>1, DoneLabel DEF CallerPlaces
  <2>5. \A q \in Callers : pc'[q] \in Fresh \cup Removing \cup Given \cup {"recheck"} => pc'[q] = pc[q]
    BY <2>1, DoneLabel
  <2>6. \A q \in Callers : pc'[q] \in {"walk", "unlink"} => pc'[q] = pc[q]
    BY <2>1
  <2> QED  BY SMT, <2>1, <2>2, <2>3, <2>4, <2>5, <2>6 DEF CallerPlaces
<1>3. CleanerPlaces'
  BY DEF CleanerPlaces, Callers, Procs
<1>4. Artifacts'
  BY SMT DEF Artifacts, SpaceTypes, HasPut, Callers, Procs, Entry, Opt
<1>5. ASSUME ~split' PROVE Unsplit'
  <2>1. Grows
    <3>1. \A e \in Entry : InUse(e) <=> InUse(e)'
      BY DEF InUse
    <3>2. \A t \in Storers : t # s => pc'[t] = pc[t]
      BY DEF Callers, Procs
    <3>3. \A e \in Entry : SettledEntry(e) => SettledEntry(e)'
      BY <3>2 DEF SettledEntry
    <3>4. split' = split /\ expired' = expired
      OBVIOUS
    <3> QED  BY <3>1, <3>3, <3>4, SlotsGrow
  <2>2. Calm
    BY GivenCalm DEF Procs
  <2>3. CleanerSame
    BY DEF CleanerSame, Callers, Procs
  <2>4. \A a \in Awaiters : stopped /\ Admitted(a)' => Admitted(a) /\ entry'[a] = entry[a]
    <3>1. \A a \in Awaiters : pc'[a] = pc[a]
      BY DEF Callers, Procs
    <3> QED  BY <3>1 DEF Admitted
  <2> QED  BY <1>5, <2>1, <2>2, <2>3, <2>4, CalmKeeps
<1> QED  BY <1>1, <1>2, <1>3, <1>4, <1>5 DEF SpaceInv

\* A step that leaves the list, the slots and the callers alone.
LEMMA StandsStill ==
  ASSUME UNCHANGED <<head, next, slot, pc, entry, succ, split>>, expired \subseteq expired'
  PROVE  Grows /\ Calm
BY DEF Grows, Calm, SettledEntry, InUse

\* The TTL of an artifact elapses.
LEMMA ExpireKeeps ==
  ASSUME SpaceInv, NEW s \in Storers, Expire(s)
  PROVE  SpaceInv'
<1>0. SpaceTypes /\ CallerPlaces /\ CleanerPlaces /\ Artifacts
  BY DEF SpaceInv
<1>a. /\ HasPut(s) /\ UNCHANGED <<list, data, pc, entry, handle, walk, clean, ends, hist>>
      /\ expired' = expired \cup {s}
  BY DEF Expire, HasPut
<1>b. expired \subseteq expired'
  BY <1>a
<1>c. expired' \subseteq Storers
  BY <1>0, <1>a DEF SpaceTypes
<1> USE SpaceConstants, <1>0, <1>a, <1>b, <1>c DEF list, data, walk, clean, ends, hist
<1>1. SpaceTypes'
  BY SMT DEF SpaceTypes
<1>2. CallerPlaces'
  BY SMT DEF CallerPlaces, Labels, Fresh, Removing, Given, Callers, Procs
<1>3. CleanerPlaces'
  BY DEF CleanerPlaces, Callers, Procs
<1>4. Artifacts'
  BY SMT DEF Artifacts, SpaceTypes, HasPut, Callers, Procs, Entry, Opt
<1>5. ASSUME ~split' PROVE Unsplit'
  <2>1. Grows
    BY <1>a, <1>b, StandsStill
  <2>2. Calm
    BY <1>a, <1>b, StandsStill
  <2>3. CleanerSame
    BY DEF CleanerSame, Callers, Procs
  <2>4. \A a \in Awaiters : stopped /\ Admitted(a)' => Admitted(a) /\ entry'[a] = entry[a]
    BY DEF Admitted
  <2> QED  BY <1>5, <2>1, <2>2, <2>3, <2>4, CalmKeeps
<1> QED  BY <1>1, <1>2, <1>3, <1>4, <1>5 DEF SpaceInv

\* Store puts its artifact into its entry, the head as long as nothing has expired.
LEMMA PutKeeps ==
  ASSUME SpaceInv, NEW s \in Storers, Put(s)
  PROVE  SpaceInv'
<1>0. SpaceTypes /\ CallerPlaces /\ CleanerPlaces /\ Artifacts
  BY DEF SpaceInv
<1>a. /\ pc[s] = "put" /\ UNCHANGED <<list, slot, entry, handle, walk, expired, clean, ends, split>>
      /\ s \in Callers /\ s \in Procs /\ entry[s] \in Entry /\ last' = s
  BY SMT, <1>0 DEF Put, Callers, Procs, SpaceTypes, CallerPlaces, Given, Opt
<1>b. /\ pc' \in [Procs -> Labels \cup Rounds] /\ \A q \in Procs : q # s => pc'[q] = pc[q]
      /\ pc'[s] = "deliver"
  BY SMT, <1>0, <1>a DEF Put, Goto, SpaceTypes, Labels, Given
<1>c. /\ stored' \in [Entry -> Opt(Storers)] /\ stored'[entry[s]] = s
      /\ \A e \in Entry : e # entry[s] => stored'[e] = stored[e]
  BY SMT, <1>0, <1>a DEF Put, SpaceTypes, Opt
<1> USE SpaceConstants, <1>0, <1>a, <1>b, <1>c DEF list, walk, clean, ends
<1>1. SpaceTypes'
  BY SMT DEF SpaceTypes, Opt
<1>2. CallerPlaces'
  BY SMT DEF CallerPlaces, Labels, Fresh, Removing, Given, Callers, Procs
<1>3. CleanerPlaces'
  BY DEF CleanerPlaces, Callers, Procs
<1>4. Artifacts'
  BY SMT DEF Artifacts, SpaceTypes, HasPut, Callers, Procs, Entry, Opt
<1>5. ASSUME ~split' PROVE Unsplit'
  <2>0. Unsplit
    BY <1>5 DEF SpaceInv
  <2>1. Grows
    <3>1. \A e \in Entry : InUse(e) <=> InUse(e)'
      BY DEF InUse
    <3>2. \A t \in Storers : pc[t] = "deliver" => pc'[t] = "deliver"
      BY DEF Callers, Procs
    <3>3. \A e \in Entry : SettledEntry(e) => SettledEntry(e)'
      BY <3>2 DEF SettledEntry
    <3>4. split' = split /\ expired' = expired
      OBVIOUS
    <3> QED  BY <3>1, <3>3, <3>4, SlotsGrow
  <2>2. Calm
    BY GivenCalm DEF Procs
  <2>3. CleanerSame
    BY DEF CleanerSame, Callers, Procs
  <2>4. Chain'
    BY <2>0, <2>1, <2>2, <2>3, CalmChain DEF Unsplit, CleanerSame, CleanerPlaces, SpaceTypes, Opt
  <2>5. UnseenFound'
    BY <2>0, <2>1, <2>2, CalmUnseen DEF Unsplit
  <2>6. CleanerAtHead'
    BY <2>0, <2>1, <2>3, CleanerStays DEF Unsplit, SpaceTypes, CleanerPlaces, Removing
  <2>7. UsedAtHead'
    BY <2>0, <2>1, <2>2, UsedStays DEF Unsplit
  <2>8. ClosingSettles'
    <3>1. \A a \in Awaiters : stopped /\ Admitted(a)' => Admitted(a) /\ entry'[a] = entry[a]
      <4>1. \A a \in Awaiters : pc'[a] = pc[a]
        BY DEF Callers, Procs
      <4> QED  BY <4>1 DEF Admitted
    <3> QED  BY <2>0, <2>1, <3>1, ClosingStays, AdmittedEntry DEF Unsplit, SpaceTypes
  <2>9. RetainedUntilExpiry'
    <3>1. expired = {} => entry[s] = head
      BY <2>0 DEF Unsplit, UsedAtHead, InUse
    <3> QED  BY <3>1 DEF RetainedUntilExpiry, Entry
  <2> QED  BY <2>4, <2>5, <2>6, <2>7, <2>8, <2>9 DEF Unsplit
<1> QED  BY <1>1, <1>2, <1>3, <1>4, <1>5 DEF SpaceInv

-----------------------------------------------------------------------------
(* IntrusiveList.RemoveReturning *)

\* A step of a Remove changes nothing of the other processes.
Only(p) ==
  /\ pc' \in [Procs -> Labels \cup Rounds] /\ prev' \in [Procs -> Opt(Entry)]
  /\ cur' \in [Procs -> Opt(Entry)] /\ succ' \in [Procs -> Opt(Entry)]
  /\ \A q \in Procs : q # p =>
       pc'[q] = pc[q] /\ prev'[q] = prev[q] /\ cur'[q] = cur[q] /\ succ'[q] = succ[q]

\* Where a Remove returns to.
Returning(p) == IF p = Cleaner THEN "advance" ELSE "use"

\* A Remove that returns touches nothing else.
LEMMA Returned ==
  ASSUME SpaceTypes, NEW p \in Procs, RemoveReturns(p)
  PROVE  Only(p) /\ pc'[p] = Returning(p)
<1>1. Returning(p) \in Labels \cup Rounds /\ Nil \in Opt(Entry)
  BY DEF Returning, Labels, Rounds, Given, Opt
<1> QED  BY SMT, <1>1 DEF RemoveReturns, Goto, Only, SpaceTypes, Returning

\* A step of a Remove keeps types and places,
LEMMA RemoveFrame ==
  ASSUME SpaceInv, NEW p \in Procs, Only(p), pc[p] \in Removing,
         UNCHANGED <<data, entry, handle, expired, clean, ends, last>>,
         head' \in Opt(Entry), next' \in [Entry -> Opt(Entry)], split' \in BOOLEAN,
         \/ pc'[p] = Returning(p) \/ pc'[p] = "remove"
         \/ pc'[p] = "walk" /\ cur'[p] # Nil
         \/ pc'[p] = "unlink" /\ cur'[p] # Nil /\ (p # Cleaner => cur'[p] = p)
  PROVE  SpaceTypes' /\ CallerPlaces' /\ CleanerPlaces' /\ Artifacts'
<1>0. SpaceTypes /\ CallerPlaces /\ CleanerPlaces /\ Artifacts
  BY DEF SpaceInv
<1> USE SpaceConstants, <1>0 DEF data, clean, ends
<1>1. SpaceTypes'
  BY DEF SpaceTypes, Only
<1>2. CallerPlaces'
  <2>1. p \in Callers => pc'[p] \in Removing \cup {"use"}
    BY DEF Returning, Removing
  <2>2. p \in Callers => entry[p] # Nil /\ pc[p] # "done" /\ pc[p] \notin Fresh
    BY DEF CallerPlaces, Removing, Fresh
  <2>3. \A q \in Callers : pc'[q] = "walk" => cur'[q] # Nil
    BY DEF CallerPlaces, Only, Procs, Returning
  <2>4. \A q \in Callers : pc'[q] = "unlink" => cur'[q] = q
    <3>1. p \in Callers /\ pc'[p] = "unlink" => cur'[p] = p
      BY DEF Returning
    <3>2. \A q \in Callers : q # p => pc'[q] = pc[q] /\ cur'[q] = cur[q]
      BY DEF Only, Procs
    <3> QED  BY <3>1, <3>2 DEF CallerPlaces
  <2>5. \A q \in Callers : q # p => pc'[q] = pc[q]
    BY DEF Only, Procs
  <2>6. \A l \in Removing \cup {"use"} : l \in Labels /\ l \notin Fresh \cup {"recheck", "deliver", "done"}
    BY RemovingLabels
  <2>7. \A a \in Awaiters : a \in Callers
    BY DEF Callers
  <2> QED  BY <2>1, <2>2, <2>3, <2>4, <2>5, <2>6, <2>7 DEF CallerPlaces
<1>3. CleanerPlaces'
  <2>1. CASE p = Cleaner
    BY <2>1 DEF CleanerPlaces, Only, Rounds, Removing, Returning
  <2>2. CASE p # Cleaner
    BY <2>2 DEF CleanerPlaces, Only, Procs
  <2> QED  BY <2>1, <2>2
<1>4. Artifacts'
  <2>0. \A s \in Storers : \/ pc'[s] = pc[s]
                           \/ pc[s] \in Removing /\ pc'[s] \in Removing \cup {"use"}
    <3>1. p \in Storers => pc'[p] \in Removing \cup {"use"}
      BY DEF Returning, Removing, Callers
    <3>2. \A s \in Storers : s # p => pc'[s] = pc[s]
      BY DEF Only, Callers, Procs
    <3> QED  BY <3>1, <3>2
  <2>1. \A s \in Storers : HasPut(s) <=> HasPut(s)'
    BY <2>0, RemovingLabels DEF HasPut
  <2>2. \A s \in Storers : pc'[s] = "done" => pc[s] = "done"
    BY <2>0, RemovingLabels
  <2>3. \A e \in Entry : stored[e] # Nil => stored[e] \in Storers
    BY DEF SpaceTypes, Opt
  <2>4. expired \subseteq Storers /\ (last # Nil => last \in Storers)
    BY DEF SpaceTypes, Opt
  <2> QED  BY <2>1, <2>2, <2>3, <2>4 DEF Artifacts
<1> QED  BY <1>1, <1>2, <1>3, <1>4

\* and takes nothing back.
LEMMA RemoveGrows ==
  ASSUME SpaceInv, NEW p \in Procs, Only(p), pc[p] \in Removing, pc'[p] \in Removing \cup {"use", "advance"},
         UNCHANGED <<data, entry, handle, expired>>, split => split'
  PROVE  /\ Grows
         /\ \A a \in Awaiters : stopped /\ Admitted(a)' => Admitted(a) /\ entry'[a] = entry[a]
         /\ \A e \in Entry : InUse(e) <=> InUse(e)'
         /\ \A q \in Callers : pc[q] \notin Fresh => pc'[q] \notin Fresh
         /\ \A q \in Callers : pc'[q] = "recheck" => pc[q] = "recheck" /\ q # p
<1> USE DEF data
<1>1. \A e \in Entry : InUse(e) <=> InUse(e)'
  BY DEF InUse
<1>2. \A e \in Entry : SettledEntry(e) => SettledEntry(e)'
  BY DEF SettledEntry, Only, Removing, Callers, Procs
<1>3. \A a \in Awaiters : stopped /\ Admitted(a)' => Admitted(a) /\ entry'[a] = entry[a]
  BY DEF Admitted, Only, Removing, Callers, Procs
<1>4. \A q \in Callers : pc[q] \notin Fresh => pc'[q] \notin Fresh
  BY DEF Only, Removing, Fresh, Procs
<1>5. \A q \in Callers : pc'[q] = "recheck" => pc[q] = "recheck" /\ q # p
  BY DEF Only, Removing, Procs
<1> QED  BY <1>1, <1>2, <1>3, <1>4, <1>5 DEF Grows

\* A step of the maintenance loop that leaves the list, the artifacts and Close alone.
LEMMA CalmCleaner ==
  ASSUME SpaceInv, ~split', Calm, Grows, CleanerAtHead', visit' = visit,
         pc'[Cleaner] \in {"visit", "expire"} => pc[Cleaner] \in {"visit", "expire"},
         pc'[Cleaner] = "advance" => pc[Cleaner] \in {"visit", "expire", "advance"} /\ visit \in Entry,
         UNCHANGED <<stored, last, close, closing>>,
         \A a \in Awaiters : stopped /\ Admitted(a)' => Admitted(a) /\ entry'[a] = entry[a]
  PROVE  Unsplit'
<1>1. SpaceTypes /\ CallerPlaces /\ Unsplit
  BY DEF SpaceInv, Grows
<1>2. Chain'
  BY <1>1, CalmChain DEF Unsplit
<1>3. UnseenFound'
  BY <1>1, CalmUnseen DEF Unsplit
<1>4. UsedAtHead'
  BY <1>1, UsedStays DEF Unsplit
<1>5. ClosingSettles'
  BY <1>1, ClosingStays, AdmittedEntry DEF Unsplit, SpaceTypes
<1>6. RetainedUntilExpiry'
  BY <1>1, RetainedStays DEF Unsplit, Calm
<1> QED  BY <1>2, <1>3, <1>4, <1>5, <1>6 DEF Unsplit

\* Remove starts at the head.
LEMMA RemoveFromHeadKeeps ==
  ASSUME SpaceInv, NEW p \in Procs, RemoveFromHead(p)
  PROVE  SpaceInv'
<1>0. SpaceTypes /\ CallerPlaces /\ CleanerPlaces
  BY DEF SpaceInv
<1>a. pc[p] = "remove" /\ UNCHANGED <<list, data, entry, handle, expired, clean, ends, hist>>
  BY DEF RemoveFromHead
<1>b. Only(p) /\ \/ head = Nil /\ pc'[p] = Returning(p)
                 \/ head # Nil /\ pc'[p] = "walk" /\ prev'[p] = Nil /\ cur'[p] = head
  <2>1. CASE head = Nil
    BY <1>0, <2>1, Returned DEF RemoveFromHead
  <2>2. CASE head # Nil
    BY SMT, <1>0, <2>2 DEF RemoveFromHead, Goto, Only, SpaceTypes, Opt, Labels, Removing
  <2> QED  BY <2>1, <2>2
<1> USE SpaceConstants, <1>a, <1>b DEF list, hist
<1>1. SpaceTypes' /\ CallerPlaces' /\ CleanerPlaces' /\ Artifacts'
  BY <1>0, RemoveFrame DEF Removing, SpaceTypes
<1>2. ASSUME ~split' PROVE Unsplit'
  <2>0. Unsplit
    BY <1>2 DEF SpaceInv
  <2>1. /\ Grows
        /\ \A a \in Awaiters : stopped /\ Admitted(a)' => Admitted(a) /\ entry'[a] = entry[a]
        /\ \A q \in Callers : pc[q] \notin Fresh => pc'[q] \notin Fresh
        /\ \A q \in Callers : pc'[q] = "recheck" => pc[q] = "recheck" /\ q # p
    BY RemoveGrows DEF Removing, Returning
  <2>2. Calm
    BY <2>1 DEF Calm, Only, Returning
  <2>3. CASE p = Cleaner
    <3>1. visit = head /\ visit # Nil /\ InUse(visit) /\ SettledEntry(visit) /\ expired # {}
      BY <1>0, <2>0, <2>3 DEF Unsplit, CleanerAtHead, CleanerPlaces, Removing
    <3>2. visit \in Entry
      BY <1>0, <3>1 DEF SpaceTypes, Opt
    <3>3. CleanerAtHead'
      BY <2>1, <2>3, <3>1, <3>2 DEF CleanerAtHead, Grows, Removing, clean
    <3> QED  BY <1>2, <2>1, <2>2, <2>3, <3>1, <3>3, CalmCleaner DEF data, ends, clean
  <2>4. CASE p # Cleaner
    <3>1. CleanerSame
      BY <2>4 DEF CleanerSame, Only, Procs, clean
    <3> QED  BY <1>2, <2>1, <2>2, <3>1, CalmKeeps DEF data, ends
  <2> QED  BY <2>3, <2>4
<1> QED  BY <1>1, <1>2 DEF SpaceInv

\* Remove goes one entry on, finds its entry or the end.
LEMMA RemoveWalkKeeps ==
  ASSUME SpaceInv, NEW p \in Procs, RemoveWalk(p)
  PROVE  SpaceInv'
<1>0. SpaceTypes /\ CallerPlaces /\ CleanerPlaces
  BY DEF SpaceInv
<1>a. pc[p] = "walk" /\ UNCHANGED <<list, data, entry, handle, expired, clean, ends, hist>>
  BY DEF RemoveWalk
<1>c. cur[p] \in Entry /\ next[cur[p]] \in Opt(Entry)
  <2>1. cur[p] # Nil
    BY <1>0, <1>a DEF CallerPlaces, CleanerPlaces, Procs
  <2>2. cur[p] \in Opt(Entry) /\ next \in [Entry -> Opt(Entry)]
    BY <1>0 DEF SpaceTypes
  <2> QED  BY <2>1, <2>2 DEF Opt
<1>b. Only(p) /\ \/ /\ pc'[p] = "unlink" /\ Match(p, cur[p]) /\ succ'[p] = next[cur[p]]
                    /\ cur'[p] = cur[p] /\ prev'[p] = prev[p]
                 \/ pc'[p] = Returning(p) /\ p # Cleaner
                 \/ pc'[p] = "walk" /\ cur'[p] # Nil /\ p # Cleaner
  <2>1. CASE Match(p, cur[p])
    BY SMT, <1>0, <1>c, <2>1 DEF RemoveWalk, Goto, Only, SpaceTypes, Labels, Removing
  <2>2. CASE ~Match(p, cur[p]) /\ next[cur[p]] = Nil
    BY <1>0, <2>2, Returned DEF RemoveWalk, Match
  <2>3. CASE ~Match(p, cur[p]) /\ next[cur[p]] # Nil
    BY SMT, <1>0, <1>a, <1>c, <2>3 DEF RemoveWalk, Only, SpaceTypes, Match
  <2> QED  BY <2>1, <2>2, <2>3
<1> USE SpaceConstants, <1>a, <1>b DEF list, hist
<1>1. SpaceTypes' /\ CallerPlaces' /\ CleanerPlaces' /\ Artifacts'
  <2>1. cur[p] # Nil
    BY <1>c DEF Entry
  <2> QED  BY <1>0, <2>1, RemoveFrame DEF Removing, SpaceTypes, Match
<1>2. ASSUME ~split' PROVE Unsplit'
  <2>0. Unsplit
    BY <1>2 DEF SpaceInv
  <2>1. /\ Grows
        /\ \A a \in Awaiters : stopped /\ Admitted(a)' => Admitted(a) /\ entry'[a] = entry[a]
        /\ \A q \in Callers : pc[q] \notin Fresh => pc'[q] \notin Fresh
        /\ \A q \in Callers : pc'[q] = "recheck" => pc[q] = "recheck" /\ q # p
        /\ \A e \in Entry : InUse(e) <=> InUse(e)'
    BY RemoveGrows DEF Removing, Returning
  <2>2. CASE pc'[p] # "unlink"
    <3>1. Calm
      BY <2>1, <2>2 DEF Calm, Only
    <3>2. CleanerSame
      BY <2>2 DEF CleanerSame, Only, Procs, clean
    <3> QED  BY <1>2, <2>1, <3>1, <3>2, CalmKeeps DEF data, ends
  <2>3. CASE pc'[p] = "unlink"
    <3>0. /\ Match(p, cur[p]) /\ succ'[p] = next[cur[p]] /\ cur'[p] = cur[p] /\ prev'[p] = prev[p]
          /\ p = Cleaner => cur[p] = head /\ cur[p] = visit /\ prev[p] = Nil
          /\ p # Cleaner => cur[p] = p
      BY <2>0, <2>3 DEF Unsplit, CleanerAtHead, Removing, Returning, Match
    <3>1. Chain'
      <4>1. PICK r \in [Entry -> Nat] : Ranked(r)
        BY <2>0 DEF Unsplit, Chain
      <4>2. Ranked(r)'
        <5>1. head' # Nil => 0 < r[head']
          BY <4>1 DEF Ranked
        <5>2. \A x \in Entry : 0 < r[x] => Below(r, x, next'[x])
          BY <4>1 DEF Ranked
        <5>3. \A q \in Callers : pc'[q] = "unlink" /\ 0 < r[q] => Below(r, q, succ'[q])
          <6>1. \A q \in Callers : q # p => pc'[q] = pc[q] /\ succ'[q] = succ[q]
            BY DEF Only, Procs
          <6>2. p \in Callers /\ 0 < r[p] => Below(r, p, succ'[p])
            BY <3>0, <4>1 DEF Ranked, Entry
          <6> QED  BY <4>1, <6>1, <6>2 DEF Ranked
        <5>4. pc'[Cleaner] = "unlink" => Below(r, head', succ'[Cleaner])
          <6>1. CASE p = Cleaner
            BY <1>c, <3>0, <4>1, <6>1 DEF Ranked, Entry
          <6>2. CASE p # Cleaner
            BY <4>1, <6>2 DEF Ranked, Only, Procs
          <6> QED  BY <6>1, <6>2
        <5>5. \A x \in Entry : 0 < r[x] => pc'[x] \notin Fresh
          BY <2>1, <4>1 DEF Ranked, Entry
        <5>6. \A x \in Entry : 0 < r[x] /\ InUse(x)' => x = head'
          BY <2>1, <4>1 DEF Ranked
        <5>7. pc'[Cleaner] = pc[Cleaner] \/ pc'[Cleaner] = "unlink"
          BY <2>3 DEF Only, Procs
        <5> QED  BY <4>1, <5>1, <5>2, <5>3, <5>4, <5>5, <5>6, <5>7 DEF Ranked, Below, clean
      <4> QED  BY <4>2 DEF Chain
    <3>2. UnseenFound'
      <4> SUFFICES ASSUME NEW q \in Callers, Unseen(q)'
                   PROVE  \E U \in SUBSET Entry : Above(U, q)'
        BY DEF UnseenFound
      <4>1. Unseen(q) /\ q # p
        BY <2>1 DEF Unseen, Entry
      <4>2. PICK U \in SUBSET Entry : Above(U, q)
        BY <2>0, <4>1 DEF Unsplit, UnseenFound
      <4>3. \A o \in Callers : pc'[o] = "unlink" /\ o \in U => succ'[o] \in U \cup {q}
        <5>1. \A o \in Callers : o # p => pc'[o] = pc[o] /\ succ'[o] = succ[o]
          BY DEF Only, Procs
        <5>2. p \in Callers /\ p \in U => succ'[p] \in U \cup {q}
          BY <3>0, <4>2 DEF Above
        <5> QED  BY <4>2, <5>1, <5>2 DEF Above
      <4>4. pc'[Cleaner] = "unlink" => succ'[Cleaner] \in U \cup {q}
        <5>1. CASE p = Cleaner
          <6>1. InUse(head)
            BY <2>0, <5>1 DEF Unsplit, CleanerAtHead, Removing
          <6>2. head \in U
            BY <4>1, <4>2, <6>1 DEF Above, Unseen
          <6> QED  BY <3>0, <4>2, <5>1, <6>2 DEF Above
        <5>2. CASE p # Cleaner
          BY <4>2, <5>2 DEF Above, Only, Procs
        <5> QED  BY <5>1, <5>2
      <4>5. Above(U, q)'
        BY <4>2, <4>3, <4>4 DEF Above
      <4> QED  BY <4>5
    <3>3. CleanerAtHead'
      <4>1. CASE p = Cleaner
        <5>1. visit = head /\ InUse(visit) /\ SettledEntry(visit) /\ expired # {} /\ visit \in Entry
          BY <1>c, <2>0, <3>0, <4>1 DEF Unsplit, CleanerAtHead, Removing
        <5> QED  BY <2>1, <3>0, <4>1, <5>1 DEF CleanerAtHead, Grows, clean
      <4>2. CASE p # Cleaner
        <5>1. CleanerSame
          BY <4>2 DEF CleanerSame, Only, Procs, clean
        <5> QED  BY <1>0, <2>0, <2>1, <5>1, CleanerStays DEF Unsplit, SpaceTypes, CleanerPlaces, Removing
      <4> QED  BY <4>1, <4>2
    <3>4. UsedAtHead'
      BY <2>0, <2>1 DEF Unsplit, UsedAtHead, Grows, Entry
    <3>5. ClosingSettles'
      BY <1>0, <2>0, <2>1, ClosingStays, AdmittedEntry DEF Unsplit, SpaceTypes, ends
    <3>6. RetainedUntilExpiry'
      BY <2>0, <2>1, RetainedStays DEF Unsplit, data
    <3> QED  BY <3>1, <3>2, <3>3, <3>4, <3>5, <3>6 DEF Unsplit
  <2> QED  BY <2>2, <2>3
<1> QED  BY <1>1, <1>2 DEF SpaceInv

\* u keeps the ranks below h and takes the others away.
Cut(r, u, h) ==
  \A x \in Entry : /\ r[x] < r[h] => u[x] = r[x]
                   /\ 0 < u[x] => r[x] < r[h] /\ 0 < r[x]

\* Ranks can be taken away from the head down to an entry.
LEMMA Lowered ==
  ASSUME NEW r \in [Entry -> Nat], NEW h \in Entry
  PROVE  \E u \in [Entry -> Nat] : Cut(r, u, h)
<1> DEFINE w == [x \in Entry |-> IF r[x] < r[h] THEN r[x] ELSE 0]
<1>1. w \in [Entry -> Nat]
  BY SMT
<1>2. ASSUME NEW x \in Entry
      PROVE  /\ r[x] < r[h] => w[x] = r[x]
             /\ 0 < w[x] => r[x] < r[h] /\ 0 < r[x]
  BY SMT
<1>3. Cut(r, w, h)
  BY <1>2 DEF Cut
<1> QED  BY <1>1, <1>3

\* A rank below a rank below.
LEMMA BelowTrans ==
  ASSUME NEW r \in [Entry -> Nat], NEW x \in Entry, NEW y \in Entry, NEW z \in Opt(Entry),
         Below(r, x, y), Below(r, y, z)
  PROVE  Below(r, x, z)
<1>1. y # Nil
  BY SpaceConstants DEF Entry
<1> QED  BY SMT, <1>1 DEF Below, Opt

\* Somebody takes its own entry back from the head of the list.
LEMMA TakeBackHead ==
  ASSUME SpaceInv, ~split, NEW p \in Callers, Only(p), pc[p] = "unlink", pc'[p] = "use",
         ~InUse(p), head = p, head' = succ[p], next' = next,
         UNCHANGED <<data, entry, handle, expired, clean, ends, last, split>>
  PROVE  Unsplit'
<1>0. SpaceTypes /\ CallerPlaces /\ CleanerPlaces /\ Artifacts /\ Unsplit
  BY DEF SpaceInv
<1>1. /\ Grows
      /\ \A a \in Awaiters : stopped /\ Admitted(a)' => Admitted(a) /\ entry'[a] = entry[a]
      /\ \A q \in Callers : pc[q] \notin Fresh => pc'[q] \notin Fresh
      /\ \A q \in Callers : pc'[q] = "recheck" => pc[q] = "recheck" /\ q # p
      /\ \A e \in Entry : InUse(e) <=> InUse(e)'
  BY RemoveGrows DEF Removing, Procs
<1>2. pc'[Cleaner] = pc[Cleaner] /\ pc[Cleaner] \notin Removing
  BY <1>0, SpaceConstants DEF Only, Procs, Unsplit, CleanerAtHead
<1>3. \A q \in Callers : q # p => pc'[q] = pc[q] /\ succ'[q] = succ[q]
  BY DEF Only, Procs
<1>4. Chain'
  <2>1. PICK r \in [Entry -> Nat] : Ranked(r)
    BY <1>0 DEF Unsplit, Chain
  <2>2. 0 < r[p] /\ Below(r, p, succ[p])
    BY <2>1, SpaceConstants DEF Ranked, Entry
  <2>3. Ranked(r)'
    <3>1. head' # Nil => 0 < r[head']
      BY <2>2 DEF Below
    <3>2. \A x \in Entry : 0 < r[x] => Below(r, x, next'[x])
      BY <2>1 DEF Ranked
    <3>3. \A q \in Callers : pc'[q] = "unlink" /\ 0 < r[q] => Below(r, q, succ'[q])
      BY <1>3, <2>1 DEF Ranked
    <3>4. pc'[Cleaner] # "unlink"
      BY <1>2 DEF Removing
    <3>5. \A x \in Entry : 0 < r[x] => pc'[x] \notin Fresh
      BY <1>1, <2>1 DEF Ranked, Entry
    <3>6. \A x \in Entry : 0 < r[x] => ~InUse(x)'
      BY <1>1, <2>1 DEF Ranked
    <3> QED  BY <1>2, <2>1, <3>1, <3>2, <3>3, <3>4, <3>5, <3>6 DEF Ranked, Below, clean
  <2> QED  BY <2>3 DEF Chain
<1>5. UnseenFound'
  <2> SUFFICES ASSUME NEW q \in Callers, Unseen(q)'
               PROVE  \E U \in SUBSET Entry : Above(U, q)'
    BY DEF UnseenFound
  <2>1. Unseen(q) /\ q # p
    BY <1>1 DEF Unseen, Entry
  <2>2. PICK U \in SUBSET Entry : Above(U, q)
    BY <1>0, <2>1 DEF Unsplit, UnseenFound
  <2>3. succ[p] \in U \cup {q}
    BY <2>1, <2>2 DEF Above
  <2>4. Above(U, q)'
    BY <1>2, <1>3, <2>2, <2>3 DEF Above, Removing
  <2> QED  BY <2>4
<1>6. CleanerAtHead'
  BY <1>2 DEF CleanerAtHead, Removing
<1>7. UsedAtHead'
  BY <1>0, <1>1 DEF Unsplit, UsedAtHead, Grows, Entry
<1>8. ClosingSettles'
  BY <1>0, <1>1, ClosingStays, AdmittedEntry DEF Unsplit, SpaceTypes, ends
<1>9. RetainedUntilExpiry'
  BY <1>0, HeadHolds DEF Unsplit, RetainedUntilExpiry
<1> QED  BY <1>4, <1>5, <1>6, <1>7, <1>8, <1>9 DEF Unsplit

\* Or from behind another entry.
LEMMA TakeBackInner ==
  ASSUME SpaceInv, ~split, NEW p \in Callers, Only(p), pc[p] = "unlink", pc'[p] = "use",
         NEW b \in Entry, next[b] = p, next'[b] = succ[p],
         \A x \in Entry : x # b => next'[x] = next[x], head' = head,
         UNCHANGED <<data, entry, handle, expired, clean, ends, last, split>>
  PROVE  Unsplit'
<1>0. SpaceTypes /\ CallerPlaces /\ CleanerPlaces /\ Unsplit
  BY DEF SpaceInv
<1>1. /\ Grows
      /\ \A a \in Awaiters : stopped /\ Admitted(a)' => Admitted(a) /\ entry'[a] = entry[a]
      /\ \A q \in Callers : pc[q] \notin Fresh => pc'[q] \notin Fresh
      /\ \A q \in Callers : pc'[q] = "recheck" => pc[q] = "recheck" /\ q # p
      /\ \A e \in Entry : InUse(e) <=> InUse(e)'
  BY RemoveGrows DEF Removing, Procs
<1>2. CleanerSame /\ succ'[Cleaner] = succ[Cleaner]
  BY SpaceConstants DEF CleanerSame, Only, Procs, clean
<1>3. \A q \in Callers : q # p => pc'[q] = pc[q] /\ succ'[q] = succ[q]
  BY DEF Only, Procs
<1>4. p \in Entry /\ p # Nil /\ succ[p] \in Opt(Entry)
  BY <1>0, SpaceConstants DEF Entry, SpaceTypes, Procs
<1>5. Chain'
  <2>1. PICK r \in [Entry -> Nat] : Ranked(r)
    BY <1>0 DEF Unsplit, Chain
  <2>2. 0 < r[p] => Below(r, p, succ[p])
    BY <2>1 DEF Ranked
  <2>3. Ranked(r)'
    <3>1. head' # Nil => 0 < r[head']
      BY <2>1 DEF Ranked
    <3>2. \A x \in Entry : 0 < r[x] => Below(r, x, next'[x])
      <4>1. 0 < r[b] => Below(r, b, p)
        BY <2>1 DEF Ranked
      <4>2. 0 < r[b] => Below(r, b, succ[p])
        BY <1>4, <2>2, <4>1, BelowTrans DEF Below
      <4> QED  BY <2>1, <4>2 DEF Ranked
    <3>3. \A q \in Callers : pc'[q] = "unlink" /\ 0 < r[q] => Below(r, q, succ'[q])
      BY <1>3, <2>1 DEF Ranked
    <3>4. pc'[Cleaner] = "unlink" => Below(r, head', succ'[Cleaner])
      BY <1>2, <2>1 DEF Ranked, CleanerSame
    <3>5. \A x \in Entry : 0 < r[x] => pc'[x] \notin Fresh
      BY <1>1, <2>1 DEF Ranked, Entry
    <3>6. \A x \in Entry : 0 < r[x] /\ InUse(x)' => x = head'
      BY <1>1, <2>1 DEF Ranked
    <3>7. pc'[Cleaner] \in {"visit", "expire"} => 0 < r[visit']
      BY <1>2, <2>1 DEF Ranked, CleanerSame
    <3>8. pc'[Cleaner] = "advance" /\ next'[visit'] # Nil => 0 < r[next'[visit']]
      <4> SUFFICES ASSUME pc[Cleaner] = "advance", next'[visit] # Nil PROVE 0 < r[next'[visit]]
        BY <1>2 DEF CleanerSame
      <4>1. visit \in Entry
        BY <1>0 DEF CleanerPlaces, SpaceTypes, Opt
      <4>2. CASE visit = b
        <5>1. 0 < r[p]
          BY <1>4, <2>1, <4>2 DEF Ranked
        <5> QED  BY <2>2, <4>2, <5>1 DEF Below
      <4>3. CASE visit # b
        BY <2>1, <4>1, <4>3 DEF Ranked
      <4> QED  BY <4>2, <4>3
    <3> QED  BY <3>1, <3>2, <3>3, <3>4, <3>5, <3>6, <3>7, <3>8 DEF Ranked, Below
  <2> QED  BY <2>3 DEF Chain
<1>6. UnseenFound'
  <2> SUFFICES ASSUME NEW q \in Callers, Unseen(q)'
               PROVE  \E U \in SUBSET Entry : Above(U, q)'
    BY DEF UnseenFound
  <2>1. Unseen(q) /\ q # p
    BY <1>1 DEF Unseen, Entry
  <2>2. PICK U \in SUBSET Entry : Above(U, q)
    BY <1>0, <2>1 DEF Unsplit, UnseenFound
  <2>3. b \in U => succ[p] \in U \cup {q}
    BY <2>1, <2>2 DEF Above
  <2>4. \A x \in U : next'[x] \in U \cup {q}
    BY <2>2, <2>3 DEF Above
  <2>5. Above(U, q)'
    BY <1>2, <1>3, <2>2, <2>4 DEF Above, CleanerSame
  <2> QED  BY <2>5
<1>7. CleanerAtHead'
  BY <1>0, <1>1, <1>2, CleanerStays DEF Unsplit, SpaceTypes, CleanerPlaces, Removing
<1>8. UsedAtHead'
  BY <1>0, <1>1 DEF Unsplit, UsedAtHead, Grows, Entry
<1>9. ClosingSettles'
  BY <1>0, <1>1, ClosingStays, AdmittedEntry DEF Unsplit, SpaceTypes, ends
<1>10. RetainedUntilExpiry'
  BY <1>0, <1>1, RetainedStays DEF Unsplit, data
<1> QED  BY <1>5, <1>6, <1>7, <1>8, <1>9, <1>10 DEF Unsplit

\* The maintenance loop unlinks the head, whose artifact it has cleared.
LEMMA ExpireHead ==
  ASSUME SpaceInv, ~split, Only(Cleaner), pc[Cleaner] = "unlink", pc'[Cleaner] = "advance",
         head' = succ[Cleaner], next' = next,
         UNCHANGED <<data, entry, handle, expired, clean, ends, last, split>>
  PROVE  Unsplit'
<1>0. SpaceTypes /\ CallerPlaces /\ CleanerPlaces /\ Unsplit
  BY DEF SpaceInv
<1>1. /\ Grows
      /\ \A a \in Awaiters : stopped /\ Admitted(a)' => Admitted(a) /\ entry'[a] = entry[a]
      /\ \A q \in Callers : pc[q] \notin Fresh => pc'[q] \notin Fresh
      /\ \A q \in Callers : pc'[q] = "recheck" => pc[q] = "recheck" /\ q # Cleaner
      /\ \A e \in Entry : InUse(e) <=> InUse(e)'
  BY RemoveGrows DEF Removing, Procs
<1>2. head = visit /\ head \in Entry /\ InUse(head) /\ SettledEntry(head) /\ expired # {}
  BY <1>0 DEF Unsplit, CleanerAtHead, Removing, CleanerPlaces, SpaceTypes, Opt
<1>3. \A q \in Callers : pc'[q] = pc[q] /\ succ'[q] = succ[q]
  BY SpaceConstants DEF Only, Procs
<1>4. Chain'
  <2>1. PICK r \in [Entry -> Nat] : Ranked(r)
    BY <1>0 DEF Unsplit, Chain
  <2>2. PICK u \in [Entry -> Nat] :
          \A x \in Entry : /\ r[x] < r[head] => u[x] = r[x]
                           /\ 0 < u[x] => r[x] < r[head] /\ 0 < r[x]
    <3>1. \E u \in [Entry -> Nat] : Cut(r, u, head)
      BY <1>2, <2>1, Lowered
    <3> QED  BY <3>1 DEF Cut
  <2>3. \A x \in Entry, y \in Opt(Entry) : 0 < u[x] /\ Below(r, x, y) => Below(u, x, y)
    <3> SUFFICES ASSUME NEW x \in Entry, NEW y \in Entry, 0 < u[x], Below(r, x, y)
                 PROVE  Below(u, x, y)
      BY DEF Opt, Below
    <3>1. y # Nil /\ r[x] \in Nat /\ r[y] \in Nat /\ r[head] \in Nat
      BY <1>2, SpaceConstants DEF Entry
    <3>2. u[x] = r[x] /\ r[x] < r[head] /\ 0 < r[y] /\ r[y] < r[x]
      BY <2>2, <3>1 DEF Below
    <3>3. r[y] < r[head]
      BY <3>1, <3>2, RankOrder
    <3> QED  BY <2>2, <3>2, <3>3 DEF Below
  <2>4. \A y \in Entry : Below(r, head, y) => 0 < u[y]
    BY <2>2, SpaceConstants DEF Below, Entry
  <2>5. succ[Cleaner] \in Opt(Entry) /\ next[head] \in Opt(Entry)
    BY <1>0, <1>2 DEF SpaceTypes, Procs
  <2>6. Ranked(u)'
    <3>1. head' # Nil => 0 < u[head']
      BY <2>1, <2>4, <2>5 DEF Ranked, Opt
    <3>2. \A x \in Entry : 0 < u[x] => Below(u, x, next'[x])
      BY <1>0, <2>1, <2>2, <2>3 DEF Ranked, SpaceTypes
    <3>3. \A q \in Callers : pc'[q] = "unlink" /\ 0 < u[q] => Below(u, q, succ'[q])
      BY <1>0, <1>3, <2>1, <2>2, <2>3 DEF Ranked, SpaceTypes, Entry, Procs
    <3>4. \A x \in Entry : 0 < u[x] => pc'[x] \notin Fresh
      BY <1>1, <2>1, <2>2 DEF Ranked, Entry
    <3>5. \A x \in Entry : 0 < u[x] => ~InUse(x)'
      <4>1. ~(r[head] < r[head])
        BY <1>2, RankOrder
      <4> QED  BY <1>1, <2>1, <2>2, <4>1 DEF Ranked
    <3>6. next'[visit'] # Nil => 0 < u[next'[visit']]
      BY <1>2, <2>1, <2>4, <2>5, SpaceConstants DEF Ranked, Opt, clean, Entry
    <3> QED  BY <3>1, <3>2, <3>3, <3>4, <3>5, <3>6 DEF Ranked, Below
  <2> QED  BY <2>6 DEF Chain
<1>5. UnseenFound'
  <2> SUFFICES ASSUME NEW q \in Callers, Unseen(q)'
               PROVE  \E U \in SUBSET Entry : Above(U, q)'
    BY DEF UnseenFound
  <2>1. Unseen(q) /\ q # head
    BY <1>1, <1>2 DEF Unseen, Entry
  <2>2. PICK U \in SUBSET Entry : Above(U, q)
    BY <1>0, <2>1 DEF Unsplit, UnseenFound
  <2>3. Above(U, q)'
    BY <1>3, <2>2 DEF Above
  <2> QED  BY <2>3
<1>6. CleanerAtHead'
  BY DEF CleanerAtHead, Removing
<1>7. UsedAtHead'
  BY <1>0, <1>1, <1>2 DEF Unsplit, UsedAtHead, Grows, Entry
<1>8. ClosingSettles'
  BY <1>0, <1>1, ClosingStays, AdmittedEntry DEF Unsplit, SpaceTypes, ends
<1>9. RetainedUntilExpiry'
  BY <1>2 DEF RetainedUntilExpiry
<1> QED  BY <1>4, <1>5, <1>6, <1>7, <1>8, <1>9 DEF Unsplit

\* Remove unlinks the entry it has found, or finds the list changed and starts over.
LEMMA RemoveUnlinkKeeps ==
  ASSUME SpaceInv, NEW p \in Procs, RemoveUnlink(p)
  PROVE  SpaceInv'
<1>0. SpaceTypes /\ CallerPlaces /\ CleanerPlaces
  BY DEF SpaceInv
<1>a. pc[p] = "unlink" /\ UNCHANGED <<data, entry, handle, expired, clean, ends, last>>
  BY DEF RemoveUnlink
<1>c. /\ cur[p] \in Entry /\ succ[p] \in Opt(Entry) /\ prev[p] \in Opt(Entry)
      /\ p # Cleaner => cur[p] = p /\ p \in Callers
  <2>1. p # Cleaner => cur[p] = p /\ p \in Callers
    BY <1>0, <1>a DEF CallerPlaces, Procs
  <2>2. cur[p] # Nil
    BY <1>0, <1>a, <2>1, SpaceConstants DEF CleanerPlaces
  <2> QED  BY <1>0, <2>1, <2>2 DEF SpaceTypes, Opt
<1>b. \/ /\ Only(p) /\ pc'[p] = "remove" /\ UNCHANGED <<list, walk, split>>
         /\ ~(prev[p] = Nil /\ head = cur[p])
      \/ /\ Only(p) /\ pc'[p] = Returning(p) /\ prev[p] = Nil /\ head = cur[p]
         /\ head' = succ[p] /\ next' = next /\ split' = (split \/ (p # Cleaner /\ InUse(cur[p])))
      \/ /\ Only(p) /\ pc'[p] = Returning(p) /\ prev[p] # Nil /\ next[prev[p]] = cur[p]
         /\ next' = [next EXCEPT ![prev[p]] = succ[p]]
         /\ head' = head /\ split' = (split \/ (p # Cleaner /\ InUse(cur[p])))
  <2> DEFINE unlinked == IF prev[p] = Nil THEN head = cur[p] ELSE next[prev[p]] = cur[p]
  <2>1. CASE ~unlinked
    <3>1. Goto(p, "remove") /\ UNCHANGED <<list, walk, split>>
      BY <2>1 DEF RemoveUnlink
    <3>2. Only(p) /\ pc'[p] = "remove"
      BY SMT, <1>0, <3>1 DEF Goto, Only, SpaceTypes, Labels, Removing, walk
    <3> QED  BY <2>1, <3>1, <3>2
  <2>2. CASE unlinked
    <3>1. /\ \/ prev[p] = Nil /\ head' = succ[p] /\ UNCHANGED next
             \/ /\ prev[p] # Nil
                /\ next' = [next EXCEPT ![prev[p]] = succ[p]]
                /\ UNCHANGED head
          /\ split' = (split \/ (p # Cleaner /\ InUse(cur[p])))
          /\ RemoveReturns(p)
      BY <2>2 DEF RemoveUnlink
    <3>2. Only(p) /\ pc'[p] = Returning(p)
      BY <1>0, <3>1, Returned
    <3> QED  BY <2>2, <3>1, <3>2
  <2> QED  BY <2>1, <2>2
<1>1. SpaceTypes' /\ CallerPlaces' /\ CleanerPlaces' /\ Artifacts'
  <2>1. Only(p) /\ (pc'[p] = "remove" \/ pc'[p] = Returning(p))
    BY <1>b
  <2>2. head' \in Opt(Entry) /\ split' \in BOOLEAN
    BY <1>0, <1>b, <1>c DEF SpaceTypes, list
  <2>3. next' \in [Entry -> Opt(Entry)]
    BY SMT, <1>0, <1>b, <1>c DEF SpaceTypes, list
  <2> QED  BY <1>a, <2>1, <2>2, <2>3, RemoveFrame DEF Removing
<1>2. ASSUME ~split' PROVE Unsplit'
  <2>0. ~split /\ Unsplit /\ split' = split
    <3>1. split' = split \/ split' = (split \/ (p # Cleaner /\ InUse(cur[p])))
      BY <1>b DEF list, walk
    <3>2. ~split /\ ~split'
      <4>1. ASSUME split' = (split \/ (p # Cleaner /\ InUse(cur[p]))) PROVE ~split
        BY <1>2, <4>1
      <4> QED  BY <1>2, <3>1, <4>1
    <3> QED  BY <1>0, <1>1, <3>2 DEF SpaceInv, SpaceTypes
  <2>1. CASE p = Cleaner
    <3>1. prev[p] = Nil /\ head = cur[p]
      BY <1>a, <2>0, <2>1 DEF Unsplit, CleanerAtHead, Removing
    <3>2. Only(p) /\ pc'[p] = "advance" /\ head' = succ[p] /\ next' = next
      BY <1>b, <2>1, <3>1 DEF Returning
    <3> QED  BY <1>a, <2>0, <2>1, <3>2, ExpireHead
  <2>2. CASE p # Cleaner /\ pc'[p] = "remove"
    <3>1. Only(p) /\ UNCHANGED <<list, walk, split>>
      BY <1>b, <2>2 DEF Returning
    <3>2. /\ Grows
          /\ \A a \in Awaiters : stopped /\ Admitted(a)' => Admitted(a) /\ entry'[a] = entry[a]
          /\ \A q \in Callers : pc[q] \notin Fresh => pc'[q] \notin Fresh
          /\ \A q \in Callers : pc'[q] = "recheck" => pc[q] = "recheck" /\ q # p
      BY <1>a, <2>2, <3>1, RemoveGrows DEF Removing
    <3>3. Calm
      BY <2>2, <3>1, <3>2 DEF Calm, Only, list
    <3>4. CleanerSame
      BY <1>a, <2>2, <3>1 DEF CleanerSame, Only, Procs, clean
    <3> QED  BY <1>2, <1>a, <3>2, <3>3, <3>4, CalmKeeps DEF data, ends
  <2>3. CASE p # Cleaner /\ pc'[p] # "remove" /\ prev[p] = Nil
    <3>1. /\ Only(p) /\ pc'[p] = "use" /\ head = p /\ head' = succ[p] /\ next' = next
          /\ p \in Callers /\ ~InUse(p)
      BY <1>2, <1>b, <1>c, <2>3 DEF Returning
    <3> QED  BY <1>a, <2>0, <3>1, TakeBackHead
  <2>4. CASE p # Cleaner /\ pc'[p] # "remove" /\ prev[p] # Nil
    <3>1. /\ Only(p) /\ pc'[p] = "use" /\ head' = head /\ next[prev[p]] = p
          /\ next' = [next EXCEPT ![prev[p]] = succ[p]] /\ p \in Callers
      BY <1>b, <1>c, <2>4 DEF Returning
    <3>2. prev[p] \in Entry
      BY <1>c, <2>4 DEF Opt
    <3>3. next'[prev[p]] = succ[p] /\ \A x \in Entry : x # prev[p] => next'[x] = next[x]
      BY SMT, <1>0, <3>1, <3>2 DEF SpaceTypes
    <3> QED  BY <1>a, <2>0, <3>1, <3>2, <3>3, TakeBackInner
  <2> QED  BY <2>1, <2>2, <2>3, <2>4
<1> QED  BY <1>1, <1>2 DEF SpaceInv

-----------------------------------------------------------------------------
(* loop and cleanup *)

\* A step of the maintenance loop leaves the callers alone.
LEMMA CleanerGrows ==
  ASSUME SpaceTypes, pc' \in [Procs -> Labels \cup Rounds],
         \A q \in Callers : pc'[q] = pc[q], UNCHANGED <<slot, entry, handle, expired, split>>
  PROVE  /\ Grows
         /\ \A a \in Awaiters : stopped /\ Admitted(a)' => Admitted(a) /\ entry'[a] = entry[a]
         /\ \A e \in Entry : InUse(e) <=> InUse(e)'
<1>1. \A e \in Entry : InUse(e) <=> InUse(e)'
  BY DEF InUse
<1>2. \A e \in Entry : SettledEntry(e) => SettledEntry(e)'
  BY DEF SettledEntry, Callers
<1>3. \A a \in Awaiters : stopped /\ Admitted(a)' => Admitted(a) /\ entry'[a] = entry[a]
  BY DEF Admitted, Callers
<1> QED  BY <1>1, <1>2, <1>3 DEF Grows

\* Nor their places.
LEMMA CleanerFrame ==
  ASSUME SpaceTypes, CallerPlaces, Artifacts,
         \A q \in Callers : pc'[q] = pc[q] /\ cur'[q] = cur[q],
         UNCHANGED <<stored, slot, entry, handle, expired, last>>
  PROVE  CallerPlaces' /\ Artifacts'
<1>1. CallerPlaces'
  BY DEF CallerPlaces, Callers
<1>2. Artifacts'
  <2>1. \A s \in Storers : HasPut(s) <=> HasPut(s)'
    BY DEF HasPut, Callers
  <2>2. \A s \in Storers : pc'[s] = "done" => pc[s] = "done"
    BY DEF Callers
  <2>3. \A e \in Entry : stored[e] # Nil => stored[e] \in Storers
    BY DEF SpaceTypes, Opt
  <2>4. expired \subseteq Storers /\ (last # Nil => last \in Storers)
    BY DEF SpaceTypes, Opt
  <2> QED  BY <2>1, <2>2, <2>3, <2>4 DEF Artifacts
<1> QED  BY <1>1, <1>2

\* The maintenance loop moves alone.
LEMMA GotoCleaner ==
  ASSUME SpaceTypes, NEW l \in Labels \cup Rounds, Goto(Cleaner, l)
  PROVE  /\ pc' \in [Procs -> Labels \cup Rounds] /\ pc'[Cleaner] = l
         /\ \A q \in Callers : pc'[q] = pc[q]
  BY SMT, SpaceConstants DEF SpaceTypes, Goto, Procs

\* cleanup looks at an entry: its artifact is due, or the walk goes on.
LEMMA VisitKeeps ==
  ASSUME SpaceInv, Visit
  PROVE  SpaceInv'
<1>0. SpaceTypes /\ CallerPlaces /\ CleanerPlaces /\ Artifacts
  BY DEF SpaceInv
<1>a. /\ pc[Cleaner] = "visit" /\ seen' = stored[visit]
      /\ UNCHANGED <<list, data, entry, handle, walk, expired, due, visit, ends, hist>>
  BY DEF Visit
<1>b. /\ pc' \in [Procs -> Labels \cup Rounds] /\ \A q \in Callers : pc'[q] = pc[q]
      /\ \/ pc'[Cleaner] = "expire" /\ stored[visit] \in due
         \/ pc'[Cleaner] = "advance"
  <2>1. CASE stored[visit] \in due
    BY <1>0, <2>1, GotoCleaner DEF Visit, Rounds
  <2>2. CASE stored[visit] \notin due
    BY <1>0, <2>2, GotoCleaner DEF Visit, Rounds
  <2> QED  BY <2>1, <2>2
<1>c. visit \in Entry
  BY <1>0, <1>a DEF CleanerPlaces, SpaceTypes, Opt
<1> USE <1>a, <1>b DEF list, data, walk, hist, ends
<1>1. SpaceTypes'
  BY <1>0 DEF SpaceTypes
<1>2. CallerPlaces' /\ Artifacts'
  BY <1>0, CleanerFrame
<1>3. CleanerPlaces'
  BY <1>0 DEF CleanerPlaces, Rounds
<1>4. ASSUME ~split' PROVE Unsplit'
  <2>1. Grows /\ \A a \in Awaiters : stopped /\ Admitted(a)' => Admitted(a) /\ entry'[a] = entry[a]
    BY <1>0, CleanerGrows
  <2>2. Calm
    BY DEF Calm, Procs
  <2>3. CleanerAtHead'
    BY DEF CleanerAtHead, Removing
  <2> QED  BY <1>4, <1>c, <2>1, <2>2, <2>3, CalmCleaner
<1> QED  BY <1>1, <1>2, <1>3, <1>4 DEF SpaceInv

\* cleanup clears the artifact it found due, unless a Store has replaced it
\* meanwhile.
LEMMA ClearStoredKeeps ==
  ASSUME SpaceInv, ClearStored
  PROVE  SpaceInv'
<1>0. SpaceTypes /\ CallerPlaces /\ CleanerPlaces /\ Artifacts
  BY DEF SpaceInv
<1>a. /\ pc[Cleaner] = "expire"
      /\ UNCHANGED <<list, slot, entry, handle, walk, expired, clean, ends, hist>>
  BY DEF ClearStored
<1>c. visit \in Entry /\ seen \in due
  BY <1>0, <1>a DEF CleanerPlaces, SpaceTypes, Opt
<1>b. /\ pc' \in [Procs -> Labels \cup Rounds] /\ \A q \in Callers : pc'[q] = pc[q]
      /\ stored' \in [Entry -> Opt(Storers)]
      /\ \A e \in Entry : stored'[e] = stored[e] \/ stored'[e] = Nil
      /\ \/ pc'[Cleaner] = "remove" /\ stored[visit] = seen
         \/ pc'[Cleaner] = "advance" /\ stored' = stored
  <2>1. CASE stored[visit] = seen
    <3>1. stored' = [stored EXCEPT ![visit] = Nil] /\ Goto(Cleaner, "remove")
      BY <2>1 DEF ClearStored
    <3>2. stored' \in [Entry -> Opt(Storers)] /\ \A e \in Entry : stored'[e] = stored[e] \/ stored'[e] = Nil
      BY SMT, <1>0, <1>c, <3>1 DEF SpaceTypes, Opt
    <3>3. "remove" \in Labels \cup Rounds
      BY DEF Labels, Removing
    <3> QED  BY <1>0, <2>1, <3>1, <3>2, <3>3, GotoCleaner
  <2>2. CASE stored[visit] # seen
    <3>1. stored' = stored /\ Goto(Cleaner, "advance") /\ "advance" \in Labels \cup Rounds
      BY <2>2 DEF ClearStored, Rounds
    <3> QED  BY <1>0, <3>1, GotoCleaner DEF SpaceTypes
  <2> QED  BY <2>1, <2>2
<1> USE <1>a, <1>b DEF list, walk, hist, clean, ends
<1>1. SpaceTypes'
  BY <1>0 DEF SpaceTypes
<1>2. CallerPlaces'
  BY <1>0 DEF CallerPlaces, Callers
<1>3. CleanerPlaces'
  BY <1>0 DEF CleanerPlaces, Rounds, Removing
<1>4. Artifacts'
  <2>1. \A s \in Storers : HasPut(s) <=> HasPut(s)'
    BY DEF HasPut, Callers
  <2>2. \A s \in Storers : pc'[s] = "done" => pc[s] = "done"
    BY DEF Callers
  <2>3. \A e \in Entry : stored[e] # Nil => stored[e] \in Storers
    BY <1>0 DEF SpaceTypes, Opt
  <2>4. expired \subseteq Storers /\ (last # Nil => last \in Storers)
    BY <1>0 DEF SpaceTypes, Opt
  <2> QED  BY <1>0, <2>1, <2>2, <2>3, <2>4 DEF Artifacts
<1>5. ASSUME ~split' PROVE Unsplit'
  <2>0. Unsplit
    BY <1>5 DEF SpaceInv
  <2>1. Grows /\ \A a \in Awaiters : stopped /\ Admitted(a)' => Admitted(a) /\ entry'[a] = entry[a]
    BY <1>0, CleanerGrows
  <2>2. Calm
    BY DEF Calm, Procs
  <2>3. CASE pc'[Cleaner] = "advance" /\ stored' = stored
    <3>1. CleanerAtHead'
      BY <2>3 DEF CleanerAtHead, Removing
    <3> QED  BY <1>5, <1>c, <2>1, <2>2, <2>3, <3>1, CalmCleaner
  <2>4. CASE pc'[Cleaner] = "remove" /\ stored[visit] = seen
    <3>1. seen \in Storers /\ seen # Nil /\ HasPut(seen) /\ entry[seen] = visit /\ expired # {}
      BY <1>0, <1>c, <2>4, SpaceConstants DEF SpaceTypes, Artifacts, Callers
    <3>2. InUse(visit)
      BY <3>1 DEF InUse, Callers
    <3>3. visit = head
      BY <1>c, <2>0, <3>2 DEF Unsplit, Chain, Ranked
    <3>4. SettledEntry(visit)
      BY <1>0, <3>1 DEF SettledEntry, Artifacts, HasPut
    <3>5. CleanerAtHead'
      BY <1>c, <2>1, <2>4, <3>1, <3>2, <3>3, <3>4 DEF CleanerAtHead, Grows
    <3>6. Chain'
      BY <1>c, <2>0, <2>1, <2>2, <2>4, CalmChain DEF Unsplit
    <3>7. UnseenFound'
      BY <2>0, <2>1, <2>2, CalmUnseen DEF Unsplit
    <3>8. UsedAtHead'
      BY <2>0, <2>1, <2>2, UsedStays DEF Unsplit
    <3>9. ClosingSettles'
      BY <1>0, <2>0, <2>1, ClosingStays, AdmittedEntry DEF Unsplit, SpaceTypes
    <3>10. RetainedUntilExpiry'
      BY <3>1 DEF RetainedUntilExpiry
    <3> QED  BY <3>5, <3>6, <3>7, <3>8, <3>9, <3>10 DEF Unsplit
  <2> QED  BY <2>3, <2>4
<1> QED  BY <1>1, <1>2, <1>3, <1>4, <1>5 DEF SpaceInv

\* The walk of the maintenance loop begins, goes on or ends.
LEMMA WalkMoves ==
  ASSUME SpaceInv, UNCHANGED <<list, data, entry, handle, walk, expired, hist>>,
         stopped' = stopped, close' = close, closing' = closing,
         pc' \in [Procs -> Labels \cup Rounds], \A q \in Callers : pc'[q] = pc[q],
         due' \subseteq expired, visit' \in Opt(Entry),
         \/ pc'[Cleaner] \in {"sleep", "done"}
         \/ pc'[Cleaner] = "visit" /\ visit' # Nil /\ visit' = head
         \/ pc'[Cleaner] = "visit" /\ visit' # Nil /\ pc[Cleaner] = "advance" /\ visit' = next[visit]
  PROVE  SpaceInv'
<1>0. SpaceTypes /\ CallerPlaces /\ CleanerPlaces /\ Artifacts
  BY DEF SpaceInv
<1> USE DEF list, data, walk, hist
<1>1. SpaceTypes'
  BY <1>0 DEF SpaceTypes
<1>2. CallerPlaces' /\ Artifacts'
  BY <1>0, CleanerFrame
<1>3. CleanerPlaces'
  BY DEF CleanerPlaces, Rounds
<1>4. ASSUME ~split' PROVE Unsplit'
  <2>0. Unsplit
    BY <1>4 DEF SpaceInv
  <2>1. /\ Grows
        /\ \A a \in Awaiters : stopped /\ Admitted(a)' => Admitted(a) /\ entry'[a] = entry[a]
        /\ \A e \in Entry : InUse(e) <=> InUse(e)'
    BY <1>0, CleanerGrows
  <2>2. Calm
    BY DEF Calm, Procs
  <2>3. Chain'
    <3>1. PICK r \in [Entry -> Nat] : Ranked(r)
      BY <2>0 DEF Unsplit, Chain
    <3>2. pc'[Cleaner] \in {"visit", "expire"} => 0 < r[visit']
      BY <3>1 DEF Ranked
    <3>3. \A q \in Callers : pc'[q] = "unlink" /\ 0 < r[q] => Below(r, q, succ'[q])
      BY <3>1 DEF Ranked
    <3>4. \A x \in Entry : 0 < r[x] => pc'[x] \notin Fresh
      BY <3>1 DEF Ranked, Entry
    <3>5. \A x \in Entry : 0 < r[x] /\ InUse(x)' => x = head'
      BY <2>1, <3>1 DEF Ranked
    <3>6. Ranked(r)'
      BY <3>1, <3>2, <3>3, <3>4, <3>5 DEF Ranked, Below
    <3> QED  BY <3>6 DEF Chain
  <2>4. UnseenFound'
    BY <2>0, <2>1, <2>2, CalmUnseen DEF Unsplit
  <2>5. CleanerAtHead'
    BY DEF CleanerAtHead, Removing
  <2>6. UsedAtHead'
    BY <2>0, <2>1, <2>2, UsedStays DEF Unsplit
  <2>7. ClosingSettles'
    BY <1>0, <2>0, <2>1, ClosingStays, AdmittedEntry DEF Unsplit, SpaceTypes
  <2>8. RetainedUntilExpiry'
    BY <2>0, <2>1, RetainedStays DEF Unsplit
  <2> QED  BY <2>3, <2>4, <2>5, <2>6, <2>7, <2>8 DEF Unsplit
<1> QED  BY <1>1, <1>2, <1>3, <1>4 DEF SpaceInv

\* The interval is over: a new cleanup begins, or the loop ends if the space has
\* stopped.
LEMMA WakeKeeps ==
  ASSUME SpaceInv, Wake
  PROVE  SpaceInv'
<1>0. SpaceTypes
  BY DEF SpaceInv
<1>1. /\ UNCHANGED <<list, data, entry, handle, walk, expired, hist>>
      /\ stopped' = stopped /\ close' = close /\ closing' = closing
  BY DEF Wake
<1>2. CASE stopped
  <2>1. Goto(Cleaner, "done") /\ due' = due /\ visit' = visit
    BY <1>2 DEF Wake
  <2>2. pc' \in [Procs -> Labels \cup Rounds] /\ pc'[Cleaner] = "done" /\ \A q \in Callers : pc'[q] = pc[q]
    BY <1>0, <2>1, GotoCleaner DEF Rounds
  <2> QED  BY <1>0, <1>1, <2>1, <2>2, WalkMoves DEF SpaceTypes
<1>3. CASE ~stopped
  <2>1. Goto(Cleaner, IF head = Nil THEN "sleep" ELSE "visit") /\ due' = expired /\ visit' = head
    BY <1>3 DEF Wake
  <2>2. /\ pc' \in [Procs -> Labels \cup Rounds] /\ \A q \in Callers : pc'[q] = pc[q]
        /\ pc'[Cleaner] = IF head = Nil THEN "sleep" ELSE "visit"
    BY <1>0, <2>1, GotoCleaner DEF Rounds
  <2> QED  BY <1>0, <1>1, <2>1, <2>2, WalkMoves DEF SpaceTypes
<1> QED  BY <1>2, <1>3

\* cleanup goes on to the next entry.
LEMMA AdvanceKeeps ==
  ASSUME SpaceInv, Advance
  PROVE  SpaceInv'
<1>0. SpaceTypes /\ CleanerPlaces
  BY DEF SpaceInv
<1>1. /\ UNCHANGED <<list, data, entry, handle, walk, expired, hist>>
      /\ stopped' = stopped /\ close' = close /\ closing' = closing
  BY DEF Advance, ends
<1>2. /\ Goto(Cleaner, IF next[visit] = Nil THEN "sleep" ELSE "visit")
      /\ due' = due /\ visit' = next[visit] /\ pc[Cleaner] = "advance"
  BY DEF Advance
<1>3. /\ pc' \in [Procs -> Labels \cup Rounds] /\ \A q \in Callers : pc'[q] = pc[q]
      /\ pc'[Cleaner] = IF next[visit] = Nil THEN "sleep" ELSE "visit"
  BY <1>0, <1>2, GotoCleaner DEF Rounds
<1>4. due' \subseteq expired /\ visit' \in Opt(Entry)
  BY <1>0, <1>2 DEF SpaceTypes, CleanerPlaces, Opt
<1> QED  BY <1>1, <1>2, <1>3, <1>4, WalkMoves

-----------------------------------------------------------------------------
(* Close *)

\* A step of Close leaves everything but the slots alone.
LEMMA CloseKeeps ==
  ASSUME SpaceInv, UNCHANGED <<list, stored, pc, entry, handle, walk, expired, clean, hist>>,
         slot' \in [Entry -> {"pending", "ready", "closed"}],
         \A e \in Entry : slot[e] # "pending" => slot'[e] # "pending",
         stopped' \in BOOLEAN, close' \in {"wait", "walk", "returned"}, stopped',
         closing' \in Opt(Entry), close' = "walk" => closing' # Nil, ~split => ClosingSettles'
  PROVE  SpaceInv'
<1>0. SpaceTypes /\ CallerPlaces /\ CleanerPlaces /\ Artifacts
  BY DEF SpaceInv
<1> USE DEF list, walk, clean, hist
<1>1. SpaceTypes'
  BY <1>0 DEF SpaceTypes
<1>2. CallerPlaces' /\ CleanerPlaces'
  BY <1>0 DEF CallerPlaces, CleanerPlaces
<1>3. Artifacts'
  <2>1. \A s \in Storers : HasPut(s) <=> HasPut(s)'
    BY DEF HasPut
  <2>2. \A e \in Entry : stored[e] # Nil => stored[e] \in Storers
    BY <1>0 DEF SpaceTypes, Opt
  <2>3. expired \subseteq Storers /\ (last # Nil => last \in Storers)
    BY <1>0 DEF SpaceTypes, Opt
  <2>4. \A s \in Storers : HasPut(s) => entry[s] \in Entry
    <3>1. \A s \in Storers : entry[s] \in Opt(Entry)
      BY <1>0 DEF SpaceTypes, Callers
    <3>2. \A s \in Storers : HasPut(s) => entry[s] # Nil
      BY <1>0 DEF Artifacts
    <3> QED  BY <3>1, <3>2 DEF Opt
  <2>5. \A s \in Storers : pc[s] = "done" => slot'[entry[s]] # "pending"
    BY <1>0, <2>4 DEF Artifacts, HasPut
  <2> QED  BY <1>0, <2>1, <2>2, <2>3, <2>5 DEF Artifacts
<1>4. ASSUME ~split' PROVE Unsplit'
  <2>0. Unsplit
    BY <1>4 DEF SpaceInv
  <2>1. Grows
    BY DEF Grows, SettledEntry, InUse
  <2>2. Calm
    BY DEF Calm
  <2>3. CleanerSame
    BY DEF CleanerSame
  <2>4. Chain'
    BY <1>0, <2>0, <2>1, <2>2, <2>3, CalmChain DEF Unsplit, CleanerSame, CleanerPlaces, SpaceTypes, Opt
  <2>5. UnseenFound'
    BY <2>0, <2>1, <2>2, CalmUnseen DEF Unsplit
  <2>6. CleanerAtHead'
    BY <1>0, <2>0, <2>1, <2>3, CleanerStays DEF Unsplit, SpaceTypes, CleanerPlaces, Removing
  <2>7. UsedAtHead'
    BY <2>0, <2>1, <2>2, UsedStays DEF Unsplit
  <2>8. RetainedUntilExpiry'
    BY <2>0, <2>1, RetainedStays DEF Unsplit
  <2> QED  BY <1>4, <2>4, <2>5, <2>6, <2>7, <2>8 DEF Unsplit
<1> QED  BY <1>1, <1>2, <1>3, <1>4 DEF SpaceInv

\* Close sets stopped.
LEMMA StopKeeps ==
  ASSUME SpaceInv, Stop
  PROVE  SpaceInv'
<1>0. SpaceTypes
  BY DEF SpaceInv
<1>1. /\ UNCHANGED <<list, data, pc, entry, handle, walk, expired, clean, closing, hist>>
      /\ stopped' = TRUE /\ close' = "wait"
  BY DEF Stop
<1>2. ClosingSettles'
  BY <1>1 DEF ClosingSettles
<1> QED  BY <1>0, <1>1, <1>2, CloseKeeps DEF SpaceTypes, data

\* Close starts to walk when the maintenance loop is gone.
LEMMA CloseAllKeeps ==
  ASSUME SpaceInv, CloseAll
  PROVE  SpaceInv'
<1>0. SpaceTypes /\ CallerPlaces
  BY DEF SpaceInv
<1>1. /\ UNCHANGED <<list, data, pc, entry, handle, walk, expired, clean, stopped, hist>>
      /\ closing' = head /\ close' = IF head = Nil THEN "returned" ELSE "walk"
  BY DEF CloseAll
<1>2. stopped
  BY <1>0 DEF CloseAll, SpaceTypes
<1>3. ASSUME ~split PROVE ClosingSettles'
  <2>1. ASSUME NEW a \in Awaiters, Admitted(a)'
        PROVE  SettledEntry(entry[a])' \/ (close' = "walk" /\ closing' = entry'[a])
    <3>1. Admitted(a)
      BY <1>1, <2>1 DEF Admitted
    <3>2. entry[a] \in Entry /\ InUse(entry[a])
      BY <1>0, <3>1, AdmittedEntry DEF InUse, Callers
    <3>3. entry[a] = head \/ SettledEntry(entry[a])
      BY <1>3, <3>2 DEF SpaceInv, Unsplit, UsedAtHead
    <3>4. entry[a] # Nil
      BY <3>2, SpaceConstants DEF Entry
    <3> QED  BY <1>1, <3>3, <3>4 DEF SettledEntry, data
  <2> QED  BY <1>1, <2>1 DEF ClosingSettles
<1>4. /\ closing' \in Opt(Entry) /\ (close' = "walk" => closing' # Nil)
      /\ close' \in {"wait", "walk", "returned"}
  BY <1>0, <1>1 DEF SpaceTypes
<1> QED  BY <1>0, <1>1, <1>2, <1>3, <1>4, CloseKeeps DEF SpaceTypes, data

\* Close closes the slot it is at and goes on.
LEMMA CloseSlotKeeps ==
  ASSUME SpaceInv, CloseSlot
  PROVE  SpaceInv'
<1>0. SpaceTypes /\ CallerPlaces
  BY DEF SpaceInv
<1>1. /\ UNCHANGED <<list, stored, pc, entry, handle, walk, expired, clean, stopped, hist>>
      /\ slot' = [slot EXCEPT ![closing] = "closed"] /\ closing' = next[closing] /\ close = "walk"
      /\ close' = IF next[closing] = Nil THEN "returned" ELSE "walk"
  BY DEF CloseSlot
<1>2. stopped /\ closing \in Entry
  BY <1>0, <1>1 DEF SpaceTypes, Opt
<1>3. /\ slot' \in [Entry -> {"pending", "ready", "closed"}] /\ slot'[closing] # "pending"
      /\ \A e \in Entry : slot[e] # "pending" => slot'[e] # "pending"
  BY SMT, <1>0, <1>1, <1>2 DEF SpaceTypes
<1>4. ASSUME ~split PROVE ClosingSettles'
  <2>1. ASSUME NEW a \in Awaiters, Admitted(a)'
        PROVE  SettledEntry(entry[a])'
    <3>1. Admitted(a)
      BY <1>1, <2>1 DEF Admitted
    <3>2. SettledEntry(entry[a]) \/ closing = entry[a]
      BY <1>1, <1>4, <3>1 DEF SpaceInv, Unsplit, ClosingSettles
    <3>3. entry[a] \in Entry
      BY <1>0, <3>1, AdmittedEntry
    <3> QED  BY <1>1, <1>3, <3>2, <3>3 DEF SettledEntry
  <2> QED  BY <2>1 DEF ClosingSettles
<1>5. /\ closing' \in Opt(Entry) /\ (close' = "walk" => closing' # Nil)
      /\ close' \in {"wait", "walk", "returned"}
  BY <1>0, <1>1, <1>2 DEF SpaceTypes
<1> QED  BY <1>0, <1>1, <1>2, <1>3, <1>4, <1>5, CloseKeeps DEF SpaceTypes

-----------------------------------------------------------------------------
(* The theorems *)

\* The invariant holds initially.
LEMMA SpaceStart == SpaceInit => SpaceInv
<1> SUFFICES ASSUME SpaceInit PROVE SpaceInv
  OBVIOUS
<1> USE SpaceConstants
<1>0. /\ \A p \in Callers : pc[p] = "start" /\ entry[p] = Nil
      /\ pc[Cleaner] = "sleep" /\ Cleaner \in Procs /\ pc \in [Procs -> Labels \cup Rounds]
      /\ \A a \in Awaiters : handle[a][1] = "none"
  BY SMT DEF SpaceInit, Procs, Labels, Fresh, Rounds
<1>1. SpaceTypes
  <2>1. head \in Opt(Entry) /\ next \in [Entry -> Opt(Entry)] /\ stored \in [Entry -> Opt(Storers)]
    BY SMT DEF SpaceInit, Opt
  <2>2. entry \in [Callers -> Opt(Entry)] /\ slot \in [Entry -> {"pending", "ready", "closed"}]
    BY SMT DEF SpaceInit, Opt
  <2>3. /\ prev \in [Procs -> Opt(Entry)] /\ cur \in [Procs -> Opt(Entry)]
        /\ succ \in [Procs -> Opt(Entry)]
    BY SMT DEF SpaceInit, Opt
  <2>4. handle = [a \in Awaiters |-> handle[a]]
    BY SMT DEF SpaceInit
  <2> QED  BY <1>0, <2>1, <2>2, <2>3, <2>4 DEF SpaceInit, SpaceTypes, Opt
<1>2. CallerPlaces
  BY SMT, <1>0 DEF CallerPlaces, Labels, Fresh, Removing, Given, Callers
<1>3. CleanerPlaces
  BY <1>0 DEF CleanerPlaces, Rounds
<1>4. Artifacts
  BY <1>0 DEF SpaceInit, Artifacts, HasPut, Callers
<1>5. Unsplit
  <2>0. \A e \in Entry : ~InUse(e)
    BY <1>0 DEF InUse, Entry
  <2>1. Chain
    <3>1. PICK r \in [Entry -> Nat] : \A x \in Entry : r[x] = 0
      <4>1. [x \in Entry |-> 0] \in [Entry -> Nat]
        BY SMT
      <4> QED  BY <4>1
    <3>2. \A x \in Entry : ~(0 < r[x])
      BY SMT, <3>1
    <3>3. Ranked(r)
      BY <1>0, <3>2 DEF SpaceInit, Ranked, Entry
    <3> QED  BY <3>3 DEF Chain
  <2>2. UnseenFound
    BY <1>0 DEF UnseenFound, Unseen
  <2>3. CleanerAtHead
    BY <1>0 DEF CleanerAtHead, Removing
  <2>4. UsedAtHead
    BY <2>0 DEF UsedAtHead
  <2>5. ClosingSettles /\ RetainedUntilExpiry
    BY DEF SpaceInit, ClosingSettles, RetainedUntilExpiry
  <2> QED  BY <2>1, <2>2, <2>3, <2>4, <2>5 DEF Unsplit
<1> QED  BY <1>1, <1>2, <1>3, <1>4, <1>5 DEF SpaceInv

\* A step that changes nothing keeps it.
LEMMA SpaceStutter ==
  ASSUME SpaceInv, UNCHANGED spaceVars
  PROVE  SpaceInv'
<1>0. SpaceTypes /\ CallerPlaces /\ CleanerPlaces /\ Artifacts
  BY DEF SpaceInv
<1> USE DEF spaceVars
<1>1. SpaceTypes' /\ CallerPlaces' /\ CleanerPlaces'
  BY <1>0 DEF SpaceTypes, CallerPlaces, CleanerPlaces
<1>2. Artifacts'
  BY <1>0 DEF Artifacts, HasPut
<1>3. ASSUME ~split' PROVE Unsplit'
  <2>1. Grows /\ Calm /\ CleanerSame
    BY DEF Grows, SettledEntry, InUse, Calm, CleanerSame
  <2>2. \A a \in Awaiters : stopped /\ Admitted(a)' => Admitted(a) /\ entry'[a] = entry[a]
    BY DEF Admitted
  <2> QED  BY <1>3, <2>1, <2>2, CalmKeeps
<1> QED  BY <1>1, <1>2, <1>3 DEF SpaceInv

\* Every step keeps it.
LEMMA SpaceStep == SpaceInv /\ [SpaceNext]_spaceVars => SpaceInv'
<1> SUFFICES ASSUME SpaceInv, [SpaceNext]_spaceVars PROVE SpaceInv'
  OBVIOUS
<1>1. ASSUME NEW p \in Callers, Enter(p) \/ GetOrCreate(p) \/ Use(p) PROVE SpaceInv'
  BY <1>1, EnterKeeps, FindKeeps, LinkKeeps, PrependKeeps, RecheckKeeps, UseKeeps DEF GetOrCreate
<1>2. ASSUME NEW p \in Procs, Remove(p) PROVE SpaceInv'
  BY <1>2, RemoveFromHeadKeeps, RemoveWalkKeeps, RemoveUnlinkKeeps DEF Remove
<1>3. ASSUME NEW a \in Awaiters, AwaitStep(a) PROVE SpaceInv'
  BY <1>1, <1>2, <1>3, LoadStoredKeeps, LoadStateKeeps DEF AwaitStep, Callers, Procs
<1>4. ASSUME NEW s \in Storers, StoreStep(s) \/ Expire(s) PROVE SpaceInv'
  BY <1>1, <1>2, <1>4, PutKeeps, DeliverKeeps, ExpireKeeps DEF StoreStep, Callers, Procs
<1>5. ASSUME Maintain PROVE SpaceInv'
  BY <1>2, <1>5, WakeKeeps, VisitKeeps, ClearStoredKeeps, AdvanceKeeps DEF Maintain, Procs
<1>6. ASSUME Stop \/ CloseAll \/ CloseSlot PROVE SpaceInv'
  BY <1>6, StopKeeps, CloseAllKeeps, CloseSlotKeeps
<1>7. ASSUME Finished \/ UNCHANGED spaceVars PROVE SpaceInv'
  BY <1>7, SpaceStutter DEF Finished
<1> QED  BY <1>3, <1>4, <1>5, <1>6, <1>7 DEF SpaceNext

\* So it always holds.
LEMMA SpaceInvariant == SpaceSpec => []SpaceInv
  BY SpaceStart, SpaceStep, PTL DEF SpaceSpec

\* A goroutine that would block holds the slot of the entry it was given.
LEMMA BlockedEntry ==
  ASSUME SpaceInv, NEW a \in Awaiters, Blocked(a)
  PROVE  /\ handle[a][2] = entry[a] /\ entry[a] \in Entry /\ InUse(entry[a])
         /\ slot[entry[a]] = "pending" /\ Admitted(a)
<1>1. handle[a][1] = "slot" /\ slot[handle[a][2]] = "pending" /\ a \in Callers
  BY DEF Blocked, Callers
<1>2. handle[a][2] = entry[a] /\ entry[a] # Nil
  BY <1>1 DEF SpaceInv, CallerPlaces
<1>3. entry[a] \in Opt(Entry)
  BY <1>1 DEF SpaceInv, SpaceTypes
<1> QED  BY <1>1, <1>2, <1>3 DEF Opt, InUse, Admitted

\* If that slot is settled and pending, its Store is about to deliver.
LEMMA PendingDelivering ==
  ASSUME SpaceInv, NEW a \in Awaiters, Blocked(a), SettledEntry(entry[a])
  PROVE  Delivering(a)
  BY BlockedEntry DEF SettledEntry, Delivering

\* For any number of Awaits and Stores: unless getOrCreate has given out two entries
\* for the key, a slot that somebody waits on can be found by the Stores to come and
\* by Close, or its Deliver is under way.  cleanup, which removes an expired entry by
\* its key and not by its identity (qspace.go), never takes a pending slot out of the
\* list.
THEOREM WaitersReachable == SpaceSpec => []BlockedReachable
<1>1. SpaceInv => BlockedReachable
  <2> SUFFICES ASSUME SpaceInv, ~split, NEW a \in Awaiters, Blocked(a)
               PROVE  handle[a][2] \in Linked \/ Delivering(a)
    BY DEF BlockedReachable
  <2>1. entry[a] = head \/ SettledEntry(entry[a])
    BY BlockedEntry DEF SpaceInv, Unsplit, UsedAtHead
  <2> QED  BY <2>1, BlockedEntry, HeadLinked, PendingDelivering
<1> QED  BY <1>1, SpaceInvariant, PTL

\* Unless two entries were given out: when Close has returned, whoever passed Await's
\* second test of stopped has been released, or a Store that had already begun is
\* about to do so.
THEOREM CloseReleases == SpaceSpec => []ReleasedUnlessSplit
<1>1. SpaceInv => ReleasedUnlessSplit
  <2> SUFFICES ASSUME SpaceInv, ~split, close = "returned", NEW a \in Awaiters, Blocked(a)
               PROVE  Delivering(a)
    BY DEF ReleasedUnlessSplit
  <2>1. SettledEntry(entry[a])
    BY BlockedEntry DEF SpaceInv, Unsplit, ClosingSettles
  <2> QED  BY <2>1, PendingDelivering
<1> QED  BY <1>1, SpaceInvariant, PTL

\* Unless two entries were given out or a TTL has elapsed: the result stored last is
\* what PeekResult and Await find.  No lost race of getOrCreate, and no Remove that
\* undoes one, takes its entry out of the list.
THEOREM ResultRetained == SpaceSpec => []RetainedUntilExpiry
<1>1. SpaceInv => RetainedUntilExpiry
  BY DEF SpaceInv, Unsplit, RetainedUntilExpiry
<1> QED  BY <1>1, SpaceInvariant, PTL

-----------------------------------------------------------------------------
(* The dependency edges that the space keeps between its entries: DependencyGraph, a *)
(* specification of its own, for any keys, callers and bounds.                       *)

\* A call of addRelationship or registerDependent: where it stands and its locals.
CallRecord ==
  [pc : {"walk", "parent", "child", "push", "link"}, parent : Keys, child : Keys,
   checked : BOOLEAN, visited : SUBSET Keys, stack : SUBSET Keys,
   parentAt : Nat, childAt : Nat]

\* Types: edges join keys.
GraphTypes ==
  /\ children \in [Keys -> SUBSET Keys] /\ parents \in [Keys -> SUBSET Keys]
  /\ incarnation \in [Keys -> Nat] /\ recorded \subseteq Keys \X Keys
  /\ call = [c \in Linkers |-> call[c]]
  /\ \A c \in Linkers : call[c] = NoCall \/ call[c] \in CallRecord
  /\ pruning \in {NoPrune} \cup [pc : {"find", "children", "parents", "clear"}, key : Keys]

\* A set of keys that no edge leaves.
Closed(C) == C \subseteq Keys /\ \A i \in C : children[i] \subseteq C

\* What a call that no other has overlapped has found out: a key it has visited leads
\* only to keys it has seen, and after the walk nothing leads from child to parent.
Walked(r) ==
  /\ r.pc = "walk" => /\ r.child \in r.stack \cup r.visited /\ r.parent \notin r.visited
                      /\ \A v \in r.visited : children[v] \subseteq r.stack \cup r.visited
  /\ (r.checked /\ r.pc \in {"parent", "child", "push"}) =>
       \E C : Closed(C) /\ r.child \in C /\ r.parent \notin C

\* It holds of every call that no other has overlapped, which then is the only one.
WalkInv ==
  \A c \in Busy \ overlapped : Busy = {c} /\ Walked(call[c])

\* Pruning has not begun to take edges away from the ends of a call.
Spared(r) == pruning = NoPrune \/ pruning.pc = "find" \/ pruning.key \notin {r.parent, r.child}

\* What an undisturbed call has got hold of, and has pushed.
Kept(r) ==
  /\ r.pc \in {"child", "push", "link"} => r.parentAt = incarnation[r.parent]
  /\ r.pc \in {"push", "link"} => r.childAt = incarnation[r.child]
  /\ (r.pc = "link" /\ Spared(r)) => r.child \in children[r.parent]

\* It holds of every undisturbed call, and nothing prunes the end of a recorded edge.
RecordInv ==
  /\ RecordedStays
  /\ pruning # NoPrune => \A e \in recorded : pruning.key \notin {e[1], e[2]}
  /\ \A c \in Busy \ disturbed : Kept(call[c])

\* The inductive invariant.
GraphInv == GraphTypes /\ WalkInv /\ CirclesUnchecked /\ RecordInv

\* It holds initially.
LEMMA GraphStart == GraphInit => GraphInv
<1> SUFFICES ASSUME GraphInit PROVE GraphInv
  OBVIOUS
<1>1. Busy = {} /\ Edges = {}
  BY DEF GraphInit, Busy, Edges, NoCall
<1>2. GraphTypes
  BY DEF GraphInit, GraphTypes
<1>3. CirclesUnchecked
  BY SMT, <1>1 DEF CirclesUnchecked, OnCircle
<1> QED BY <1>1, <1>2, <1>3 DEF GraphInit, GraphInv, WalkInv, RecordInv, RecordedStays

\* The call of c goes on to r; the other calls stay where they are.
Moves(c, r) == call'[c] = r /\ \A d \in Linkers \ {c} : call'[d] = call[d]

\* A call that is replaced moves alone.
LEMMA CallMoves ==
  ASSUME GraphTypes, NEW c \in Linkers, NEW r, call' = [call EXCEPT ![c] = r]
  PROVE  Moves(c, r)
BY DEF GraphTypes, Moves

\* A circle cannot arise when edges go.
LEMMA FewerEdges ==
  ASSUME CirclesUnchecked, GraphTypes, \A i \in Keys : children'[i] \subseteq children[i],
         unchecked \subseteq unchecked'
  PROVE  CirclesUnchecked'
<1>1. (Edges \ unchecked)' \subseteq Edges \ unchecked
  BY DEF Edges
<1> QED BY <1>1 DEF CirclesUnchecked, OnCircle

\* What a walk has found stays true when edges go.
LEMMA WalkKept ==
  ASSUME GraphTypes, \A i \in Keys : children'[i] \subseteq children[i],
         NEW r \in CallRecord, Walked(r)
  PROVE  Walked(r)'
<1>1. \A C : Closed(C) => Closed(C)'
  BY DEF Closed
<1> QED BY <1>1 DEF Walked, CallRecord

\* An edge whose end does not lead back to its beginning closes no circle.
LEMMA NewEdge ==
  ASSUME CirclesUnchecked, GraphTypes, NEW p \in Keys, NEW k \in Keys,
         children' = [children EXCEPT ![p] = @ \cup {k}], unchecked' = unchecked,
         NEW D, Closed(D), k \in D, p \notin D
  PROVE  CirclesUnchecked'
<1> DEFINE G == Edges \ unchecked
<1>1. G' \subseteq G \cup {<<p, k>>} /\ G \subseteq Keys \X Keys
  BY SMT DEF Edges, GraphTypes
<1>2. \A e \in G : e[1] \in D => e[2] \in D
  BY DEF Edges, Closed
<1> SUFFICES ASSUME NEW m \in Keys PROVE ~OnCircle(G, m)'
  BY DEF CirclesUnchecked
<1>3. PICK C \in SUBSET Keys : (\A e \in G : e[1] \in C \cup {m} => e[2] \in C) /\ m \notin C
  BY DEF CirclesUnchecked, OnCircle
<1> HIDE DEF G
<1>4. CASE m \in D
  <2>1. \A e \in G' : e[1] \in (C \cap D) \cup {m} => e[2] \in C \cap D
    BY SMT, <1>1, <1>2, <1>3, <1>4
  <2> QED BY <1>3, <2>1 DEF OnCircle
<1>5. CASE m \notin D
  <2>1. \A e \in G' : e[1] \in (C \cup D) \cup {m} => e[2] \in C \cup D
    BY SMT, <1>1, <1>2, <1>3, <1>5
  <2>2. C \cup D \in SUBSET Keys /\ m \notin C \cup D
    BY <1>3, <1>5 DEF Closed
  <2> QED BY <2>1, <2>2 DEF OnCircle
<1> QED BY <1>4, <1>5

\* A goroutine inside a call has its locals.
LEMMA InCall ==
  ASSUME GraphTypes, NEW c \in Linkers, call[c].pc # "idle"
  PROVE  call[c] \in CallRecord /\ c \in Busy
BY SMT DEF GraphTypes, NoCall, Busy

\* A call begins, checked or not.
Begins(c, p, k) == AddRelationship(c, p, k) \/ RegisterDependent(c, p, k)

\* A call from p to k at its beginning.
Starts(r, p, k) ==
  /\ r \in CallRecord /\ r.parent = p /\ r.child = k
  /\ \/ r.pc = "walk" /\ r.visited = {} /\ r.stack = {k}
     \/ r.pc = "parent" /\ r.checked = FALSE

\* Then its locals are those of a beginning.
LEMMA Begun ==
  ASSUME NEW c \in Linkers, NEW p \in Keys, NEW k \in Keys, Begins(c, p, k)
  PROVE  \E r : Starts(r, p, k) /\ call' = [call EXCEPT ![c] = r]
<1> DEFINE R(l) == [pc |-> l, parent |-> p, child |-> k, checked |-> l = "walk",
                     visited |-> {}, stack |-> {k}, parentAt |-> 0, childAt |-> 0]
<1>1. Starts(R("walk"), p, k) /\ Starts(R("parent"), p, k)
  BY DEF Starts, CallRecord
<1>2. CASE AddRelationship(c, p, k)
  BY <1>1, <1>2 DEF AddRelationship, Begin
<1>3. CASE RegisterDependent(c, p, k)
  BY <1>1, <1>3 DEF RegisterDependent, Begin
<1> QED BY <1>2, <1>3 DEF Begins

\* The call when it has looked at key k.
Looked(r, k) ==
  [r EXCEPT !.stack = (@ \ {k}) \cup IF k \in r.visited THEN {} ELSE children[k],
            !.visited = @ \cup {k}]

\* A step of a walk looks at one key of its stack.
LEMMA Looks ==
  ASSUME GraphTypes, NEW c \in Linkers, Walk(c)
  PROVE  \E k \in call[c].stack :
           /\ Looked(call[c], k) \in CallRecord
           /\ call' = [call EXCEPT ![c] =
                         IF k = call[c].parent THEN NoCall ELSE Looked(call[c], k)]
<1>1. call[c] \in CallRecord
  BY InCall DEF Walk
<1>2. \A k \in call[c].stack : Looked(call[c], k) \in CallRecord
  BY <1>1 DEF Looked, CallRecord, GraphTypes
<1>3. PICK k \in call[c].stack :
        IF k = call[c].parent
        THEN call' = [call EXCEPT ![c] = NoCall]
        ELSE call' = [call EXCEPT
               ![c].stack = (@ \ {k}) \cup IF k \in call[c].visited THEN {} ELSE children[k],
               ![c].visited = @ \cup {k}]
  BY DEF Walk
<1>4. CASE k = call[c].parent
  BY <1>2, <1>3, <1>4
<1>5. CASE k # call[c].parent
  <2>1. call' = [call EXCEPT ![c] = Looked(call[c], k)]
    BY <1>1, <1>3, <1>5 DEF Looked, GraphTypes, CallRecord
  <2> QED BY <1>2, <1>5, <2>1
<1> QED BY <1>4, <1>5

\* Every step keeps the types.
LEMMA TypesStep == GraphTypes /\ [GraphNext]_graphVars => GraphTypes'
<1> SUFFICES ASSUME GraphTypes, [GraphNext]_graphVars PROVE GraphTypes'
  OBVIOUS
<1>1. ASSUME NEW c \in Linkers, NEW r \in CallRecord \cup {NoCall}, call' = [call EXCEPT ![c] = r]
      PROVE  /\ call' = [d \in Linkers |-> call'[d]]
             /\ \A d \in Linkers : call'[d] = NoCall \/ call'[d] \in CallRecord
  BY <1>1 DEF GraphTypes
<1>2. ASSUME NEW c \in Linkers, NEW p \in Keys, NEW k \in Keys,
             Begins(c, p, k)
      PROVE  GraphTypes'
  <2>1. PICK r : Starts(r, p, k) /\ call' = [call EXCEPT ![c] = r]
    BY <1>2, Begun
  <2>2. r \in CallRecord
    BY <2>1 DEF Starts
  <2> QED BY <1>1, <1>2, <2>1, <2>2 DEF Begins, AddRelationship, RegisterDependent,
     Begin, GraphTypes, entryVars
<1>3. ASSUME NEW c \in Linkers, Step(c) PROVE GraphTypes'
  <2>1. call[c] \in CallRecord
    <3>1. call[c].pc # "idle"
      BY Zenon, <1>3 DEF Step, Walk, NoCircle, GetParent, GetChild,
         PushChild, PushParent
    <3> QED BY <3>1, InCall
  <2>2. CASE Walk(c) \/ NoCircle(c)
    <3>1. PICK r \in CallRecord \cup {NoCall} : call' = [call EXCEPT ![c] = r]
      <4>1. CASE Walk(c)
        BY <4>1, Looks
      <4>2. CASE NoCircle(c)
        BY <2>1, <4>2 DEF NoCircle, CallRecord, GraphTypes
      <4> QED BY <2>2, <4>1, <4>2
    <3> QED BY <1>1, <2>2, <3>1 DEF Walk, NoCircle, GraphTypes, entryVars,
       history
  <2>3. CASE GetParent(c) \/ GetChild(c)
    <3>1. PICK r \in CallRecord \cup {NoCall} : call' = [call EXCEPT ![c] = r]
      BY <2>1, <2>3 DEF GetParent, GetChild, CallRecord, GraphTypes
    <3> QED BY <1>1, <2>3, <3>1 DEF GetParent, GetChild, GraphTypes, history
  <2>4. CASE PushChild(c)
    <3>1. PICK r \in CallRecord \cup {NoCall} : call' = [call EXCEPT ![c] = r]
      BY <2>1, <2>4 DEF PushChild, CallRecord, GraphTypes
    <3>2. children' \in [Keys -> SUBSET Keys]
      BY <2>1, <2>4 DEF PushChild, CallRecord, GraphTypes
    <3> QED BY <1>1, <2>4, <3>1, <3>2 DEF PushChild, GraphTypes
  <2>5. CASE PushParent(c)
    <3>1. PICK r \in CallRecord \cup {NoCall} : call' = [call EXCEPT ![c] = r]
      BY <2>5 DEF PushParent
    <3>2. parents' \in [Keys -> SUBSET Keys] /\ recorded' \subseteq Keys \X Keys
      BY SMT, <2>1, <2>5 DEF PushParent, CallRecord, GraphTypes
    <3> QED BY <1>1, <2>5, <3>1, <3>2 DEF PushParent, GraphTypes
  <2> QED BY <1>3, <2>2, <2>3, <2>4, <2>5 DEF Step
<1>4. ASSUME NEW k \in Keys, RemoveExpired(k) PROVE GraphTypes'
  BY SMT, <1>4 DEF RemoveExpired, GraphTypes
<1>5. CASE PruneFind \/ PruneChildren \/ PruneParents \/ PruneClear
  BY SMT, <1>5 DEF PruneFind, PruneChildren, PruneParents, PruneClear,
     GraphTypes, entryVars, history, NoPrune
<1>6. CASE UNCHANGED graphVars
  BY <1>6 DEF graphVars, entryVars, history, GraphTypes
<1> QED BY <1>2, <1>3, <1>4, <1>5, <1>6 DEF GraphNext, Begins, Cleanup

\* A call of its own: how the busy ones change.
LEMMA BusyMoves ==
  ASSUME GraphTypes, NEW c \in Linkers, NEW r, Moves(c, r)
  PROVE  Busy' = IF r.pc = "idle" THEN Busy \ {c} ELSE Busy \cup {c}
BY DEF Moves, Busy

\* A call that begins overlaps the others, and they it.
LEMMA BeginKeeps ==
  ASSUME GraphInv, NEW c \in Linkers, NEW p \in Keys, NEW k \in Keys, Begins(c, p, k)
  PROVE  WalkInv' /\ CirclesUnchecked' /\ RecordInv'
<1>0. PICK r : Starts(r, p, k) /\ call' = [call EXCEPT ![c] = r]
  BY Begun
<1>1. /\ r \in CallRecord /\ r.parent = p /\ r.child = k
      /\ \/ r.pc = "walk" /\ r.visited = {} /\ r.stack = {k}
         \/ r.pc = "parent" /\ r.checked = FALSE
  BY <1>0 DEF Starts
<1>2. /\ UNCHANGED <<children, parents, incarnation, pruning, unchecked, recorded>>
      /\ overlapped' = IF Busy = {} THEN overlapped \ {c} ELSE Busy \cup {c}
      /\ disturbed' = disturbed \ {c} /\ c \notin Busy
  <2>1. PICK l \in {"walk", "parent"} : Begin(c, l, p, k)
    BY DEF Begins, AddRelationship, RegisterDependent
  <2>2. call[c] = NoCall
    BY <2>1 DEF Begin
  <2>3. c \notin Busy
    BY SMT, <2>2 DEF Busy, NoCall
  <2> QED BY <2>1, <2>3 DEF Begin, entryVars
<1>3. Moves(c, r) /\ Busy' = Busy \cup {c}
  BY <1>0, <1>1, CallMoves, BusyMoves DEF GraphInv, CallRecord
<1>4. WalkInv'
  <2>1. Walked(r)'
    BY <1>1 DEF Walked
  <2> QED BY <1>2, <1>3, <2>1 DEF WalkInv, Moves
<1>5. CirclesUnchecked'
  BY <1>2, FewerEdges DEF GraphInv
<1>6. RecordInv'
  <2>1. Kept(r)'
    BY <1>1 DEF Kept
  <2>2. \A d \in Busy \ disturbed : Kept(call[d])' 
    <3> SUFFICES ASSUME NEW d \in Busy \ disturbed PROVE Kept(call[d])'
      OBVIOUS
    <3>1. Kept(call[d])
      BY DEF GraphInv, RecordInv
    <3>2. call'[d] = call[d]
      BY <1>2, <1>3 DEF Moves, Busy
    <3> QED BY <1>2, <3>1, <3>2 DEF Kept, Spared
  <2> QED BY <1>2, <1>3, <2>1, <2>2 DEF GraphInv, RecordInv, RecordedStays, Moves
<1> QED BY <1>4, <1>5, <1>6

\* A step of a call that pushes nothing.
LEMMA WalkKeeps ==
  ASSUME GraphInv, NEW c \in Linkers,
         Walk(c) \/ NoCircle(c) \/ GetParent(c) \/ GetChild(c)
  PROVE  WalkInv' /\ CirclesUnchecked' /\ RecordInv'
<1>0. GraphTypes
  BY DEF GraphInv
<1>1. call[c] \in CallRecord /\ c \in Busy
  <2>1. call[c].pc # "idle"
    BY Zenon DEF Walk, NoCircle, GetParent, GetChild
  <2> QED BY <1>0, <2>1, InCall
<1>2. UNCHANGED <<children, parents, incarnation, pruning, unchecked, recorded, overlapped, disturbed>>
  BY DEF Walk, NoCircle, GetParent, GetChild, entryVars, history
<1>3. PICK r \in CallRecord \cup {NoCall} :
        /\ call' = [call EXCEPT ![c] = r]
        /\ c \notin overlapped /\ r # NoCall => Walked(r)
        /\ c \notin disturbed /\ r # NoCall => Kept(r)
  <2>0. /\ c \notin overlapped => Walked(call[c])
        /\ c \notin disturbed => Kept(call[c])
    BY <1>1 DEF GraphInv, WalkInv, RecordInv
  <2>1. CASE Walk(c)
    <3>1. PICK k \in call[c].stack :
            /\ Looked(call[c], k) \in CallRecord
            /\ call' = [call EXCEPT ![c] =
                         IF k = call[c].parent THEN NoCall ELSE Looked(call[c], k)]
      BY <1>0, <2>1, Looks
    <3>2. CASE k = call[c].parent
      BY <3>1, <3>2
    <3>3. CASE k # call[c].parent
      <4>1. Looked(call[c], k).pc = "walk" /\ call[c].pc = "walk"
        BY <1>1, <2>1 DEF CallRecord, Walk, Looked
      <4>2. c \notin overlapped => Walked(Looked(call[c], k))
        BY <1>1, <2>0, <3>3, <4>1 DEF Walked, CallRecord, Looked
      <4>3. Kept(Looked(call[c], k))
        BY <4>1 DEF Kept
      <4> QED BY <3>1, <3>3, <4>2, <4>3
    <3> QED BY <3>2, <3>3
  <2>2. CASE NoCircle(c)
    <3> DEFINE r == [call[c] EXCEPT !.pc = "parent", !.visited = {}]
    <3>1. r \in CallRecord /\ r.pc = "parent" /\ call' = [call EXCEPT ![c] = r]
      BY <1>0, <1>1, <2>2 DEF CallRecord, NoCircle, GraphTypes
    <3>2. c \notin overlapped => Walked(r)
      <4> SUFFICES ASSUME c \notin overlapped PROVE Walked(r)
        OBVIOUS
      <4>1. /\ Closed(call[c].visited)
            /\ call[c].child \in call[c].visited /\ call[c].parent \notin call[c].visited
        BY <1>1, <2>0, <2>2 DEF Walked, NoCircle, Closed, CallRecord
      <4>2. r.child = call[c].child /\ r.parent = call[c].parent
        BY <1>1 DEF CallRecord
      <4> HIDE DEF r
      <4> QED BY <3>1, <4>1, <4>2 DEF Walked
    <3>3. Kept(r)
      BY <3>1 DEF Kept
    <3> HIDE DEF r
    <3> QED BY <3>1, <3>2, <3>3
  <2>3. CASE GetParent(c)
    <3> DEFINE r == [call[c] EXCEPT !.pc = "child", !.parentAt = incarnation[call[c].parent]]
    <3>1. r \in CallRecord /\ call' = [call EXCEPT ![c] = r]
      BY <1>0, <1>1, <2>3 DEF CallRecord, GetParent, GraphTypes
    <3>2. c \notin overlapped => Walked(r)
      BY <1>1, <2>0, <2>3 DEF Walked, GetParent, CallRecord
    <3>3. c \notin disturbed => Kept(r)
      BY <1>1, <2>0, <2>3 DEF Kept, GetParent, CallRecord
    <3> HIDE DEF r
    <3> QED BY <3>1, <3>2, <3>3
  <2>4. CASE GetChild(c)
    <3> DEFINE r == [call[c] EXCEPT !.pc = "push", !.childAt = incarnation[call[c].child]]
    <3>1. r \in CallRecord /\ call' = [call EXCEPT ![c] = r]
      BY <1>0, <1>1, <2>4 DEF CallRecord, GetChild, GraphTypes
    <3>2. c \notin overlapped => Walked(r)
      BY <1>1, <2>0, <2>4 DEF Walked, GetChild, CallRecord
    <3>3. c \notin disturbed => Kept(r)
      BY <1>1, <2>0, <2>4 DEF Kept, GetChild, CallRecord
    <3> HIDE DEF r
    <3> QED BY <3>1, <3>2, <3>3
  <2> QED BY <2>1, <2>2, <2>3, <2>4
<1>4. Moves(c, r) /\ Busy' \subseteq Busy /\ (c \in Busy' => r # NoCall)
  <2>1. Moves(c, r)
    BY <1>0, <1>3, CallMoves
  <2>2. Busy' \subseteq Busy
    BY <1>1, <2>1 DEF Busy, Moves
  <2>3. c \in Busy' => r # NoCall
    BY SMT, <2>1 DEF Busy, Moves, NoCall
  <2> QED BY <2>1, <2>2, <2>3
<1>5. WalkInv'
  <2> SUFFICES ASSUME NEW d \in Busy' \ overlapped' PROVE Busy' = {d} /\ Walked(call[d])'
    BY DEF WalkInv
  <2>1. d \in Busy \ overlapped
    BY <1>2, <1>4
  <2>2. d = c /\ Busy = {c}
    BY <1>1, <2>1 DEF GraphInv, WalkInv
  <2>3. Walked(call'[d])
    BY <1>3, <1>4, <2>1, <2>2 DEF Moves
  <2> QED BY <1>2, <1>4, <2>2, <2>3 DEF Walked, Closed
<1>6. CirclesUnchecked'
  BY <1>0, <1>2, FewerEdges DEF GraphInv
<1>7. RecordInv'
  <2>1. \A d \in Busy' \ disturbed : Kept(call'[d])
    BY <1>3, <1>4 DEF GraphInv, RecordInv, Moves, Busy
  <2> QED BY <1>2, <2>1 DEF GraphInv, RecordInv, RecordedStays, Kept, Spared
<1> QED BY <1>5, <1>6, <1>7

\* parent.children.Push(child): a call that was checked, and not overlapped, knows of a
\* closed set that the edge does not lead back from.
LEMMA PushKeeps ==
  ASSUME GraphInv, NEW c \in Linkers, PushChild(c)
  PROVE  WalkInv' /\ CirclesUnchecked' /\ RecordInv'
<1> DEFINE p == call[c].parent
           k == call[c].child
           new == incarnation[p] = call[c].parentAt /\ k \notin children[p]
<1>0. GraphTypes
  BY DEF GraphInv
<1>1. call[c] \in CallRecord /\ c \in Busy /\ call[c].pc = "push"
  BY <1>0, InCall DEF PushChild
<1>2. p \in Keys /\ k \in Keys
  BY <1>1 DEF CallRecord
<1>3. /\ UNCHANGED <<parents, incarnation, pruning, recorded, overlapped, disturbed>>
      /\ children' = IF new THEN [children EXCEPT ![p] = @ \cup {k}] ELSE children
      /\ unchecked' = IF new /\ (~call[c].checked \/ c \in overlapped)
                      THEN unchecked \cup {<<p, k>>} ELSE unchecked
  BY DEF PushChild
<1>4. PICK r : /\ r = [call[c] EXCEPT !.pc = "link"] /\ r.pc = "link" /\ r.parent = p /\ r.child = k
               /\ r.parentAt = call[c].parentAt /\ r.childAt = call[c].childAt
  <2> DEFINE r == [call[c] EXCEPT !.pc = "link"]
  <2>1. /\ r.pc = "link" /\ r.parent = p /\ r.child = k
        /\ r.parentAt = call[c].parentAt /\ r.childAt = call[c].childAt
    BY <1>1 DEF CallRecord
  <2> QED BY Zenon, <2>1
<1>5. Moves(c, r) /\ Busy' = Busy
  <2>1. Moves(c, r)
    BY <1>0, <1>4, CallMoves DEF PushChild, GraphTypes
  <2>2. \A d \in Linkers : call'[d].pc # "idle" <=> call[d].pc # "idle"
    BY <1>1, <1>4, <2>1 DEF Moves
  <2> QED BY Zenon, <2>1, <2>2 DEF Busy
<1>6. WalkInv'
  <2>1. Walked(r)'
    BY <1>4 DEF Walked
  <2> QED BY <1>1, <1>3, <1>5, <2>1 DEF GraphInv, WalkInv, Moves
<1>7. CirclesUnchecked'
  <2>1. CASE ~new
    BY <1>0, <1>3, <2>1, FewerEdges DEF GraphInv
  <2>2. CASE new /\ (~call[c].checked \/ c \in overlapped)
    <3>1. (Edges \ unchecked)' \subseteq Edges \ unchecked
      BY SMT, <1>0, <1>2, <1>3, <2>2 DEF Edges, GraphTypes
    <3> QED BY <3>1 DEF GraphInv, CirclesUnchecked, OnCircle
  <2>3. CASE new /\ call[c].checked /\ c \notin overlapped
    <3>1. PICK D : Closed(D) /\ k \in D /\ p \notin D
      BY <1>1, <2>3 DEF GraphInv, WalkInv, Walked
    <3>2. children' = [children EXCEPT ![p] = @ \cup {k}] /\ unchecked' = unchecked
      BY <1>3, <2>3
    <3> HIDE DEF p, k
    <3> QED BY <1>0, <1>2, <3>1, <3>2, NewEdge DEF GraphInv
  <2> QED BY <2>1, <2>2, <2>3
<1>8. RecordInv'
  <2>1. \A i \in Keys : children[i] \subseteq children'[i]
    BY <1>0, <1>2, <1>3 DEF GraphTypes
  <2>2. c \notin disturbed => Kept(r)'
    <3> SUFFICES ASSUME c \notin disturbed PROVE Kept(r)'
      OBVIOUS
    <3>1. call[c].parentAt = incarnation[p] /\ call[c].childAt = incarnation[k]
      BY <1>1 DEF GraphInv, RecordInv, Kept
    <3>2. k \in children'[p]
      BY <1>0, <1>2, <1>3, <3>1 DEF GraphTypes
    <3> QED BY <1>3, <1>4, <3>1, <3>2 DEF Kept
  <2>3. ASSUME NEW d \in Busy \ disturbed, d # c PROVE Kept(call[d])'
    <3>1. call[d] \in CallRecord /\ call'[d] = call[d] /\ Kept(call[d])
      BY <1>0, <1>5, <2>3, InCall DEF Busy, Moves, GraphInv, RecordInv
    <3> QED BY <1>3, <2>1, <3>1 DEF Kept, Spared, CallRecord
  <2>4. RecordedStays'
    BY <1>0, <1>3, <2>1 DEF GraphTypes, GraphInv, RecordInv, RecordedStays
  <2> QED BY <1>3, <1>5, <2>2, <2>3, <2>4 DEF GraphInv, RecordInv, Moves
<1> QED BY <1>6, <1>7, <1>8

\* child.parents.Push(parent): the edge is in both lists, and the call returns.
LEMMA ReturnKeeps ==
  ASSUME GraphInv, NEW c \in Linkers, PushParent(c)
  PROVE  WalkInv' /\ CirclesUnchecked' /\ RecordInv'
<1> DEFINE p == call[c].parent
           k == call[c].child
<1>0. GraphTypes
  BY DEF GraphInv
<1>1. call[c] \in CallRecord /\ c \in Busy /\ call[c].pc = "link"
  BY <1>0, InCall DEF PushParent
<1>2. p \in Keys /\ k \in Keys
  BY <1>1 DEF CallRecord
<1>3. /\ UNCHANGED <<children, incarnation, pruning, overlapped, disturbed, unchecked>>
      /\ parents' = IF incarnation[k] = call[c].childAt
                    THEN [parents EXCEPT ![k] = @ \cup {p}] ELSE parents
      /\ recorded' = IF SettledCall(c) THEN recorded \cup {<<p, k>>} ELSE recorded
  BY DEF PushParent
<1>4. Moves(c, NoCall)
  BY <1>0, CallMoves DEF PushParent
<1>5. Busy' = Busy \ {c}
  BY SMT, <1>4 DEF Moves, Busy, NoCall
<1>6. WalkInv'
  BY <1>1, <1>3, <1>5 DEF GraphInv, WalkInv
<1>7. CirclesUnchecked'
  BY <1>0, <1>3, FewerEdges DEF GraphInv
<1>8. RecordInv'
  <2>1. \A d \in Busy' \ disturbed' : Kept(call[d])'
    <3> SUFFICES ASSUME NEW d \in Busy' \ disturbed' PROVE Kept(call[d])'
      OBVIOUS
    <3>1. d \in Busy \ disturbed /\ d # c /\ d \in Linkers
      BY <1>3, <1>5 DEF Busy
    <3>2. Kept(call[d])
      BY <3>1 DEF GraphInv, RecordInv
    <3>3. call'[d] = call[d]
      BY <1>4, <3>1 DEF Moves
    <3> QED BY <1>3, <3>2, <3>3 DEF Kept, Spared
  <2>2. \A i \in Keys : parents[i] \subseteq parents'[i]
    BY <1>0, <1>2, <1>3 DEF GraphTypes
  <2>3. \A e \in recorded : e[2] \in children'[e[1]] /\ e[1] \in parents'[e[2]]
    BY <1>0, <1>3, <2>2 DEF GraphTypes, GraphInv, RecordInv, RecordedStays
  <2>4. SettledCall(c) => k \in children'[p] /\ p \in parents'[k]
    BY <1>0, <1>1, <1>2, <1>3 DEF GraphTypes, GraphInv, RecordInv, Kept, Spared, SettledCall
  <2>5. SettledCall(c) /\ pruning # NoPrune => pruning.key \notin {p, k}
    BY DEF SettledCall
  <2>6. \A e \in recorded' : e \in recorded \/ (SettledCall(c) /\ e = <<p, k>>)
    BY <1>3
  <2>7. <<p, k>>[1] = p /\ <<p, k>>[2] = k
    OBVIOUS
  <2> HIDE DEF p, k
  <2>8. RecordedStays'
    BY <2>3, <2>4, <2>6, <2>7 DEF RecordedStays
  <2>9. pruning' # NoPrune => \A e \in recorded' : pruning'.key \notin {e[1], e[2]}
    BY <1>3, <2>5, <2>6, <2>7 DEF GraphInv, RecordInv
  <2> QED BY <2>1, <2>8, <2>9 DEF RecordInv
<1> QED BY <1>6, <1>7, <1>8

\* A step of cleanup takes edges away: what the walks have found stays true.
LEMMA FewerKeeps ==
  ASSUME GraphInv, \A i \in Keys : children'[i] \subseteq children[i],
         UNCHANGED <<call, overlapped, unchecked>>
  PROVE  WalkInv' /\ CirclesUnchecked'
<1>0. GraphTypes /\ Busy' = Busy
  BY DEF GraphInv, Busy
<1>1. \A c \in Busy : call[c] \in CallRecord
  BY <1>0, InCall DEF Busy
<1>2. WalkInv'
  BY <1>0, <1>1, WalkKept DEF GraphInv, WalkInv
<1> QED BY <1>0, <1>2, FewerEdges DEF GraphInv

\* A step of cleanup keeps the invariant.
LEMMA CleanupKeeps ==
  ASSUME GraphInv, Cleanup
  PROVE  WalkInv' /\ CirclesUnchecked' /\ RecordInv'
<1>0. GraphTypes /\ \A c \in Busy : call[c] \in CallRecord
  BY InCall DEF GraphInv, Busy
<1>1. UNCHANGED <<call, overlapped, unchecked>> /\ Busy' = Busy
  BY DEF Cleanup, RemoveExpired, PruneFind, PruneChildren,
     PruneParents, PruneClear, history, Busy
<1>2. \A i \in Keys : children'[i] \subseteq children[i]
  BY SMT, <1>0 DEF GraphTypes, Cleanup, RemoveExpired, PruneFind, PruneChildren,
     PruneParents, PruneClear, entryVars
<1>3. WalkInv' /\ CirclesUnchecked'
  BY <1>1, <1>2, FewerKeeps
<1>4. RecordInv'
  <2>1. ASSUME NEW k \in Keys, RemoveExpired(k) PROVE RecordInv'
    <3>1. /\ pruning = NoPrune /\ pruning' # NoPrune /\ pruning'.key = k /\ pruning'.pc = "find"
          /\ disturbed' = disturbed \cup CallsOn(k)
          /\ recorded' = {e \in recorded : k \notin {e[1], e[2]}}
          /\ \A i \in Keys \ {k} : /\ children'[i] = children[i] /\ parents'[i] = parents[i]
                                   /\ incarnation'[i] = incarnation[i]
      BY <1>0, <2>1 DEF RemoveExpired, GraphTypes, NoPrune
    <3>2. RecordedStays'
      BY <1>0, <3>1 DEF GraphTypes, GraphInv, RecordInv, RecordedStays
    <3>3. \A c \in Busy' \ disturbed' : Kept(call[c])'
      BY SMT, <1>0, <1>1, <3>1 DEF GraphInv, RecordInv, Kept, Spared, CallsOn, CallRecord
    <3> QED BY <3>1, <3>2, <3>3 DEF RecordInv
  <2>2. CASE PruneFind
    <3>1. /\ UNCHANGED <<children, parents, incarnation, disturbed, recorded>>
          /\ pruning # NoPrune /\ pruning.pc = "find"
          /\ pruning' = NoPrune \/ pruning'.key = pruning.key
      BY SMT, <1>0, <2>2 DEF PruneFind, entryVars, history, GraphTypes, NoPrune
    <3>2. \A c \in Busy' \ disturbed' : Kept(call[c])'
      BY <1>1, <3>1 DEF GraphInv, RecordInv, Kept, Spared
    <3> QED BY <3>1, <3>2 DEF GraphInv, RecordInv, RecordedStays
  <2>3. CASE PruneChildren \/ PruneParents
    <3>1. /\ pruning # NoPrune /\ pruning' # NoPrune /\ pruning'.key = pruning.key
          /\ pruning'.pc # "find" /\ UNCHANGED <<incarnation, disturbed, recorded>>
          /\ \A i, j \in Keys \ {pruning.key} :
               /\ j \in children[i] => j \in children'[i]
               /\ j \in parents[i] => j \in parents'[i]
      BY SMT, <1>0, <2>3 DEF PruneChildren, PruneParents, history, GraphTypes,
         NoPrune
    <3>2. \A c \in Busy' \ disturbed' : Kept(call[c])'
      BY <1>0, <1>1, <3>1 DEF GraphInv, RecordInv, Kept, Spared, CallRecord
    <3>3. RecordedStays'
      BY <1>0, <3>1 DEF GraphTypes, GraphInv, RecordInv, RecordedStays
    <3> QED BY <3>1, <3>2, <3>3 DEF GraphInv, RecordInv
  <2>4. CASE PruneClear
    <3>1. /\ pruning # NoPrune /\ pruning' = NoPrune /\ UNCHANGED <<incarnation, recorded>>
          /\ disturbed' = disturbed \cup CallsOn(pruning.key)
          /\ \A i \in Keys \ {pruning.key} : children'[i] = children[i] /\ parents'[i] = parents[i]
      BY SMT, <1>0, <2>4 DEF PruneClear, GraphTypes, NoPrune
    <3>2. \A c \in Busy' \ disturbed' : Kept(call[c])'
      BY <1>0, <1>1, <3>1 DEF GraphInv, RecordInv, Kept, Spared, CallsOn, CallRecord
    <3>3. RecordedStays'
      BY <1>0, <3>1 DEF GraphTypes, GraphInv, RecordInv, RecordedStays
    <3> QED BY <3>1, <3>2, <3>3 DEF RecordInv
  <2> QED BY <2>1, <2>2, <2>3, <2>4 DEF Cleanup
<1> QED BY <1>3, <1>4

\* Every step does.
LEMMA GraphStep == GraphInv /\ [GraphNext]_graphVars => GraphInv'
<1> SUFFICES ASSUME GraphInv, [GraphNext]_graphVars PROVE GraphInv'
  OBVIOUS
<1>1. GraphTypes'
  BY TypesStep DEF GraphInv
<1>2. CASE UNCHANGED graphVars
  BY <1>2 DEF graphVars, entryVars, history, GraphInv, GraphTypes, WalkInv, Walked,
     Closed, CirclesUnchecked,
     OnCircle, Edges, RecordInv, RecordedStays, Kept, Spared, Busy
<1>3. CASE GraphNext
  BY <1>1, <1>3, BeginKeeps, WalkKeeps, PushKeeps, ReturnKeeps, CleanupKeeps DEF GraphNext,
     Begins, Step, GraphInv
<1> QED BY <1>2, <1>3

\* For any callers and keys, and whatever cleanup removes under the walks of
\* addRelationship: a circle of dependencies has an edge that was not checked.
THEOREM CirclesNeedUnchecked == GraphSpec => []CirclesUnchecked
<1>1. GraphInv => CirclesUnchecked
  BY DEF GraphInv
<1> QED BY <1>1, GraphStart, GraphStep, PTL DEF GraphSpec

\* An edge of a call that has returned stays in both lists until an end expires.
THEOREM EdgesStay == GraphSpec => []RecordedStays
<1>1. GraphInv => RecordedStays
  BY DEF GraphInv, RecordInv
<1> QED BY <1>1, GraphStart, GraphStep, PTL DEF GraphSpec

=============================================================================
