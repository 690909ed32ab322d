----------------------- MODULE IngredientGraphProofs -----------------------
(***************************************************************************)
(* What the two walks of IngredientGraph promise, for every store and any  *)
(* ceilings: the walk stays within its ceilings and charges every          *)
(* manifest once; the discovery has read the redactions of whatever the    *)
(* walk visits; the walk takes the lineage level by level and misses none  *)
(* of it unless it reports a ceiling; and its deltas are the full ones.    *)
(*                                                                         *)
(* EachManifestChargedOnce is not inductive: it does not say that what the *)
(* walk will pop next has not been popped before.  QueueIsFresh does: the  *)
(* labels in the queue are different, reached, and not yet visited.  They  *)
(* are, because a manifest is marked reached in the step that queues it.   *)
(*                                                                         *)
(* DiscoverInv adds what the discovery has read and what still waits in    *)
(* its queue, WalkInv the levels of the walk's queue, DeltaInv the links   *)
(* met so far and the verdicts given so far.  The recursive function       *)
(* Within is reasoned about with facts on sets of numbers alone.           *)
(***************************************************************************)
EXTENDS IngredientGraph, FiniteSetTheorems, WellFoundedInduction, NaturalsInduction, TLAPS

-----------------------------------------------------------------------------
(* The strengthened invariant.                                             *)

\* A budget under its ceilings.
Under(b, lim) ==
    /\ b \in Budgets
    /\ b.nodes <= lim.nodes
    /\ b.bytes <= lim.bytes
    /\ b.references <= lim.references

\* No bytes were refused, and every charge was for another manifest.
Counts(b, charged) ==
    "bytes" \notin b.exhausted => b.nodes = Cardinality(charged)

\* The labels of q are different ones of marked, none of them charged.
FreshQueue(q, marked, charged) ==
    /\ \A i \in 1..Len(q) : q[i].label \in marked /\ q[i].label \notin charged
    /\ \A i, j \in 1..Len(q) : q[i].label = q[j].label => i = j

QueueIsFresh ==
    phase = "walk" =>
        /\ queue \in Seq(Entries)
        /\ reached \subseteq Manifests
        /\ visited \subseteq reached
        /\ "bytes" \notin budget.exhausted
        /\ FreshQueue(queue, reached, visited)

ChargeInv ==
    /\ store \in Stores
    /\ limits \in LimitSets
    /\ from \in Entries
    /\ visited \subseteq Manifests
    /\ Under(budget, limits)
    /\ Counts(budget, visited)
    /\ phase \in {"discover", "charge"} => visited = {} /\ budget = EmptyBudget
    /\ QueueIsFresh

-----------------------------------------------------------------------------
(* The budget's operations.                                                *)

\* Noting a ceiling changes nothing but the set of noted ceilings.
LEMMA NoteKeeps ==
    ASSUME NEW b \in Budgets, NEW c \in Range(Ceilings)
    PROVE  /\ Note(b, c) \in Budgets
           /\ Note(b, c).nodes = b.nodes
           /\ Note(b, c).bytes = b.bytes
           /\ Note(b, c).references = b.references
           /\ Note(b, c).exhausted = b.exhausted \cup {c}
  BY DEF Note, Budgets

\* The four names the budget notes are ceilings.
LEMMA CeilingNames ==
    {"depth", "nodes", "references", "bytes"} \subseteq Range(Ceilings)
  <1>1. DOMAIN Ceilings = 1..4
    BY DEF Ceilings
  <1>2. Ceilings[1] = "depth" /\ Ceilings[2] = "nodes" /\ Ceilings[3] = "references"
          /\ Ceilings[4] = "bytes"
    BY DEF Ceilings
  <1> QED
    BY <1>1, <1>2 DEF Range

\* Charging references keeps a budget under its ceilings (Budget::references).
LEMMA ReferencesUnder ==
    ASSUME NEW b, NEW n \in Nat, limits \in LimitSets, Under(b, limits)
    PROVE  LET r == ChargeReferences(b, n) IN
             /\ Under(r, limits)
             /\ r.nodes = b.nodes
             /\ "bytes" \in r.exhausted <=> "bytes" \in b.exhausted
  <1> DEFINE full == [b EXCEPT !.references = limits.references]
  <1>1. limits \in Limits
    BY LimitsAssumption
  <1>2. CASE ReferencesFit(b, n)
    BY <1>1, <1>2 DEF ChargeReferences, ReferencesFit, Under, Budgets, Limits
  <1>3. CASE ~ReferencesFit(b, n)
    <2>1. full \in Budgets /\ full.nodes = b.nodes /\ full.bytes = b.bytes
            /\ full.references = limits.references /\ full.exhausted = b.exhausted
      BY <1>1 DEF Under, Budgets, Limits
    <2>2. ChargeReferences(b, n) = Note(full, "references")
      BY <1>3 DEF ChargeReferences
    <2> HIDE DEF full
    <2>3. "references" \in Range(Ceilings)
      BY CeilingNames
    <2> QED
      BY <1>1, <2>1, <2>2, <2>3, NoteKeeps DEF Under, Limits
  <1> QED
    BY <1>2, <1>3

\* Charging a manifest keeps a budget under its ceilings (Budget::node, bytes);
\* the node count only moves with the manifest, or the bytes are refused.
LEMMA ManifestUnder ==
    ASSUME NEW b, NEW n \in Nat, limits \in LimitSets, Under(b, limits)
    PROVE  LET r == ChargeManifest(b, n) IN
             /\ Under(r, limits)
             /\ ManifestFits(b, n) => r.nodes = b.nodes + 1 /\ r.exhausted = b.exhausted
             /\ ~ManifestFits(b, n) /\ "bytes" \notin r.exhausted => r.nodes = b.nodes
             /\ "bytes" \in b.exhausted => "bytes" \in r.exhausted
  <1> DEFINE more == [b EXCEPT !.nodes = @ + 1]
  <1>1. limits \in Limits
    BY LimitsAssumption
  <1>2. CASE ~NodeFits(b)
    <2>1. ChargeManifest(b, n) = Note(b, "nodes")
      BY <1>2 DEF ChargeManifest
    <2>2. "nodes" \in Range(Ceilings)
      BY CeilingNames
    <2> QED
      BY <1>2, <2>1, <2>2, NoteKeeps DEF Under, ManifestFits
  <1>3. CASE NodeFits(b) /\ ~BytesFit(b, n)
    <2>1. more \in Budgets /\ more.nodes = b.nodes + 1 /\ more.bytes = b.bytes
            /\ more.references = b.references /\ more.exhausted = b.exhausted
            /\ more.nodes <= limits.nodes
      BY <1>1, <1>3 DEF Under, Budgets, Limits, NodeFits
    <2>2. ChargeManifest(b, n) = Note(more, "bytes")
      BY <1>3 DEF ChargeManifest
    <2> HIDE DEF more
    <2>3. "bytes" \in Range(Ceilings)
      BY CeilingNames
    <2> QED
      BY <1>3, <2>1, <2>2, <2>3, NoteKeeps DEF Under, ManifestFits
  <1>4. CASE NodeFits(b) /\ BytesFit(b, n)
    <2> DEFINE r == [b EXCEPT !.nodes = @ + 1, !.bytes = @ + n]
    <2>1. ChargeManifest(b, n) = r
      BY <1>4 DEF ChargeManifest
    <2>2. b \in Budgets /\ b.nodes + 1 \in Nat /\ b.bytes + n \in Nat
      BY DEF Under, Budgets
    <2>3. r.nodes = b.nodes + 1 /\ r.bytes = b.bytes + n
            /\ r.references = b.references /\ r.exhausted = b.exhausted
      BY <2>2 DEF Budgets
    <2>4. r \in Budgets
      BY <2>2 DEF Budgets
    <2>5. r.nodes <= limits.nodes /\ r.bytes <= limits.bytes
      BY <1>1, <1>4, <2>3 DEF Under, Budgets, Limits, NodeFits, BytesFit
    <2> HIDE DEF r
    <2> QED
      BY <1>4, <2>1, <2>3, <2>4, <2>5 DEF Under, ManifestFits
  <1> QED
    BY <1>2, <1>3, <1>4

-----------------------------------------------------------------------------
(* The queue.                                                              *)

\* Popping the head leaves a fresh queue, also when the head is then charged.
LEMMA PopFresh ==
    ASSUME NEW q \in Seq(Entries), q # <<>>, NEW marked, NEW charged,
           FreshQueue(q, marked, charged)
    PROVE  /\ Tail(q) \in Seq(Entries)
           /\ Head(q) \in Entries
           /\ Head(q).label \in marked
           /\ Head(q).label \notin charged
           /\ FreshQueue(Tail(q), marked, charged \cup {Head(q).label})
  <1>1. Len(q) \in Nat /\ Len(q) >= 1 /\ Head(q) = q[1] /\ Head(q) \in Entries
    OBVIOUS
  <1>2. /\ Tail(q) \in Seq(Entries)
        /\ Len(Tail(q)) = Len(q) - 1
        /\ \A i \in 1..Len(Tail(q)) : Tail(q)[i] = q[i + 1] /\ i + 1 \in 1..Len(q)
    OBVIOUS
  <1>3. 1 \in 1..Len(q)
    BY <1>1
  <1>4. Head(q).label \in marked /\ Head(q).label \notin charged
    BY <1>1, <1>3 DEF FreshQueue
  <1>5. ASSUME NEW i \in 1..Len(Tail(q))
        PROVE  /\ Tail(q)[i].label \in marked
               /\ Tail(q)[i].label \notin charged \cup {Head(q).label}
    <2>1. q[i + 1].label \in marked /\ q[i + 1].label \notin charged
      BY <1>2, <1>5 DEF FreshQueue
    <2>2. q[i + 1].label # q[1].label
      <3>1. i + 1 # 1
        BY <1>1, <1>2, <1>5
      <3> QED
        BY <1>2, <1>3, <1>5, <3>1 DEF FreshQueue
    <2> QED
      BY <1>1, <1>2, <2>1, <2>2
  <1>6. ASSUME NEW i \in 1..Len(Tail(q)), NEW j \in 1..Len(Tail(q)),
               Tail(q)[i].label = Tail(q)[j].label
        PROVE  i = j
    <2>1. i + 1 = j + 1
      BY <1>2, <1>6 DEF FreshQueue
    <2> QED
      BY <1>1, <1>2, <1>6, <2>1
  <1> QED
    BY <1>1, <1>2, <1>4, <1>5, <1>6 DEF FreshQueue

\* Queueing a label as it is marked keeps the queue fresh.
LEMMA PushFresh ==
    ASSUME NEW q \in Seq(Entries), NEW marked, NEW charged, NEW e \in Entries,
           e.label \notin marked, charged \subseteq marked,
           FreshQueue(q, marked, charged)
    PROVE  /\ Append(q, e) \in Seq(Entries)
           /\ FreshQueue(Append(q, e), marked \cup {e.label}, charged)
  <1>1. /\ Append(q, e) \in Seq(Entries)
        /\ Len(Append(q, e)) = Len(q) + 1
        /\ Append(q, e)[Len(q) + 1] = e
        /\ \A i \in 1..Len(q) : Append(q, e)[i] = q[i]
        /\ Len(q) \in Nat
    OBVIOUS
  <1>2. \A i \in 1..(Len(q) + 1) : i \in 1..Len(q) \/ i = Len(q) + 1
    BY <1>1
  <1>3. \A i \in 1..Len(q) : q[i].label \in marked /\ q[i].label # e.label
    BY DEF FreshQueue
  <1> DEFINE r == Append(q, e)
  <1> HIDE DEF r
  <1>4. ASSUME NEW i \in 1..Len(r)
        PROVE  r[i].label \in marked \cup {e.label} /\ r[i].label \notin charged
    <2>1. CASE i \in 1..Len(q)
      BY <1>1, <2>1 DEF FreshQueue, r
    <2>2. CASE i = Len(q) + 1
      BY <1>1, <2>2 DEF r
    <2> QED
      BY <1>1, <1>2, <2>1, <2>2 DEF r
  <1>5. ASSUME NEW i \in 1..Len(r), NEW j \in 1..Len(r), r[i].label = r[j].label
        PROVE  i = j
    <2>1. CASE i \in 1..Len(q) /\ j \in 1..Len(q)
      BY <1>1, <1>5, <2>1 DEF FreshQueue, r
    <2>2. CASE i = Len(q) + 1 /\ j \in 1..Len(q)
      BY <1>1, <1>3, <1>5, <2>2 DEF r
    <2>3. CASE j = Len(q) + 1 /\ i \in 1..Len(q)
      BY <1>1, <1>3, <1>5, <2>3 DEF r
    <2>4. CASE i = Len(q) + 1 /\ j = Len(q) + 1
      BY <2>4
    <2> QED
      BY <1>1, <1>2, <2>1, <2>2, <2>3, <2>4 DEF r
  <1> QED
    BY <1>1, <1>4, <1>5 DEF FreshQueue, r

\* One more manifest in a finite set of them.
LEMMA CountOneMore ==
    ASSUME NEW charged, charged \subseteq Manifests, store \in Stores, NEW l, l \notin charged
    PROVE  Cardinality(charged \cup {l}) = Cardinality(charged) + 1
  <1>1. charged \subseteq Labels
    BY StoresAssumption DEF Manifests
  <1>2. IsFiniteSet(charged)
    BY <1>1, LabelsAssumption, FS_Subset
  <1> QED
    BY <1>2, FS_AddElement

-----------------------------------------------------------------------------
(* The steps.                                                              *)

\* A step of the discovery leaves the walk's state as it was.
LEMMA DiscoverKeeps ==
    ASSUME ChargeInv, DiscoverExhausted \/ DiscoverSkip \/ DiscoverManifest
    PROVE  ChargeInv'
  <1>1. phase = "discover" /\ UNCHANGED <<store, limits, from, budget, reached, visited>>
    BY DEF DiscoverExhausted, DiscoverSkip, DiscoverManifest, inputs, walkState
  <1>2. phase' \in {"discover", "charge"}
    BY DEF DiscoverExhausted, DiscoverSkip, DiscoverManifest, DiscoverOpen, EndDiscovery
  <1>3. phase' # "walk"
    BY <1>2
  <1> QED
    BY <1>1, <1>2, <1>3 DEF ChargeInv, QueueIsFresh, Manifests

\* Budget::new is under every ceiling.
LEMMA EmptyBudgetUnder ==
    ASSUME limits \in LimitSets
    PROVE  Under(EmptyBudget, limits) /\ Counts(EmptyBudget, {})
  <1>1. limits \in Limits
    BY LimitsAssumption
  <1>2. EmptyBudget \in Budgets
    BY DEF EmptyBudget, Budgets
  <1>3. Cardinality({}) = 0
    BY FS_EmptySet
  <1> QED
    BY <1>1, <1>2, <1>3 DEF Under, Counts, EmptyBudget, Limits

\* Charging the active manifest's references preserves the invariant.
LEMMA ChargeActiveKeeps ==
    ASSUME ChargeInv, ChargeActive
    PROVE  ChargeInv'
  <1> DEFINE charged == ChargeReferences(budget, store[Active].references)
  <1>1. /\ phase = "charge"
        /\ budget' = charged
        /\ UNCHANGED <<store, limits, from, visited>>
    BY DEF ChargeActive, inputs
  <1>2. store[Active].references \in Nat /\ Active \in Manifests /\ Active \in Labels
    BY StoresAssumption DEF ChargeInv, Manifests
  <1>3. /\ Under(charged, limits)
        /\ charged.nodes = budget.nodes
        /\ "bytes" \in charged.exhausted <=> "bytes" \in budget.exhausted
    BY <1>2, ReferencesUnder DEF ChargeInv
  <1> HIDE DEF charged
  <1>4. visited = {} /\ budget = EmptyBudget
    BY <1>1 DEF ChargeInv
  <1>5. Counts(charged, visited) /\ "bytes" \notin charged.exhausted
    BY <1>3, <1>4 DEF ChargeInv, Counts, EmptyBudget
  <1>6. phase' \in {"walk", "done"}
    BY DEF ChargeActive
  <1>7. ASSUME phase' = "walk" PROVE QueueIsFresh'
    <2>1. queue' = <<Entry(Active, 0)>> /\ reached' = {Active}
      BY <1>7 DEF ChargeActive
    <2>2. Entry(Active, 0) \in Entries /\ Entry(Active, 0).label = Active
      BY <1>2 DEF Entry, Entries
    <2> DEFINE e == Entry(Active, 0)
    <2> HIDE DEF e
    <2>3. e \in Entries /\ e.label = Active /\ queue' = <<e>>
      BY <2>1, <2>2 DEF e
    <2>4. queue' \in Seq(Entries) /\ Len(queue') = 1 /\ queue'[1] = e
      BY <2>3
    <2>5. FreshQueue(queue', {Active}, {})
      BY <2>3, <2>4 DEF FreshQueue
    <2> QED
      BY <1>1, <1>2, <1>4, <1>5, <2>1, <2>4, <2>5 DEF QueueIsFresh, Manifests
  <1>8. QueueIsFresh'
    BY <1>7 DEF QueueIsFresh
  <1> QED
    BY <1>1, <1>3, <1>5, <1>6, <1>8 DEF ChargeInv, Manifests

\* The end of the walk only needs its budget to be right.
LEMMA EndKeeps ==
    ASSUME ChargeInv, NEW b, NEW met, NEW codes, EndWalk(b, met, codes),
           UNCHANGED <<store, limits>>, from' \in Entries,
           visited' \subseteq Manifests, Under(b, limits), Counts(b, visited')
    PROVE  ChargeInv'
  <1>1. budget' = b /\ phase' = "done"
    BY DEF EndWalk
  <1> QED
    BY <1>1 DEF ChargeInv, QueueIsFresh, Manifests

\* A turn of build's outer loop preserves the invariant.
LEMMA WalkManifestKeeps ==
    ASSUME ChargeInv, WalkManifest
    PROVE  ChargeInv'
  <1> DEFINE l == Head(queue).label
             n == store[l].bytes
             b == ChargeManifest(budget, n)
  <1>1. /\ phase = "walk" /\ queue # <<>>
        /\ from' = Head(queue)
        /\ UNCHANGED <<store, limits, reached>>
    BY DEF WalkManifest, inputs
  <1>2. /\ queue \in Seq(Entries)
        /\ reached \subseteq Manifests
        /\ visited \subseteq reached
        /\ "bytes" \notin budget.exhausted
        /\ FreshQueue(queue, reached, visited)
    BY <1>1 DEF ChargeInv, QueueIsFresh
  <1>3. /\ Tail(queue) \in Seq(Entries)
        /\ Head(queue) \in Entries
        /\ l \in reached
        /\ l \notin visited
        /\ FreshQueue(Tail(queue), reached, visited \cup {l})
    BY <1>1, <1>2, PopFresh
  <1>4. n \in Nat /\ store[l].references \in Nat
    BY <1>2, <1>3, StoresAssumption DEF ChargeInv, Manifests
  <1>5. budget.nodes = Cardinality(visited) /\ Under(budget, limits)
    BY <1>2 DEF ChargeInv, Counts
  <1>6. /\ Under(b, limits)
        /\ ManifestFits(budget, n) => b.nodes = budget.nodes + 1 /\ b.exhausted = budget.exhausted
        /\ ~ManifestFits(budget, n) /\ "bytes" \notin b.exhausted => b.nodes = budget.nodes
    BY <1>4, <1>5, ManifestUnder DEF ChargeInv
  <1>7. Cardinality(visited \cup {l}) = Cardinality(visited) + 1
    BY <1>2, <1>3, CountOneMore DEF ChargeInv
  <1>8. visited \cup {l} \subseteq Manifests
    BY <1>2, <1>3
  <1>9. \/ /\ ~ManifestFits(budget, n)
           /\ EndWalk(b, pending, results)
           /\ visited' = visited
        \/ /\ ManifestFits(budget, n)
           /\ visited' = visited \cup {l}
           /\ budget' = b
           /\ phase' = phase
           /\ queue' = Tail(queue)
        \/ /\ ManifestFits(budget, n)
           /\ visited' = visited \cup {l}
           /\ WalkOpen(l, b)
    BY DEF WalkManifest
  <1> HIDE DEF l, n, b
  <1>10. CASE ~ManifestFits(budget, n) /\ EndWalk(b, pending, results) /\ visited' = visited
    <2>1. Counts(b, visited')
      BY <1>5, <1>6, <1>10 DEF Counts
    <2>2. visited' \subseteq Manifests
      BY <1>10 DEF ChargeInv
    <2> QED
      BY <1>1, <1>3, <1>6, <1>10, <2>1, <2>2, EndKeeps
  <1>11. ASSUME NEW c, ManifestFits(budget, n), visited' = visited \cup {l},
                Under(c, limits), c.nodes = b.nodes,
                "bytes" \in c.exhausted <=> "bytes" \in b.exhausted
         PROVE  /\ Counts(c, visited')
                /\ "bytes" \notin c.exhausted
                /\ budget' = c /\ phase' = phase /\ queue' = Tail(queue) => ChargeInv'
    <2>1. c.nodes = Cardinality(visited') /\ "bytes" \notin c.exhausted
      BY <1>2, <1>5, <1>6, <1>7, <1>11
    <2>2. Counts(c, visited')
      BY <2>1 DEF Counts
    <2>3. visited' \subseteq Manifests /\ visited' \subseteq reached
      BY <1>2, <1>3, <1>8, <1>11
    <2>4. ASSUME budget' = c, phase' = phase, queue' = Tail(queue) PROVE ChargeInv'
      <3>1. QueueIsFresh'
        BY <1>1, <1>2, <1>3, <1>11, <2>1, <2>3, <2>4 DEF QueueIsFresh, Manifests
      <3> QED
        BY <1>1, <1>3, <1>11, <2>2, <2>3, <2>4, <3>1 DEF ChargeInv, Manifests
    <2> QED
      BY <2>1, <2>2, <2>4
  <1>12. CASE /\ ManifestFits(budget, n) /\ visited' = visited \cup {l}
              /\ budget' = b /\ phase' = phase /\ queue' = Tail(queue)
    BY <1>6, <1>11, <1>12
  <1>13. CASE ManifestFits(budget, n) /\ visited' = visited \cup {l} /\ WalkOpen(l, b)
    <2> DEFINE examined == IF l = Active THEN 0 ELSE store[l].references
               referred == ChargeReferences(b, examined)
               linked == ChargeReferences(referred, Len(Edges(l, index)))
    <2>1. examined \in Nat /\ Len(Edges(l, index)) \in Nat
      BY <1>4 DEF Edges
    <2>2. /\ Under(referred, limits)
          /\ referred.nodes = b.nodes
          /\ "bytes" \in referred.exhausted <=> "bytes" \in b.exhausted
      BY <1>6, <2>1, ReferencesUnder DEF ChargeInv
    <2> HIDE DEF examined, referred
    <2>3. /\ Under(linked, limits)
          /\ linked.nodes = b.nodes
          /\ "bytes" \in linked.exhausted <=> "bytes" \in b.exhausted
      BY <2>1, <2>2, ReferencesUnder DEF ChargeInv
    <2> HIDE DEF linked
    <2>4. \/ \E codes : EndWalk(referred, pending, codes)
          \/ \E codes : EndWalk(linked, pending, codes)
          \/ budget' = linked /\ phase' = phase /\ queue' = Tail(queue)
      BY <1>13 DEF WalkOpen, referred, linked, examined
    <2>5. Counts(referred, visited') /\ Counts(linked, visited')
      BY <1>11, <1>13, <2>2, <2>3
    <2>6. visited' \subseteq Manifests
      BY <1>8, <1>13
    <2>7. CASE \E codes : EndWalk(referred, pending, codes)
      BY <1>1, <1>3, <2>2, <2>5, <2>6, <2>7, EndKeeps
    <2>8. CASE \E codes : EndWalk(linked, pending, codes)
      BY <1>1, <1>3, <2>3, <2>5, <2>6, <2>8, EndKeeps
    <2>9. CASE budget' = linked /\ phase' = phase /\ queue' = Tail(queue)
      BY <1>11, <1>13, <2>3, <2>9
    <2> QED
      BY <2>4, <2>7, <2>8, <2>9
  <1> QED
    BY <1>9, <1>10, <1>12, <1>13

\* A turn of build's loop over links preserves the invariant.
LEMMA FollowLinkKeeps ==
    ASSUME ChargeInv, FollowLink
    PROVE  ChargeInv'
  <1> DEFINE a == Head(links)
             d == from.depth + 1
  <1>1. phase = "walk" /\ UNCHANGED <<store, limits, from, visited>>
    BY DEF FollowLink, inputs
  <1>2. /\ queue \in Seq(Entries)
        /\ reached \subseteq Manifests
        /\ visited \subseteq reached
        /\ "bytes" \notin budget.exhausted
        /\ FreshQueue(queue, reached, visited)
        /\ Under(budget, limits)
        /\ budget.nodes = Cardinality(visited)
    BY <1>1 DEF ChargeInv, QueueIsFresh, Counts
  <1>3. \/ UNCHANGED <<phase, queue, budget, reached>>
        \/ /\ a.target \in Manifests /\ a.target \notin reached
           /\ reached' = reached \cup {a.target}
           /\ queue' = Append(queue, Entry(a.target, d))
           /\ UNCHANGED <<phase, budget>>
        \/ \E met : EndWalk(Note(budget, "depth"), met, results)
    BY DEF FollowLink, InStore, IsFresh
  <1>4. CASE UNCHANGED <<phase, queue, budget, reached>>
    BY <1>1, <1>4 DEF ChargeInv, QueueIsFresh, Manifests
  <1>5. CASE /\ a.target \in Manifests /\ a.target \notin reached
             /\ reached' = reached \cup {a.target}
             /\ queue' = Append(queue, Entry(a.target, d))
             /\ UNCHANGED <<phase, budget>>
    <2>1. a.target \in Labels
      BY <1>5, StoresAssumption DEF ChargeInv, Manifests
    <2>2. Entry(a.target, d) \in Entries /\ Entry(a.target, d).label = a.target
      BY <2>1 DEF ChargeInv, Entry, Entries
    <2> DEFINE e == Entry(a.target, d)
    <2> HIDE DEF e
    <2>3. e \in Entries /\ e.label = a.target /\ queue' = Append(queue, e)
      BY <1>5, <2>2 DEF e
    <2>4. queue' \in Seq(Entries) /\ FreshQueue(queue', reached', visited)
      BY <1>2, <1>5, <2>3, PushFresh
    <2>5. reached' \subseteq Manifests /\ visited \subseteq reached'
      BY <1>2, <1>5
    <2>6. QueueIsFresh'
      BY <1>1, <1>2, <1>5, <2>4, <2>5 DEF QueueIsFresh, Manifests
    <2> QED
      BY <1>1, <1>5, <2>6 DEF ChargeInv, Manifests
  <1>6. CASE \E met : EndWalk(Note(budget, "depth"), met, results)
    <2>1. "depth" \in Range(Ceilings) /\ budget \in Budgets
      BY <1>2, CeilingNames DEF Under
    <2>2. Under(Note(budget, "depth"), limits) /\ Counts(Note(budget, "depth"), visited)
      BY <1>2, <2>1, NoteKeeps DEF Under, Counts
    <2>3. from' \in Entries /\ visited' \subseteq Manifests
      BY <1>1 DEF ChargeInv
    <2> QED
      BY <1>1, <1>6, <2>2, <2>3, EndKeeps
  <1> QED
    BY <1>3, <1>4, <1>5, <1>6

\* The end of build on an empty queue preserves the invariant.
LEMMA WalkExhaustedKeeps ==
    ASSUME ChargeInv, WalkExhausted
    PROVE  ChargeInv'
  <1>1. /\ EndWalk(budget, pending, results)
        /\ UNCHANGED <<store, limits, from, visited>>
    BY DEF WalkExhausted, inputs
  <1>2. /\ from' \in Entries /\ visited' \subseteq Manifests
        /\ Under(budget, limits) /\ Counts(budget, visited')
    BY <1>1 DEF ChargeInv
  <1> QED
    BY <1>1, <1>2, EndKeeps

\* The strengthened invariant holds of every reachable state.
LEMMA ChargeInvariant == Spec => []ChargeInv
  <1>1. Init => ChargeInv
    <2> SUFFICES ASSUME Init PROVE ChargeInv
      OBVIOUS
    <2>1. /\ store \in Stores /\ limits \in LimitSets /\ phase = "discover"
          /\ budget = EmptyBudget /\ visited = {} /\ from = Entry(Active, 0)
      BY DEF Init
    <2>2. Active \in Labels
      BY <2>1, StoresAssumption
    <2>3. from \in Entries
      BY <2>1, <2>2 DEF Entry, Entries
    <2> QED
      BY <2>1, <2>3, EmptyBudgetUnder DEF ChargeInv, QueueIsFresh
  <1>2. ChargeInv /\ [Next]_vars => ChargeInv'
    <2> SUFFICES ASSUME ChargeInv, [Next]_vars PROVE ChargeInv'
      OBVIOUS
    <2>1. CASE Next
      BY <2>1, DiscoverKeeps, ChargeActiveKeeps, WalkExhaustedKeeps, WalkManifestKeeps,
         FollowLinkKeeps DEF Next
    <2>2. CASE UNCHANGED vars
      BY <2>2 DEF vars, ChargeInv, QueueIsFresh, Manifests
    <2> QED
      BY <2>1, <2>2
  <1> QED
    BY <1>1, <1>2, PTL DEF Spec

\* The walk never exceeds its node, byte or reference ceiling, and its node
\* count is the number of different manifests it charged: whatever the links,
\* build enters no manifest twice.
THEOREM ChargedOnce == Spec => []EachManifestChargedOnce
  <1>1. ChargeInv => EachManifestChargedOnce
    BY DEF ChargeInv, Under, Counts, EachManifestChargedOnce
  <1> QED
    BY <1>1, ChargeInvariant, PTL

-----------------------------------------------------------------------------
(* Numbers, recursive functions and ordered lists.                         *)

\* A set of natural numbers that is not empty has a least element.
LEMMA LeastNat ==
    ASSUME NEW T \in SUBSET Nat, T # {}
    PROVE  \E n \in T : \A m \in T : n <= m
  <1>1. PICK x \in T : \A y \in T : ~(<<y, x>> \in OpToRel(<, Nat))
    BY NatLessThanWellFounded, WFMin, Zenon
  <1>2. \A y \in T : ~(y < x)
    BY <1>1, Zenon DEF OpToRel
  <1> QED
    BY <1>2

\* Induction, for a set of numbers.
LEMMA Inductive ==
    ASSUME NEW S, 0 \in S, \A n \in Nat : n \in S => n + 1 \in S
    PROVE  \A n \in Nat : n \in S
  <1> SUFFICES ASSUME Nat \ S # {} PROVE FALSE
    OBVIOUS
  <1> DEFINE T == Nat \ S
  <1>1. T \in SUBSET Nat /\ T # {}
    OBVIOUS
  <1>2. PICK i \in T : \A m \in T : i <= m
    <2> HIDE DEF T
    <2> QED
      BY <1>1, LeastNat
  <1> QED
    BY <1>2

\* f takes `step` at every number up to n, from `base` on.
Climbs(f, n, base, step) == f[0] = base /\ \A i \in 1..n : f[i] = step[f[i - 1]]

\* A first value and a step define a sequence of values.
LEMMA Recursion ==
    ASSUME NEW P, NEW base \in P, NEW step \in [P -> P]
    PROVE  \E f \in [Nat -> P] : f[0] = base /\ \A n \in Nat : f[n + 1] = step[f[n]]
  <1> DEFINE S == {n \in Nat : \E f \in [Nat -> P] : Climbs(f, n, base, step)}
  <1>1. 0 \in S
    <2> DEFINE f == [i \in Nat |-> base]
    <2>1. f \in [Nat -> P] /\ Climbs(f, 0, base, step)
      BY DEF Climbs
    <2> QED
      BY <2>1
  <1>2. \A n \in Nat : n \in S => n + 1 \in S
    <2> SUFFICES ASSUME NEW n \in Nat, n \in S PROVE n + 1 \in S
      OBVIOUS
    <2>1. PICK f \in [Nat -> P] : Climbs(f, n, base, step)
      OBVIOUS
    <2> DEFINE g == [f EXCEPT ![n + 1] = step[f[n]]]
    <2>2. step[f[n]] \in P
      OBVIOUS
    <2>3. g \in [Nat -> P] /\ g[n + 1] = step[f[n]] /\ \A i \in 0..n : g[i] = f[i]
      BY <2>2
    <2> HIDE DEF g
    <2>4. \A i \in 1..(n + 1) : i - 1 \in 0..n /\ (i \in 1..n \/ i = n + 1)
      OBVIOUS
    <2>5. ASSUME NEW i \in 1..(n + 1) PROVE g[i] = step[g[i - 1]]
      <3>1. CASE i \in 1..n
        BY <2>1, <2>3, <2>4, <3>1 DEF Climbs
      <3>2. CASE i = n + 1
        BY <2>3, <2>4, <3>2
      <3> QED
        BY <2>4, <3>1, <3>2
    <2>6. Climbs(g, n + 1, base, step)
      BY <2>1, <2>3, <2>5 DEF Climbs
    <2> QED
      BY <2>3, <2>6
  <1>3. \A n \in Nat : n \in S
    <2> HIDE DEF S
    <2> QED
      BY <1>1, <1>2, Inductive
  <1>4. ASSUME NEW f, NEW g, NEW n \in Nat, NEW m \in Nat, n <= m,
               Climbs(f, n, base, step), Climbs(g, m, base, step)
        PROVE  f[n] = g[n]
    <2> DEFINE E == {i \in Nat : i <= n => f[i] = g[i]}
    <2>1. 0 \in E
      BY <1>4 DEF Climbs
    <2>2. ASSUME NEW i \in Nat, i \in E PROVE i + 1 \in E
      <3> SUFFICES ASSUME i + 1 <= n PROVE f[i + 1] = g[i + 1]
        OBVIOUS
      <3>1. i + 1 \in 1..n /\ i + 1 \in 1..m /\ (i + 1) - 1 = i /\ f[i] = g[i]
        BY <1>4, <2>2
      <3> QED
        BY <1>4, <3>1 DEF Climbs
    <2>3. \A i \in Nat : i \in E
      <3> HIDE DEF E
      <3> QED
        BY <2>1, <2>2, Inductive
    <2> QED
      BY <2>3
  <1> DEFINE c(n) == CHOOSE f \in [Nat -> P] : Climbs(f, n, base, step)
             h == [n \in Nat |-> c(n)[n]]
  <1>5. ASSUME NEW n \in Nat PROVE c(n) \in [Nat -> P] /\ Climbs(c(n), n, base, step)
    <2>1. \E f \in [Nat -> P] : Climbs(f, n, base, step)
      BY <1>3
    <2> QED
      BY <2>1
  <1> HIDE DEF c
  <1>6. h \in [Nat -> P]
    BY <1>5
  <1>7. h[0] = base
    BY <1>5 DEF Climbs
  <1>8. ASSUME NEW n \in Nat PROVE h[n + 1] = step[h[n]]
    <2>1. n + 1 \in Nat /\ n + 1 \in 1..(n + 1) /\ (n + 1) - 1 = n /\ n <= n + 1
      OBVIOUS
    <2>2. c(n + 1)[n + 1] = step[c(n + 1)[n]]
      BY <1>5, <2>1 DEF Climbs
    <2>3. c(n)[n] = c(n + 1)[n]
      BY <1>4, <1>5, <2>1
    <2> QED
      BY <2>1, <2>2, <2>3
  <1> HIDE DEF h
  <1> QED
    BY <1>6, <1>7, <1>8

\* q lists the members of S, each once.
Lists(q, S) ==
    /\ q \in Seq(S)
    /\ Len(q) = Cardinality(S)
    /\ \A x \in S : \E n \in 1..Len(q) : q[n] = x
    /\ \A m, n \in 1..Len(q) : q[m] = q[n] => m = n

\* Ascending lists a finite set of numbers: members have different ranks, so
\* every rank is some member's.
LEMMA AscendingLists ==
    ASSUME NEW S \in SUBSET Nat, IsFiniteSet(S)
    PROVE  Lists(Ascending(S), S)
  <1> DEFINE Below(i) == {j \in S : j <= i}
             N == Cardinality(S)
             rank == [i \in S |-> Cardinality(Below(i))]
  <1>1. N \in Nat
    BY FS_CardinalityType
  <1>2. ASSUME NEW i \in S
        PROVE  IsFiniteSet(Below(i)) /\ Cardinality(Below(i)) \in 1..N
    <2>1. Below(i) \in SUBSET S /\ i \in Below(i)
      OBVIOUS
    <2>2. IsFiniteSet(Below(i)) /\ Cardinality(Below(i)) <= N
      BY <2>1, FS_Subset
    <2>3. Cardinality(Below(i)) \in Nat /\ Cardinality(Below(i)) # 0
      <3> HIDE DEF Below
      <3> QED
        BY <2>1, <2>2, FS_CardinalityType, FS_EmptySet
    <2> QED
      BY <1>1, <2>2, <2>3
  <1>3. ASSUME NEW i \in S, NEW k \in S, i < k PROVE rank[i] # rank[k]
    <2>1. Below(i) \in SUBSET Below(k)
      <3>1. \A j \in S : j <= i => j <= k
        BY <1>3
      <3> QED
        BY <3>1
    <2>2. k \in Below(k) /\ k \notin Below(i)
      BY <1>3
    <2>3. IsFiniteSet(Below(k))
      BY <1>2
    <2> HIDE DEF Below
    <2>4. Cardinality(Below(k)) # Cardinality(Below(i))
      BY <2>1, <2>2, <2>3, FS_Subset
    <2> QED
      BY <2>4
  <1>4. \A i, k \in S : rank[i] = rank[k] => i = k
    BY <1>3
  <1>5. rank \in [S -> 1..N]
    BY <1>2
  <1>6. rank \in Injection(S, 1..N)
    BY <1>4, <1>5 DEF Injection, IsInjective
  <1>7. IsFiniteSet(1..N) /\ Cardinality(1..N) = N
    BY <1>1, FS_Interval
  <1>8. rank \in Surjection(S, 1..N)
    BY <1>6, <1>7, FS_Injection
  <1>9. \A n \in 1..N : \E i \in S : rank[i] = n
    BY <1>8 DEF Surjection
  <1> DEFINE q == Ascending(S)
  <1>10. /\ q = [n \in 1..N |-> q[n]]
         /\ \A n \in 1..N : q[n] = CHOOSE i \in S : Cardinality(Below(i)) = n
    BY DEF Ascending
  <1>11. \A n \in 1..N : q[n] \in S /\ rank[q[n]] = n
    <2> SUFFICES ASSUME NEW n \in 1..N PROVE q[n] \in S /\ Cardinality(Below(q[n])) = n
      OBVIOUS
    <2>1. \E i \in S : Cardinality(Below(i)) = n
      BY <1>9
    <2> HIDE DEF q, Below
    <2> QED
      BY <1>10, <2>1
  <1> HIDE DEF rank, q, N
  <1>12. q \in [1..N -> S]
    BY <1>10, <1>11
  <1>13. q \in Seq(S) /\ Len(q) = N
    BY <1>1, <1>12
  <1>14. ASSUME NEW x \in S PROVE \E n \in 1..N : q[n] = x
    <2>1. rank[x] \in 1..N
      BY <1>5
    <2>2. q[rank[x]] \in S /\ rank[q[rank[x]]] = rank[x]
      BY <1>11, <2>1
    <2> QED
      BY <1>4, <2>1, <2>2
  <1>15. \A m, n \in 1..N : q[m] = q[n] => m = n
    BY <1>11
  <1> QED
    BY <1>13, <1>14, <1>15 DEF Lists, q, N

\* A listing is a sequence over its set.
LEMMA ListsFacts ==
    ASSUME NEW q, NEW S, Lists(q, S)
    PROVE  /\ Len(q) \in Nat /\ DOMAIN q = 1..Len(q)
           /\ \A n \in 1..Len(q) : q[n] \in S
           /\ \A x \in S : \E n \in 1..Len(q) : q[n] = x
           /\ \A m, n \in 1..Len(q) : q[m] = q[n] => m = n
  BY DEF Lists

\* What the edges of a manifest are, whatever the redactions.
EdgesAre(l, r) ==
    LET e == Edges(l, r) IN
      /\ e \in Seq(Named(l))
      /\ \A n \in 1..Len(e) : Eligible(l, e[n], r)
      /\ \A a \in Named(l) : Eligible(l, a, r) => \E n \in 1..Len(e) : e[n] = a
      /\ Targets(e) = {a.target : a \in {a \in Named(l) : Eligible(l, a, r)}}
      /\ Targets(e) \subseteq Labels

\* edges() keeps the eligible references of a claim and no other.
LEMMA EdgesKeep ==
    ASSUME store \in Stores, NEW l \in Manifests, NEW r
    PROVE  EdgesAre(l, r)
  <1> DEFINE s == store[l].assertions
             S == {i \in DOMAIN s : Eligible(l, s[i], r)}
             order == Ascending(S)
             e == Edges(l, r)
  <1>1. s \in Seq(Named(l)) /\ \A i \in DOMAIN s : s[i].target \in Labels \cup {None}
    BY StoresAssumption DEF Manifests, Named
  <1>2. Len(s) \in Nat /\ DOMAIN s = 1..Len(s) /\ Named(l) = {s[i] : i \in DOMAIN s}
    BY <1>1 DEF Named, Range
  <1> HIDE DEF s
  <1>3. S \in SUBSET Nat /\ IsFiniteSet(S)
    <2>1. S \in SUBSET (1..Len(s)) /\ IsFiniteSet(1..Len(s))
      BY <1>2, FS_Interval
    <2> QED
      BY <1>2, <2>1, FS_Subset
  <1>4. Lists(order, S)
    <2> HIDE DEF S
    <2> QED
      BY <1>3, AscendingLists
  <1>5. e = [n \in DOMAIN order |-> s[order[n]]]
    BY DEF Edges, s
  <1>6. /\ Len(order) \in Nat /\ DOMAIN order = 1..Len(order)
        /\ \A n \in 1..Len(order) : order[n] \in S
        /\ \A x \in S : \E n \in 1..Len(order) : order[n] = x
    <2> HIDE DEF S, order
    <2> QED
      BY <1>4, ListsFacts
  <1> HIDE DEF order, e
  <1>7. \A n \in 1..Len(order) : e[n] = s[order[n]] /\ e[n] \in Named(l) /\ Eligible(l, e[n], r)
    BY <1>2, <1>5, <1>6
  <1>8. e \in Seq(Named(l)) /\ Len(e) = Len(order) /\ DOMAIN e = 1..Len(e)
    <2>1. e \in [1..Len(order) -> Named(l)]
      BY <1>5, <1>6, <1>7
    <2> QED
      BY <1>6, <2>1
  <1>9. ASSUME NEW a \in Named(l), Eligible(l, a, r) PROVE \E n \in 1..Len(e) : e[n] = a
    <2>1. PICK i \in DOMAIN s : s[i] = a
      BY <1>2
    <2>2. i \in S
      BY <1>9, <2>1
    <2>3. PICK n \in 1..Len(order) : order[n] = i
      BY <1>6, <2>2
    <2> QED
      BY <1>7, <1>8, <2>1, <2>3
  <1>10. Targets(e) = {a.target : a \in {a \in Named(l) : Eligible(l, a, r)}}
    <2>1. Targets(e) = {e[n].target : n \in 1..Len(e)}
      BY <1>8 DEF Targets
    <2> QED
      BY <1>7, <1>8, <1>9, <2>1
  <1>11. ASSUME NEW a \in Named(l), Eligible(l, a, r) PROVE a.target \in Labels
    BY <1>1, <1>2, <1>11 DEF Eligible
  <1>12. Targets(e) \subseteq Labels
    BY <1>10, <1>11
  <1> QED
    BY <1>7, <1>8, <1>9, <1>10, <1>12 DEF EdgesAre, e

\* A redaction only removes links.
LEMMA FewerEdges ==
    ASSUME store \in Stores, NEW l \in Manifests, NEW r
    PROVE  Targets(Edges(l, r)) \subseteq Targets(Edges(l, {}))
  <1>1. EdgesAre(l, r) /\ EdgesAre(l, {})
    BY EdgesKeep
  <1>2. \A a : Eligible(l, a, r) => Eligible(l, a, {})
    BY DEF Eligible
  <1>3. /\ Targets(Edges(l, r)) = {a.target : a \in {a \in Named(l) : Eligible(l, a, r)}}
        /\ Targets(Edges(l, {})) = {a.target : a \in {a \in Named(l) : Eligible(l, a, {})}}
    BY <1>1 DEF EdgesAre
  <1> QED
    BY <1>2, <1>3

\* The discovery queues every target of a manifest's links.
LEMMA EntriesQueued ==
    ASSUME NEW edges, Targets(edges) \subseteq Labels, NEW d \in Nat
    PROVE  /\ SortedEntries(edges, d) \in Seq(Entries)
           /\ \A t \in Targets(edges) :
                \E n \in 1..Len(SortedEntries(edges, d)) : SortedEntries(edges, d)[n].label = t
  <1> DEFINE T == Targets(edges)
             order == Ascending(T)
             q == SortedEntries(edges, d)
  <1>1. T \in SUBSET Nat /\ IsFiniteSet(T)
    <2>1. T \in SUBSET Labels
      OBVIOUS
    <2> QED
      BY <2>1, LabelsAssumption, FS_Subset
  <1> HIDE DEF T
  <1>2. Lists(order, T)
    BY <1>1, AscendingLists
  <1>3. /\ Len(order) \in Nat /\ DOMAIN order = 1..Len(order)
        /\ \A n \in 1..Len(order) : order[n] \in T
        /\ \A x \in T : \E n \in 1..Len(order) : order[n] = x
    <2> HIDE DEF order
    <2> QED
      BY <1>2, ListsFacts
  <1>4. q = [n \in DOMAIN order |-> Entry(order[n], d)]
    BY DEF SortedEntries, T
  <1>5. \A x \in T : Entry(x, d) \in Entries /\ Entry(x, d).label = x
    BY DEF T, Entry, Entries
  <1> HIDE DEF order, q
  <1>6. q \in [1..Len(order) -> Entries]
    BY <1>3, <1>4, <1>5
  <1>7. q \in Seq(Entries) /\ Len(q) = Len(order)
    BY <1>3, <1>6
  <1>8. \A n \in 1..Len(order) : q[n].label = order[n]
    BY <1>3, <1>4, <1>5
  <1>9. \A t \in T : \E n \in 1..Len(q) : q[n].label = t
    BY <1>3, <1>7, <1>8
  <1> QED
    BY <1>7, <1>9 DEF q, T

-----------------------------------------------------------------------------
(* The discovery.                                                          *)

\* Charging references notes a ceiling exactly when they do not fit.
LEMMA ReferencesNote ==
    ASSUME NEW b, NEW n \in Nat, limits \in LimitSets, Under(b, limits)
    PROVE  LET r == ChargeReferences(b, n) IN
             /\ ReferencesFit(b, n) => r.exhausted = b.exhausted
             /\ ~ReferencesFit(b, n) => r.exhausted = b.exhausted \cup {"references"}
  <1> DEFINE full == [b EXCEPT !.references = limits.references]
  <1>1. limits \in Limits
    BY LimitsAssumption
  <1>2. CASE ReferencesFit(b, n)
    BY <1>2 DEF ChargeReferences, Under, Budgets
  <1>3. CASE ~ReferencesFit(b, n)
    <2>1. full \in Budgets /\ full.exhausted = b.exhausted
      BY <1>1 DEF Under, Budgets, Limits
    <2>2. ChargeReferences(b, n) = Note(full, "references")
      BY <1>3 DEF ChargeReferences
    <2> HIDE DEF full
    <2> QED
      BY <1>3, <2>1, <2>2, NoteKeeps, CeilingNames
  <1> QED
    BY <1>2, <1>3

\* Charging a manifest that does not fit notes the ceiling it met.
LEMMA ManifestNote ==
    ASSUME NEW b, NEW n \in Nat, limits \in LimitSets, Under(b, limits), ~ManifestFits(b, n)
    PROVE  \E c \in {"nodes", "bytes"} : ChargeManifest(b, n).exhausted = b.exhausted \cup {c}
  <1> DEFINE more == [b EXCEPT !.nodes = @ + 1]
  <1>1. CASE ~NodeFits(b)
    <2>1. ChargeManifest(b, n) = Note(b, "nodes")
      BY <1>1 DEF ChargeManifest
    <2> QED
      BY <2>1, NoteKeeps, CeilingNames DEF Under
  <1>2. CASE NodeFits(b) /\ ~BytesFit(b, n)
    <2>1. more \in Budgets /\ more.exhausted = b.exhausted
      BY DEF Under, Budgets
    <2>2. ChargeManifest(b, n) = Note(more, "bytes")
      BY <1>2 DEF ChargeManifest
    <2> HIDE DEF more
    <2> QED
      BY <2>1, <2>2, NoteKeeps, CeilingNames
  <1> QED
    BY <1>1, <1>2 DEF ManifestFits

\* The labels an open discovery still has to pop.
LabelsOf(q) == {q[i].label : i \in 1..Len(q)}
Waiting == IF phase = "discover" THEN LabelsOf(queue) ELSE {}

\* A popped manifest that opens is in the index, and so will be what it links.
Collected(l) ==
    Opens(l) => /\ l \in indexed
                /\ Redactions(l) \subseteq index
                /\ Targets(Edges(l, {})) \subseteq seen \cup Waiting

\* Until a ceiling is noted, what was popped is collected and nothing linked is forgotten.
Gathered ==
    discovery.exhausted = {} =>
        /\ Active \in seen \cup Waiting
        /\ \A l \in seen \cap Manifests : Collected(l)

\* What the walk follows are links of a manifest it has charged.
LinksOf ==
    phase = "walk" =>
        /\ links \in Seq(Range(links))
        /\ \A n \in 1..Len(links) :
              /\ from.label \in visited
              /\ Opens(from.label)
              /\ links[n] \in Named(from.label)
              /\ Eligible(from.label, links[n], index)

DiscoverInv ==
    /\ Under(discovery, limits)
    /\ phase = "discover" => queue \in Seq(Entries) /\ discovery.exhausted = {}
    /\ phase \in {"discover", "charge"} =>
         reached = {} /\ links = <<>> /\ from = Entry(Active, 0)
    /\ Gathered
    /\ visited \subseteq reached
    /\ reached \subseteq Manifests
    /\ LinksOf
    /\ discovery.exhausted = {} => reached \subseteq seen \cup Waiting

\* The labels of a queue whose head is popped, or that is extended.
LEMMA QueueLabels ==
    /\ LabelsOf(<<>>) = {}
    /\ \A q \in Seq(Entries) : q # <<>> =>
         Tail(q) \in Seq(Entries) /\ LabelsOf(q) = {Head(q).label} \cup LabelsOf(Tail(q))
    /\ \A q, r \in Seq(Entries) : q \o r \in Seq(Entries) /\ LabelsOf(q \o r) = LabelsOf(q) \cup LabelsOf(r)
    /\ \A q \in Seq(Entries), e \in Entries : LabelsOf(Append(q, e)) = LabelsOf(q) \cup {e.label}
  <1>1. LabelsOf(<<>>) = {}
    BY DEF LabelsOf
  <1>2. ASSUME NEW q \in Seq(Entries), q # <<>>
        PROVE  Tail(q) \in Seq(Entries) /\ LabelsOf(q) = {Head(q).label} \cup LabelsOf(Tail(q))
    <2>1. /\ Tail(q) \in Seq(Entries) /\ Len(Tail(q)) = Len(q) - 1 /\ Len(q) \in Nat /\ Len(q) >= 1
          /\ Head(q) = q[1]
          /\ \A i \in 1..Len(Tail(q)) : Tail(q)[i] = q[i + 1] /\ i + 1 \in 1..Len(q)
      BY <1>2
    <2>2. ASSUME NEW i \in 1..Len(q)
          PROVE  q[i].label \in {Head(q).label} \cup LabelsOf(Tail(q))
      <3>1. CASE i = 1
        BY <2>1, <3>1
      <3>2. CASE i # 1
        <4>1. i - 1 \in 1..Len(Tail(q)) /\ (i - 1) + 1 = i
          BY <2>1, <3>2
        <4>2. Tail(q)[i - 1] = q[i]
          BY <2>1, <4>1
        <4> QED
          BY <4>1, <4>2 DEF LabelsOf
      <3> QED
        BY <3>1, <3>2
    <2>3. ASSUME NEW i \in 1..Len(Tail(q)) PROVE Tail(q)[i].label \in LabelsOf(q)
      BY <2>1, <2>3 DEF LabelsOf
    <2>4. Head(q).label \in LabelsOf(q)
      BY <2>1 DEF LabelsOf
    <2> QED
      BY <2>1, <2>2, <2>3, <2>4 DEF LabelsOf
  <1>3. ASSUME NEW q \in Seq(Entries), NEW r \in Seq(Entries)
        PROVE  q \o r \in Seq(Entries) /\ LabelsOf(q \o r) = LabelsOf(q) \cup LabelsOf(r)
    <2> DEFINE c == q \o r
    <2>1. /\ c \in Seq(Entries) /\ Len(c) = Len(q) + Len(r) /\ Len(q) \in Nat /\ Len(r) \in Nat
          /\ \A i \in 1..Len(q) : c[i] = q[i] /\ i \in 1..Len(c)
          /\ \A i \in 1..Len(r) : c[Len(q) + i] = r[i] /\ Len(q) + i \in 1..Len(c)
      OBVIOUS
    <2> HIDE DEF c
    <2>2. ASSUME NEW i \in 1..Len(c) PROVE c[i].label \in LabelsOf(q) \cup LabelsOf(r)
      <3>1. CASE i \in 1..Len(q)
        BY <2>1, <3>1 DEF LabelsOf
      <3>2. CASE i \notin 1..Len(q)
        <4>1. i - Len(q) \in 1..Len(r) /\ Len(q) + (i - Len(q)) = i
          BY <2>1, <3>2
        <4>2. c[i] = r[i - Len(q)]
          BY <2>1, <4>1
        <4> QED
          BY <4>1, <4>2 DEF LabelsOf
      <3> QED
        BY <3>1, <3>2
    <2>3. ASSUME NEW i \in 1..Len(q) PROVE q[i].label \in LabelsOf(c)
      BY <2>1, <2>3 DEF LabelsOf
    <2>4. ASSUME NEW i \in 1..Len(r) PROVE r[i].label \in LabelsOf(c)
      BY <2>1, <2>4 DEF LabelsOf
    <2>5. LabelsOf(c) = LabelsOf(q) \cup LabelsOf(r)
      BY <2>2, <2>3, <2>4 DEF LabelsOf
    <2> QED
      BY <2>1, <2>5 DEF c
  <1>4. ASSUME NEW q \in Seq(Entries), NEW e \in Entries
        PROVE  LabelsOf(Append(q, e)) = LabelsOf(q) \cup {e.label}
    <2> DEFINE c == Append(q, e)
    <2>1. /\ Len(c) = Len(q) + 1 /\ Len(q) \in Nat /\ c[Len(q) + 1] = e
          /\ \A i \in 1..Len(q) : c[i] = q[i] /\ i \in 1..Len(c)
      OBVIOUS
    <2> HIDE DEF c
    <2>2. \A i \in 1..Len(c) : i \in 1..Len(q) \/ i = Len(q) + 1
      BY <2>1
    <2>3. \A i \in 1..Len(c) : c[i].label \in LabelsOf(q) \cup {e.label}
      BY <2>1, <2>2 DEF LabelsOf
    <2>4. \A i \in 1..Len(q) : q[i].label \in LabelsOf(c)
      BY <2>1 DEF LabelsOf
    <2>5. e.label \in LabelsOf(c)
      <3>1. Len(q) + 1 \in 1..Len(c)
        BY <2>1
      <3> QED
        BY <2>1, <3>1 DEF LabelsOf
    <2>6. LabelsOf(c) = LabelsOf(q) \cup {e.label}
      BY <2>3, <2>4, <2>5 DEF LabelsOf
    <2> QED
      BY <2>6 DEF c
  <1> QED
    BY <1>1, <1>2, <1>3, <1>4

\* What a manifest is and links does not depend on anything but the store.
LEMMA SameStore ==
    ASSUME store' = store, NEW l
    PROVE  /\ Manifests' = Manifests
           /\ Opens(l)' = Opens(l)
           /\ Named(l)' = Named(l)
           /\ Redactions(l)' = Redactions(l)
           /\ Targets(Edges(l, {}))' = Targets(Edges(l, {}))
           /\ index' = index => Edges(l, index)' = Edges(l, index)
  <1>1. /\ Manifests' = Manifests
        /\ Named(l)' = Named(l)
        /\ Redactions(l)' = Redactions(l)
    BY DEF Manifests, Named, Redactions
  <1>2. Opens(l)' = Opens(l)
    BY DEF Opens, IsTimeStampManifest, Named
  <1>3. Targets(Edges(l, {}))' = Targets(Edges(l, {}))
    BY DEF Targets, Edges
  <1>4. index' = index => Edges(l, index)' = Edges(l, index)
    BY DEF Edges
  <1> QED
    BY <1>1, <1>2, <1>3, <1>4

\* The discovery pops a manifest, l, and forgets nothing.
LEMMA StaysGathered ==
    ASSUME Gathered, discovery.exhausted = {}, store' = store, NEW l,
           seen' = seen \cup {l}, seen \cup Waiting \subseteq seen' \cup Waiting',
           indexed \subseteq indexed', index \subseteq index',
           l \in Manifests /\ l \notin seen => Collected(l)'
    PROVE  Gathered'
  <1>1. Active \in seen' \cup Waiting'
    BY DEF Gathered
  <1>2. ASSUME NEW k \in (seen \cap Manifests) PROVE Collected(k)'
    <2>1. Collected(k)
      BY <1>2 DEF Gathered
    <2>2. /\ Opens(k)' = Opens(k) /\ Redactions(k)' = Redactions(k)
          /\ Targets(Edges(k, {}))' = Targets(Edges(k, {}))
      BY SameStore
    <2>3. Opens(k) => /\ k \in indexed
                      /\ Redactions(k) \subseteq index
                      /\ Targets(Edges(k, {})) \subseteq seen \cup Waiting
      BY <2>1 DEF Collected
    <2>4. Opens(k)' => /\ k \in indexed'
                       /\ Redactions(k)' \subseteq index'
                       /\ Targets(Edges(k, {}))' \subseteq (seen \cup Waiting)'
      BY <2>2, <2>3
    <2> QED
      BY <2>4 DEF Collected
  <1>3. Manifests' = Manifests
    BY DEF Manifests
  <1>4. \A k \in (seen \cap Manifests)' : Collected(k)'
    BY <1>2, <1>3
  <1> QED
    BY <1>1, <1>4 DEF Gathered

\* DiscoverInv at a step of the discovery.
LEMMA DiscoverInvDiscover ==
    ASSUME ChargeInv, DiscoverInv, DiscoverExhausted \/ DiscoverSkip \/ DiscoverManifest
    PROVE  DiscoverInv'
  <1>1. /\ phase = "discover"
        /\ UNCHANGED <<store, limits, reached, visited, links, from>>
    BY DEF DiscoverExhausted, DiscoverSkip, DiscoverManifest, inputs, walkState
  <1>2. /\ queue \in Seq(Entries) /\ discovery.exhausted = {} /\ reached = {} /\ Gathered
        /\ Under(discovery, limits) /\ visited \subseteq reached
    BY <1>1 DEF DiscoverInv
  <1>3. phase' \in {"discover", "charge"}
    BY DEF DiscoverExhausted, DiscoverSkip, DiscoverManifest, DiscoverOpen, EndDiscovery
  <1>4. LinksOf'
    BY <1>3 DEF LinksOf
  <1>5. Waiting = LabelsOf(queue)
    BY <1>1 DEF Waiting
  <1>6. /\ reached' = {} /\ visited' \subseteq reached' /\ (reached \subseteq Manifests)'
        /\ links' = <<>> /\ from' = Entry(Active, 0)
    BY <1>1, <1>2 DEF DiscoverInv
  <1>7. SUFFICES /\ Under(discovery, limits)'
                 /\ phase' = "discover" => queue' \in Seq(Entries) /\ discovery'.exhausted = {}
                 /\ Gathered'
    BY <1>4, <1>6 DEF DiscoverInv
  <1>8. CASE DiscoverExhausted
    <2>1. /\ queue = <<>> /\ discovery' = discovery /\ phase' = "charge"
          /\ UNCHANGED <<seen, index, indexed>>
      BY <1>8 DEF DiscoverExhausted, EndDiscovery
    <2>2. Waiting = {}
      BY <1>5, <2>1, QueueLabels
    <2>3. Waiting' = {}
      BY <2>1 DEF Waiting
    <2>4. Active \in seen
      BY <1>2, <2>2 DEF Gathered
    <2>5. seen' = seen \cup {Active}
      BY <2>1, <2>4
    <2>6. Gathered'
      BY <1>1, <1>2, <2>1, <2>2, <2>3, <2>4, <2>5, StaysGathered
    <2> QED
      BY <1>1, <1>2, <2>1, <2>6
  <1> SUFFICES ASSUME NEW l, l = Head(queue).label, NEW d, d = Head(queue).depth
               PROVE  /\ Under(discovery, limits)'
                      /\ phase' = "discover" => queue' \in Seq(Entries) /\ discovery'.exhausted = {}
                      /\ Gathered'
    OBVIOUS
  <1>9. ASSUME queue # <<>>
        PROVE  /\ Tail(queue) \in Seq(Entries)
               /\ LabelsOf(queue) = {l} \cup LabelsOf(Tail(queue))
               /\ Head(queue) \in Entries /\ l \in Labels /\ d \in Nat
    <2>1. Head(queue) \in Entries
      BY <1>2, <1>9
    <2> QED
      BY <1>2, <1>9, <2>1, QueueLabels DEF Entries
  <1>10. CASE DiscoverSkip
    <2>1. /\ queue # <<>> /\ (l \in seen \/ l \notin Manifests)
          /\ seen' = seen \cup {l} /\ queue' = Tail(queue)
          /\ UNCHANGED <<phase, index, indexed, discovery>>
      BY <1>10 DEF DiscoverSkip
    <2>2. Waiting' = LabelsOf(Tail(queue))
      BY <1>1, <2>1 DEF Waiting
    <2>3. seen \cup Waiting \subseteq seen' \cup Waiting'
      BY <1>5, <1>9, <2>1, <2>2
    <2>4. Gathered'
      BY <1>1, <1>2, <2>1, <2>3, StaysGathered
    <2> QED
      BY <1>1, <1>2, <1>9, <2>1, <2>4
  <1>11. CASE DiscoverManifest
    <2> DEFINE n == store[l].bytes
               b == ChargeManifest(discovery, n)
    <2>1. /\ queue # <<>> /\ l \notin seen /\ l \in Manifests
          /\ seen' = seen \cup {l}
      BY <1>11 DEF DiscoverManifest
    <2>2. n \in Nat
      BY <2>1, StoresAssumption DEF ChargeInv, Manifests
    <2>3. /\ Under(b, limits)
          /\ ManifestFits(discovery, n) => b.exhausted = discovery.exhausted
      BY <1>2, <2>2, ManifestUnder DEF ChargeInv
    <2>4. ~ManifestFits(discovery, n) => b.exhausted # {}
      <3>1. SUFFICES ASSUME ~ManifestFits(discovery, n) PROVE b.exhausted # {}
        OBVIOUS
      <3>2. limits \in LimitSets
        BY DEF ChargeInv
      <3>3. \E c \in {"nodes", "bytes"} : b.exhausted = discovery.exhausted \cup {c}
        BY <1>2, <2>2, <3>1, <3>2, ManifestNote
      <3> QED
        BY <3>3
    <2>5. ASSUME NEW c, EndDiscovery(c), Under(c, limits), c.exhausted # {}
          PROVE  /\ Under(discovery, limits)'
                 /\ phase' = "discover" => queue' \in Seq(Entries) /\ discovery'.exhausted = {}
                 /\ Gathered'
      <3>1. discovery' = c /\ phase' = "charge"
        BY <2>5 DEF EndDiscovery
      <3> QED
        BY <1>1, <2>5, <3>1 DEF Gathered
    <2>6. CASE ~DepthFits(d) /\ EndDiscovery(Note(discovery, "depth"))
      <3>1. /\ Under(Note(discovery, "depth"), limits)
            /\ Note(discovery, "depth").exhausted = discovery.exhausted \cup {"depth"}
        BY <1>2, NoteKeeps, CeilingNames DEF Under
      <3> QED
        BY <2>5, <2>6, <3>1
    <2>7. CASE ~ManifestFits(discovery, n) /\ EndDiscovery(b)
      BY <2>3, <2>4, <2>5, <2>7
    <2>8. CASE /\ ManifestFits(discovery, n) /\ ~Opens(l)
               /\ discovery' = b /\ queue' = Tail(queue)
               /\ UNCHANGED <<phase, index, indexed>>
      <3>1. Waiting' = LabelsOf(Tail(queue))
        BY <1>1, <2>8 DEF Waiting
      <3>2. seen \cup Waiting \subseteq seen' \cup Waiting'
        BY <1>5, <1>9, <2>1, <3>1
      <3>3. Collected(l)'
        <4>1. Opens(l)' = Opens(l)
          BY <1>1, SameStore
        <4> QED
          BY <2>8, <4>1 DEF Collected
      <3>4. Gathered'
        BY <1>1, <1>2, <2>1, <2>8, <3>2, <3>3, StaysGathered
      <3> QED
        BY <1>1, <1>2, <1>9, <2>1, <2>3, <2>8, <3>4
    <2>9. CASE ManifestFits(discovery, n) /\ Opens(l) /\ DiscoverOpen(l, d, b)
      <3> DEFINE k == Cardinality(store[l].redacts)
                 declared == ChargeReferences(b, k)
                 edges == Edges(l, {})
                 linked == ChargeReferences(declared, Len(edges))
      <3>1. k \in Nat
        BY <2>1, StoresAssumption, FS_CardinalityType DEF ChargeInv, Manifests
      <3>2. EdgesAre(l, {})
        BY <2>1, EdgesKeep DEF ChargeInv
      <3>3. Len(edges) \in Nat /\ Targets(edges) \subseteq Labels
        BY <3>2 DEF EdgesAre
      <3>4. limits \in LimitSets
        BY DEF ChargeInv
      <3> HIDE DEF k, edges
      <3>5. /\ Under(declared, limits)
            /\ ReferencesFit(b, k) => declared.exhausted = b.exhausted
            /\ ~ReferencesFit(b, k) => declared.exhausted = b.exhausted \cup {"references"}
        BY <2>3, <3>1, <3>4, ReferencesUnder, ReferencesNote
      <3> HIDE DEF declared
      <3>6. /\ Under(linked, limits)
            /\ ReferencesFit(declared, Len(edges)) => linked.exhausted = declared.exhausted
            /\ ~ReferencesFit(declared, Len(edges)) =>
                 linked.exhausted = declared.exhausted \cup {"references"}
        BY <3>3, <3>4, <3>5, ReferencesUnder, ReferencesNote
      <3> HIDE DEF linked
      <3>7. \/ ~ReferencesFit(b, k) /\ EndDiscovery(declared)
            \/ ~ReferencesFit(declared, Len(edges)) /\ EndDiscovery(linked)
            \/ /\ ReferencesFit(b, k) /\ ReferencesFit(declared, Len(edges))
               /\ index' = index \cup Redactions(l)
               /\ indexed' = indexed \cup {l}
               /\ discovery' = linked
               /\ queue' = Tail(queue) \o SortedEntries(edges, d + 1)
               /\ phase' = phase
        BY <2>9 DEF DiscoverOpen, k, declared, edges, linked
      <3>8. CASE ~ReferencesFit(b, k) /\ EndDiscovery(declared)
        BY <2>5, <3>5, <3>8
      <3>9. CASE ~ReferencesFit(declared, Len(edges)) /\ EndDiscovery(linked)
        BY <2>5, <3>6, <3>9
      <3>10. CASE /\ ReferencesFit(b, k) /\ ReferencesFit(declared, Len(edges))
                  /\ index' = index \cup Redactions(l)
                  /\ indexed' = indexed \cup {l}
                  /\ discovery' = linked
                  /\ queue' = Tail(queue) \o SortedEntries(edges, d + 1)
                  /\ phase' = phase
        <4> DEFINE more == SortedEntries(edges, d + 1)
        <4>1. /\ more \in Seq(Entries)
              /\ \A t \in Targets(edges) : \E i \in 1..Len(more) : more[i].label = t
          <5>1. d + 1 \in Nat
            BY <1>9, <2>1
          <5> QED
            BY <3>3, <5>1, EntriesQueued
        <4> HIDE DEF more
        <4>2. /\ queue' = Tail(queue) \o more /\ Tail(queue) \in Seq(Entries)
              /\ LabelsOf(queue) = {l} \cup LabelsOf(Tail(queue))
          BY <1>9, <2>1, <3>10 DEF more
        <4>3. queue' \in Seq(Entries)
                /\ LabelsOf(queue') = LabelsOf(Tail(queue)) \cup LabelsOf(more)
          BY <4>1, <4>2, QueueLabels
        <4>4. Targets(edges) \subseteq LabelsOf(more)
          BY <4>1 DEF LabelsOf
        <4>5. Waiting' = LabelsOf(queue')
          BY <1>1, <3>10 DEF Waiting
        <4>6. seen \cup Waiting \subseteq seen' \cup Waiting'
          BY <1>5, <2>1, <4>2, <4>3, <4>5
        <4>7. Collected(l)'
          <5>1. Redactions(l)' = Redactions(l) /\ Targets(Edges(l, {}))' = Targets(edges)
            BY <1>1, SameStore DEF edges
          <5>2. /\ l \in indexed'
                /\ Redactions(l)' \subseteq index'
                /\ Targets(Edges(l, {}))' \subseteq (seen \cup Waiting)'
            BY <3>10, <4>3, <4>4, <4>5, <5>1
          <5> QED
            BY <5>2 DEF Collected
        <4>8. Gathered'
          BY <1>1, <1>2, <2>1, <3>10, <4>6, <4>7, StaysGathered
        <4>9. discovery'.exhausted = {}
          BY <1>2, <2>3, <2>9, <3>5, <3>6, <3>10
        <4> QED
          BY <1>1, <3>6, <3>10, <4>3, <4>8, <4>9
      <3> QED
        BY <3>7, <3>8, <3>9, <3>10
    <2> QED
      BY <1>11, <2>6, <2>7, <2>8, <2>9 DEF DiscoverManifest
  <1> QED
    BY <1>8, <1>10, <1>11

\* What is left of a manifest's links are links of it.
LEMMA LinksTail ==
    ASSUME LinksOf, phase = "walk", links # <<>>
    PROVE  /\ Tail(links) \in Seq(Range(Tail(links)))
           /\ Head(links) \in Named(from.label)
           /\ Eligible(from.label, Head(links), index)
           /\ from.label \in visited /\ Opens(from.label)
           /\ \A n \in 1..Len(Tail(links)) :
                 /\ Tail(links)[n] \in Named(from.label)
                 /\ Eligible(from.label, Tail(links)[n], index)
           /\ Targets(links) = {Head(links).target} \cup Targets(Tail(links))
  <1> DEFINE t == Tail(links)
  <1>1. links \in Seq(Range(links))
    BY DEF LinksOf
  <1>2. /\ t \in Seq(Range(links)) /\ Len(t) = Len(links) - 1 /\ Len(links) \in Nat /\ Len(links) >= 1
        /\ Head(links) = links[1] /\ DOMAIN links = 1..Len(links) /\ DOMAIN t = 1..Len(t)
        /\ \A i \in 1..Len(t) : t[i] = links[i + 1] /\ i + 1 \in 1..Len(links)
    BY <1>1
  <1>3. 1 \in 1..Len(links)
    BY <1>2
  <1> HIDE DEF t
  <1>4. t \in Seq(Range(t))
    <2>1. \A i \in 1..Len(t) : t[i] \in Range(t)
      BY <1>2 DEF Range
    <2>2. t \in [1..Len(t) -> Range(t)] /\ Len(t) \in Nat
      BY <1>2, <2>1
    <2> QED
      BY <2>2
  <1>5. \A n \in 1..Len(links) :
           /\ from.label \in visited
           /\ Opens(from.label)
           /\ links[n] \in Named(from.label)
           /\ Eligible(from.label, links[n], index)
    BY DEF LinksOf
  <1>6. \A n \in 1..Len(t) : t[n] \in Named(from.label) /\ Eligible(from.label, t[n], index)
    BY <1>2, <1>5
  <1>7. Targets(links) = {Head(links).target} \cup Targets(t)
    <2>1. Targets(links) = {links[i].target : i \in 1..Len(links)}
            /\ Targets(t) = {t[i].target : i \in 1..Len(t)}
      BY <1>2 DEF Targets
    <2>2. ASSUME NEW i \in 1..Len(links) PROVE links[i].target \in {Head(links).target} \cup Targets(t)
      <3>1. CASE i = 1
        BY <1>2, <3>1
      <3>2. CASE i # 1
        <4>1. i - 1 \in 1..Len(t) /\ (i - 1) + 1 = i
          BY <1>2, <3>2
        <4>2. t[i - 1] = links[i]
          BY <1>2, <4>1
        <4> QED
          BY <2>1, <4>1, <4>2
      <3> QED
        BY <3>1, <3>2
    <2>3. \A i \in 1..Len(t) : t[i].target \in Targets(links)
      BY <1>2, <2>1
    <2>4. Head(links).target \in Targets(links)
      BY <1>2, <1>3, <2>1
    <2> QED
      BY <2>1, <2>2, <2>3, <2>4
  <1> QED
    BY <1>2, <1>3, <1>4, <1>5, <1>6, <1>7 DEF t

\* A link the walk follows leads where the discovery went.
LEMMA LinkTarget ==
    ASSUME ChargeInv, LinksOf, phase = "walk", links # <<>>
    PROVE  /\ Head(links).target \in Targets(Edges(from.label, index))
           /\ Head(links).target \in Targets(Edges(from.label, {}))
  <1> DEFINE f == from.label
             a == Head(links)
  <1>1. a \in Named(f) /\ Eligible(f, a, index) /\ f \in visited
    BY LinksTail
  <1>2. f \in Manifests /\ store \in Stores
    BY <1>1 DEF ChargeInv
  <1> HIDE DEF f, a
  <1>3. EdgesAre(f, index)
    BY <1>2, EdgesKeep
  <1>4. a.target \in Targets(Edges(f, index))
    BY <1>1, <1>3 DEF EdgesAre
  <1> QED
    BY <1>2, <1>4, FewerEdges DEF a, f

\* Outside the discovery, DiscoverInv is about what the walk reached.
LEMMA DiscoverInvOther ==
    ASSUME DiscoverInv, phase # "discover", phase' \notin {"discover", "charge"},
           UNCHANGED <<store, limits, seen, index, indexed, discovery>>,
           visited' \subseteq reached', (reached \subseteq Manifests)', LinksOf',
           discovery.exhausted = {} => reached' \subseteq seen
    PROVE  DiscoverInv'
  <1>1. Waiting = {} /\ Waiting' = {}
    BY DEF Waiting
  <1>2. Gathered'
    <2>1. SUFFICES ASSUME discovery.exhausted = {}
                   PROVE  Active \in seen /\ \A l \in seen \cap Manifests' : Collected(l)'
      BY <1>1 DEF Gathered
    <2>2. Active \in seen /\ \A l \in seen \cap Manifests : Collected(l)
      BY <1>1, <2>1 DEF DiscoverInv, Gathered
    <2>3. ASSUME NEW l \in seen \cap Manifests PROVE Collected(l)'
      <3>1. /\ Opens(l)' = Opens(l) /\ Redactions(l)' = Redactions(l)
            /\ Targets(Edges(l, {}))' = Targets(Edges(l, {}))
        BY SameStore
      <3>2. Collected(l)
        BY <2>2
      <3> QED
        BY <1>1, <3>1, <3>2 DEF Collected
    <2>4. Manifests' = Manifests
      BY DEF Manifests
    <2> QED
      BY <2>2, <2>3, <2>4
  <1> QED
    BY <1>1, <1>2 DEF DiscoverInv

\* DiscoverInv when the walk starts.
LEMMA DiscoverInvCharge ==
    ASSUME ChargeInv, DiscoverInv, ChargeActive
    PROVE  DiscoverInv'
  <1>1. /\ phase = "charge" /\ phase' \in {"walk", "done"}
        /\ UNCHANGED <<store, limits, seen, index, indexed, discovery, visited, links>>
        /\ reached' = {Active} \/ reached' = reached
    BY DEF ChargeActive, inputs
  <1>2. reached = {} /\ visited = {} /\ links = <<>>
    BY <1>1 DEF DiscoverInv, ChargeInv
  <1>3. Active \in Manifests
    BY StoresAssumption DEF ChargeInv, Manifests
  <1>4. (reached \subseteq Manifests)'
    BY <1>1, <1>2, <1>3 DEF Manifests
  <1>5. LinksOf'
    BY <1>1, <1>2 DEF LinksOf, Range
  <1>6. discovery.exhausted = {} => Active \in seen
    BY <1>1 DEF DiscoverInv, Gathered, Waiting
  <1> QED
    BY <1>1, <1>2, <1>4, <1>5, <1>6, DiscoverInvOther

\* DiscoverInv when the walk follows a link.
LEMMA DiscoverInvFollow ==
    ASSUME ChargeInv, DiscoverInv, FollowLink
    PROVE  DiscoverInv'
  <1> DEFINE a == Head(links)
  <1>1. /\ phase = "walk" /\ links # <<>>
        /\ UNCHANGED <<store, limits, seen, index, indexed, discovery, visited, from>>
        /\ \/ reached' = reached
           \/ a.target \in Manifests /\ reached' = reached \cup {a.target}
        /\ \/ links' = Tail(links) /\ phase' = "walk"
           \/ phase' = "done"
    BY DEF FollowLink, inputs, EndWalk, InStore
  <1>2. LinksOf /\ visited \subseteq reached /\ reached \subseteq Manifests
    BY DEF DiscoverInv
  <1>3. LinksOf'
    <2>1. CASE phase' = "done"
      BY <2>1 DEF LinksOf
    <2>2. CASE links' = Tail(links) /\ phase' = "walk"
      <3> SUFFICES ASSUME NEW f, f = from.label
                   PROVE  /\ links' \in Seq(Range(links'))
                          /\ \A n \in 1..Len(links') :
                                /\ f \in visited'
                                /\ Opens(f)'
                                /\ links'[n] \in Named(f)'
                                /\ Eligible(f, links'[n], index')
        BY <1>1 DEF LinksOf, Opens, Named, IsTimeStampManifest, Eligible
      <3>1. Opens(f)' = Opens(f) /\ Named(f)' = Named(f)
        BY <1>1, SameStore
      <3>2. /\ Tail(links) \in Seq(Range(Tail(links)))
            /\ f \in visited /\ Opens(f)
            /\ \A n \in 1..Len(Tail(links)) :
                  Tail(links)[n] \in Named(f) /\ Eligible(f, Tail(links)[n], index)
        BY <1>1, <1>2, LinksTail
      <3> QED
        BY <1>1, <2>2, <3>1, <3>2
    <2> QED
      BY <1>1, <2>1, <2>2
  <1>4. ASSUME discovery.exhausted = {}, a.target \in Manifests PROVE a.target \in seen
    <2> DEFINE f == from.label
    <2>1. reached \subseteq seen /\ \A l \in seen \cap Manifests : Collected(l)
      BY <1>1, <1>4 DEF DiscoverInv, Gathered, Waiting
    <2>2. f \in visited /\ Opens(f)
      BY <1>1, <1>2, LinksTail
    <2>3. Collected(f)
      BY <1>2, <2>1, <2>2
    <2>4. Targets(Edges(f, {})) \subseteq seen
      BY <1>1, <2>2, <2>3 DEF Collected, Waiting
    <2> QED
      BY <1>1, <1>2, <2>4, LinkTarget
  <1>5. discovery.exhausted = {} => reached' \subseteq seen
    <2>1. discovery.exhausted = {} => reached \subseteq seen
      BY <1>1 DEF DiscoverInv, Waiting
    <2> QED
      BY <1>1, <1>4, <2>1
  <1>6. (reached \subseteq Manifests)' /\ visited' \subseteq reached'
    BY <1>1, <1>2 DEF Manifests
  <1>7. phase # "discover" /\ phase' \notin {"discover", "charge"}
    BY <1>1
  <1> QED
    BY <1>1, <1>3, <1>5, <1>6, <1>7, DiscoverInvOther

\* DiscoverInv when the walk pops a manifest.
LEMMA DiscoverInvWalk ==
    ASSUME ChargeInv, DiscoverInv, WalkManifest
    PROVE  DiscoverInv'
  <1> SUFFICES ASSUME NEW l, l = Head(queue).label PROVE DiscoverInv'
    OBVIOUS
  <1>1. /\ phase = "walk" /\ queue # <<>> /\ from' = Head(queue) /\ links = <<>>
        /\ UNCHANGED <<store, limits, seen, index, indexed, discovery, reached>>
        /\ visited' = visited \/ visited' = visited \cup {l}
    BY DEF WalkManifest, inputs
  <1>2. visited \subseteq reached /\ reached \subseteq Manifests
    BY DEF DiscoverInv
  <1>3. l \in reached
    <2>1. queue \in Seq(Entries) /\ FreshQueue(queue, reached, visited)
      BY <1>1 DEF ChargeInv, QueueIsFresh
    <2> QED
      BY <1>1, <2>1, PopFresh
  <1>4. \/ phase' = "done"
        \/ phase' = "walk" /\ links' = <<>>
        \/ phase' = "walk" /\ Opens(l) /\ visited' = visited \cup {l} /\ links' = Edges(l, index)
    BY <1>1 DEF WalkManifest, WalkOpen, EndWalk
  <1>5. LinksOf'
    <2>1. CASE phase' = "done"
      BY <2>1 DEF LinksOf
    <2>2. CASE phase' = "walk" /\ links' = <<>>
      BY <2>2 DEF LinksOf, Range
    <2>3. CASE phase' = "walk" /\ Opens(l) /\ visited' = visited \cup {l} /\ links' = Edges(l, index)
      <3>1. EdgesAre(l, index)
        BY <1>2, <1>3, EdgesKeep DEF ChargeInv
      <3>2. /\ links' \in Seq(Named(l))
            /\ \A n \in 1..Len(links') : links'[n] \in Named(l) /\ Eligible(l, links'[n], index)
        BY <2>3, <3>1 DEF EdgesAre
      <3>3. links' \in Seq(Range(links'))
        <4>1. links' \in [1..Len(links') -> Range(links')] /\ Len(links') \in Nat
          BY <3>2 DEF Range
        <4> QED
          BY <4>1
      <3>4. Opens(l)' = Opens(l) /\ Named(l)' = Named(l)
        BY <1>1, SameStore
      <3>5. from'.label = l
        BY <1>1
      <3>6. \A n \in 1..Len(links') :
                /\ l \in visited'
                /\ Opens(l)'
                /\ links'[n] \in Named(l)'
                /\ Eligible(l, links'[n], index')
        BY <1>1, <2>3, <3>2, <3>4
      <3> QED
        BY <3>3, <3>5, <3>6 DEF LinksOf, Opens, Named, IsTimeStampManifest, Eligible
    <2> QED
      BY <1>4, <2>1, <2>2, <2>3
  <1>6. discovery.exhausted = {} => reached' \subseteq seen
    BY <1>1 DEF DiscoverInv, Waiting
  <1>7. (reached \subseteq Manifests)' /\ visited' \subseteq reached'
    BY <1>1, <1>2, <1>3 DEF Manifests
  <1>8. phase # "discover" /\ phase' \notin {"discover", "charge"}
    BY <1>1, <1>4
  <1> QED
    BY <1>1, <1>5, <1>6, <1>7, <1>8, DiscoverInvOther

\* DiscoverInv when the walk ends.
LEMMA DiscoverInvEnd ==
    ASSUME ChargeInv, DiscoverInv, WalkExhausted
    PROVE  DiscoverInv'
  <1>1. /\ phase = "walk" /\ phase' = "done"
        /\ UNCHANGED <<store, limits, seen, index, indexed, discovery, reached, visited>>
    BY DEF WalkExhausted, inputs, EndWalk
  <1>2. LinksOf'
    BY <1>1 DEF LinksOf
  <1>3. visited' \subseteq reached' /\ (reached \subseteq Manifests)'
          /\ (discovery.exhausted = {} => reached' \subseteq seen)
    BY <1>1 DEF DiscoverInv, Manifests, Waiting
  <1> QED
    BY <1>1, <1>2, <1>3, DiscoverInvOther

-----------------------------------------------------------------------------
(* The lineage.                                                            *)

\* The steps of Within, and that they stay in the store.
LEMMA WithinSteps ==
    ASSUME store \in Stores
    PROVE  /\ Within[0] = {Active}
           /\ \A n \in Nat : Within[n + 1] = Within[n] \cup Onward(Within[n])
           /\ \A n \in Nat : Within[n] \subseteq Manifests
  <1> DEFINE P == SUBSET Manifests
             step == [S \in P |-> S \cup Onward(S)]
  <1>1. {Active} \in P
    BY StoresAssumption DEF Manifests
  <1>2. \A S : Onward(S) \subseteq Manifests
    BY DEF Onward
  <1>3. step \in [P -> P]
    BY <1>2
  <1>4. PICK f \in [Nat -> P] : f[0] = {Active} /\ \A n \in Nat : f[n + 1] = step[f[n]]
    <2> HIDE DEF P, step
    <2> QED
      BY <1>1, <1>3, Recursion
  <1>5. \A n \in Nat : f[n + 1] = f[n] \cup Onward(f[n])
    BY <1>4
  <1> DEFINE F(g) == [n \in Nat |-> IF n = 0 THEN {Active} ELSE g[n - 1] \cup Onward(g[n - 1])]
  <1>6. f = F(f)
    <2>1. ASSUME NEW n \in Nat PROVE f[n] = IF n = 0 THEN {Active} ELSE f[n - 1] \cup Onward(f[n - 1])
      <3>1. CASE n = 0
        BY <1>4, <3>1
      <3>2. CASE n # 0
        <4>1. n - 1 \in Nat /\ (n - 1) + 1 = n
          BY <3>2
        <4> QED
          BY <1>5, <3>2, <4>1
      <3> QED
        BY <3>1, <3>2
    <2> QED
      BY <1>4, <2>1
  <1>7. Within = CHOOSE g : g = F(g)
    BY DEF Within
  <1>8. Within = F(Within)
    <2> HIDE DEF F
    <2> QED
      BY <1>6, <1>7
  <1>9. Within[0] = {Active}
    BY <1>8
  <1>10. ASSUME NEW n \in Nat PROVE Within[n + 1] = Within[n] \cup Onward(Within[n])
    <2>1. n + 1 \in Nat /\ n + 1 # 0 /\ (n + 1) - 1 = n
      OBVIOUS
    <2> HIDE DEF F
    <2>2. Within[n + 1] = F(Within)[n + 1]
      BY <1>8
    <2>3. F(Within)[n + 1] = Within[(n + 1) - 1] \cup Onward(Within[(n + 1) - 1])
      BY <2>1 DEF F
    <2> QED
      BY <2>1, <2>2, <2>3
  <1>11. \A n \in Nat : Within[n] \subseteq Manifests
    <2> DEFINE S == {n \in Nat : Within[n] \subseteq Manifests}
    <2>1. 0 \in S
      BY <1>1, <1>9
    <2>2. ASSUME NEW n \in Nat, n \in S PROVE n + 1 \in S
      BY <1>2, <1>10, <2>2
    <2>3. \A n \in Nat : n \in S
      <3> HIDE DEF S
      <3> QED
        BY <2>1, <2>2, Inductive
    <2> QED
      BY <2>3
  <1> QED
    BY <1>9, <1>10, <1>11

\* More links lead to more manifests.
LEMMA WithinGrows ==
    ASSUME store \in Stores, NEW m \in Nat, NEW n \in Nat, m <= n
    PROVE  Within[m] \subseteq Within[n]
  <1> DEFINE S == {k \in Nat : m <= k => Within[m] \subseteq Within[k]}
  <1>1. 0 \in S
    <2>1. m <= 0 => m = 0
      OBVIOUS
    <2> QED
      BY <2>1
  <1>2. ASSUME NEW k \in Nat, k \in S PROVE k + 1 \in S
    <2>1. Within[k] \subseteq Within[k + 1]
      BY WithinSteps
    <2>2. m <= k + 1 => m <= k \/ m = k + 1
      OBVIOUS
    <2> QED
      BY <1>2, <2>1, <2>2
  <1>3. n \in S
    <2> HIDE DEF S
    <2> QED
      BY <1>1, <1>2, Inductive
  <1> QED
    BY <1>3

\* More manifests lead to more manifests.
LEMMA OnwardGrows ==
    ASSUME NEW S, NEW T, S \subseteq T
    PROVE  Onward(S) \subseteq Onward(T)
  BY DEF Onward

\* A set that holds the active manifest and what its members link holds the lineage.
LEMMA ClosedHolds ==
    ASSUME store \in Stores, NEW C, Active \in C, Onward(C) \subseteq C
    PROVE  \A n \in Nat : Within[n] \subseteq C
  <1> DEFINE S == {n \in Nat : Within[n] \subseteq C}
  <1>1. 0 \in S
    BY WithinSteps
  <1>2. ASSUME NEW n \in Nat, n \in S PROVE n + 1 \in S
    <2>1. Within[n + 1] = Within[n] \cup Onward(Within[n]) /\ Within[n] \subseteq C
      BY <1>2, WithinSteps
    <2>2. Onward(Within[n]) \subseteq Onward(C)
      BY <2>1, OnwardGrows
    <2> QED
      BY <2>1, <2>2
  <1>3. \A n \in Nat : n \in S
    <2> HIDE DEF S
    <2> QED
      BY <1>1, <1>2, Inductive
  <1> QED
    BY <1>3

\* As many links as there are manifests lead everywhere: each level adds a
\* manifest until one adds none.
LEMMA LineageIsAll ==
    ASSUME store \in Stores
    PROVE  /\ \A n \in Nat : Within[n] \subseteq Lineage
           /\ Active \in Lineage
  <1> DEFINE N == Cardinality(Manifests)
  <1>1. IsFiniteSet(Manifests) /\ N \in Nat
    <2>1. Manifests \in SUBSET Labels
      BY StoresAssumption DEF Manifests
    <2>2. IsFiniteSet(Manifests)
      BY <2>1, LabelsAssumption, FS_Subset
    <2> QED
      BY <2>2, FS_CardinalityType
  <1> HIDE DEF N
  <1>2. ASSUME NEW n \in Nat
        PROVE  IsFiniteSet(Within[n]) /\ Cardinality(Within[n]) \in Nat /\ Cardinality(Within[n]) <= N
    <2>1. Within[n] \in SUBSET Manifests
      BY WithinSteps
    <2>2. IsFiniteSet(Within[n]) /\ Cardinality(Within[n]) <= N
      BY <1>1, <2>1, FS_Subset DEF N
    <2> QED
      BY <2>2, FS_CardinalityType
  <1>3. \E k \in Nat : k <= N /\ Within[k + 1] = Within[k]
    <2> SUFFICES ASSUME \A k \in Nat : k <= N => Within[k + 1] # Within[k]
                 PROVE  FALSE
      OBVIOUS
    <2> DEFINE S == {k \in Nat : k <= N + 1 => Cardinality(Within[k]) >= k}
    <2>1. 0 \in S
      BY <1>2
    <2>2. ASSUME NEW k \in Nat, k \in S PROVE k + 1 \in S
      <3> SUFFICES ASSUME k + 1 <= N + 1 PROVE Cardinality(Within[k + 1]) >= k + 1
        OBVIOUS
      <3>1. k <= N /\ Cardinality(Within[k]) >= k
        BY <1>1, <2>2
      <3>2. Within[k] \in SUBSET Within[k + 1] /\ Within[k + 1] # Within[k]
        BY <3>1, WithinSteps
      <3>3. k + 1 \in Nat
        OBVIOUS
      <3>4. IsFiniteSet(Within[k + 1]) /\ Cardinality(Within[k + 1]) \in Nat /\ Cardinality(Within[k]) \in Nat
        BY <1>2, <3>3
      <3>5. /\ Cardinality(Within[k]) <= Cardinality(Within[k + 1])
            /\ Cardinality(Within[k + 1]) # Cardinality(Within[k])
        BY <3>2, <3>4, FS_Subset
      <3> QED
        BY <3>1, <3>4, <3>5
    <2>3. \A k \in Nat : k \in S
      <3> HIDE DEF S
      <3> QED
        BY <2>1, <2>2, Inductive
    <2>4. N + 1 \in Nat /\ Cardinality(Within[N + 1]) >= N + 1
      BY <1>1, <2>3
    <2>5. Cardinality(Within[N + 1]) <= N /\ Cardinality(Within[N + 1]) \in Nat
      BY <1>2, <2>4
    <2> QED
      BY <1>1, <2>4, <2>5
  <1>4. PICK k \in Nat : k <= N /\ Within[k + 1] = Within[k]
    BY <1>3
  <1>5. Onward(Within[k]) \subseteq Within[k]
    BY <1>4, WithinSteps
  <1>6. Active \in Within[k]
    <2>1. Within[0] \subseteq Within[k]
      BY WithinGrows
    <2> QED
      BY <2>1, WithinSteps
  <1>7. \A n \in Nat : Within[n] \subseteq Within[k]
    BY <1>5, <1>6, ClosedHolds
  <1>8. Within[k] \subseteq Within[N]
    BY <1>1, <1>4, WithinGrows
  <1>9. Lineage = Within[N]
    BY DEF Lineage, N
  <1> QED
    BY <1>6, <1>7, <1>8, <1>9

-----------------------------------------------------------------------------
(* The walk takes the lineage level by level.                              *)

\* What is queued lies d or d + 1 links away, in that order, and what is
\* queued for d + 1 is not within d.
Levels(q, d) ==
    /\ \A i \in 1..Len(q) :
         /\ q[i].depth \in {d, d + 1}
         /\ q[i].depth <= limits.depth
         /\ q[i].label \in Within[q[i].depth]
         /\ q[i].depth = d + 1 => q[i].label \notin Within[d]
    /\ \A i, j \in 1..Len(q) : i <= j => q[i].depth <= q[j].depth

\* The manifests the links of l lead to.
LinkedBy(l) == Targets(Edges(l, index)) \cap Manifests

\* A charged manifest that opens has its links reached, but for those of f
\* that the walk still has to follow.
Followed(f, rest, charged, marked) ==
    \A l \in charged :
        Opens(l) => LinkedBy(l) \subseteq marked \cup IF l = f THEN Targets(rest) ELSE {}

\* The walk is at f, d links away: everything within d links is reached.
Walking(q, f, d, rest, charged, marked) ==
    /\ d <= limits.depth
    /\ Within[d] \subseteq marked
    /\ charged \subseteq Within[d]
    /\ marked = charged \cup LabelsOf(q)
    /\ Active \in marked
    /\ Levels(q, d)
    /\ Followed(f, rest, charged, marked)

WalkInv ==
    /\ phase = "walk" =>
         /\ Walking(queue, from.label, from.depth, links, visited, reached)
         /\ "depth" \notin budget.exhausted
    /\ validated = {l \in visited \ {Active} : Opens(l)}

\* The lineage depends on the store and the index only.
LEMMA SameLineage ==
    ASSUME store' = store, index' = index
    PROVE  /\ Within' = Within
           /\ Lineage' = Lineage
           /\ Manifests' = Manifests
           /\ \A l : Opens(l)' = Opens(l)
           /\ \A l : LinkedBy(l)' = LinkedBy(l)
  <1>1. Within' = Within
    BY SMT DEF Within, Onward, Opens, Edges, Manifests, Targets, IsTimeStampManifest, Named,
               Eligible, Ascending
  <1>2. Manifests' = Manifests
    BY DEF Manifests
  <1>3. Lineage' = Lineage
    BY <1>1, <1>2 DEF Lineage
  <1>4. ASSUME NEW l PROVE Opens(l)' = Opens(l) /\ LinkedBy(l)' = LinkedBy(l)
    BY <1>2, SameStore DEF LinkedBy, Targets
  <1> QED
    BY <1>1, <1>2, <1>3, <1>4

\* What one step says of the next state's walk, said of that state.
LEMMA WalkingNext ==
    ASSUME UNCHANGED <<store, index, limits>>,
           Walking(queue', from'.label, from'.depth, links', visited', reached')
    PROVE  Walking(queue, from.label, from.depth, links, visited, reached)'
  <1>1. Within' = Within /\ (\A l : Opens(l)' = Opens(l)) /\ \A l : LinkedBy(l)' = LinkedBy(l)
    BY SameLineage
  <1>2. Levels(queue, from.depth)'
    <2>1. Levels(queue', from'.depth)
      BY DEF Walking
    <2> QED
      BY <1>1, <2>1 DEF Levels
  <1>3. Followed(from.label, links, visited, reached)'
    <2>1. Followed(from'.label, links', visited', reached')
      BY DEF Walking
    <2> QED
      BY <1>1, <2>1 DEF Followed, Targets
  <1>4. LabelsOf(queue)' = LabelsOf(queue')
    BY DEF LabelsOf
  <1> QED
    BY <1>1, <1>2, <1>3, <1>4 DEF Walking

\* The state of the walk once e is charged and rest is queued.
LevelReached(e, rest, charged, marked) ==
    /\ e.depth \in Nat /\ e.depth <= limits.depth
    /\ Within[e.depth] \subseteq marked
    /\ charged \cup {e.label} \subseteq Within[e.depth]
    /\ marked = (charged \cup {e.label}) \cup LabelsOf(rest)
    /\ Levels(rest, e.depth)
    /\ \A l \in charged : Opens(l) => LinkedBy(l) \subseteq marked

\* Popping the next manifest: when the last of a level has been followed, the
\* next level is reached, because each of its manifests is linked by a charged
\* one.
LEMMA PopLevel ==
    ASSUME store \in Stores, NEW q \in Seq(Entries), q # <<>>, NEW f, NEW d \in Nat,
           NEW charged, NEW marked, Walking(q, f, d, <<>>, charged, marked)
    PROVE  LevelReached(Head(q), Tail(q), charged, marked)
  <1> DEFINE e == Head(q)
             t == Tail(q)
  <1>1. /\ Len(q) \in Nat /\ Len(q) >= 1 /\ e = q[1] /\ 1 \in 1..Len(q) /\ e \in Entries
        /\ t \in Seq(Entries) /\ Len(t) = Len(q) - 1 /\ Len(t) \in Nat
        /\ \A i \in 1..Len(t) : t[i] = q[i + 1] /\ i + 1 \in 1..Len(q)
    OBVIOUS
  <1>2. /\ d <= limits.depth /\ Within[d] \subseteq marked /\ charged \subseteq Within[d]
        /\ marked = charged \cup LabelsOf(q) /\ Active \in marked
        /\ Levels(q, d) /\ Followed(f, <<>>, charged, marked)
    BY DEF Walking
  <1>3. LabelsOf(q) = {e.label} \cup LabelsOf(t)
    BY QueueLabels
  <1> HIDE DEF e, t
  <1>4. e.depth \in Nat /\ e.depth \in {d, d + 1} /\ e.depth <= limits.depth
          /\ e.label \in Within[e.depth]
    BY <1>1, <1>2 DEF Levels, Entries
  <1>5. \A l \in charged : Opens(l) => LinkedBy(l) \subseteq marked
    <2>1. Targets(<<>>) = {}
      BY DEF Targets
    <2> QED
      BY <1>2, <2>1 DEF Followed
  <1>6. \A i \in 1..Len(q) : e.depth <= q[i].depth
    BY <1>1, <1>2 DEF Levels
  <1>7. Within[d] \subseteq Within[e.depth]
    BY <1>4, WithinGrows
  <1>8. Within[e.depth] \subseteq marked
    <2>1. CASE e.depth = d
      BY <1>2, <2>1
    <2>2. CASE e.depth = d + 1
      <3>1. \A i \in 1..Len(q) : q[i].depth = d + 1
        <4>1. \A i \in 1..Len(q) : q[i].depth \in {d, d + 1} /\ d + 1 <= q[i].depth
          BY <1>2, <1>6, <2>2 DEF Levels
        <4> QED
          BY <4>1
      <3>2. \A i \in 1..Len(q) : q[i].label \notin Within[d]
        BY <1>2, <3>1 DEF Levels
      <3>3. Within[d] \subseteq charged
        BY <1>2, <3>2 DEF LabelsOf
      <3>4. Onward(Within[d]) \subseteq marked
        BY <1>5, <3>3 DEF Onward, LinkedBy
      <3>5. Within[d + 1] = Within[d] \cup Onward(Within[d])
        BY WithinSteps
      <3> QED
        BY <1>2, <2>2, <3>4, <3>5
    <2> QED
      BY <1>4, <2>1, <2>2
  <1>9. Levels(t, e.depth)
    <2>1. ASSUME NEW i \in 1..Len(t)
          PROVE  /\ t[i].depth \in {e.depth, e.depth + 1}
                 /\ t[i].depth <= limits.depth
                 /\ t[i].label \in Within[t[i].depth]
                 /\ t[i].depth = e.depth + 1 => t[i].label \notin Within[e.depth]
      <3>1. t[i] = q[i + 1] /\ i + 1 \in 1..Len(q)
        BY <1>1, <2>1
      <3>2. /\ t[i].depth \in {d, d + 1} /\ t[i].depth <= limits.depth
            /\ t[i].label \in Within[t[i].depth]
            /\ t[i].depth = d + 1 => t[i].label \notin Within[d]
            /\ e.depth <= t[i].depth
        BY <1>2, <1>6, <3>1 DEF Levels
      <3>3. CASE e.depth = d
        BY <3>2, <3>3
      <3>4. CASE e.depth = d + 1
        <4>1. t[i].depth = e.depth /\ t[i].depth # e.depth + 1
          BY <3>2, <3>4
        <4> QED
          BY <3>2, <4>1
      <3> QED
        BY <1>4, <3>3, <3>4
    <2>2. ASSUME NEW i \in 1..Len(t), NEW j \in 1..Len(t), i <= j PROVE t[i].depth <= t[j].depth
      <3>1. /\ t[i] = q[i + 1] /\ i + 1 \in 1..Len(q)
            /\ t[j] = q[j + 1] /\ j + 1 \in 1..Len(q) /\ i + 1 <= j + 1
        BY <1>1, <2>2
      <3> QED
        BY <1>2, <3>1 DEF Levels
    <2> QED
      BY <2>1, <2>2 DEF Levels
  <1>10. charged \cup {e.label} \subseteq Within[e.depth]
    BY <1>2, <1>4, <1>7
  <1>11. marked = (charged \cup {e.label}) \cup LabelsOf(t)
    BY <1>2, <1>3
  <1> QED
    BY <1>4, <1>5, <1>8, <1>9, <1>10, <1>11 DEF LevelReached, e, t

\* Queueing a manifest one level on, not reached before.
LEMMA PushLevel ==
    ASSUME store \in Stores, NEW q \in Seq(Entries), NEW d \in Nat, Levels(q, d),
           NEW x \in Labels, x \in Within[d + 1], x \notin Within[d], d + 1 <= limits.depth
    PROVE  Levels(Append(q, Entry(x, d + 1)), d)
  <1> DEFINE e == Entry(x, d + 1)
             c == Append(q, e)
  <1>1. e.label = x /\ e.depth = d + 1
    BY DEF Entry
  <1> HIDE DEF e
  <1>2. /\ Len(c) = Len(q) + 1 /\ Len(q) \in Nat /\ c[Len(q) + 1] = e
        /\ \A i \in 1..Len(q) : c[i] = q[i]
    OBVIOUS
  <1> HIDE DEF c
  <1>3. \A i \in 1..Len(c) : i \in 1..Len(q) \/ i = Len(q) + 1
    BY <1>2
  <1>4. ASSUME NEW i \in 1..Len(c)
        PROVE  /\ c[i].depth \in {d, d + 1}
               /\ c[i].depth <= limits.depth
               /\ c[i].label \in Within[c[i].depth]
               /\ c[i].depth = d + 1 => c[i].label \notin Within[d]
    <2>1. CASE i \in 1..Len(q)
      BY <1>2, <2>1 DEF Levels
    <2>2. CASE i = Len(q) + 1
      BY <1>1, <1>2, <2>2
    <2> QED
      BY <1>3, <2>1, <2>2
  <1>5. ASSUME NEW i \in 1..Len(c), NEW j \in 1..Len(c), i <= j PROVE c[i].depth <= c[j].depth
    <2>1. CASE j \in 1..Len(q)
      <3>1. i \in 1..Len(q)
        BY <1>2, <1>5, <2>1
      <3> QED
        BY <1>2, <1>5, <2>1, <3>1 DEF Levels
    <2>2. CASE j = Len(q) + 1
      <3>1. c[j].depth = d + 1 /\ c[i].depth \in {d, d + 1}
        BY <1>1, <1>2, <1>4, <2>2
      <3> QED
        BY <3>1
    <2> QED
      BY <1>3, <2>1, <2>2
  <1> QED
    BY <1>4, <1>5 DEF Levels, c, e

\* The walk reports what it should when it stops at a ceiling other than depth.
LEMMA StoppedShort ==
    ASSUME store \in Stores, limits \in LimitSets, UNCHANGED <<store, index, limits>>,
           NEW d \in Nat, d <= limits.depth, visited' \subseteq Within[d],
           "depth" \notin budget'.exhausted, budget'.exhausted # {} \/ visited' = {}
    PROVE  DepthIsShortest' /\ CompleteUnlessReported'
  <1>1. limits.depth \in Nat
    BY LimitsAssumption DEF Limits
  <1>2. Within' = Within
    BY SameLineage
  <1>3. visited' \subseteq Within[limits.depth]
    <2>1. Within[d] \subseteq Within[limits.depth]
      BY <1>1, WithinGrows
    <2> QED
      BY <2>1
  <1>4. DepthIsShortest'
    BY <1>2, <1>3 DEF DepthIsShortest
  <1>5. CompleteUnlessReported'
    BY DEF CompleteUnlessReported
  <1> QED
    BY <1>4, <1>5

\* While the walk runs there is nothing to show of its end.
LEMMA NotDone ==
    ASSUME phase' # "done" PROVE DepthIsShortest' /\ CompleteUnlessReported'
  BY DEF DepthIsShortest, CompleteUnlessReported

\* A manifest that opens is validated as it is charged.
LEMMA ValidatedNext ==
    ASSUME WalkInv, UNCHANGED <<store>>, NEW l,
           \/ visited' = visited /\ validated' = validated
           \/ visited' = visited \cup {l} /\ validated' = validated /\ ~Opens(l)
           \/ visited' = visited \cup {l} /\ validated' = validated \cup ({l} \ {Active}) /\ Opens(l)
    PROVE  (validated = {k \in visited \ {Active} : Opens(k)})'
  <1>1. \A k : Opens(k)' = Opens(k)
    BY SameStore
  <1>2. validated = {k \in visited \ {Active} : Opens(k)}
    BY DEF WalkInv
  <1>3. validated' = {k \in visited' \ {Active} : Opens(k)}
    BY <1>2
  <1> QED
    BY <1>1, <1>3

\* A turn of the discovery.
LEMMA WalkInvDiscover ==
    ASSUME ChargeInv, WalkInv, DiscoverExhausted \/ DiscoverSkip \/ DiscoverManifest
    PROVE  WalkInv' /\ DepthIsShortest' /\ CompleteUnlessReported'
  <1>1. phase' \in {"discover", "charge"}
    BY DEF DiscoverExhausted, DiscoverSkip, DiscoverManifest, DiscoverOpen, EndDiscovery
  <1>2. UNCHANGED <<store, visited, validated>>
    BY DEF DiscoverExhausted, DiscoverSkip, DiscoverManifest, inputs, walkState
  <1>3. (validated = {k \in visited \ {Active} : Opens(k)})'
    BY <1>2, ValidatedNext
  <1>4. phase' # "walk" /\ phase' # "done"
    BY <1>1
  <1> QED
    BY <1>3, <1>4, NotDone DEF WalkInv

\* The start of the walk.
LEMMA WalkInvCharge ==
    ASSUME ChargeInv, DiscoverInv, WalkInv, ChargeActive
    PROVE  WalkInv' /\ DepthIsShortest' /\ CompleteUnlessReported'
  <1> DEFINE n == store[Active].references
             charged == ChargeReferences(budget, n)
  <1>1. /\ phase = "charge" /\ budget' = charged
        /\ UNCHANGED <<store, limits, index, visited, validated, from, links>>
        /\ \/ phase' = "walk" /\ queue' = <<Entry(Active, 0)>> /\ reached' = {Active}
           \/ phase' = "done"
    BY DEF ChargeActive, inputs
  <1>2. visited = {} /\ budget = EmptyBudget /\ from = Entry(Active, 0) /\ links = <<>>
          /\ Under(budget, limits) /\ store \in Stores /\ limits \in LimitSets
    BY <1>1 DEF ChargeInv, DiscoverInv
  <1>3. n \in Nat /\ Active \in Labels
    BY <1>2, StoresAssumption
  <1>4. "depth" \notin charged.exhausted
    <2>1. budget.exhausted = {}
      BY <1>2 DEF EmptyBudget
    <2>2. charged.exhausted = {} \/ charged.exhausted = {"references"}
      <3> HIDE DEF n
      <3> QED
        BY <1>2, <1>3, <2>1, ReferencesNote
    <2> QED
      BY <2>2
  <1> HIDE DEF charged
  <1>5. (validated = {k \in visited \ {Active} : Opens(k)})'
    BY <1>1, ValidatedNext
  <1>6. limits.depth \in Nat /\ Within[0] = {Active}
    BY <1>2, LimitsAssumption, WithinSteps DEF Limits
  <1>7. CASE phase' = "done"
    BY <1>1, <1>2, <1>4, <1>5, <1>6, <1>7, StoppedShort DEF WalkInv
  <1>8. CASE phase' = "walk" /\ queue' = <<Entry(Active, 0)>> /\ reached' = {Active}
    <2> DEFINE e == Entry(Active, 0)
    <2>1. e.label = Active /\ e.depth = 0 /\ from' = e /\ e \in Entries
      BY <1>1, <1>2, <1>3 DEF Entry, Entries
    <2> HIDE DEF e
    <2>2. queue' = <<e>> /\ Len(queue') = 1 /\ queue'[1] = e
      BY <1>8 DEF e
    <2>3. LabelsOf(queue') = {Active}
      BY <2>1, <2>2 DEF LabelsOf
    <2>4. Levels(queue', 0)
      BY <1>6, <2>1, <2>2 DEF Levels
    <2>5. Followed(Active, links', {}, {Active})
      BY DEF Followed
    <2>6. Walking(queue', from'.label, from'.depth, links', visited', reached')
      BY <1>1, <1>2, <1>6, <1>8, <2>1, <2>3, <2>4, <2>5 DEF Walking
    <2>7. Walking(queue, from.label, from.depth, links, visited, reached)'
      BY <1>1, <2>6, WalkingNext
    <2> QED
      BY <1>1, <1>4, <1>5, <1>8, <2>7, NotDone DEF WalkInv
  <1> QED
    BY <1>1, <1>7, <1>8

\* A turn of build's outer loop.
LEMMA WalkInvManifest ==
    ASSUME ChargeInv, DiscoverInv, WalkInv, WalkManifest
    PROVE  WalkInv' /\ DepthIsShortest' /\ CompleteUnlessReported'
  <1> SUFFICES ASSUME NEW l, l = Head(queue).label, NEW d, d = Head(queue).depth
               PROVE  WalkInv' /\ DepthIsShortest' /\ CompleteUnlessReported'
    OBVIOUS
  <1> DEFINE n == store[l].bytes
             b == ChargeManifest(budget, n)
  <1>1. /\ phase = "walk" /\ queue # <<>> /\ from' = Head(queue) /\ links = <<>>
        /\ UNCHANGED <<store, limits, index, reached>>
    BY DEF WalkManifest, inputs
  <1>2. /\ queue \in Seq(Entries) /\ from \in Entries /\ store \in Stores /\ limits \in LimitSets
        /\ Under(budget, limits) /\ FreshQueue(queue, reached, visited)
        /\ reached \subseteq Manifests
    BY <1>1 DEF ChargeInv, QueueIsFresh
  <1>3. from.depth \in Nat /\ "depth" \notin budget.exhausted
          /\ Walking(queue, from.label, from.depth, <<>>, visited, reached)
    BY <1>1, <1>2 DEF Entries, WalkInv
  <1>4. /\ d \in Nat /\ d <= limits.depth
        /\ Within[d] \subseteq reached
        /\ visited \cup {l} \subseteq Within[d]
        /\ reached = (visited \cup {l}) \cup LabelsOf(Tail(queue))
        /\ Levels(Tail(queue), d)
        /\ \A k \in visited : Opens(k) => LinkedBy(k) \subseteq reached
    <2>1. LevelReached(Head(queue), Tail(queue), visited, reached)
      BY <1>1, <1>2, <1>3, PopLevel
    <2> QED
      BY <2>1 DEF LevelReached
  <1>5. Active \in reached
    BY <1>3 DEF Walking
  <1>6. l \in Manifests /\ n \in Nat /\ store[l].references \in Nat
    <2>1. l \in Manifests
      BY <1>2, <1>4
    <2> QED
      BY <1>2, <2>1, StoresAssumption DEF Manifests
  <1> HIDE DEF n
  <1>7. /\ Under(b, limits)
        /\ ManifestFits(budget, n) => b.exhausted = budget.exhausted
        /\ ~ManifestFits(budget, n) => b.exhausted # {} /\ "depth" \notin b.exhausted
    <2>1. /\ Under(b, limits)
          /\ ManifestFits(budget, n) => b.exhausted = budget.exhausted
      BY <1>2, <1>6, ManifestUnder
    <2>2. ASSUME ~ManifestFits(budget, n)
          PROVE  b.exhausted # {} /\ "depth" \notin b.exhausted
      <3>1. \E c \in {"nodes", "bytes"} : b.exhausted = budget.exhausted \cup {c}
        BY <1>2, <1>6, <2>2, ManifestNote
      <3> QED
        BY <1>3, <3>1
    <2> QED
      BY <2>1, <2>2
  <1>8. \/ /\ ~ManifestFits(budget, n)
           /\ budget' = b /\ phase' = "done"
           /\ visited' = visited /\ validated' = validated
        \/ /\ ManifestFits(budget, n) /\ ~Opens(l)
           /\ budget' = b /\ visited' = visited \cup {l} /\ validated' = validated
           /\ queue' = Tail(queue) /\ links' = links /\ phase' = phase
        \/ /\ ManifestFits(budget, n) /\ Opens(l)
           /\ visited' = visited \cup {l} /\ WalkOpen(l, b)
    BY DEF WalkManifest, EndWalk, n
  <1> HIDE DEF b
  <1>9. ASSUME phase' = "walk", queue' = Tail(queue), visited' = visited \cup {l},
               Opens(l) => LinkedBy(l) \subseteq Targets(links')
        PROVE  Walking(queue, from.label, from.depth, links, visited, reached)'
    <2>1. from'.label = l /\ from'.depth = d
      BY <1>1
    <2>2. Followed(l, links', visited', reached)
      BY <1>4, <1>9 DEF Followed
    <2>3. Walking(queue', from'.label, from'.depth, links', visited', reached')
      BY <1>1, <1>4, <1>5, <1>9, <2>1, <2>2 DEF Walking
    <2> QED
      BY <1>1, <2>3, WalkingNext
  <1>10. CASE /\ ~ManifestFits(budget, n)
              /\ budget' = b /\ phase' = "done"
              /\ visited' = visited /\ validated' = validated
    <2>1. (validated = {k \in visited \ {Active} : Opens(k)})'
      BY <1>1, <1>10, ValidatedNext
    <2>2. visited' \subseteq Within[d]
      BY <1>4, <1>10
    <2>3. DepthIsShortest' /\ CompleteUnlessReported'
      BY <1>1, <1>2, <1>4, <1>7, <1>10, <2>2, StoppedShort
    <2> QED
      BY <1>10, <2>1, <2>3 DEF WalkInv
  <1>11. CASE /\ ManifestFits(budget, n) /\ ~Opens(l)
              /\ budget' = b /\ visited' = visited \cup {l} /\ validated' = validated
              /\ queue' = Tail(queue) /\ links' = links /\ phase' = phase
    <2>1. (validated = {k \in visited \ {Active} : Opens(k)})'
      BY <1>1, <1>11, ValidatedNext
    <2>2. Walking(queue, from.label, from.depth, links, visited, reached)'
      BY <1>1, <1>9, <1>11
    <2> QED
      BY <1>1, <1>3, <1>7, <1>11, <2>1, <2>2, NotDone DEF WalkInv
  <1>12. CASE /\ ManifestFits(budget, n) /\ Opens(l)
              /\ visited' = visited \cup {l} /\ WalkOpen(l, b)
    <2> DEFINE examined == IF l = Active THEN 0 ELSE store[l].references
               edges == Edges(l, index)
               referred == ChargeReferences(b, examined)
               linked == ChargeReferences(referred, Len(edges))
    <2>1. examined \in Nat
      BY <1>6
    <2>2. Len(edges) \in Nat
      <3>1. EdgesAre(l, index)
        BY <1>2, <1>6, EdgesKeep
      <3> QED
        BY <3>1 DEF EdgesAre
    <2>3. validated' = validated \cup ({l} \ {Active})
      BY <1>12 DEF WalkOpen
    <2>4. \/ ~ReferencesFit(b, examined) /\ budget' = referred /\ phase' = "done"
          \/ /\ ReferencesFit(b, examined) /\ ~ReferencesFit(referred, Len(edges))
             /\ budget' = linked /\ phase' = "done"
          \/ /\ ReferencesFit(b, examined) /\ ReferencesFit(referred, Len(edges))
             /\ budget' = linked /\ links' = edges /\ queue' = Tail(queue) /\ phase' = phase
      BY <1>12 DEF WalkOpen, EndWalk
    <2> HIDE DEF examined, edges
    <2>5. /\ Under(referred, limits)
          /\ ReferencesFit(b, examined) => referred.exhausted = b.exhausted
          /\ ~ReferencesFit(b, examined) => referred.exhausted = b.exhausted \cup {"references"}
      BY <1>2, <1>7, <2>1, ReferencesUnder, ReferencesNote
    <2> HIDE DEF referred
    <2>6. /\ ReferencesFit(referred, Len(edges)) => linked.exhausted = referred.exhausted
          /\ ~ReferencesFit(referred, Len(edges)) =>
               linked.exhausted = referred.exhausted \cup {"references"}
      BY <1>2, <2>2, <2>5, ReferencesNote
    <2> HIDE DEF linked
    <2>7. "depth" \notin b.exhausted
      BY <1>3, <1>7, <1>12
    <2>8. "depth" \notin budget'.exhausted /\ (phase' = "done" => budget'.exhausted # {})
      <3>1. CASE ~ReferencesFit(b, examined) /\ budget' = referred /\ phase' = "done"
        BY <2>5, <2>7, <3>1
      <3>2. CASE /\ ReferencesFit(b, examined) /\ ~ReferencesFit(referred, Len(edges))
                 /\ budget' = linked /\ phase' = "done"
        BY <2>5, <2>6, <2>7, <3>2
      <3>3. CASE /\ ReferencesFit(b, examined) /\ ReferencesFit(referred, Len(edges))
                 /\ budget' = linked /\ phase' = phase
        BY <1>1, <2>5, <2>6, <2>7, <3>3
      <3> QED
        BY <2>4, <3>1, <3>2, <3>3
    <2>9. (validated = {k \in visited \ {Active} : Opens(k)})'
      BY <1>1, <1>12, <2>3, ValidatedNext
    <2>10. visited' \subseteq Within[d]
      BY <1>4, <1>12
    <2>11. CASE phase' = "done"
      <3>1. DepthIsShortest' /\ CompleteUnlessReported'
        BY <1>1, <1>2, <1>4, <2>8, <2>10, <2>11, StoppedShort
      <3> QED
        BY <2>9, <2>11, <3>1 DEF WalkInv
    <2>12. CASE phase' = phase /\ links' = edges /\ queue' = Tail(queue)
      <3>1. LinkedBy(l) \subseteq Targets(links')
        BY <2>12 DEF LinkedBy, edges
      <3>2. Walking(queue, from.label, from.depth, links, visited, reached)'
        BY <1>1, <1>9, <1>12, <2>12, <3>1
      <3> QED
        BY <1>1, <2>8, <2>9, <2>12, <3>2, NotDone DEF WalkInv
    <2> QED
      BY <2>4, <2>11, <2>12
  <1> QED
    BY <1>8, <1>10, <1>11, <1>12

\* A turn of build's loop over links.
LEMMA WalkInvFollow ==
    ASSUME ChargeInv, DiscoverInv, WalkInv, FollowLink
    PROVE  WalkInv' /\ DepthIsShortest' /\ CompleteUnlessReported'
  <1> SUFFICES ASSUME NEW f, f = from.label, NEW d, d = from.depth,
                      NEW x, x = Head(links).target
               PROVE  WalkInv' /\ DepthIsShortest' /\ CompleteUnlessReported'
    OBVIOUS
  <1>1. /\ phase = "walk" /\ links # <<>>
        /\ UNCHANGED <<store, limits, index, visited, validated, from>>
    BY DEF FollowLink, inputs
  <1>2. /\ queue \in Seq(Entries) /\ from \in Entries /\ store \in Stores /\ limits \in LimitSets
        /\ Under(budget, limits)
    BY <1>1 DEF ChargeInv, QueueIsFresh
  <1>3. d \in Nat /\ limits.depth \in Nat
    BY <1>2, LimitsAssumption DEF Entries, Limits
  <1>4. /\ "depth" \notin budget.exhausted
        /\ d <= limits.depth
        /\ Within[d] \subseteq reached
        /\ visited \subseteq Within[d]
        /\ reached = visited \cup LabelsOf(queue)
        /\ Active \in reached
        /\ Levels(queue, d)
        /\ Followed(f, links, visited, reached)
    BY <1>1 DEF WalkInv, Walking
  <1>5. /\ f \in visited /\ Opens(f)
        /\ Targets(links) = {x} \cup Targets(Tail(links))
    BY <1>1, LinksTail DEF DiscoverInv
  <1>6. x \in Targets(Edges(f, index))
    BY <1>1, LinkTarget DEF DiscoverInv
  <1>7. ASSUME x \in Manifests PROVE x \in Within[d + 1] /\ x \in Labels
    <2>1. x \in Onward(Within[d])
      BY <1>4, <1>5, <1>6, <1>7 DEF Onward
    <2>2. x \in Within[d + 1]
      BY <1>2, <1>3, <2>1, WithinSteps
    <2> QED
      BY <1>2, <1>7, <2>2, StoresAssumption DEF Manifests
  <1>8. (validated = {k \in visited \ {Active} : Opens(k)})'
    BY <1>1, ValidatedNext
  <1>9. \/ /\ x \notin Manifests \/ x \in reached
           /\ links' = Tail(links) /\ UNCHANGED <<phase, queue, budget, reached>>
        \/ /\ x \in Manifests /\ x \notin reached /\ d + 1 <= limits.depth
           /\ links' = Tail(links)
           /\ reached' = reached \cup {x}
           /\ queue' = Append(queue, Entry(x, d + 1))
           /\ UNCHANGED <<phase, budget>>
        \/ /\ x \in Manifests /\ x \notin reached /\ ~(d + 1 <= limits.depth)
           /\ budget' = Note(budget, "depth") /\ phase' = "done"
    BY DEF FollowLink, InStore, IsFresh, DepthFits, EndWalk
  <1>10. ASSUME phase' = "walk", links' = Tail(links), budget' = budget,
                reached \subseteq reached', x \notin Manifests \/ x \in reached',
                reached' = visited \cup LabelsOf(queue'), Levels(queue', d)
         PROVE  WalkInv' /\ DepthIsShortest' /\ CompleteUnlessReported'
    <2>1. Followed(f, links', visited, reached')
      <3> SUFFICES ASSUME NEW l \in visited, Opens(l), NEW y \in LinkedBy(l)
                   PROVE  y \in reached' \cup IF l = f THEN Targets(links') ELSE {}
        BY DEF Followed
      <3>1. y \in reached \cup IF l = f THEN Targets(links) ELSE {}
        BY <1>4 DEF Followed
      <3>2. y \in Manifests
        BY DEF LinkedBy
      <3> QED
        BY <1>5, <1>10, <3>1, <3>2
    <2>2. Walking(queue', f, d, links', visited', reached')
      BY <1>1, <1>4, <1>10, <2>1 DEF Walking
    <2>3. from'.label = f /\ from'.depth = d
      BY <1>1
    <2>4. Walking(queue', from'.label, from'.depth, links', visited', reached')
      BY <2>2, <2>3
    <2>5. Walking(queue, from.label, from.depth, links, visited, reached)'
      BY <1>1, <2>4, WalkingNext
    <2> QED
      BY <1>4, <1>8, <1>10, <2>5, NotDone DEF WalkInv
  <1>11. CASE /\ x \notin Manifests \/ x \in reached
              /\ links' = Tail(links) /\ UNCHANGED <<phase, queue, budget, reached>>
    BY <1>1, <1>4, <1>10, <1>11
  <1>12. CASE /\ x \in Manifests /\ x \notin reached /\ d + 1 <= limits.depth
              /\ links' = Tail(links)
              /\ reached' = reached \cup {x}
              /\ queue' = Append(queue, Entry(x, d + 1))
              /\ UNCHANGED <<phase, budget>>
    <2>1. x \in Within[d + 1] /\ x \in Labels /\ x \notin Within[d]
      BY <1>4, <1>7, <1>12
    <2>2. Levels(queue', d)
      BY <1>2, <1>3, <1>4, <1>12, <2>1, PushLevel
    <2>3. Entry(x, d + 1) \in Entries /\ Entry(x, d + 1).label = x
      BY <1>3, <2>1 DEF Entry, Entries
    <2>4. LabelsOf(queue') = LabelsOf(queue) \cup {x}
      BY <1>2, <1>12, <2>3, QueueLabels
    <2> QED
      BY <1>1, <1>4, <1>10, <1>12, <2>2, <2>4
  <1>13. CASE /\ x \in Manifests /\ x \notin reached /\ ~(d + 1 <= limits.depth)
              /\ budget' = Note(budget, "depth") /\ phase' = "done"
    <2>1. d = limits.depth
      BY <1>3, <1>4, <1>13
    <2>2. Within' = Within /\ Lineage' = Lineage
      BY <1>1, SameLineage
    <2>3. x \in Lineage /\ x \notin Within[limits.depth]
      <3>1. d + 1 \in Nat
        BY <1>3
      <3>2. Within[d + 1] \subseteq Lineage
        BY <1>2, <3>1, LineageIsAll
      <3> QED
        BY <1>4, <1>7, <1>13, <2>1, <3>2
    <2>4. budget'.exhausted # {}
      <3>1. budget'.exhausted = budget.exhausted \cup {"depth"}
        BY <1>2, <1>13, NoteKeeps, CeilingNames DEF Under
      <3> QED
        BY <3>1
    <2>5. DepthIsShortest'
      BY <1>1, <1>4, <2>1, <2>2, <2>3 DEF DepthIsShortest
    <2>6. CompleteUnlessReported'
      BY <2>4 DEF CompleteUnlessReported
    <2> QED
      BY <1>8, <1>13, <2>5, <2>6 DEF WalkInv
  <1> QED
    BY <1>9, <1>11, <1>12, <1>13

\* The end of build on an empty queue: what it charged is closed under links.
LEMMA WalkInvEnd ==
    ASSUME ChargeInv, WalkInv, WalkExhausted
    PROVE  WalkInv' /\ DepthIsShortest' /\ CompleteUnlessReported'
  <1>1. /\ phase = "walk" /\ phase' = "done" /\ queue = <<>> /\ links = <<>>
        /\ claims' = {l \in reached \ {Active} : store[l].claim = "decoded"}
        /\ UNCHANGED <<store, limits, index, visited, validated, reached, budget>>
    BY DEF WalkExhausted, EndWalk, inputs
  <1>2. store \in Stores /\ limits \in LimitSets /\ from \in Entries
    BY DEF ChargeInv
  <1>3. from.depth \in Nat /\ limits.depth \in Nat
    BY <1>2, LimitsAssumption DEF Entries, Limits
  <1>4. /\ "depth" \notin budget.exhausted
        /\ from.depth <= limits.depth
        /\ visited \subseteq Within[from.depth]
        /\ reached = visited \cup LabelsOf(queue)
        /\ Active \in reached
        /\ Followed(from.label, links, visited, reached)
        /\ validated = {l \in visited \ {Active} : Opens(l)}
    BY <1>1 DEF WalkInv, Walking
  <1>5. reached = visited
    BY <1>1, <1>4, QueueLabels
  <1>6. Onward(visited) \subseteq visited
    <2>1. Targets(links) = {}
      BY <1>1 DEF Targets
    <2>2. \A l \in visited : Opens(l) => LinkedBy(l) \subseteq visited
      BY <1>4, <1>5, <2>1 DEF Followed
    <2> QED
      BY <2>2 DEF Onward, LinkedBy
  <1>7. \A n \in Nat : Within[n] \subseteq visited
    BY <1>2, <1>4, <1>5, <1>6, ClosedHolds
  <1>8. Lineage \subseteq visited
    <2>1. Manifests \in SUBSET Labels
      BY <1>2, StoresAssumption DEF Manifests
    <2>2. Cardinality(Manifests) \in Nat
      BY <2>1, LabelsAssumption, FS_Subset, FS_CardinalityType
    <2> QED
      BY <1>7, <2>2 DEF Lineage
  <1>9. visited \subseteq Lineage
    <2>1. Within[from.depth] \subseteq Lineage
      BY <1>2, <1>3, LineageIsAll
    <2> QED
      BY <1>4, <2>1
  <1>10. Within' = Within /\ Lineage' = Lineage /\ \A l : Opens(l)' = Opens(l)
    BY <1>1, SameLineage
  <1>11. Within[from.depth] \subseteq Within[limits.depth]
    BY <1>2, <1>3, <1>4, WithinGrows
  <1>12. DepthIsShortest'
    BY <1>1, <1>4, <1>10, <1>11 DEF DepthIsShortest
  <1>13. visited = Lineage
    BY <1>8, <1>9
  <1>14. CompleteUnlessReported'
    BY <1>1, <1>4, <1>5, <1>10, <1>13 DEF CompleteUnlessReported
  <1>15. (validated = {k \in visited \ {Active} : Opens(k)})'
    BY <1>1, ValidatedNext
  <1> QED
    BY <1>1, <1>12, <1>14, <1>15 DEF WalkInv

\* Everything the proofs know of a reachable state.
GraphInv ==
    ChargeInv /\ DiscoverInv /\ WalkInv /\ DepthIsShortest /\ CompleteUnlessReported

\* The invariant in the initial states.
LEMMA GraphInvInit == ChargeInv /\ Init => GraphInv
  <1> SUFFICES ASSUME ChargeInv, Init PROVE GraphInv
    OBVIOUS
  <1>1. /\ phase = "discover" /\ queue = <<Entry(Active, 0)>> /\ from = Entry(Active, 0)
        /\ links = <<>> /\ seen = {} /\ reached = {} /\ visited = {} /\ validated = {}
        /\ discovery = EmptyBudget /\ limits \in LimitSets /\ store \in Stores
    BY DEF Init
  <1> DEFINE e == Entry(Active, 0)
  <1>2. e \in Entries /\ e.label = Active
    BY <1>1, StoresAssumption DEF Entry, Entries
  <1> HIDE DEF e
  <1>3. queue = <<e>> /\ queue \in Seq(Entries) /\ Len(queue) = 1 /\ queue[1] = e
    BY <1>1, <1>2 DEF e
  <1>4. Active \in Waiting
    BY <1>1, <1>2, <1>3 DEF Waiting, LabelsOf
  <1>5. Under(discovery, limits) /\ discovery.exhausted = {}
    BY <1>1, EmptyBudgetUnder DEF EmptyBudget
  <1>6. DiscoverInv
    BY <1>1, <1>3, <1>4, <1>5 DEF DiscoverInv, Gathered, LinksOf
  <1> QED
    BY <1>1, <1>6 DEF GraphInv, WalkInv, DepthIsShortest, CompleteUnlessReported

\* The invariant over a step that changes nothing.
LEMMA GraphInvStutter ==
    ASSUME GraphInv, UNCHANGED vars
    PROVE  DiscoverInv' /\ WalkInv' /\ DepthIsShortest' /\ CompleteUnlessReported'
  <1>1. UNCHANGED <<store, limits, phase, queue, from, links, seen, index, indexed, discovery,
                    budget, reached, visited, validated, claims>>
    BY DEF vars
  <1>2. /\ Within' = Within /\ Lineage' = Lineage /\ Manifests' = Manifests
        /\ \A l : Opens(l)' = Opens(l)
    BY <1>1, SameLineage
  <1>3. DepthIsShortest' /\ CompleteUnlessReported'
    BY <1>1, <1>2 DEF GraphInv, DepthIsShortest, CompleteUnlessReported
  <1>4. WalkInv'
    <2>1. (validated = {k \in visited \ {Active} : Opens(k)})'
      BY <1>1, ValidatedNext DEF GraphInv
    <2>2. ASSUME phase = "walk"
          PROVE  Walking(queue, from.label, from.depth, links, visited, reached)'
      <3>1. Walking(queue, from.label, from.depth, links, visited, reached)
        BY <2>2 DEF GraphInv, WalkInv
      <3>2. Walking(queue', from'.label, from'.depth, links', visited', reached')
        BY <1>1, <3>1
      <3> QED
        BY <1>1, <3>2, WalkingNext
    <2> QED
      BY <1>1, <2>1, <2>2 DEF GraphInv, WalkInv
  <1>5. LinksOf'
    <2>1. LinksOf
      BY DEF GraphInv, DiscoverInv
    <2> QED
      BY <1>1, <2>1 DEF LinksOf, Opens, Named, IsTimeStampManifest, Eligible
  <1>6. Waiting' = Waiting
    BY <1>1 DEF Waiting, LabelsOf
  <1>7. Gathered'
    <2>1. Gathered
      BY DEF GraphInv, DiscoverInv
    <2>2. ASSUME NEW l PROVE Collected(l)' = Collected(l)
      BY <1>1, <1>6, SameStore DEF Collected
    <2> QED
      BY <1>1, <1>2, <1>6, <2>1, <2>2 DEF Gathered
  <1>8. DiscoverInv'
    BY <1>1, <1>2, <1>5, <1>6, <1>7 DEF GraphInv, DiscoverInv
  <1> QED
    BY <1>3, <1>4, <1>8

\* The invariant holds of every reachable state.
LEMMA GraphInvariant == Spec => []GraphInv
  <1>1. ChargeInv /\ Init => GraphInv
    BY GraphInvInit
  <1>2. ChargeInv' /\ GraphInv /\ [Next]_vars => GraphInv'
    <2> SUFFICES ASSUME ChargeInv', GraphInv, [Next]_vars PROVE GraphInv'
      OBVIOUS
    <2>1. ChargeInv /\ DiscoverInv /\ WalkInv
      BY DEF GraphInv
    <2>2. CASE DiscoverExhausted \/ DiscoverSkip \/ DiscoverManifest
      BY <2>1, <2>2, DiscoverInvDiscover, WalkInvDiscover DEF GraphInv
    <2>3. CASE ChargeActive
      BY <2>1, <2>3, DiscoverInvCharge, WalkInvCharge DEF GraphInv
    <2>4. CASE WalkManifest
      BY <2>1, <2>4, DiscoverInvWalk, WalkInvManifest DEF GraphInv
    <2>5. CASE FollowLink
      BY <2>1, <2>5, DiscoverInvFollow, WalkInvFollow DEF GraphInv
    <2>6. CASE WalkExhausted
      BY <2>1, <2>6, DiscoverInvEnd, WalkInvEnd DEF GraphInv
    <2>7. CASE UNCHANGED vars
      BY <2>7, GraphInvStutter DEF GraphInv
    <2> QED
      BY <2>2, <2>3, <2>4, <2>5, <2>6, <2>7 DEF Next
  <1> QED
    BY <1>1, <1>2, ChargeInvariant, PTL DEF Spec

\* A walk that reports no ceiling charged the whole lineage and nothing else,
\* validated what opens of it and hands CAWG its claims, for any store:
\* cycles, diamonds, absent targets and redacted links included.
THEOREM CompleteWalk == Spec => []CompleteUnlessReported
  <1>1. GraphInv => CompleteUnlessReported
    BY DEF GraphInv
  <1> QED
    BY <1>1, GraphInvariant, PTL

\* build's queue visits no manifest beyond max_depth, and reports the depth
\* ceiling only for a manifest that no path within max_depth leads to.
THEOREM ShortestDepth == Spec => []DepthIsShortest
  <1>1. GraphInv => DepthIsShortest
    BY DEF GraphInv
  <1> QED
    BY <1>1, GraphInvariant, PTL

\* Unless redaction_index itself reports a ceiling, every manifest the walk
\* visits is one the discovery has popped, so its redactions are known before
\* the first manifest is validated.
THEOREM RedactionsKnown == Spec => []RedactionsKnownBeforeUse
  <1>1. GraphInv => RedactionsKnownBeforeUse
    <2> SUFFICES ASSUME GraphInv, phase \in {"walk", "done"}, discovery.exhausted = {},
                        NEW l \in visited, Opens(l)
                 PROVE  l \in indexed /\ Redactions(l) \subseteq index
      BY DEF RedactionsKnownBeforeUse
    <2>1. Waiting = {}
      BY DEF Waiting
    <2>2. l \in seen \cap Manifests
      BY <2>1 DEF GraphInv, DiscoverInv
    <2>3. Collected(l)
      BY <2>2 DEF GraphInv, DiscoverInv, Gathered
    <2> QED
      BY <2>3 DEF Collected
  <1> QED
    BY <1>1, GraphInvariant, PTL

-----------------------------------------------------------------------------
(* The deltas.                                                             *)

\* A name stands for one assertion of a manifest.
LEMMA NameDetermines ==
    ASSUME store \in Stores, NEW l \in Manifests, NEW a \in Named(l), NEW b \in Named(l),
           a.name = b.name
    PROVE  a = b
  <1>1. PICK i \in DOMAIN store[l].assertions : store[l].assertions[i] = a
    BY DEF Named, Range
  <1>2. PICK j \in DOMAIN store[l].assertions : store[l].assertions[j] = b
    BY DEF Named, Range
  <1>3. i = j
    BY <1>1, <1>2, StoresAssumption DEF Manifests
  <1> QED
    BY <1>1, <1>2, <1>3

\* The edges of a manifest have different names.
LEMMA EdgesDiffer ==
    ASSUME store \in Stores, NEW l \in Manifests, NEW r,
           NEW m \in 1..Len(Edges(l, r)), NEW n \in 1..Len(Edges(l, r)),
           Edges(l, r)[m].name = Edges(l, r)[n].name
    PROVE  m = n
  <1> DEFINE s == store[l].assertions
             S == {i \in DOMAIN s : Eligible(l, s[i], r)}
             order == Ascending(S)
  <1>1. s \in Seq(Range(s)) /\ \A i, j \in DOMAIN s : s[i].name = s[j].name => i = j
    BY StoresAssumption DEF Manifests
  <1>2. Len(s) \in Nat /\ DOMAIN s = 1..Len(s)
    BY <1>1
  <1>3. Edges(l, r) = [k \in DOMAIN order |-> s[order[k]]]
    BY DEF Edges
  <1> HIDE DEF s
  <1>4. S \in SUBSET Nat /\ IsFiniteSet(S)
    <2>1. S \in SUBSET (1..Len(s)) /\ IsFiniteSet(1..Len(s))
      BY <1>2, FS_Interval
    <2> QED
      BY <1>2, <2>1, FS_Subset
  <1>5. \A x \in S : x \in DOMAIN s
    OBVIOUS
  <1> HIDE DEF S
  <1>6. Lists(order, S)
    BY <1>4, AscendingLists
  <1> HIDE DEF order
  <1>7. /\ Len(order) \in Nat /\ DOMAIN order = 1..Len(order)
        /\ \A k \in 1..Len(order) : order[k] \in S
        /\ \A j, k \in 1..Len(order) : order[j] = order[k] => j = k
    BY <1>6, ListsFacts
  <1>8. Len(Edges(l, r)) = Len(order)
    BY <1>3, <1>7
  <1>9. m \in 1..Len(order) /\ n \in 1..Len(order)
    BY <1>8
  <1>10. s[order[m]].name = s[order[n]].name
    BY <1>3, <1>7, <1>9
  <1>11. order[m] = order[n]
    BY <1>1, <1>5, <1>7, <1>9, <1>10
  <1> QED
    BY <1>7, <1>9, <1>11

\* What is told of a link when it is met.
Met(f, a) == [from |-> f, name |-> a.name, target |-> a.target, recorded |-> a.recorded]

\* Every link met so far is one of a charged manifest, and met once.
MetOnce(met, charged) ==
    /\ met \in Seq(Range(met))
    /\ \A i \in 1..Len(met) :
         /\ met[i].from \in charged
         /\ \E a \in Named(met[i].from) :
              Eligible(met[i].from, a, index) /\ met[i] = Met(met[i].from, a)
    /\ \A i, j \in 1..Len(met) : met[i].from = met[j].from /\ met[i].name = met[j].name => i = j

\* Every link of a charged manifest to a manifest of the store was met, or is
\* one of f that the walk still has to follow.
MetAll(met, charged, f, rest) ==
    \A l \in charged : Opens(l) =>
        \A a \in Named(l) : Eligible(l, a, index) /\ a.target \in Manifests =>
            \/ \E i \in 1..Len(met) : met[i].from = l /\ met[i].name = a.name
            \/ l = f /\ \E n \in 1..Len(rest) : rest[n].name = a.name

\* The links still to follow are different and were not met.
Ahead(met, f, rest) ==
    /\ \A m, n \in 1..Len(rest) : rest[m].name = rest[n].name => m = n
    /\ \A n \in 1..Len(rest), i \in 1..Len(met) :
         ~(met[i].from = f /\ met[i].name = rest[n].name)

\* A charged manifest has its full verdict, any other none.
Verdicts(codes, charged) ==
    codes = [l \in Manifests |-> IF l \in charged THEN FullVerdict(l) ELSE {}]

DeltaInv ==
    /\ phase \in {"discover", "charge"} => pending = <<>>
    /\ phase # "done" => Verdicts(results, visited)
    /\ phase = "walk" =>
         /\ MetOnce(pending, visited)
         /\ MetAll(pending, visited, from.label, links)
         /\ Ahead(pending, from.label, links)

\* Verdicts depend on the store, the index and the profile only.
LEMMA SameVerdict ==
    ASSUME UNCHANGED <<store, index, strict>>
    PROVE  \A l : FullVerdict(l)' = FullVerdict(l)
  <1> SUFFICES ASSUME NEW l PROVE FullVerdict(l)' = FullVerdict(l)
    OBVIOUS
  <1>1. MissingClaim(l)' = MissingClaim(l)
    BY DEF MissingClaim
  <1>2. Opens(l)' = Opens(l)
    BY SameStore
  <1>3. MalformedCodes(l)' = MalformedCodes(l)
    <2>1. Edges(l, index)' = Edges(l, index)
      BY SameStore
    <2> QED
      BY <2>1 DEF MalformedCodes, Range
  <1>4. ManifestCodes(l)' = ManifestCodes(l)
    <2>1. RedactionCodes(l)' = RedactionCodes(l)
      BY DEF RedactionCodes, Redactions, Nonzero, Named, Range, Manifests
    <2>2. BindingCodes(l)' = BindingCodes(l)
      BY DEF BindingCodes, Nonzero, Named, Range, Manifests
    <2>3. LinkCodes(l)' = LinkCodes(l)
      BY DEF LinkCodes, NamesManifest, Named, Range, Manifests
    <2> QED
      BY <2>1, <2>2, <2>3 DEF ManifestCodes
  <1> QED
    BY <1>1, <1>2, <1>3, <1>4 DEF FullVerdict

\* What one step says of the next state's links, said of that state.
LEMMA DeltaNext ==
    ASSUME UNCHANGED <<store, index, strict>>
    PROVE  /\ Verdicts(results', visited') => Verdicts(results, visited)'
           /\ MetOnce(pending', visited') => MetOnce(pending, visited)'
           /\ MetAll(pending', visited', from'.label, links')
                => MetAll(pending, visited, from.label, links)'
           /\ Ahead(pending', from'.label, links') => Ahead(pending, from.label, links)'
  <1>1. /\ Manifests' = Manifests /\ \A l : FullVerdict(l)' = FullVerdict(l)
        /\ \A l : Opens(l)' = Opens(l) /\ Named(l)' = Named(l)
    BY SameVerdict, SameStore
  <1>2. Verdicts(results', visited') => Verdicts(results, visited)'
    BY <1>1 DEF Verdicts
  <1>3. MetOnce(pending', visited') => MetOnce(pending, visited)'
    BY <1>1 DEF MetOnce, Range, Met, Eligible
  <1>4. MetAll(pending', visited', from'.label, links') => MetAll(pending, visited, from.label, links)'
    BY <1>1 DEF MetAll, Eligible
  <1>5. Ahead(pending', from'.label, links') => Ahead(pending, from.label, links)'
    BY <1>1 DEF Ahead
  <1> QED
    BY <1>2, <1>3, <1>4, <1>5

\* Before the walk no manifest is charged and no link is met.
LEMMA DeltaInvBefore ==
    ASSUME Manifests' = Manifests, visited' = {}, pending' = <<>>, links' = <<>>,
           results' = [l \in Manifests |-> {}]
    PROVE  DeltaInv' /\ DeltasAgainstFullVerdict'
  <1>1. Verdicts(results, visited)'
    BY DEF Verdicts
  <1>2. pending' \in Seq(Range(pending')) /\ Len(pending') = 0 /\ Len(links') = 0
    OBVIOUS
  <1>3. 1..Len(pending') = {} /\ 1..Len(links') = {}
    BY <1>2
  <1>4. MetOnce(pending, visited)'
    BY <1>2, <1>3 DEF MetOnce, Range
  <1>5. MetAll(pending, visited, from.label, links)'
    BY DEF MetAll
  <1>6. Ahead(pending, from.label, links)'
    BY <1>3 DEF Ahead
  <1>7. DeltasAgainstFullVerdict'
    BY DEF DeltasAgainstFullVerdict
  <1> QED
    BY <1>1, <1>4, <1>5, <1>6, <1>7 DEF DeltaInv

LEMMA DeltaInvStart ==
    ASSUME ChargeInv, DiscoverInv, DeltaInv,
           DiscoverExhausted \/ DiscoverSkip \/ DiscoverManifest \/ ChargeActive
    PROVE  DeltaInv' /\ DeltasAgainstFullVerdict'
  <1>1. /\ phase \in {"discover", "charge"}
        /\ UNCHANGED <<store, visited, pending, links, results>>
    BY DEF DiscoverExhausted, DiscoverSkip, DiscoverManifest, ChargeActive, inputs, walkState
  <1>2. visited = {} /\ pending = <<>> /\ links = <<>> /\ Verdicts(results, visited)
    BY <1>1 DEF ChargeInv, DiscoverInv, DeltaInv
  <1>3. results = [l \in Manifests |-> {}]
    BY <1>2 DEF Verdicts
  <1>4. Manifests' = Manifests
    BY <1>1, SameStore
  <1> QED
    BY <1>1, <1>2, <1>3, <1>4, DeltaInvBefore

\* A walk that is cut short, or has not ended, owes no deltas.
LEMMA NothingOwed ==
    ASSUME phase' # "done" \/ budget'.exhausted # {}
    PROVE  DeltasAgainstFullVerdict'
  BY DEF DeltasAgainstFullVerdict

\* A ceiling other than depth is noted when build stops at a manifest.
LEMMA StopsNoted ==
    ASSUME ChargeInv, WalkManifest, phase' = "done"
    PROVE  budget'.exhausted # {}
  <1> SUFFICES ASSUME NEW l, l = Head(queue).label PROVE budget'.exhausted # {}
    OBVIOUS
  <1> DEFINE n == store[l].bytes
             b == ChargeManifest(budget, n)
             examined == IF l = Active THEN 0 ELSE store[l].references
             edges == Edges(l, index)
             referred == ChargeReferences(b, examined)
             linked == ChargeReferences(referred, Len(edges))
  <1>1. phase = "walk" /\ queue # <<>>
    BY DEF WalkManifest
  <1>2. /\ queue \in Seq(Entries) /\ store \in Stores /\ limits \in LimitSets
        /\ Under(budget, limits) /\ FreshQueue(queue, reached, visited)
        /\ reached \subseteq Manifests
    BY <1>1 DEF ChargeInv, QueueIsFresh
  <1>3. l \in Manifests
    <2>1. 1 \in 1..Len(queue) /\ Head(queue) = queue[1]
      BY <1>1, <1>2
    <2> QED
      BY <1>2, <2>1 DEF FreshQueue
  <1>4. n \in Nat /\ examined \in Nat
    BY <1>2, <1>3, StoresAssumption DEF Manifests
  <1>5. Len(edges) \in Nat
    <2>1. EdgesAre(l, index)
      BY <1>2, <1>3, EdgesKeep
    <2> QED
      BY <2>1 DEF EdgesAre
  <1>6. \/ ~ManifestFits(budget, n) /\ budget' = b
        \/ ManifestFits(budget, n) /\ ~ReferencesFit(b, examined) /\ budget' = referred
        \/ /\ ManifestFits(budget, n) /\ ReferencesFit(b, examined)
           /\ ~ReferencesFit(referred, Len(edges)) /\ budget' = linked
    BY <1>1 DEF WalkManifest, WalkOpen, EndWalk
  <1> HIDE DEF n, examined, edges
  <1>7. /\ Under(b, limits)
        /\ ~ManifestFits(budget, n) => b.exhausted # {}
    <2>1. Under(b, limits)
      BY <1>2, <1>4, ManifestUnder
    <2>2. ~ManifestFits(budget, n) =>
             \/ b.exhausted = budget.exhausted \cup {"nodes"}
             \/ b.exhausted = budget.exhausted \cup {"bytes"}
      BY <1>2, <1>4, ManifestNote
    <2> QED
      BY <2>1, <2>2
  <1> HIDE DEF b
  <1>8. /\ Under(referred, limits)
        /\ ~ReferencesFit(b, examined) => referred.exhausted # {}
    <2>1. Under(referred, limits)
      BY <1>2, <1>4, <1>7, ReferencesUnder
    <2>2. ~ReferencesFit(b, examined) => referred.exhausted = b.exhausted \cup {"references"}
      BY <1>2, <1>4, <1>7, ReferencesNote
    <2> QED
      BY <2>1, <2>2
  <1> HIDE DEF referred
  <1>9. ~ReferencesFit(referred, Len(edges)) => linked.exhausted # {}
    BY <1>2, <1>5, <1>8, ReferencesNote
  <1> QED
    BY <1>6, <1>7, <1>8, <1>9

\* The codes of a manifest once build is done with it.
LEMMA VerdictGiven ==
    ASSUME store \in Stores, NEW l \in Manifests, l \notin visited, NEW codes, NEW charged,
           Verdicts(codes, visited), charged = visited \cup {l}, NEW after,
           \/ ~Opens(l) /\ after = IF store[l].claim = "decoded" THEN codes
                                   ELSE [codes EXCEPT ![l] = MissingClaim(l)]
           \/ /\ Opens(l)
              /\ after = [IF l = Active THEN codes ELSE [codes EXCEPT ![l] = ManifestCodes(l)]
                            EXCEPT ![l] = @ \cup MalformedCodes(l)]
    PROVE  Verdicts(after, charged)
  <1>1. codes = [k \in Manifests |-> IF k \in visited THEN FullVerdict(k) ELSE {}]
    BY DEF Verdicts
  <1>2. DOMAIN after = Manifests /\ \A k \in Manifests \ {l} : after[k] = codes[k]
    BY <1>1
  <1>3. after[l] = FullVerdict(l)
    <2>1. codes[l] = {} /\ DOMAIN codes = Manifests
      BY <1>1
    <2>2. CASE ~Opens(l)
      BY <2>1, <2>2 DEF FullVerdict
    <2>3. CASE Opens(l)
      <3>1. store[l].claim = "decoded"
        BY <2>3 DEF Opens
      <3>2. after[l] = (IF l # Active THEN ManifestCodes(l) ELSE {}) \cup MalformedCodes(l)
        BY <2>1, <2>3
      <3> QED
        BY <2>3, <3>1, <3>2 DEF FullVerdict
    <2> QED
      BY <2>2, <2>3
  <1>4. after = [k \in Manifests |-> after[k]]
    BY <1>1
  <1>5. \A k \in Manifests : after[k] = IF k \in charged THEN FullVerdict(k) ELSE {}
    BY <1>1, <1>2, <1>3
  <1> HIDE DEF Verdicts
  <1>6. after = [k \in Manifests |-> IF k \in charged THEN FullVerdict(k) ELSE {}]
    BY <1>4, <1>5, Zenon
  <1> QED
    BY <1>6 DEF Verdicts

\* A turn of build's outer loop.
LEMMA DeltaInvManifest ==
    ASSUME ChargeInv, DeltaInv, WalkManifest
    PROVE  DeltaInv' /\ DeltasAgainstFullVerdict'
  <1> SUFFICES ASSUME NEW l, l = Head(queue).label
               PROVE  DeltaInv' /\ DeltasAgainstFullVerdict'
    OBVIOUS
  <1>1. /\ phase = "walk" /\ queue # <<>> /\ from' = Head(queue) /\ links = <<>>
        /\ UNCHANGED <<store, limits, index, strict>>
    BY DEF WalkManifest, inputs
  <1>2. /\ queue \in Seq(Entries) /\ store \in Stores
        /\ FreshQueue(queue, reached, visited)
        /\ reached \subseteq Manifests
    BY <1>1 DEF ChargeInv, QueueIsFresh
  <1>3. l \in Manifests /\ l \notin visited
    <2>1. 1 \in 1..Len(queue) /\ Head(queue) = queue[1]
      BY <1>1, <1>2
    <2> QED
      BY <1>2, <2>1 DEF FreshQueue
  <1>4. /\ Verdicts(results, visited)
        /\ MetOnce(pending, visited)
        /\ MetAll(pending, visited, from.label, links)
    BY <1>1 DEF DeltaInv
  <1>5. CASE phase' = "done"
    <2>1. DeltasAgainstFullVerdict'
      BY <1>5, StopsNoted, NothingOwed
    <2> QED
      BY <1>5, <2>1 DEF DeltaInv
  <1>6. CASE phase' # "done"
    <2>1. /\ phase' = "walk" /\ visited' = visited \cup {l} /\ pending' = pending
          /\ \/ /\ ~Opens(l) /\ links' = links
                /\ results' = IF store[l].claim = "decoded" THEN results
                              ELSE [results EXCEPT ![l] = MissingClaim(l)]
             \/ /\ Opens(l) /\ links' = Edges(l, index)
                /\ results' = [IF l = Active THEN results
                               ELSE [results EXCEPT ![l] = ManifestCodes(l)]
                                 EXCEPT ![l] = @ \cup MalformedCodes(l)]
      BY <1>1, <1>6 DEF WalkManifest, WalkOpen, EndWalk
    <2>2. Verdicts(results', visited')
      BY <1>2, <1>3, <1>4, <2>1, VerdictGiven
    <2>3. MetOnce(pending', visited')
      BY <1>4, <2>1 DEF MetOnce
    <2>4. MetAll(pending', visited', l, links')
      <3> SUFFICES ASSUME NEW k \in visited', Opens(k), NEW a \in Named(k),
                          Eligible(k, a, index), a.target \in Manifests
                   PROVE  \/ \E i \in 1..Len(pending') :
                               pending'[i].from = k /\ pending'[i].name = a.name
                          \/ k = l /\ \E n \in 1..Len(links') : links'[n].name = a.name
        BY DEF MetAll
      <3>1. CASE k \in visited
        <4>1. 1..Len(links) = {}
          BY <1>1
        <4> QED
          BY <1>4, <2>1, <3>1, <4>1 DEF MetAll
      <3>2. CASE k = l
        <4>1. EdgesAre(l, index)
          BY <1>2, <1>3, EdgesKeep
        <4>2. \E n \in 1..Len(Edges(l, index)) : Edges(l, index)[n] = a
          BY <3>2, <4>1 DEF EdgesAre
        <4> QED
          BY <2>1, <3>2, <4>2
      <3> QED
        BY <2>1, <3>1, <3>2
    <2>5. Ahead(pending', l, links')
      <3>1. CASE ~Opens(l)
        <4>1. links' = <<>> /\ 1..Len(links') = {}
          BY <1>1, <2>1, <3>1
        <4> QED
          BY <4>1 DEF Ahead
      <3>2. CASE Opens(l)
        <4>1. links' = Edges(l, index)
          BY <2>1, <3>2
        <4>2. \A m, n \in 1..Len(links') : links'[m].name = links'[n].name => m = n
          BY <1>2, <1>3, <4>1, EdgesDiffer
        <4>3. \A i \in 1..Len(pending') : pending'[i].from # l
          BY <1>3, <1>4, <2>1 DEF MetOnce
        <4> QED
          BY <4>2, <4>3 DEF Ahead
      <3> QED
        BY <3>1, <3>2
    <2>6. from'.label = l
      BY <1>1
    <2>7. /\ Verdicts(results, visited)' /\ MetOnce(pending, visited)'
          /\ MetAll(pending, visited, from.label, links)'
          /\ Ahead(pending, from.label, links)'
      BY <1>1, <2>2, <2>3, <2>4, <2>5, <2>6, DeltaNext
    <2> QED
      BY <1>6, <2>1, <2>7, NothingOwed DEF DeltaInv
  <1> QED
    BY <1>5, <1>6

\* One more link is met.
LEMMA MeetOne ==
    ASSUME NEW met, NEW charged, NEW f \in charged, NEW a \in Named(f), Eligible(f, a, index),
           MetOnce(met, charged),
           \A i \in 1..Len(met) : ~(met[i].from = f /\ met[i].name = a.name)
    PROVE  LET more == Append(met, Met(f, a)) IN
             /\ MetOnce(more, charged)
             /\ Len(more) = Len(met) + 1
             /\ Len(met) \in Nat
             /\ more[Len(met) + 1] = Met(f, a)
             /\ \A i \in 1..Len(met) : more[i] = met[i]
  <1> DEFINE e == Met(f, a)
             S == Range(met) \cup {e}
             more == Append(met, e)
  <1>1. e.from = f /\ e.name = a.name
    BY DEF Met
  <1>2. met \in Seq(Range(met))
    BY DEF MetOnce
  <1>3. met \in Seq(S)
    BY <1>2
  <1>4. /\ more \in Seq(S) /\ Len(more) = Len(met) + 1 /\ Len(met) \in Nat
        /\ more[Len(met) + 1] = e /\ \A i \in 1..Len(met) : more[i] = met[i]
    <2> HIDE DEF e, S
    <2>1. e \in S
      BY DEF S
    <2> QED
      BY <1>3, <2>1
  <1> HIDE DEF e, S, more
  <1>5. \A i \in 1..Len(more) : i \in 1..Len(met) \/ i = Len(met) + 1
    BY <1>4
  <1>6. more \in Seq(Range(more))
    <2>1. DOMAIN more = 1..Len(more) /\ Len(more) \in Nat
      BY <1>4
    <2>2. \A i \in 1..Len(more) : more[i] \in Range(more)
      BY <2>1 DEF Range
    <2>3. more \in [1..Len(more) -> Range(more)]
      BY <1>4, <2>1, <2>2
    <2> QED
      BY <2>1, <2>3
  <1>7. ASSUME NEW i \in 1..Len(more)
        PROVE  /\ more[i].from \in charged
               /\ \E b \in Named(more[i].from) :
                    Eligible(more[i].from, b, index) /\ more[i] = Met(more[i].from, b)
    <2>1. CASE i \in 1..Len(met)
      BY <1>4, <2>1 DEF MetOnce
    <2>2. CASE i = Len(met) + 1
      BY <1>1, <1>4, <2>2 DEF e
    <2> QED
      BY <1>5, <2>1, <2>2
  <1>8. ASSUME NEW i \in 1..Len(more), NEW j \in 1..Len(more),
               more[i].from = more[j].from, more[i].name = more[j].name
        PROVE  i = j
    <2>1. CASE i \in 1..Len(met) /\ j \in 1..Len(met)
      BY <1>4, <1>8, <2>1 DEF MetOnce
    <2>2. CASE i \in 1..Len(met) /\ j = Len(met) + 1
      BY <1>1, <1>4, <1>8, <2>2
    <2>3. CASE i = Len(met) + 1 /\ j \in 1..Len(met)
      BY <1>1, <1>4, <1>8, <2>3
    <2> QED
      BY <1>5, <2>1, <2>2, <2>3
  <1>9. MetOnce(more, charged)
    BY <1>6, <1>7, <1>8 DEF MetOnce
  <1> QED
    BY <1>4, <1>9 DEF more, e

\* A turn of build's loop over links.
LEMMA DeltaInvFollow ==
    ASSUME ChargeInv, DiscoverInv, DeltaInv, FollowLink
    PROVE  DeltaInv' /\ DeltasAgainstFullVerdict'
  <1> SUFFICES ASSUME NEW f, f = from.label, NEW a, a = Head(links), NEW t, t = Tail(links)
               PROVE  DeltaInv' /\ DeltasAgainstFullVerdict'
    OBVIOUS
  <1>1. /\ phase = "walk" /\ links # <<>>
        /\ UNCHANGED <<store, limits, index, strict, visited, from>>
    BY DEF FollowLink, inputs
  <1>2. store \in Stores /\ visited \subseteq Manifests /\ Under(budget, limits)
    BY DEF ChargeInv
  <1>3. /\ LinksOf /\ links \in Seq(Range(links))
        /\ a \in Named(f) /\ Eligible(f, a, index) /\ f \in visited
        /\ \A n \in 1..Len(links) : links[n] \in Named(f)
    BY <1>1, LinksTail DEF DiscoverInv, LinksOf
  <1>4. /\ Len(links) \in Nat /\ Len(links) >= 1 /\ a = links[1] /\ 1 \in 1..Len(links)
        /\ Len(t) = Len(links) - 1
        /\ \A n \in 1..Len(t) : t[n] = links[n + 1] /\ n + 1 \in 1..Len(links)
    BY <1>1, <1>3
  <1>5. /\ Verdicts(results, visited)
        /\ MetOnce(pending, visited)
        /\ MetAll(pending, visited, f, links)
        /\ Ahead(pending, f, links)
    BY <1>1 DEF DeltaInv
  <1>6. \A i \in 1..Len(pending) : ~(pending[i].from = f /\ pending[i].name = a.name)
    BY <1>4, <1>5 DEF Ahead
  <1>7. \A n \in 1..Len(t) : t[n].name # a.name
    <2> SUFFICES ASSUME NEW n \in 1..Len(t), t[n].name = a.name PROVE FALSE
      OBVIOUS
    <2>1. links[n + 1].name = links[1].name /\ n + 1 \in 1..Len(links)
      BY <1>4
    <2>2. n + 1 = 1
      BY <1>4, <1>5, <2>1 DEF Ahead
    <2> QED
      BY <1>4, <2>2
  <1>8. \A m, n \in 1..Len(t) : t[m].name = t[n].name => m = n
    <2> SUFFICES ASSUME NEW m \in 1..Len(t), NEW n \in 1..Len(t), t[m].name = t[n].name
                 PROVE  m = n
      OBVIOUS
    <2>1. /\ links[m + 1].name = links[n + 1].name
          /\ m + 1 \in 1..Len(links) /\ n + 1 \in 1..Len(links)
      BY <1>4
    <2>2. m + 1 = n + 1
      BY <1>5, <2>1 DEF Ahead
    <2> QED
      BY <2>2
  <1>9. ASSUME NEW n \in 1..Len(links), links[n].name # a.name
        PROVE  \E m \in 1..Len(t) : t[m].name = links[n].name
    <2>1. n # 1
      BY <1>4, <1>9
    <2>2. n - 1 \in 1..Len(t) /\ (n - 1) + 1 = n
      BY <1>4, <2>1
    <2>3. t[n - 1] = links[n]
      BY <1>4, <2>2
    <2> QED
      BY <2>2, <2>3
  <1>10. \/ /\ a.target \notin Manifests /\ phase' = phase /\ links' = t
            /\ pending' = pending /\ results' = results
         \/ /\ a.target \in Manifests /\ phase' = phase /\ links' = t
            /\ pending' = Append(pending, Met(f, a)) /\ results' = results
         \/ phase' = "done" /\ budget' = Note(budget, "depth")
    BY DEF FollowLink, InStore, EndWalk, Met
  <1>11. ASSUME phase' = phase, results' = results, links' = t,
                MetOnce(pending', visited), MetAll(pending', visited, f, t),
                Ahead(pending', f, t)
         PROVE  DeltaInv' /\ DeltasAgainstFullVerdict'
    <2>1. from'.label = f
      BY <1>1
    <2>2. Verdicts(results', visited')
      BY <1>1, <1>5, <1>11
    <2>3. /\ Verdicts(results, visited)' /\ MetOnce(pending, visited)'
          /\ MetAll(pending, visited, from.label, links)'
          /\ Ahead(pending, from.label, links)'
      BY <1>1, <1>11, <2>1, <2>2, DeltaNext
    <2> QED
      BY <1>1, <1>11, <2>3, NothingOwed DEF DeltaInv
  <1>12. CASE /\ a.target \notin Manifests /\ phase' = phase /\ links' = t
              /\ pending' = pending /\ results' = results
    <2>1. MetAll(pending, visited, f, t)
      <3> SUFFICES ASSUME NEW l \in visited, Opens(l), NEW b \in Named(l),
                          Eligible(l, b, index), b.target \in Manifests
                   PROVE  \/ \E i \in 1..Len(pending) :
                               pending[i].from = l /\ pending[i].name = b.name
                          \/ l = f /\ \E n \in 1..Len(t) : t[n].name = b.name
        BY DEF MetAll
      <3>1. CASE \E i \in 1..Len(pending) : pending[i].from = l /\ pending[i].name = b.name
        BY <3>1
      <3>2. CASE l = f /\ \E n \in 1..Len(links) : links[n].name = b.name
        <4>1. b.name # a.name
          BY <1>2, <1>3, <1>12, <3>2, NameDetermines
        <4> QED
          BY <1>9, <3>2, <4>1
      <3> QED
        BY <1>5, <3>1, <3>2 DEF MetAll
    <2>2. Ahead(pending, f, t)
      BY <1>4, <1>5, <1>8 DEF Ahead
    <2> QED
      BY <1>5, <1>11, <1>12, <2>1, <2>2
  <1>13. CASE /\ a.target \in Manifests /\ phase' = phase /\ links' = t
              /\ pending' = Append(pending, Met(f, a)) /\ results' = results
    <2>1. /\ MetOnce(pending', visited)
          /\ Len(pending') = Len(pending) + 1 /\ Len(pending) \in Nat
          /\ pending'[Len(pending) + 1] = Met(f, a)
          /\ \A i \in 1..Len(pending) : pending'[i] = pending[i]
      BY <1>3, <1>5, <1>6, <1>13, MeetOne
    <2>2. /\ \A i \in 1..Len(pending') : i \in 1..Len(pending) \/ i = Len(pending) + 1
          /\ \A i \in 1..Len(pending) : i \in 1..Len(pending')
          /\ Len(pending) + 1 \in 1..Len(pending')
      BY <2>1
    <2>3. Met(f, a).from = f /\ Met(f, a).name = a.name
      BY DEF Met
    <2>4. MetAll(pending', visited, f, t)
      <3> SUFFICES ASSUME NEW l \in visited, Opens(l), NEW b \in Named(l),
                          Eligible(l, b, index), b.target \in Manifests
                   PROVE  \/ \E i \in 1..Len(pending') :
                               pending'[i].from = l /\ pending'[i].name = b.name
                          \/ l = f /\ \E n \in 1..Len(t) : t[n].name = b.name
        BY DEF MetAll
      <3>1. CASE \E i \in 1..Len(pending) : pending[i].from = l /\ pending[i].name = b.name
        BY <2>1, <2>2, <3>1
      <3>2. CASE l = f /\ \E n \in 1..Len(links) : links[n].name = b.name
        <4>1. CASE b.name = a.name
          BY <2>1, <2>2, <2>3, <3>2, <4>1
        <4>2. CASE b.name # a.name
          BY <1>9, <3>2, <4>2
        <4> QED
          BY <4>1, <4>2
      <3> QED
        BY <1>5, <3>1, <3>2 DEF MetAll
    <2>5. ASSUME NEW n \in 1..Len(t), NEW i \in 1..Len(pending'),
                 pending'[i].from = f, pending'[i].name = t[n].name
          PROVE  FALSE
      <3>1. CASE i \in 1..Len(pending)
        BY <1>4, <1>5, <2>1, <2>5, <3>1 DEF Ahead
      <3>2. CASE i = Len(pending) + 1
        BY <1>7, <2>1, <2>3, <2>5, <3>2
      <3> QED
        BY <2>2, <3>1, <3>2
    <2>6. Ahead(pending', f, t)
      BY <1>8, <2>5 DEF Ahead
    <2> QED
      BY <1>11, <1>13, <2>1, <2>4, <2>6
  <1>14. CASE phase' = "done" /\ budget' = Note(budget, "depth")
    <2>1. budget'.exhausted = budget.exhausted \cup {"depth"}
      BY <1>2, <1>14, NoteKeeps, CeilingNames DEF Under
    <2>2. DeltasAgainstFullVerdict'
      BY <2>1, NothingOwed
    <2> QED
      BY <1>14, <2>2 DEF DeltaInv
  <1> QED
    BY <1>10, <1>12, <1>13, <1>14

\* Exactly one delta of all is about the link named name of l, and it is due.
ToldFor(all, l, name, due) ==
    LET told == {i \in DOMAIN all : all[i].from = l /\ all[i].name = name}
    IN  IF due = Delta(None, {}) THEN told = {}
        ELSE Cardinality(told) = 1 /\ \A i \in told : all[i].delta = due

\* Of the links met, those whose verdict differs are told, each once.
LEMMA ToldOnce ==
    ASSUME NEW met, NEW charged, MetOnce(met, charged), NEW codes, NEW k \in 1..Len(met)
    PROVE  ToldFor(Told(met, codes), met[k].from, met[k].name,
                   Delta(met[k].recorded, codes[met[k].target]))
  <1> DEFINE Of(link) == Delta(link.recorded, codes[link.target])
             S == {i \in DOMAIN met : Of(met[i]) # Delta(None, {})}
             order == Ascending(S)
             all == Told(met, codes)
             told == {i \in DOMAIN all : all[i].from = met[k].from /\ all[i].name = met[k].name}
             due == Of(met[k])
  <1>1. /\ met \in Seq(Range(met))
        /\ \A i, j \in 1..Len(met) : met[i].from = met[j].from /\ met[i].name = met[j].name => i = j
    BY DEF MetOnce
  <1>2. Len(met) \in Nat /\ DOMAIN met = 1..Len(met)
    BY <1>1
  <1>3. all = [i \in DOMAIN order |->
                 [from |-> met[order[i]].from, name |-> met[order[i]].name,
                  target |-> met[order[i]].target, delta |-> Of(met[order[i]])]]
    BY DEF Told
  <1>4. S \in SUBSET Nat /\ IsFiniteSet(S) /\ S \subseteq 1..Len(met)
    <2>1. S \in SUBSET (1..Len(met)) /\ IsFiniteSet(1..Len(met))
      BY <1>2, FS_Interval
    <2> QED
      BY <1>2, <2>1, FS_Subset
  <1>5. k \in S <=> due # Delta(None, {})
    BY <1>2
  <1> HIDE DEF S, Of
  <1>6. Lists(order, S)
    BY <1>4, AscendingLists
  <1> HIDE DEF order
  <1>7. /\ DOMAIN order = 1..Len(order)
        /\ \A i \in 1..Len(order) : order[i] \in S
        /\ \A x \in S : \E n \in 1..Len(order) : order[n] = x
        /\ \A i, j \in 1..Len(order) : order[i] = order[j] => i = j
    BY <1>6, ListsFacts
  <1>8. /\ DOMAIN all = 1..Len(order)
        /\ \A i \in 1..Len(order) : /\ all[i].from = met[order[i]].from
                                    /\ all[i].name = met[order[i]].name
                                    /\ all[i].delta = Of(met[order[i]])
    BY <1>3, <1>7
  <1> HIDE DEF all
  <1>9. ASSUME NEW i \in told PROVE i \in 1..Len(order) /\ order[i] = k
    <2>1. i \in 1..Len(order) /\ all[i].from = met[k].from /\ all[i].name = met[k].name
      BY <1>8, <1>9
    <2>2. order[i] \in 1..Len(met)
      BY <1>4, <1>7, <2>1
    <2>3. met[order[i]].from = met[k].from /\ met[order[i]].name = met[k].name
      BY <1>8, <2>1
    <2> QED
      BY <1>1, <2>1, <2>2, <2>3
  <1>10. CASE due = Delta(None, {})
    <2>1. told = {}
      BY <1>5, <1>7, <1>9, <1>10
    <2> QED
      BY <1>10, <2>1 DEF ToldFor, Of, all
  <1>11. CASE due # Delta(None, {})
    <2>1. PICK n \in 1..Len(order) : order[n] = k
      BY <1>5, <1>7, <1>11
    <2>2. n \in told
      BY <1>8, <2>1
    <2>3. told = {n}
      BY <1>7, <1>9, <2>1, <2>2
    <2>4. Cardinality(told) = 1
      BY <2>3, FS_Singleton
    <2>5. \A i \in told : all[i].delta = due
      BY <1>8, <2>1, <2>3
    <2> QED
      BY <1>11, <2>4, <2>5 DEF ToldFor, Of, all
  <1> QED
    BY <1>10, <1>11

\* The end of build: every link of the lineage was met, and every manifest it
\* leads to has its full verdict by then.
LEMMA DeltaInvEnd ==
    ASSUME ChargeInv, WalkInv, DeltaInv, WalkExhausted, CompleteUnlessReported'
    PROVE  DeltaInv' /\ DeltasAgainstFullVerdict'
  <1>1. /\ phase = "walk" /\ phase' = "done" /\ queue = <<>> /\ links = <<>>
        /\ deltas' = Told(pending, results)
        /\ UNCHANGED <<store, index, strict, visited>>
    BY DEF WalkExhausted, EndWalk, inputs
  <1>2. store \in Stores /\ visited \subseteq Manifests
    BY DEF ChargeInv
  <1>3. /\ Verdicts(results, visited)
        /\ MetOnce(pending, visited)
        /\ MetAll(pending, visited, from.label, links)
    BY <1>1 DEF DeltaInv
  <1>4. /\ Manifests' = Manifests
        /\ \A l : Opens(l)' = Opens(l)
        /\ \A l : FullVerdict(l)' = FullVerdict(l)
        /\ \A l : Edges(l, index)' = Edges(l, index)
    BY <1>1, SameVerdict, SameStore
  <1>5. \A l \in visited : Opens(l) => LinkedBy(l) \subseteq visited
    <2>1. Targets(links) = {} /\ LabelsOf(queue) = {}
      BY <1>1, QueueLabels DEF Targets
    <2>2. reached = visited \cup LabelsOf(queue) /\ Followed(from.label, links, visited, reached)
      BY <1>1 DEF WalkInv, Walking
    <2> QED
      BY <2>1, <2>2 DEF Followed
  <1>6. ASSUME NEW l \in visited, Opens(l), NEW a \in Range(Edges(l, index)), a.target \in Manifests
        PROVE  ToldFor(deltas', l, a.name, Delta(a.recorded, FullVerdict(a.target)))
    <2>1. a \in Named(l) /\ Eligible(l, a, index) /\ a.target \in LinkedBy(l)
      <3>1. EdgesAre(l, index)
        BY <1>2, <1>6, EdgesKeep
      <3>2. PICK n \in DOMAIN Edges(l, index) : Edges(l, index)[n] = a
        BY <1>6 DEF Range
      <3>3. DOMAIN Edges(l, index) = 1..Len(Edges(l, index))
        BY <3>1 DEF EdgesAre
      <3>4. a \in Named(l) /\ Eligible(l, a, index)
        BY <3>1, <3>2, <3>3 DEF EdgesAre
      <3>5. a.target \in Targets(Edges(l, index))
        BY <3>1, <3>4 DEF EdgesAre
      <3> QED
        BY <1>6, <3>4, <3>5 DEF LinkedBy
    <2>2. PICK k \in 1..Len(pending) : pending[k].from = l /\ pending[k].name = a.name
      <3>1. 1..Len(links) = {}
        BY <1>1
      <3> QED
        BY <1>3, <1>6, <2>1, <3>1 DEF MetAll
    <2>3. pending[k].target = a.target /\ pending[k].recorded = a.recorded
      <3>1. PICK b \in Named(l) : pending[k] = Met(l, b)
        BY <1>3, <2>2 DEF MetOnce
      <3>2. b.name = a.name
        BY <2>2, <3>1 DEF Met
      <3>3. b = a
        BY <1>2, <1>6, <2>1, <3>2, NameDetermines
      <3> QED
        BY <3>1, <3>3 DEF Met
    <2>4. a.target \in visited
      BY <1>5, <1>6, <2>1
    <2>5. results[a.target] = FullVerdict(a.target)
      BY <1>3, <1>6, <2>4 DEF Verdicts
    <2>6. Delta(pending[k].recorded, results[pending[k].target])
            = Delta(a.recorded, FullVerdict(a.target))
      BY <2>3, <2>5
    <2> QED
      BY <1>1, <1>3, <2>2, <2>6, ToldOnce
  <1>7. DeltasAgainstFullVerdict'
    <2> SUFFICES ASSUME visited' # {}, budget'.exhausted = {}
                 PROVE  DeltasAgainstFullVerdict'
      BY DEF DeltasAgainstFullVerdict
    <2>1. Lineage' = visited
      BY <1>1 DEF CompleteUnlessReported
    <2> QED
      <3> SUFFICES ASSUME NEW l \in visited, Opens(l), NEW a \in Range(Edges(l, index)),
                          a.target \in Manifests
                   PROVE  ToldFor(deltas', l, a.name, Delta(a.recorded, FullVerdict(a.target)))
        BY <1>4, <2>1 DEF DeltasAgainstFullVerdict, ToldFor, Range
      <3> QED
        BY <1>6
  <1> QED
    BY <1>1, <1>7 DEF DeltaInv

\* DeltaInv holds along with the rest.
LEMMA DeltaInvariant == Spec => [](DeltaInv /\ DeltasAgainstFullVerdict)
  <1>1. GraphInv /\ Init => DeltaInv /\ DeltasAgainstFullVerdict
    BY DEF Init, DeltaInv, Verdicts, Manifests, DeltasAgainstFullVerdict
  <1>2. /\ GraphInv /\ GraphInv' /\ DeltaInv /\ DeltasAgainstFullVerdict /\ [Next]_vars
        => DeltaInv' /\ DeltasAgainstFullVerdict'
    <2> SUFFICES ASSUME GraphInv, GraphInv', DeltaInv, DeltasAgainstFullVerdict, [Next]_vars
                 PROVE  DeltaInv' /\ DeltasAgainstFullVerdict'
      OBVIOUS
    <2>1. ChargeInv /\ DiscoverInv /\ WalkInv /\ CompleteUnlessReported'
      BY DEF GraphInv
    <2>2. CASE DiscoverExhausted \/ DiscoverSkip \/ DiscoverManifest \/ ChargeActive
      BY <2>1, <2>2, DeltaInvStart
    <2>3. CASE WalkManifest
      BY <2>1, <2>3, DeltaInvManifest
    <2>4. CASE FollowLink
      BY <2>1, <2>4, DeltaInvFollow
    <2>5. CASE WalkExhausted
      BY <2>1, <2>5, DeltaInvEnd
    <2>6. CASE UNCHANGED vars
      <3>1. UNCHANGED <<store, index, strict, phase, visited, pending, results, links, from,
                        budget, deltas>>
        BY <2>6 DEF vars
      <3>2. Lineage' = Lineage /\ Manifests' = Manifests /\ \A l : Opens(l)' = Opens(l)
        BY <3>1, SameLineage
      <3>3. /\ \A l : FullVerdict(l)' = FullVerdict(l)
            /\ \A l : Edges(l, index)' = Edges(l, index)
        BY <3>1, SameVerdict, SameStore
      <3>4. DeltasAgainstFullVerdict'
        <4> SUFFICES ASSUME phase = "done", visited # {}, budget.exhausted = {},
                            NEW l \in Lineage, Opens(l), NEW a \in Range(Edges(l, index)),
                            a.target \in Manifests
                     PROVE  ToldFor(deltas', l, a.name, Delta(a.recorded, FullVerdict(a.target)))
          BY <3>1, <3>2, <3>3 DEF DeltasAgainstFullVerdict, ToldFor, Range
        <4>1. ToldFor(deltas, l, a.name, Delta(a.recorded, FullVerdict(a.target)))
          BY DEF DeltasAgainstFullVerdict, ToldFor
        <4> QED
          BY <3>1, <4>1
      <3>5. DeltaInv'
        BY <3>1, DeltaNext DEF DeltaInv
      <3> QED
        BY <3>4, <3>5
    <2> QED
      BY <2>2, <2>3, <2>4, <2>5, <2>6 DEF Next
  <1> QED
    BY <1>1, <1>2, GraphInvariant, PTL DEF Spec

\* Unless a ceiling stopped the walk, build tells exactly one delta for each
\* ingredient link of the lineage whose recorded verdict differs from the full
\* verdict on its manifest, and none for the others, for any store.
THEOREM DeltasMatchVerdicts == Spec => []DeltasAgainstFullVerdict
  BY DeltaInvariant, PTL
=============================================================================
