------------------------- MODULE OnlineSessionProofs -------------------------
(***************************************************************************)
(* Proofs about what the program asks of the network: OnlineSession, for   *)
(* every asset, server, person and limit, and at the end the command       *)
(* line's own request, UpdateCheck.                                        *)
(***************************************************************************)
EXTENDS OnlineSession, UpdateCheck, WellFoundedInduction, NaturalsInduction, TLAPS

-----------------------------------------------------------------------------
(***************************************************************************)
(* Induction over the natural numbers, without an operator parameter, and  *)
(* what it gives for functions defined by recursion over a sequence.       *)
(***************************************************************************)

\* A set of natural numbers that is not empty has a least element.
LEMMA LeastNat ==
    ASSUME NEW T \in SUBSET Nat, T # {}
    PROVE  \E n \in T : \A m \in T : n <= m
<1>1. PICK x \in T : \A y \in T : ~(<<y, x>> \in OpToRel(<, Nat))
  BY NatLessThanWellFounded, WFMin, Zenon
<1>2. \A y \in T : ~(y < x)
  BY <1>1, Zenon DEF OpToRel
<1> QED
  BY <1>2

\* A set that holds 0, and n + 1 whenever it holds n, up to a bound, holds
\* every number up to the bound.
LEMMA BoundedInduction ==
    ASSUME NEW S, NEW n \in Nat, 0 \in S, \A i \in 0..(n - 1) : i \in S => i + 1 \in S
    PROVE  \A i \in 0..n : i \in S
<1> SUFFICES ASSUME (0..n) \ S # {} PROVE FALSE
  OBVIOUS
<1> DEFINE T == (0..n) \ S
<1>1. T \in SUBSET Nat
  OBVIOUS
<1>2. T # {}
  OBVIOUS
<1>3. PICK i \in T : \A m \in T : i <= m
  <2> HIDE DEF T
  <2> QED
    BY <1>1, <1>2, LeastNat
<1> QED
  BY <1>3

\* Some function takes `step` at every position up to n, from `base` on.
Recurs(P, n, base, step) ==
    \E f \in [0..n -> P] : f[0] = base /\ \A i \in 1..n : f[i] = step[i][f[i - 1]]

\* Recursion along a sequence: from a first value and a step there is a
\* function that takes the step at every position.
LEMMA Recursion ==
    ASSUME NEW P, NEW n \in Nat, NEW base \in P, NEW step \in [1..n -> [P -> P]]
    PROVE  Recurs(P, n, base, step)
<1> DEFINE Good(f, k) == f[0] = base /\ \A i \in 1..k : f[i] = step[i][f[i - 1]]
           S == {k \in 0..n : \E f \in [0..n -> P] : Good(f, k)}
<1>1. 0 \in S
  <2> DEFINE f == [i \in 0..n |-> base]
  <2>1. f \in [0..n -> P] /\ Good(f, 0)
    OBVIOUS
  <2>2. \E g \in [0..n -> P] : Good(g, 0)
    BY <2>1
  <2> QED
    BY <2>2
<1>2. \A k \in 0..(n - 1) : k \in S => k + 1 \in S
  <2> SUFFICES ASSUME NEW k \in 0..(n - 1), k \in S PROVE k + 1 \in S
    OBVIOUS
  <2>1. PICK f \in [0..n -> P] : Good(f, k)
    OBVIOUS
  <2> DEFINE g == [f EXCEPT ![k + 1] = step[k + 1][f[k]]]
  <2>2. g \in [0..n -> P]
    <3>1. k \in 0..n /\ k + 1 \in 1..n
      OBVIOUS
    <3>2. step[k + 1] \in [P -> P] /\ f[k] \in P
      BY <3>1
    <3> QED
      BY <3>1, <3>2
  <2>3. g[k + 1] = step[k + 1][f[k]] /\ \A i \in 0..k : g[i] = f[i]
    OBVIOUS
  <2>4. Good(g, k + 1)
    BY <2>1, <2>3
  <2>5. \E h \in [0..n -> P] : Good(h, k + 1)
    BY <2>2, <2>4
  <2> QED
    BY <2>5
<1>3. n \in S
  <2> HIDE DEF S
  <2>1. \A i \in 0..n : i \in S
    BY <1>1, <1>2, BoundedInduction
  <2> QED
    BY <2>1
<1> QED
  BY <1>3 DEF Recurs

-----------------------------------------------------------------------------
(***************************************************************************)
(* What the loops of the discovery compute.                                *)
(***************************************************************************)
Requests == [uri : Uris, kind : Kinds]
Plans == [uris : [Uris -> UriState], frontier : Seq(Requests)]

\* Two states of a URI that differ at most in whether it is known
SameStates(s, t) ==
    /\ s.root = t.root /\ s.rootParsed = t.rootParsed
    /\ s.segment = t.segment /\ s.segmentParsed = t.segmentParsed
    /\ s.depth = t.depth

\* What a run of add_opaque keeps of the plan it started from, and adds.
Extends(plan, from) ==
    /\ Len(from.frontier) <= Len(plan.frontier)
    /\ \A i \in 1..Len(from.frontier) : plan.frontier[i] = from.frontier[i]
    /\ \A u \in Uris :
         /\ SameStates(plan.uris[u], from.uris[u])
         /\ from.uris[u].known => plan.uris[u].known
         /\ plan.uris[u].known =>
              from.uris[u].known \/ \E i \in 1..Len(plan.frontier) : plan.frontier[i].uri = u

LEMMA ExtendsItself ==
    ASSUME NEW plan \in Plans
    PROVE  Extends(plan, plan)
BY DEF Extends, Plans, UriState, SameStates

\* add_opaque: a URI that is new is known afterwards and waits in the frontier.
LEMMA AddOpaqueExtends ==
    ASSUME NEW from \in Plans, NEW plan \in Plans, Extends(plan, from), NEW u \in Uris
    PROVE  /\ AddOpaque(plan, u) \in Plans
           /\ Extends(AddOpaque(plan, u), from)
           /\ AddOpaque(plan, u).uris[u].known
           /\ \A v \in Uris : plan.uris[v].known => AddOpaque(plan, u).uris[v].known
<1>1. CASE plan.uris[u].known
  BY <1>1 DEF AddOpaque
<1>2. CASE ~plan.uris[u].known
  <2> DEFINE new == AddOpaque(plan, u)
             r == [uri |-> u, kind |-> "opaque"]
  <2>0. /\ plan.frontier \in Seq(Requests) /\ plan.uris \in [Uris -> UriState]
        /\ from.frontier \in Seq(Requests) /\ from.uris \in [Uris -> UriState]
    BY DEF Plans
  <2>1. /\ new.uris = [plan.uris EXCEPT ![u].known = TRUE]
        /\ new.frontier = Append(plan.frontier, r)
        /\ new = [uris |-> new.uris, frontier |-> new.frontier]
    BY <1>2 DEF AddOpaque
  <2>2. r \in Requests
    BY DEF Requests, Kinds
  <2>3. new.uris \in [Uris -> UriState]
    <3>1. [plan.uris[u] EXCEPT !.known = TRUE] \in UriState
      BY <2>0 DEF UriState
    <3> QED
      BY <2>0, <2>1, <3>1
  <2>4. new.frontier \in Seq(Requests) /\ Len(new.frontier) = Len(plan.frontier) + 1
    BY <2>0, <2>1, <2>2
  <2>5. \A i \in 1..Len(plan.frontier) : new.frontier[i] = plan.frontier[i]
    BY <2>0, <2>1, <2>2
  <2>6. new.frontier[Len(new.frontier)].uri = u
    BY <2>0, <2>1, <2>2, <2>4
  <2>7. \A v \in Uris : /\ v # u => new.uris[v] = plan.uris[v]
                        /\ v = u => new.uris[v] = [plan.uris[v] EXCEPT !.known = TRUE]
    BY <2>0, <2>1
  <2>8. new.uris[u].known /\ \A v \in Uris : plan.uris[v].known => new.uris[v].known
    BY <2>0, <2>7 DEF UriState
  <2> HIDE DEF new
  <2>9. Extends(new, from)
    <3>0. Len(plan.frontier) \in Nat /\ Len(from.frontier) \in Nat
      BY <2>0
    <3>1. /\ Len(from.frontier) <= Len(new.frontier)
          /\ \A i \in 1..Len(from.frontier) : new.frontier[i] = from.frontier[i]
      BY <3>0, <2>4, <2>5 DEF Extends
    <3>2. ASSUME NEW v \in Uris
          PROVE  SameStates(new.uris[v], from.uris[v]) /\ (from.uris[v].known => new.uris[v].known)
      <4>1. SameStates(plan.uris[v], from.uris[v]) /\ (from.uris[v].known => plan.uris[v].known)
        BY DEF Extends
      <4>2. SameStates(new.uris[v], plan.uris[v])
        BY <2>0, <2>7 DEF SameStates, UriState
      <4> QED
        BY <4>1, <4>2, <2>8 DEF SameStates
    <3>3. ASSUME NEW v \in Uris, new.uris[v].known, ~from.uris[v].known
          PROVE  \E i \in 1..Len(new.frontier) : new.frontier[i].uri = v
      <4>1. CASE v = u
        BY <3>0, <4>1, <2>4, <2>6
      <4>2. CASE v # u
        <5>1. PICK i \in 1..Len(plan.frontier) : plan.frontier[i].uri = v
          BY <3>3, <4>2, <2>7 DEF Extends
        <5> QED
          BY <5>1, <3>0, <2>4, <2>5
      <4> QED
        BY <4>1, <4>2
    <3> QED
      BY <3>1, <3>2, <3>3 DEF Extends
  <2>10. new \in Plans
    BY <2>1, <2>3, <2>4 DEF Plans
  <2> QED
    BY <2>8, <2>9, <2>10 DEF new
<1> QED
  BY <1>1, <1>2

\* locate_external_data and its siblings: every URI they find is known
\* afterwards, and one that was not known before waits in the frontier.
LEMMA LocatedExtends ==
    ASSUME NEW links \in Links, uris \in [Uris -> UriState], frontier \in Seq(Requests)
    PROVE  /\ Located(links) \in Plans
           /\ Extends(Located(links), [uris |-> uris, frontier |-> frontier])
           /\ \A i \in 1..Len(links.uris) : Located(links).uris[links.uris[i]].known
<1> DEFINE n == Len(links.uris)
           base == [uris |-> uris, frontier |-> frontier]
           added[i \in 0..n] ==
             IF i = 0 THEN base ELSE AddOpaque(added[i - 1], links.uris[i])
           P == {plan \in Plans : Extends(plan, base)}
           step == [i \in 1..n |-> [plan \in P |-> AddOpaque(plan, links.uris[i])]]
<1>1. n \in Nat /\ \A i \in 1..n : links.uris[i] \in Uris
  BY DEF Links
<1>2. base \in Plans /\ Extends(base, base)
  <2>1. base \in Plans
    BY DEF Plans
  <2> QED
    BY <2>1, ExtendsItself
<1>3. base \in P
  BY <1>2
<1>4. \A i \in 1..n : \A plan \in P : AddOpaque(plan, links.uris[i]) \in P
  <2> SUFFICES ASSUME NEW i \in 1..n, NEW plan \in Plans, Extends(plan, base)
               PROVE  AddOpaque(plan, links.uris[i]) \in P
    OBVIOUS
  <2> HIDE DEF base
  <2> QED
    BY <1>1, <1>2, AddOpaqueExtends
<1>5. step \in [1..n -> [P -> P]]
  <2> HIDE DEF P
  <2> QED
    BY <1>4
<1>6. PICK f \in [0..n -> P] : f[0] = base /\ \A i \in 1..n : f[i] = step[i][f[i - 1]]
  <2>1. n \in Nat
    BY <1>1
  <2> HIDE DEF n, base, P, step, added
  <2>2. Recurs(P, n, base, step)
    BY <2>1, <1>3, <1>5, Recursion
  <2> QED
    BY <2>2 DEF Recurs
<1> DEFINE Eq(g) ==
             g = [i \in 0..n |-> IF i = 0 THEN base ELSE AddOpaque(g[i - 1], links.uris[i])]
<1>7. Eq(f)
  <2>1. \A i \in 1..n : f[i - 1] \in P
    <3> HIDE DEF P, n
    <3> QED
      BY <1>1
  <2>2. \A i \in 1..n : f[i] = AddOpaque(f[i - 1], links.uris[i])
    <3> HIDE DEF P, base
    <3> QED
      BY <1>1, <1>6, <2>1
  <2>3. \A i \in 0..n : f[i] = IF i = 0 THEN base ELSE AddOpaque(f[i - 1], links.uris[i])
    <3> HIDE DEF P, base
    <3> QED
      BY <1>1, <1>6, <2>2
  <2> HIDE DEF P, base
  <2> QED
    BY <2>3
<1>8. Eq(added)
  <2>1. added = CHOOSE g : Eq(g)
    OBVIOUS
  <2> HIDE DEF Eq, added
  <2> QED
    BY <2>1, <1>7
<1>9. /\ added[0] = base
      /\ \A i \in 1..n : added[i] = AddOpaque(added[i - 1], links.uris[i])
  <2> HIDE DEF added, base, n
  <2>1. 0 \in 0..n /\ \A i \in 1..n : i \in 0..n /\ i # 0
    BY <1>1
  <2>2. \A i \in 0..n : added[i] = IF i = 0 THEN base ELSE AddOpaque(added[i - 1], links.uris[i])
    BY <1>8, Zenon
  <2> QED
    BY <2>1, <2>2
<1> DEFINE S == {k \in 0..n : /\ added[k] \in P
                              /\ \A i \in 1..k : added[k].uris[links.uris[i]].known}
<1>10. 0 \in S
  <2> HIDE DEF added, P
  <2> QED
    BY <1>1, <1>3, <1>9
<1>11. \A k \in 0..(n - 1) : k \in S => k + 1 \in S
  <2> SUFFICES ASSUME NEW k \in 0..(n - 1), k \in S PROVE k + 1 \in S
    OBVIOUS
  <2> DEFINE u == links.uris[k + 1]
  <2>0. k \in 0..n /\ k + 1 \in 1..n /\ (k + 1) - 1 = k
    BY <1>1
  <2>1. added[k + 1] = AddOpaque(added[k], u) /\ u \in Uris
    <3> HIDE DEF added, base
    <3> QED
      BY <1>1, <1>9, <2>0
  <2> HIDE DEF added, base, u
  <2>2. added[k] \in Plans /\ Extends(added[k], base)
    OBVIOUS
  <2>3. /\ added[k + 1] \in P /\ added[k + 1].uris[u].known
        /\ \A v \in Uris : added[k].uris[v].known => added[k + 1].uris[v].known
    BY <2>1, <2>2, <1>2, AddOpaqueExtends
  <2>4. ASSUME NEW i \in 1..(k + 1) PROVE added[k + 1].uris[links.uris[i]].known
    <3>1. CASE i = k + 1
      BY <3>1, <2>3 DEF u
    <3>2. CASE i \in 1..k
      <4>1. links.uris[i] \in Uris
        BY <1>1, <2>0, <3>2
      <4>2. added[k].uris[links.uris[i]].known
        BY <3>2
      <4> QED
        BY <4>1, <4>2, <2>3
    <3> QED
      BY <3>1, <3>2
  <2> HIDE DEF P
  <2>5. k + 1 \in 0..n
    BY <1>1, <2>0
  <2> QED
    BY <2>3, <2>4, <2>5
<1>12. n \in S
  <2> HIDE DEF S
  <2>1. \A i \in 0..n : i \in S
    BY <1>1, <1>10, <1>11, BoundedInduction
  <2> QED
    BY <1>1, <2>1
<1>13. Located(links) = added[n]
  BY DEF Located
<1> HIDE DEF added
<1> QED
  BY <1>12, <1>13

\* did_document_ids: the list of DID documents stays a list of URLs.
LEMMA WithDidsTyped ==
    ASSUME NEW found \in Seq(Uris), dids \in Seq(Uris)
    PROVE  WithDids(found) \in Seq(Uris)
<1> DEFINE n == Len(found)
           P == Seq(Uris)
           known[i \in 0..n] == IF i = 0 THEN dids ELSE WithDid(known[i - 1], found[i])
           step == [i \in 1..n |-> [l \in P |-> WithDid(l, found[i])]]
           Eq(g) == g = [i \in 0..n |-> IF i = 0 THEN dids ELSE WithDid(g[i - 1], found[i])]
<1>1. n \in Nat /\ \A i \in 1..n : found[i] \in Uris
  OBVIOUS
<1>2. \A i \in 1..n : \A l \in P : WithDid(l, found[i]) \in P
  BY <1>1 DEF WithDid
<1>3. step \in [1..n -> [P -> P]]
  <2> HIDE DEF P
  <2> QED
    BY <1>2
<1>4. PICK f \in [0..n -> P] : f[0] = dids /\ \A i \in 1..n : f[i] = step[i][f[i - 1]]
  <2>1. n \in Nat /\ dids \in P
    BY <1>1
  <2> HIDE DEF n, P, step, known
  <2>2. Recurs(P, n, dids, step)
    BY <2>1, <1>3, Recursion
  <2> QED
    BY <2>2 DEF Recurs
<1>5. Eq(f)
  <2> HIDE DEF P, n
  <2>1. \A i \in 1..n : f[i - 1] \in P
    BY <1>1
  <2>2. \A i \in 1..n : f[i] = WithDid(f[i - 1], found[i])
    BY <1>1, <1>4, <2>1
  <2>3. \A i \in 0..n : f[i] = IF i = 0 THEN dids ELSE WithDid(f[i - 1], found[i])
    BY <1>1, <1>4, <2>2
  <2> QED
    BY <2>3
<1>6. Eq(known)
  <2>1. known = CHOOSE g : Eq(g)
    OBVIOUS
  <2> HIDE DEF Eq, known
  <2> QED
    BY <2>1, <1>5
<1>7. /\ known[0] = dids
      /\ \A i \in 1..n : known[i] = WithDid(known[i - 1], found[i])
  <2> HIDE DEF known, n
  <2>1. 0 \in 0..n /\ \A i \in 1..n : i \in 0..n /\ i # 0
    BY <1>1
  <2>2. \A i \in 0..n : known[i] = IF i = 0 THEN dids ELSE WithDid(known[i - 1], found[i])
    BY <1>6, Zenon
  <2> QED
    BY <2>1, <2>2
<1> DEFINE S == {k \in 0..n : known[k] \in P}
<1>8. n \in S
  <2>1. WithDids(found) = known[n]
    BY DEF WithDids
  <2> HIDE DEF known, n, P
  <2>2. 0 \in S
    BY <1>1, <1>7 DEF P
  <2>3. \A k \in 0..(n - 1) : k \in S => k + 1 \in S
    <3> SUFFICES ASSUME NEW k \in 0..(n - 1), known[k] \in P PROVE k + 1 \in S
      OBVIOUS
    <3>1. k + 1 \in 1..n /\ (k + 1) - 1 = k /\ k + 1 \in 0..n
      BY <1>1
    <3>2. known[k + 1] = WithDid(known[k], found[k + 1])
      BY <3>1, <1>7
    <3> QED
      BY <3>1, <3>2, <1>2
  <2> HIDE DEF S
  <2>4. \A i \in 0..n : i \in S
    BY <1>1, <2>2, <2>3, BoundedInduction
  <2> QED
    BY <1>1, <2>4
<1>9. WithDids(found) = known[n]
  BY DEF WithDids
<1> HIDE DEF known
<1> QED
  BY <1>8, <1>9

\* enqueue_ingredients: what waits is a manifest of the store, and the
\* references charged stay within their limit.
Walks == [references : 0..limits.references, limit : {"none", "references", "depth"},
          depth : Nat, reached : SUBSET Labels,
          queue : Seq([label : DOMAIN Content[work.body].graph, depth : Nat])]

LEMMA EnqueueTyped ==
    ASSUME limits.references \in Nat, work.body \in Bodies, NEW w \in Walks, NEW label
    PROVE  Enqueue(w, label) \in Walks
<1> DEFINE D == DOMAIN Content[work.body].graph
           Q == [label : D, depth : Nat]
<1>1. D \subseteq Labels
  BY DEF Labels
<1>2. /\ w.references \in 0..limits.references /\ w.limit \in {"none", "references", "depth"}
      /\ w.depth \in Nat /\ w.reached \in SUBSET Labels /\ w.queue \in Seq(Q)
      /\ w = [references |-> w.references, limit |-> w.limit, depth |-> w.depth,
              reached |-> w.reached, queue |-> w.queue]
  BY DEF Walks
<1> DEFINE v == [w EXCEPT !.references = @ + 1]
           q == [label |-> label, depth |-> v.depth + 1]
           x == [v EXCEPT !.reached = @ \cup {label}, !.queue = Append(@, q)]
<1>3. CASE w.limit # "none"
  BY <1>3 DEF Enqueue
<1>4. CASE w.limit = "none" /\ w.references >= limits.references
  <2>1. Enqueue(w, label) = [w EXCEPT !.limit = "references"]
    BY <1>4 DEF Enqueue
  <2> QED
    BY <2>1, <1>2 DEF Walks
<1>5. CASE w.limit = "none" /\ ~(w.references >= limits.references)
  <2>1. v \in Walks /\ v.depth = w.depth /\ v.queue = w.queue /\ v.reached = w.reached
    BY <1>2, <1>5 DEF Walks
  <2>2. CASE label \notin D \/ label \in v.reached
    <3>1. Enqueue(w, label) = v
      BY <1>5, <2>2 DEF Enqueue
    <3> QED
      BY <3>1, <2>1
  <2>3. CASE ~(label \notin D \/ label \in v.reached) /\ TooDeep(v.depth + 1)
    <3>1. Enqueue(w, label) = [v EXCEPT !.limit = "depth"]
      BY <1>5, <2>3 DEF Enqueue
    <3> HIDE DEF v
    <3> QED
      BY <3>1, <2>1 DEF Walks
  <2>4. CASE ~(label \notin D \/ label \in v.reached) /\ ~TooDeep(v.depth + 1)
    <3>1. Enqueue(w, label) = x
      BY <1>5, <2>4 DEF Enqueue
    <3>2. q \in Q
      BY <2>4, <2>1, <1>2
    <3>3. Append(v.queue, q) \in Seq(Q)
      <4> HIDE DEF q, Q, v
      <4> QED
        BY <3>2, <2>1, <1>2
    <3>4. v.reached \cup {label} \in SUBSET Labels
      BY <2>4, <2>1, <1>1, <1>2
    <3> HIDE DEF v, q
    <3> QED
      BY <3>1, <3>3, <3>4, <2>1 DEF Walks
  <2> QED
    BY <2>2, <2>3, <2>4
<1> QED
  BY <1>3, <1>4, <1>5

LEMMA EnqueuedTyped ==
    ASSUME limits.references \in Nat, work.body \in Bodies, NEW walk \in Walks,
           NEW found \in Seq(STRING)
    PROVE  Enqueued(walk, found) \in Walks
<1> DEFINE n == Len(found)
           P == Walks
           queued[i \in 0..n] == IF i = 0 THEN walk ELSE Enqueue(queued[i - 1], found[i])
           step == [i \in 1..n |-> [l \in P |-> Enqueue(l, found[i])]]
           Eq(g) == g = [i \in 0..n |-> IF i = 0 THEN walk ELSE Enqueue(g[i - 1], found[i])]
<1>1. n \in Nat
  OBVIOUS
<1>2. \A i \in 1..n : \A l \in P : Enqueue(l, found[i]) \in P
  BY EnqueueTyped
<1>3. step \in [1..n -> [P -> P]]
  <2> HIDE DEF P
  <2> QED
    BY <1>2
<1>4. PICK f \in [0..n -> P] : f[0] = walk /\ \A i \in 1..n : f[i] = step[i][f[i - 1]]
  <2>1. n \in Nat /\ walk \in P
    BY <1>1
  <2> HIDE DEF n, P, step, queued
  <2>2. Recurs(P, n, walk, step)
    BY <2>1, <1>3, Recursion
  <2> QED
    BY <2>2 DEF Recurs
<1>5. Eq(f)
  <2> HIDE DEF P, n
  <2>1. \A i \in 1..n : f[i - 1] \in P
    BY <1>1
  <2>2. \A i \in 1..n : f[i] = Enqueue(f[i - 1], found[i])
    BY <1>1, <1>4, <2>1
  <2>3. \A i \in 0..n : f[i] = IF i = 0 THEN walk ELSE Enqueue(f[i - 1], found[i])
    BY <1>1, <1>4, <2>2
  <2> QED
    BY <2>3
<1>6. Eq(queued)
  <2>1. queued = CHOOSE g : Eq(g)
    OBVIOUS
  <2> HIDE DEF Eq, queued
  <2> QED
    BY <2>1, <1>5
<1>7. /\ queued[0] = walk
      /\ \A i \in 1..n : queued[i] = Enqueue(queued[i - 1], found[i])
  <2> HIDE DEF queued, n
  <2>1. 0 \in 0..n /\ \A i \in 1..n : i \in 0..n /\ i # 0
    BY <1>1
  <2>2. \A i \in 0..n : queued[i] = IF i = 0 THEN walk ELSE Enqueue(queued[i - 1], found[i])
    BY <1>6, Zenon
  <2> QED
    BY <2>1, <2>2
<1> DEFINE S == {k \in 0..n : queued[k] \in P}
<1>8. n \in S
  <2>1. Enqueued(walk, found) = queued[n]
    BY DEF Enqueued
  <2> HIDE DEF queued, n, P
  <2>2. 0 \in S
    BY <1>1, <1>7 DEF P
  <2>3. \A k \in 0..(n - 1) : k \in S => k + 1 \in S
    <3> SUFFICES ASSUME NEW k \in 0..(n - 1), queued[k] \in P PROVE k + 1 \in S
      OBVIOUS
    <3>1. k + 1 \in 1..n /\ (k + 1) - 1 = k /\ k + 1 \in 0..n
      BY <1>1
    <3>2. queued[k + 1] = Enqueue(queued[k], found[k + 1])
      BY <3>1, <1>7
    <3> QED
      BY <3>1, <3>2, <1>2
  <2> HIDE DEF S
  <2>4. \A i \in 0..n : i \in S
    BY <1>1, <2>2, <2>3, BoundedInduction
  <2> QED
    BY <1>1, <2>4
<1>9. Enqueued(walk, found) = queued[n]
  BY DEF Enqueued
<1> HIDE DEF queued
<1> QED
  BY <1>8, <1>9

-----------------------------------------------------------------------------
(***************************************************************************)
(* The inductive invariant.                                                *)
(***************************************************************************)
Discovering == {"locate", "scan", "walk", "store", "pred", "resolve"}
Judging == {"ocsp", "done", "failed"}
Phases == Discovering \cup {"planned", "dids"} \cup Judging
Reasons == {"none", "malformed", "unavailable", "depth", "nodes", "references", "bytes"}
Charges == [nodes : Nat, references : Nat, bytes : Nat]
Works == [body : Bodies \cup {None}, uri : Uris \cup {None}, depth : Nat, ref : References,
          provider : BOOLEAN]
ConsentSpace ==
    [option : {"unset", "on", "off"}, environment : {"unset", "on", "off", "invalid"},
     surface : {"library", "pipe", "terminal"},
     saved : {"absent", "ask", "on", "off", "unreadable"}]
Sent == [purpose : Purposes, url : Uris \cup Certs,
         outcome : {"fetched", "failed", "blocked", "skipped"}]

\* The plan: the types of its variables, and a body to read wherever the next
\* step reads one.
PlanOK ==
    /\ pc \in Phases
    /\ present \in BOOLEAN
    /\ frontier \in Seq(Requests)
    /\ stop \in [why : Reasons, uri : Uris \cup {None}]
    /\ limits \in Limits
    /\ uris \in [Uris -> UriState]
    /\ spent \in Charges
    /\ /\ spent.nodes <= limits.nodes
       /\ spent.references <= limits.references
       /\ spent.bytes <= limits.bytes
    /\ dids \in Seq(Uris)
    /\ todo \in Seq(Requests)
    /\ work \in Works
    /\ pc \in {"scan", "walk", "store"} => work.body \in Bodies
    /\ pc = "walk" => queue \in Seq([label : DOMAIN Content[work.body].graph, depth : Nat])
    /\ reached \in SUBSET Labels
    /\ outcomes \in [Uris -> Outcomes]

\* The operator or the person forbids every request.
Forbidden ==
    \/ consent.option = "off"
    \/ consent.option = "unset" /\ consent.environment \in {"off", "invalid"}
    \/ consent.option = "unset" /\ consent.environment = "unset"
       /\ consent.surface # "terminal"
       /\ (consent.surface = "pipe" => consent.saved # "on")

\* What was sent and read is what the budget lacks.
BudgetOK ==
    /\ budget \in [requests : Nat, bytes : Nat]
    /\ sent \in Nat /\ received \in Nat
    /\ sent + budget.requests = MaxRequests
    /\ \/ received + budget.bytes = MaxReceived
       \/ budget.bytes = 0 /\ received = MaxReceived + 1

\* Only a handled URI was asked about or contacted, and nothing was sent
\* against a standing refusal.
ConsentOK ==
    /\ consent \in ConsentSpace
    /\ handled \subseteq Uris
    /\ contacted \subseteq handled
    /\ refused \subseteq handled
    /\ \A u \in refused : u \notin contacted
    /\ asked \in [Uris -> Nat]
    /\ \A u \in Uris : asked[u] <= 1 /\ (u \notin handled => asked[u] = 0)
    /\ Forbidden => sent = 0

\* A pass has judged exactly when no outcome can change any more.
JudgedOK ==
    /\ judged \in [Uris -> Outcomes] \cup {None}
    /\ judged # None <=> pc \in Judging

\* The rest of the session
SessionOK ==
    /\ supplied \subseteq Uris
    /\ position \in Nat
    /\ asksOcsp \in OcspLists \cup {<<>>}
    /\ requests \in Seq(Sent)
    /\ documents \in [Uris -> Bodies \cup {None}]

\* Discovery reads only what is settled: the part of the frontier that was
\* offered, what continue_with has left to read, and, while nothing stopped
\* it, every URI it knows that does not wait in the next frontier.
ReadOK ==
    /\ saw \in [Uris -> Outcomes \cup {"unread"}]
    /\ \A u \in Uris : saw[u] # "unread" => Settles(u) /\ saw[u] = outcomes[u]
    /\ \A i \in 1..Len(todo) : Settles(todo[i].uri)
    /\ pc = "planned" => \A i \in 1..position : i <= Len(frontier) /\ Settles(frontier[i].uri)
    /\ pc \in Discovering => position = 0
    /\ pc = "locate" => todo = <<>>
    /\ stop # NoStop => frontier = <<>> /\ pc \notin Discovering
    /\ pc \notin Discovering => todo = <<>>
    /\ pc \in {"dids"} \cup Judging => frontier = <<>>
    /\ stop = NoStop => \A u \in Uris : uris[u].known => Settles(u) \/ InFrontier(u)

SegmentRequest(u) == [uri |-> u, kind |-> "segment"]
Waits(u) ==
    \/ \E i \in 1..Len(frontier) : frontier[i] = SegmentRequest(u)
    \/ \E i \in 1..Len(todo) : todo[i] = SegmentRequest(u)

\* The store of u is being read, or its predecessor reference followed.
InFlight(u) ==
    \/ pc \in {"scan", "walk", "store"} /\ work.uri = u /\ work.body = saw[u]
    \/ pc = "pred" /\ work.ref = Content[saw[u]].pred

\* A parsed store is one that was read.
ReadIsParsed(u) ==
    /\ Read(u) <=> uris[u].segmentParsed
    /\ uris[u].rootParsed => uris[u].segmentParsed

\* A predecessor was read, or waits.
PredecessorWaits(u) ==
    uris[u].segment => uris[u].segmentParsed \/ Waits(u)

\* The predecessor of a store that was read is known as one, or about to be.
PredecessorFollowed(u) ==
    Read(u) /\ Content[saw[u]].pred.kind = "external" =>
        uris[Content[saw[u]].pred.to].segment \/ InFlight(u)

\* A root that was not read is all there is to read.
RootFirst(u) ==
    uris[u].root =>
        \/ uris[u].rootParsed
        \/ pc = "planned" /\ frontier = <<SegmentRequest(u)>>
        \/ pc = "resolve" /\ todo = <<SegmentRequest(u)>>

\* The references of the root are known, or about to be.
LinksKnown(b) == \A i \in 1..Len(Content[b].links.uris) : uris[Content[b].links.uris[i]].known
RootLocated(u) ==
    uris[u].root /\ Read(u) =>
        \/ pc = "scan" /\ work.uri = u /\ work.body = saw[u]
        \/ LinksKnown(saw[u])

Complete(u) ==
    ReadIsParsed(u) /\ PredecessorWaits(u) /\ PredecessorFollowed(u) /\ RootFirst(u) /\ RootLocated(u)

\* While nothing stopped discovery, it misses nothing.
CompleteOK ==
    /\ pc = "locate" => \A u \in Uris :
         ~uris[u].root /\ ~uris[u].rootParsed /\ ~uris[u].segment /\ ~uris[u].segmentParsed
    /\ pc = "locate" => frontier = <<>> /\ todo = <<>>
    /\ stop = NoStop => \A u \in Uris : Complete(u)

-----------------------------------------------------------------------------
(***************************************************************************)
(* The fetch session.                                                      *)
(***************************************************************************)

\* fetch_one: a request is sent only when both budgets have something left,
\* and reads at most one unit past what is left.
LEMMA FetchesWithin ==
    ASSUME budget \in [requests : Nat, bytes : Nat],
           NEW purpose \in Purposes, NEW scheme, NEW a \in Fetches(scheme, purpose)
    PROVE  /\ a.outcome \in {"fetched", "failed", "blocked", "skipped"}
           /\ a.outcome = "fetched" => a.body \in Bodies
           /\ a.bytes \in 0..(budget.bytes + 1)
           /\ \/ a.used = 1 /\ budget.requests > 0 /\ budget.bytes > 0
              \/ a.used = 0 /\ a.bytes = 0 /\ a.outcome # "fetched" /\ a.keeps = FALSE
<1> DEFINE limit == Allowance(purpose)
<1>1. budget.requests \in Nat /\ budget.bytes \in Nat /\ Limit[purpose] \in Nat
  BY SessionAssumption
<1>2. limit \in 0..budget.bytes
  BY <1>1 DEF Allowance
<1>3. CASE Exhausted
  BY <1>3, <1>1 DEF Fetches, Answer
<1>4. CASE ~Exhausted /\ scheme
  BY <1>4, <1>1 DEF Fetches, Answer
<1>5. CASE ~Exhausted /\ ~scheme
  <2>0. budget.requests > 0 /\ budget.bytes > 0
    BY <1>5, <1>1 DEF Exhausted
  <2> HIDE DEF limit
  <2>1. \/ a = Answer("blocked", None, FALSE, 1, 0)
        \/ a = Answer("blocked", None, TRUE, 1, limit + 1)
        \/ \E n \in 0..limit : a = Answer("failed", None, TRUE, 1, n)
        \/ \E b \in Bodies : /\ Content[b].size <= limit
                             /\ a = Answer("fetched", b, TRUE, 1, Content[b].size)
    BY <1>5 DEF Fetches, limit
  <2>2. CASE a = Answer("blocked", None, FALSE, 1, 0)
    BY <2>0, <2>2, <1>1 DEF Answer
  <2>3. CASE a = Answer("blocked", None, TRUE, 1, limit + 1)
    BY <2>0, <2>3, <1>1, <1>2 DEF Answer
  <2>4. CASE \E n \in 0..limit : a = Answer("failed", None, TRUE, 1, n)
    BY <2>0, <2>4, <1>1, <1>2 DEF Answer
  <2>5. CASE \E b \in Bodies : /\ Content[b].size <= limit
                               /\ a = Answer("fetched", b, TRUE, 1, Content[b].size)
    <3>1. PICK b \in Bodies : /\ Content[b].size <= limit
                              /\ a = Answer("fetched", b, TRUE, 1, Content[b].size)
      BY <2>5
    <3>2. Content[b].size \in Nat
      BY ContentAssumption
    <3> QED
      BY <2>0, <3>1, <3>2, <1>1, <1>2 DEF Answer
  <2> QED
    BY <2>1, <2>2, <2>3, <2>4, <2>5
<1> QED
  BY <1>3, <1>4, <1>5

\* What a request spends is what the budget loses.
LEMMA SendsKeepsBudget ==
    ASSUME BudgetOK, NEW purpose \in Purposes, NEW scheme, NEW a \in Fetches(scheme, purpose),
           NEW url, NEW outcome, Sends(a, purpose, url, outcome)
    PROVE  /\ BudgetOK'
           /\ sent' = sent + a.used
           /\ a.used = 1 => sent < MaxRequests
<1>0. budget.requests \in Nat /\ budget.bytes \in Nat /\ MaxRequests \in Nat /\ MaxReceived \in Nat
  BY SessionAssumption DEF BudgetOK
<1>1. /\ a.bytes \in 0..(budget.bytes + 1)
      /\ \/ a.used = 1 /\ budget.requests > 0 /\ budget.bytes > 0
         \/ a.used = 0 /\ a.bytes = 0
  BY FetchesWithin DEF BudgetOK
<1>2. /\ sent' = sent + a.used /\ received' = received + a.bytes
      /\ budget' = [requests |-> Minus(budget.requests, a.used),
                    bytes |-> Minus(budget.bytes, a.bytes)]
  BY DEF Sends, Spends
<1>3. /\ budget'.requests = budget.requests - a.used
      /\ budget'.bytes = IF a.bytes = budget.bytes + 1 THEN 0 ELSE budget.bytes - a.bytes
  BY <1>0, <1>1, <1>2 DEF Minus
<1>4. budget'.requests \in Nat /\ budget'.bytes \in Nat
  BY <1>0, <1>1, <1>3
<1>5. budget' \in [requests : Nat, bytes : Nat]
  BY <1>2, <1>4
<1> QED
  BY <1>0, <1>1, <1>2, <1>3, <1>5 DEF BudgetOK

\* resolve_online: a URI that was not handled is asked about at most once, a
\* refusal is final, and where requests are forbidden the answer is no and
\* stays no.
LEMMA DecidesOK ==
    ASSUME ConsentOK, NEW who, who = None \/ who \in Uris \ handled,
           NEW granted \in BOOLEAN, Decides(who, granted)
    PROVE  /\ consent' \in ConsentSpace
           /\ Forbidden' <=> Forbidden
           /\ Forbidden => granted = FALSE
           /\ asked' \in [Uris -> Nat]
           /\ \A v \in Uris : asked'[v] <= 1 /\ (v \notin handled /\ v # who => asked'[v] = 0)
           /\ refused' = refused \/ (who \in Uris /\ refused' = refused \cup {who})
           /\ granted => refused' = refused
<1>0. None \notin Uris
  BY ContentAssumption
<1>1. CASE Standing # "ask" /\ granted = (Standing = "on") /\ UNCHANGED consentVars
  <2>1. UNCHANGED <<consent, asked, refused>>
    BY <1>1 DEF consentVars
  <2>2. Forbidden' <=> Forbidden
    BY <2>1 DEF Forbidden
  <2>3. Forbidden => granted = FALSE
    BY <1>1 DEF Forbidden, Standing, ConsentOK, ConsentSpace
  <2> QED
    BY <2>1, <2>2, <2>3 DEF ConsentOK
<1>2. CASE /\ Standing = "ask"
           /\ \E answer \in Answers :
                /\ granted = answer.grant
                /\ consent' = [consent EXCEPT !.saved = answer.saved]
           /\ asked' = IF who = None THEN asked ELSE [asked EXCEPT ![who] = @ + 1]
           /\ refused' = IF who = None \/ granted THEN refused ELSE refused \cup {who}
  <2>1. PICK answer \in Answers : consent' = [consent EXCEPT !.saved = answer.saved]
    BY <1>2
  <2>2. answer.saved \in {consent.saved, "on", "off"}
    BY DEF Answers
  <2>3. /\ consent \in ConsentSpace /\ consent.option = "unset"
        /\ consent.environment = "unset" /\ consent.surface = "terminal"
    BY <1>2 DEF Standing, ConsentOK, ConsentSpace
  <2>4. /\ consent' \in ConsentSpace /\ consent'.option = "unset"
        /\ consent'.environment = "unset" /\ consent'.surface = "terminal"
    BY <2>1, <2>2, <2>3 DEF ConsentSpace
  <2>5. ~Forbidden /\ ~Forbidden'
    BY <2>3, <2>4 DEF Forbidden
  <2>6. CASE who = None
    BY <1>2, <2>4, <2>5, <2>6 DEF ConsentOK
  <2>7. CASE who \in Uris \ handled
    BY <1>0, <1>2, <2>4, <2>5, <2>7 DEF ConsentOK
  <2> QED
    BY <2>6, <2>7
<1> QED
  BY <1>1, <1>2 DEF Decides

\* What settling u does to the outcomes: nothing when u is settled, or else
\* one contact at most, which leaves every other outcome alone.
Settling(u) ==
    /\ outcomes' \in [Uris -> Outcomes]
    /\ \A v \in Uris : v # u \/ Settles(u) => outcomes'[v] = outcomes[v]
    /\ \A v \in Uris : outcomes'[v] = "not_attempted" => outcomes[v] = "not_attempted"
    /\ handled' = handled \cup {u} \/ (Settles(u) /\ handled' = handled)
    /\ \/ UNCHANGED <<outcomes, contacted, sent>>
       \/ /\ outcomes[u] = "not_attempted" /\ u \notin contacted /\ sent < MaxRequests
          /\ \E o \in Outcomes : outcomes' = [outcomes EXCEPT ![u] = o]
          /\ contacted' = contacted \cup {u}
          /\ sent' = sent + 1

\* ensure_graph_resource and resolve_did_documents: a resource that is
\* settled is left alone; another one is settled afterwards, contacted at most
\* now, and nothing else changes.
LEMMA GetsOK ==
    ASSUME outcomes \in [Uris -> Outcomes], BudgetOK, ConsentOK,
           NEW u \in Uris, NEW purpose \in Purposes, Gets(u, purpose)
    PROVE  /\ BudgetOK' /\ ConsentOK'
           /\ Settling(u)
           /\ requests \in Seq(Sent) => requests' \in Seq(Sent)
<1>1. CASE Settles(u) /\ UNCHANGED <<outcomes, fetchVars, consentVars>>
  <2>1. UNCHANGED <<outcomes, handled, budget, requests, contacted, sent, received, consent, asked,
                    refused>>
    BY <1>1 DEF fetchVars, consentVars
  <2>2. BudgetOK' /\ ConsentOK'
    BY <2>1 DEF BudgetOK, ConsentOK, Forbidden
  <2> QED
    BY <1>1, <2>1, <2>2 DEF Settling
<1>2. CASE /\ ~Settles(u)
           /\ handled' = handled \cup {u}
           /\ Decides(u, FALSE)
           /\ UNCHANGED <<outcomes, budget, requests, contacted, sent, received>>
  <2>1. u \in Uris \ handled
    BY <1>2 DEF Settles
  <2>2. BudgetOK'
    BY <1>2 DEF BudgetOK
  <2>3. ConsentOK'
    BY <1>2, <2>1, DecidesOK DEF ConsentOK
  <2> QED
    BY <1>2, <2>2, <2>3 DEF Settling
<1>3. CASE /\ ~Settles(u)
           /\ handled' = handled \cup {u}
           /\ Decides(u, TRUE)
           /\ \E a \in Fetches(u \in PlainHttp, purpose) :
                /\ Sends(a, purpose, u, Reported(purpose, a))
                /\ outcomes' = Keeps(u, a)
                /\ contacted' = IF a.used = 0 THEN contacted ELSE contacted \cup {u}
  <2>0. u \in Uris \ handled /\ outcomes[u] = "not_attempted" /\ u \notin contacted /\ u \notin refused
    BY <1>3 DEF Settles, HasOutcome, ConsentOK
  <2>1. PICK a \in Fetches(u \in PlainHttp, purpose) :
               /\ Sends(a, purpose, u, Reported(purpose, a))
               /\ outcomes' = Keeps(u, a)
               /\ contacted' = IF a.used = 0 THEN contacted ELSE contacted \cup {u}
    BY <1>3
  <2>2. BudgetOK' /\ sent' = sent + a.used /\ (a.used = 1 => sent < MaxRequests)
    BY <2>1, SendsKeepsBudget
  <2>3. /\ a.outcome \in {"fetched", "failed", "blocked", "skipped"}
        /\ a.outcome = "fetched" => a.body \in Bodies
        /\ a.used = 1 \/ (a.used = 0 /\ a.outcome # "fetched" /\ a.keeps = FALSE)
    BY FetchesWithin DEF BudgetOK
  <2>4. ConsentOK'
    <3>1. ~Forbidden /\ ~Forbidden' /\ refused' = refused /\ consent' \in ConsentSpace
      BY <1>3, <2>0, DecidesOK
    <3>2. /\ asked' \in [Uris -> Nat]
          /\ \A v \in Uris : asked'[v] <= 1 /\ (v \notin handled /\ v # u => asked'[v] = 0)
      BY <1>3, <2>0, DecidesOK
    <3>3. /\ contacted' \subseteq contacted \cup {u} /\ handled' = handled \cup {u}
      BY <1>3, <2>1
    <3>4. handled' \subseteq Uris /\ contacted' \subseteq handled' /\ refused' \subseteq handled'
      BY <3>1, <3>3 DEF ConsentOK
    <3>5. \A v \in refused' : v \notin contacted'
      BY <2>0, <3>1, <3>3 DEF ConsentOK
    <3> QED
      BY <3>1, <3>2, <3>3, <3>4, <3>5 DEF ConsentOK
  <2>5. \E o \in Outcomes : outcomes' = [outcomes EXCEPT ![u] = o]
    <3>1. CASE a.outcome = "fetched"
      BY <2>1, <2>3, <3>1 DEF Keeps, Outcomes, Settled
    <3>2. CASE a.outcome # "fetched" /\ a.keeps
      BY <2>1, <3>2 DEF Keeps, Outcomes, Settled
    <3>3. CASE a.outcome # "fetched" /\ ~a.keeps
      <4>1. outcomes' = [outcomes EXCEPT ![u] = outcomes[u]]
        BY <2>1, <3>3 DEF Keeps
      <4> QED
        BY <4>1
    <3> QED
      BY <3>1, <3>2, <3>3
  <2>6. a.used = 0 => UNCHANGED <<outcomes, contacted, sent>>
    BY <2>1, <2>2, <2>3 DEF Keeps, BudgetOK
  <2>7. a.used = 1 => contacted' = contacted \cup {u}
    BY <2>1
  <2>8. requests \in Seq(Sent) => requests' \in Seq(Sent)
    <3>1. Reported(purpose, a) \in {"fetched", "failed", "blocked", "skipped"}
      BY <2>3 DEF Reported
    <3>2. [purpose |-> purpose, url |-> u, outcome |-> Reported(purpose, a)] \in Sent
      BY <3>1 DEF Sent
    <3> QED
      BY <2>1, <3>2 DEF Sends
  <2>9. \A v \in Uris : outcomes'[v] = "not_attempted" => outcomes[v] = "not_attempted"
    BY <2>0, <2>5
  <2> QED
    BY <1>3, <2>0, <2>2, <2>3, <2>4, <2>5, <2>6, <2>7, <2>8, <2>9 DEF Settling
<1> QED
  BY <1>1, <1>2, <1>3 DEF Gets

\* fetch_ocsp: a request for a certificate's status spends from the same
\* budget under the same consent.
LEMMA FetchOcspOK ==
    ASSUME BudgetOK, ConsentOK, SessionOK, FetchOcsp
    PROVE  /\ BudgetOK' /\ ConsentOK' /\ SessionOK'
           /\ UNCHANGED <<pc, planVars, walkVars, outcomes, handled, contacted, saw, judged>>
           /\ sent' = sent \/ (sent < MaxRequests /\ sent' = sent + 1)
<1> DEFINE need == asksOcsp[position + 1]
<1>0. /\ UNCHANGED <<pc, planVars, walkVars, outcomes, handled, contacted, saw, judged>>
      /\ UNCHANGED <<supplied, documents, asksOcsp>>
      /\ position' = position + 1 /\ position < Len(asksOcsp)
  BY DEF FetchOcsp
<1>1. CASE UNCHANGED <<consentVars, budget, requests, sent, received>>
  <2>1. BudgetOK' /\ ConsentOK'
    BY <1>0, <1>1 DEF BudgetOK, ConsentOK, Forbidden, consentVars
  <2>2. SessionOK'
    BY <1>0, <1>1 DEF SessionOK
  <2> QED
    BY <1>0, <1>1, <2>1, <2>2
<1>2. CASE Decides(None, FALSE) /\ UNCHANGED <<budget, requests, sent, received>>
  <2>0. None \notin Uris
    BY ContentAssumption
  <2>1. BudgetOK'
    BY <1>2 DEF BudgetOK
  <2>2. ConsentOK'
    BY <1>0, <1>2, <2>0, DecidesOK DEF ConsentOK
  <2>3. SessionOK'
    BY <1>0, <1>2 DEF SessionOK
  <2> QED
    BY <1>0, <1>2, <2>1, <2>2, <2>3
<1>3. CASE Decides(None, TRUE) /\ \E a \in Fetches(FALSE, "ocsp") : Sends(a, "ocsp", need[1], a.outcome)
  <2>0. None \notin Uris /\ "ocsp" \in Purposes
    BY ContentAssumption DEF Purposes
  <2>1. PICK a \in Fetches(FALSE, "ocsp") : Sends(a, "ocsp", need[1], a.outcome)
    BY <1>3
  <2>2. BudgetOK' /\ sent' = sent + a.used /\ (a.used = 1 => sent < MaxRequests)
    BY <2>0, <2>1, SendsKeepsBudget
  <2>3. /\ a.outcome \in {"fetched", "failed", "blocked", "skipped"}
        /\ a.used = 1 \/ a.used = 0
    BY <2>0, FetchesWithin DEF BudgetOK
  <2>4. ~Forbidden /\ ~Forbidden' /\ refused' = refused
    BY <1>3, DecidesOK
  <2>5. ConsentOK'
    <3>1. /\ consent' \in ConsentSpace /\ asked' \in [Uris -> Nat]
          /\ \A v \in Uris : asked'[v] <= 1 /\ (v \notin handled /\ v # None => asked'[v] = 0)
      BY <1>3, DecidesOK
    <3> QED
      BY <1>0, <2>0, <2>4, <3>1 DEF ConsentOK
  <2>6. need[1] \in Certs
    <3>1. asksOcsp \in OcspLists /\ position + 1 \in 1..Len(asksOcsp) /\ asksOcsp \in Seq(Range(asksOcsp))
      BY <1>0, SessionAssumption DEF SessionOK
    <3>2. need \in Range(asksOcsp)
      BY <3>1
    <3> QED
      BY <3>1, <3>2 DEF Certs
  <2>7. requests' \in Seq(Sent)
    <3>1. [purpose |-> "ocsp", url |-> need[1], outcome |-> a.outcome] \in Sent
      BY <2>0, <2>3, <2>6 DEF Sent
    <3> HIDE DEF need
    <3> QED
      BY <2>1, <3>1 DEF Sends, SessionOK
  <2>8. SessionOK'
    BY <1>0, <2>7 DEF SessionOK
  <2>9. sent' = sent \/ (sent < MaxRequests /\ sent' = sent + 1)
    BY <2>2, <2>3 DEF BudgetOK
  <2> QED
    BY <1>0, <2>2, <2>5, <2>8, <2>9
<1> QED
  BY <1>1, <1>2, <1>3 DEF FetchOcsp

-----------------------------------------------------------------------------
(***************************************************************************)
(* Discovery keeps the types of the plan.                                  *)
(***************************************************************************)

LEMMA IdleTyped ==
    Idle \in Works /\ Idle.ref \in References
BY DEF Idle, Works, References

\* DiscoverySession::stop
LEMMA StopsPlan ==
    ASSUME NEW why \in Reasons, NEW uri \in Uris \cup {None}, Stops(why, uri)
    PROVE  /\ pc' = "planned" /\ pc' \in Phases
           /\ frontier' = <<>> /\ frontier' \in Seq(Requests)
           /\ todo' = <<>> /\ todo' \in Seq(Requests)
           /\ work' \in Works
           /\ stop' \in [why : Reasons, uri : Uris \cup {None}]
           /\ why # "none" => stop' # NoStop
BY IdleTyped DEF Stops, Phases, NoStop

LEMMA LocatePlan ==
    ASSUME PlanOK, Locate
    PROVE  PlanOK'
<1>1. ASSUME NEW b \in Bodies, LocateStore(b) PROVE PlanOK'
  <2>1. work' \in Works /\ work'.body = b
    BY <1>1, IdleTyped DEF LocateStore, Scans, Idle, Works
  <2> QED
    BY <1>1, <2>1 DEF LocateStore, Scans, PlanOK, Phases, Discovering
<1>2. ASSUME NEW u \in Uris, LocateRoot(u) PROVE PlanOK'
  <2>1. [uri |-> u, kind |-> "segment"] \in Requests
    BY DEF Requests, Kinds
  <2>2. frontier' \in Seq(Requests)
    BY <1>2, <2>1 DEF LocateRoot, PlanOK
  <2>3. uris' \in [Uris -> UriState]
    <3>1. [uris[u] EXCEPT !.known = TRUE, !.root = TRUE] \in UriState
      BY DEF PlanOK, UriState
    <3>2. uris' = [uris EXCEPT ![u] = [uris[u] EXCEPT !.known = TRUE, !.root = TRUE]]
      BY <1>2 DEF LocateRoot, PlanOK
    <3> QED
      BY <3>1, <3>2 DEF PlanOK
  <2> QED
    BY <1>2, <2>2, <2>3 DEF LocateRoot, PlanOK, walkVars, Phases
<1>3. CASE LocateMalformed
  <2>1. "malformed" \in Reasons
    BY DEF Reasons
  <2> QED
    BY <1>3, <2>1, StopsPlan DEF LocateMalformed, PlanOK
<1>4. CASE LocateNothing
  BY <1>4 DEF LocateNothing, PlanOK, planVars, walkVars, Phases
<1> QED
  BY <1>1, <1>2, <1>3, <1>4 DEF Locate

\* A state of a URI stays one when flags of it are set.
LEMMA FlagsTyped ==
    ASSUME NEW states \in [Uris -> UriState], NEW u \in Uris, NEW d \in Nat
    PROVE  /\ [states EXCEPT ![u].segmentParsed = TRUE] \in [Uris -> UriState]
           /\ [states EXCEPT ![u].rootParsed = TRUE] \in [Uris -> UriState]
           /\ [states EXCEPT ![u].rootParsed = TRUE, ![u].segment = TRUE,
                             ![u].segmentParsed = TRUE] \in [Uris -> UriState]
           /\ [states EXCEPT ![u].known = TRUE, ![u].segment = TRUE, ![u].depth = d]
                \in [Uris -> UriState]
<1> DEFINE s == states[u]
<1>0. /\ s \in UriState
      /\ [states EXCEPT ![u].segmentParsed = TRUE]
           = [states EXCEPT ![u] = [s EXCEPT !.segmentParsed = TRUE]]
      /\ [states EXCEPT ![u].rootParsed = TRUE]
           = [states EXCEPT ![u] = [s EXCEPT !.rootParsed = TRUE]]
  OBVIOUS
<1>1. [states EXCEPT ![u].rootParsed = TRUE, ![u].segment = TRUE, ![u].segmentParsed = TRUE]
      = [states EXCEPT ![u] = [s EXCEPT !.rootParsed = TRUE, !.segment = TRUE,
                                        !.segmentParsed = TRUE]]
  OBVIOUS
<1>2. [states EXCEPT ![u].known = TRUE, ![u].segment = TRUE, ![u].depth = d]
      = [states EXCEPT ![u] = [s EXCEPT !.known = TRUE, !.segment = TRUE, !.depth = d]]
  OBVIOUS
<1>3. /\ [s EXCEPT !.segmentParsed = TRUE] \in UriState
      /\ [s EXCEPT !.rootParsed = TRUE] \in UriState
      /\ [s EXCEPT !.rootParsed = TRUE, !.segment = TRUE, !.segmentParsed = TRUE] \in UriState
      /\ [s EXCEPT !.known = TRUE, !.segment = TRUE, !.depth = d] \in UriState
  BY <1>0 DEF UriState
<1> HIDE DEF s
<1> QED
  BY <1>0, <1>1, <1>2, <1>3

\* resolve_segment_uri
LEMMA ResolvesSegmentPlan ==
    ASSUME PlanOK, pc \notin {"walk"}, NEW u \in Uris, NEW states \in [Uris -> UriState],
           NEW rest \in Seq(Requests),
           ResolvesSegment(u, states, rest), UNCHANGED <<present, limits, dids, reached, outcomes>>,
           spent' \in Charges, spent'.nodes <= limits.nodes, spent'.references <= limits.references,
           spent'.bytes <= limits.bytes
    PROVE  PlanOK'
<1>1. [states EXCEPT ![u].segmentParsed = TRUE] \in [Uris -> UriState]
  BY FlagsTyped, 0 \in Nat
<1>2. CASE /\ uris' = states
           /\ todo' = rest
           /\ Returns
           /\ UNCHANGED <<frontier, stop, queue>>
  BY <1>2, IdleTyped DEF PlanOK, Returns, Phases, Discovering
<1>3. CASE /\ outcomes[u] \in Bodies
           /\ uris' = [states EXCEPT ![u].segmentParsed = TRUE]
           /\ todo' = rest
           /\ pc' = "store"
           /\ work' = [Idle EXCEPT !.body = outcomes[u], !.uri = u, !.depth = states[u].depth,
                                   !.provider = TRUE]
           /\ UNCHANGED <<frontier, stop, queue>>
  <2>1. states[u].depth \in Nat
    BY DEF UriState
  <2>2. work' \in Works /\ work'.body \in Bodies
    BY <1>3, <2>1, IdleTyped DEF Works, Idle
  <2> QED
    BY <1>1, <1>3, <2>2 DEF PlanOK, Phases, Discovering
<1>4. CASE /\ uris' = [states EXCEPT ![u].segmentParsed = TRUE]
           /\ Stops("unavailable", u)
  <2>1. "unavailable" \in Reasons
    BY DEF Reasons
  <2> QED
    BY <1>1, <1>4, <2>1, StopsPlan DEF PlanOK
<1> QED
  BY <1>2, <1>3, <1>4 DEF ResolvesSegment

\* The predecessor reference of a store
LEMMA FollowsPlan ==
    ASSUME PlanOK, work.body \in Bodies, NEW d \in Nat,
           Follows(Content[work.body].pred, d),
           UNCHANGED <<present, limits, uris, dids, reached, outcomes>>,
           spent' \in Charges, spent'.nodes <= limits.nodes, spent'.references <= limits.references,
           spent'.bytes <= limits.bytes
    PROVE  PlanOK'
<1> DEFINE ref == Content[work.body].pred
<1>0. ref \in References
  BY ContentAssumption
<1> HIDE DEF ref
<1>1. CASE Returns /\ UNCHANGED <<stop, frontier, todo, queue>>
  BY <1>1, IdleTyped DEF PlanOK, Returns, Phases, Discovering
<1>2. CASE Stops("malformed", work.uri)
  <2>1. "malformed" \in Reasons /\ work.uri \in Uris \cup {None}
    BY DEF Reasons, PlanOK, Works
  <2> QED
    BY <1>2, <2>1, StopsPlan DEF PlanOK
<1>3. CASE /\ pc' = "pred"
           /\ work' = [work EXCEPT !.ref = ref, !.depth = d]
           /\ UNCHANGED <<stop, frontier, todo, queue>>
  <2>1. work' \in Works
    BY <1>0, <1>3 DEF PlanOK, Works
  <2> QED
    BY <1>3, <2>1 DEF PlanOK, Phases, Discovering
<1> QED
  BY <1>1, <1>2, <1>3 DEF Follows, ref

\* What is charged is a number, and so are the limits.
LEMMA ChargesTyped ==
    ASSUME PlanOK
    PROVE  /\ limits.depth \in Nat /\ limits.nodes \in Nat
           /\ limits.references \in Nat /\ limits.bytes \in Nat
           /\ spent.nodes \in Nat /\ spent.references \in Nat /\ spent.bytes \in Nat
           /\ spent.nodes <= limits.nodes /\ spent.references <= limits.references
           /\ spent.bytes <= limits.bytes
BY ContentAssumption DEF PlanOK, Charges

\* A function on 1..n with values in S is a sequence over S.
LEMMA IsASeq ==
    ASSUME NEW S, NEW n \in Nat, NEW f, f = [k \in 1..n |-> f[k]], \A k \in 1..n : f[k] \in S
    PROVE  f \in Seq(S)
OBVIOUS

LEMMA UriOf ==
    ASSUME NEW s \in Seq(Requests), NEW i \in 1..Len(s)
    PROVE  s[i].uri \in Uris /\ s[i].kind \in Kinds
<1>1. s[i] \in Requests
  OBVIOUS
<1> QED
  BY <1>1 DEF Requests

LEMMA HeadTyped ==
    ASSUME NEW S, NEW s \in Seq(S), s # <<>>
    PROVE  Head(s) \in S /\ Tail(s) \in Seq(S) /\ Head(s) = s[1] /\ Len(s) \in Nat /\ Len(s) >= 1
OBVIOUS

LEMMA ResolvePlan ==
    ASSUME PlanOK, Planned \/ Opaque \/ ResolveRoot \/ ResolveSegment
    PROVE  PlanOK'
<1>1. CASE Planned
  BY <1>1 DEF Planned, PlanOK, planVars, walkVars, Phases
<1>2. CASE Opaque
  BY <1>2 DEF Opaque, PlanOK, planVars, Phases, Discovering
<1>3. CASE ResolveRoot
  <2> DEFINE u == Head(todo).uri
  <2>0. /\ pc = "resolve" /\ todo # <<>> /\ todo \in Seq(Requests) /\ Tail(todo) \in Seq(Requests)
        /\ UNCHANGED <<limits, spent, dids, reached, outcomes>>
    BY <1>3 DEF ResolveRoot, PlanOK
  <2>1. u \in Uris
    <3>1. Head(todo) \in Requests
      BY <2>0, HeadTyped
    <3> QED
      BY <3>1 DEF Requests
  <2> HIDE DEF u
  <2>2. CASE todo' = Tail(todo) /\ UNCHANGED <<pc, present, frontier, stop, uris, work, queue>>
    BY <2>0, <2>2 DEF PlanOK
  <2>3. CASE /\ outcomes[u] \in Bodies
             /\ present' = TRUE
             /\ uris' = RootHeld(u)
             /\ todo' = Tail(todo)
             /\ Scans(outcomes[u], u, TRUE)
             /\ UNCHANGED <<frontier, stop, queue>>
    <3>1. uris' \in [Uris -> UriState]
      BY <2>1, <2>3, FlagsTyped, 0 \in Nat DEF RootHeld, PlanOK
    <3>2. work' \in Works /\ work'.body \in Bodies /\ pc' = "scan"
      BY <2>1, <2>3, IdleTyped DEF Works, Idle, Scans
    <3> QED
      BY <2>0, <2>3, <3>1, <3>2 DEF PlanOK, Phases, Discovering
  <2>4. CASE /\ uris' = [uris EXCEPT ![u].rootParsed = TRUE]
             /\ Stops("unavailable", u)
             /\ UNCHANGED present
    <3>1. uris' \in [Uris -> UriState]
      BY <2>1, <2>4, FlagsTyped, 0 \in Nat DEF PlanOK
    <3>2. "unavailable" \in Reasons
      BY DEF Reasons
    <3> QED
      BY <2>0, <2>1, <2>4, <3>1, <3>2, StopsPlan DEF PlanOK
  <2> QED
    BY <1>3, <2>2, <2>3, <2>4 DEF ResolveRoot, u
<1>4. CASE ResolveSegment
  <2>0. /\ pc = "resolve" /\ todo # <<>> /\ todo \in Seq(Requests) /\ Tail(todo) \in Seq(Requests)
        /\ UNCHANGED <<present, limits, spent, dids, reached, outcomes>>
        /\ ResolvesSegment(Head(todo).uri, uris, Tail(todo))
    BY <1>4 DEF ResolveSegment, PlanOK
  <2>1. Head(todo).uri \in Uris
    <3>1. Head(todo) \in Requests
      BY <2>0, HeadTyped
    <3> QED
      BY <3>1 DEF Requests
  <2>2. /\ uris \in [Uris -> UriState] /\ spent' \in Charges /\ spent'.nodes <= limits.nodes
        /\ spent'.references <= limits.references /\ spent'.bytes <= limits.bytes
        /\ pc \notin {"walk"}
    BY <2>0 DEF PlanOK
  <2> QED
    BY <2>0, <2>1, <2>2, ResolvesSegmentPlan
<1> QED
  BY <1>1, <1>2, <1>3, <1>4

LEMMA ScanPlan ==
    ASSUME PlanOK, ScanInitialStore
    PROVE  PlanOK'
<1> DEFINE c == Content[work.body]
<1>0. /\ pc = "scan" /\ work.body \in Bodies /\ UNCHANGED <<present, limits, outcomes>>
      /\ work.uri \in Uris \cup {None}
  BY DEF ScanInitialStore, PlanOK, Works
<1>1. /\ c.dids \in Seq(Uris) /\ c.links \in Links /\ c.links.examined \in Nat
      /\ "active" \in DOMAIN c.graph /\ "active" \in Labels
  BY <1>0, ContentAssumption DEF Links, Labels
<1>2. "malformed" \in Reasons /\ "references" \in Reasons
  BY DEF Reasons
<1>3. CASE Stops("malformed", work.uri) /\ UNCHANGED <<uris, spent, dids, reached>>
  BY <1>0, <1>2, <1>3, StopsPlan DEF PlanOK
<1>4. CASE dids' = WithDids(c.dids) /\ Stops("references", None) /\ UNCHANGED <<uris, spent, reached>>
  <2>1. dids' \in Seq(Uris)
    BY <1>1, <1>4, WithDidsTyped DEF PlanOK
  <2> QED
    BY <1>0, <1>2, <1>4, <2>1, StopsPlan DEF PlanOK
<1>5. CASE /\ dids' = WithDids(c.dids)
           /\ ~ReferencesSpent(c.links.examined)
           /\ spent' = Charged(0, c.links.examined, 0)
           /\ uris' = Located(c.links).uris
           /\ frontier' = Located(c.links).frontier
           /\ queue' = <<[label |-> "active", depth |-> 0]>>
           /\ reached' = {"active"}
           /\ pc' = "walk"
           /\ UNCHANGED <<stop, todo, work>>
  <2>1. dids' \in Seq(Uris)
    BY <1>1, <1>5, WithDidsTyped DEF PlanOK
  <2>2. uris' \in [Uris -> UriState] /\ frontier' \in Seq(Requests)
    BY <1>1, <1>5, LocatedExtends DEF PlanOK, Plans
  <2>3. /\ spent' \in Charges /\ spent'.nodes <= limits.nodes
        /\ spent'.references <= limits.references /\ spent'.bytes <= limits.bytes
    BY <1>1, <1>5, ChargesTyped DEF Charged, Charges, ReferencesSpent
  <2>4. queue' \in Seq([label : DOMAIN Content[work.body].graph, depth : Nat])
    BY <1>1, <1>5
  <2>5. reached' \in SUBSET Labels
    BY <1>1, <1>5
  <2> QED
    BY <1>0, <1>5, <2>1, <2>2, <2>3, <2>4, <2>5 DEF PlanOK, Phases, Discovering
<1> QED
  BY <1>3, <1>4, <1>5 DEF ScanInitialStore

LEMMA WalkPlan ==
    ASSUME PlanOK, WalkManifest
    PROVE  PlanOK'
<1> DEFINE at == Head(queue)
           m == Content[work.body].graph[at.label]
           links == IF at.label # "active" THEN m.links ELSE [uris |-> <<>>, examined |-> 0]
           entered == Charged(1, 0, 1)
           first == [references |-> spent.references + links.examined, limit |-> "none",
                     depth |-> at.depth, reached |-> reached, queue |-> Tail(queue)]
           walk == Enqueued(first, m.ingredients)
           Q == [label : DOMAIN Content[work.body].graph, depth : Nat]
<1>0. /\ pc = "walk" /\ work.body \in Bodies /\ UNCHANGED <<present, limits, dids, outcomes>>
      /\ work.uri \in Uris \cup {None} /\ queue # <<>> /\ queue \in Seq(Q)
  BY DEF WalkManifest, PlanOK, Works
<1>1. at \in Q /\ Tail(queue) \in Seq(Q)
  <2> HIDE DEF Q
  <2> QED
    BY <1>0, HeadTyped
<1>2. m.links \in Links /\ m.ingredients \in Seq(STRING)
  BY <1>0, <1>1, ContentAssumption
<1>3. links \in Links /\ links.examined \in Nat
  BY <1>2 DEF Links
<1>4. \A r \in {"malformed", "references", "nodes", "bytes", "depth"} : r \in Reasons
  BY DEF Reasons
<1> DEFINE Spend(s) == /\ s \in Charges /\ s.nodes <= limits.nodes
                       /\ s.references <= limits.references /\ s.bytes <= limits.bytes
<1>5. ~NodesSpent => Spend(Charged(1, 0, 0))
  BY ChargesTyped DEF Charged, Charges, NodesSpent
<1>7. ~NodesSpent /\ ~BytesSpent(1) => Spend(entered)
  BY ChargesTyped DEF Charged, Charges, NodesSpent, BytesSpent
<1>8. CASE Stops("nodes", None) /\ UNCHANGED <<spent, uris, reached>>
  BY <1>0, <1>4, <1>8, StopsPlan DEF PlanOK
<1>9. CASE ~NodesSpent /\ Stops("bytes", None) /\ spent' = Charged(1, 0, 0) /\ UNCHANGED <<uris, reached>>
  BY <1>0, <1>4, <1>5, <1>9, StopsPlan DEF PlanOK
<1>10. CASE /\ ~NodesSpent /\ ~BytesSpent(1)
            /\ Stops("malformed", work.uri) \/ Stops("references", None)
            /\ spent' = entered
            /\ UNCHANGED <<uris, reached>>
  <2> HIDE DEF entered
  <2> QED
    BY <1>0, <1>4, <1>7, <1>10, StopsPlan DEF PlanOK
<1>11. CASE /\ ~NodesSpent /\ ~BytesSpent(1)
            /\ spent' = entered
            /\ queue' = Tail(queue)
            /\ UNCHANGED <<pc, stop, frontier, todo, work, uris, reached>>
  <2> HIDE DEF entered
  <2> QED
    BY <1>0, <1>1, <1>7, <1>11 DEF PlanOK
<1>12. CASE /\ ~NodesSpent /\ ~BytesSpent(1)
            /\ ~ReferencesSpent(links.examined)
            /\ spent' = [entered EXCEPT !.references = walk.references]
            /\ uris' = Located(links).uris
            /\ reached' = walk.reached
            /\ IF walk.limit # "none" THEN Stops(walk.limit, None)
               ELSE /\ frontier' = Located(links).frontier
                    /\ queue' = walk.queue
                    /\ UNCHANGED <<pc, stop, todo, work>>
  <2> HIDE DEF links, m
  <2>1. uris' \in [Uris -> UriState] /\ Located(links).frontier \in Seq(Requests)
    BY <1>3, <1>12, LocatedExtends DEF PlanOK, Plans
  <2>2. first \in Walks
    <3>1. spent.references + links.examined \in 0..limits.references
      BY <1>3, <1>12, ChargesTyped DEF ReferencesSpent
    <3> HIDE DEF at, links
    <3>2. at.depth \in Nat /\ reached \in SUBSET Labels
      BY <1>1 DEF PlanOK
    <3> QED
      BY <1>1, <3>1, <3>2 DEF Walks
  <2>3. walk \in Walks
    <3> HIDE DEF first
    <3> QED
      BY <1>0, <1>2, <2>2, ChargesTyped, EnqueuedTyped
  <2> HIDE DEF walk
  <2>4. /\ walk.references \in 0..limits.references /\ walk.limit \in Reasons
        /\ walk.reached \in SUBSET Labels /\ walk.queue \in Seq(Q)
    BY <2>3 DEF Walks, Reasons
  <2>5. Spend(spent')
    BY <1>7, <1>12, <2>4, ChargesTyped DEF Charges
  <2>6. CASE walk.limit # "none"
    BY <1>0, <1>12, <2>1, <2>4, <2>5, <2>6, StopsPlan DEF PlanOK
  <2>7. CASE walk.limit = "none"
    BY <1>0, <1>12, <2>1, <2>4, <2>5, <2>7 DEF PlanOK
  <2> QED
    BY <2>6, <2>7
<1> QED
  BY <1>8, <1>9, <1>10, <1>11, <1>12 DEF WalkManifest

LEMMA FollowPlan ==
    ASSUME PlanOK, EndWalk \/ ScanPredecessorStore \/ FollowInline \/ FollowExternal
    PROVE  PlanOK'
<1> DEFINE Spend(s) == /\ s \in Charges /\ s.nodes <= limits.nodes
                       /\ s.references <= limits.references /\ s.bytes <= limits.bytes
<1>0. /\ Spend(spent) /\ work.uri \in Uris \cup {None} /\ work.depth \in Nat
      /\ \A r \in {"malformed", "references", "nodes", "bytes", "depth", "unavailable"} : r \in Reasons
  BY DEF PlanOK, Works, Reasons
<1>1. CASE EndWalk
  BY <1>1, <1>0, FollowsPlan, 1 \in Nat DEF EndWalk, PlanOK
<1>2. CASE ScanPredecessorStore
  <2> DEFINE c == Content[work.body]
  <2>0. /\ pc = "store" /\ work.body \in Bodies
        /\ UNCHANGED <<present, limits, uris, dids, reached, outcomes>>
    BY <1>2 DEF ScanPredecessorStore, PlanOK
  <2>1. ~BytesSpent(1) => Spend(Charged(0, 0, 1))
    BY ChargesTyped DEF Charged, Charges, BytesSpent
  <2>2. CASE (Stops("malformed", work.uri) \/ Stops("bytes", None)) /\ UNCHANGED spent
    BY <2>0, <2>2, <1>0, StopsPlan DEF PlanOK
  <2>3. CASE ~BytesSpent(1) /\ spent' = Charged(0, 0, 1) /\ Follows(c.pred, work.depth + 1)
    <3>1. work.depth + 1 \in Nat
      BY <1>0
    <3> QED
      BY <2>0, <2>1, <2>3, <3>1, FollowsPlan
  <2>4. CASE ~BytesSpent(1) /\ spent' = Charged(0, 0, 1) /\ Stops("malformed", work.uri)
    <3> HIDE DEF Spend
    <3>1. Spend(spent')
      BY <2>1, <2>4
    <3> USE DEF Spend
    <3> QED
      BY <2>0, <2>4, <3>1, <1>0, StopsPlan DEF PlanOK
  <2> QED
    BY <1>2, <2>2, <2>3, <2>4 DEF ScanPredecessorStore
<1>3. ASSUME NEW node \in BOOLEAN
      PROVE  PredecessorLimit(node) \in Reasons
  BY DEF PredecessorLimit, Reasons
<1>5. PredecessorLimit(TRUE) = "none" => Spend(Charged(1, 1, 0))
  <2>1. PredecessorLimit(TRUE) = "none" =>
          spent.references + 1 <= limits.references /\ spent.nodes + 1 <= limits.nodes
    BY ChargesTyped DEF PredecessorLimit, ReferencesSpent, NodesSpent
  <2> QED
    BY <2>1, ChargesTyped DEF Charged, Charges
<1>6. PredecessorLimit(FALSE) = "none" => Spend(Charged(0, 1, 0))
  <2>1. PredecessorLimit(FALSE) = "none" => spent.references + 1 <= limits.references
    BY ChargesTyped DEF PredecessorLimit, ReferencesSpent
  <2> QED
    BY <2>1, ChargesTyped DEF Charged, Charges
<1>7. CASE FollowInline
  <2>0. /\ pc = "pred" /\ UNCHANGED <<present, limits, uris, dids, reached, outcomes>>
        /\ work.ref.kind = "inline" /\ work.ref \in References /\ work \in Works
    BY <1>7 DEF FollowInline, PlanOK, Works
  <2>1. work.ref.to \in Bodies
    BY <2>0 DEF References
  <2>2. CASE Stops(PredecessorLimit(TRUE), None) /\ UNCHANGED spent
    BY <1>3, <2>0, <2>2, StopsPlan DEF PlanOK
  <2>3. CASE /\ PredecessorLimit(TRUE) = "none"
             /\ spent' = Charged(1, 1, 0)
             /\ pc' = "store"
             /\ work' = [work EXCEPT !.body = work.ref.to, !.uri = None]
             /\ UNCHANGED <<stop, frontier, todo, queue>>
    <3>1. work' \in Works /\ work'.body \in Bodies
      BY <2>0, <2>1, <2>3 DEF Works
    <3>2. Spend(spent')
      BY <1>5, <2>3
    <3> QED
      BY <2>0, <2>3, <3>1, <3>2 DEF PlanOK, Phases, Discovering
  <2> QED
    BY <1>7, <2>2, <2>3 DEF FollowInline
<1>8. CASE FollowExternal
  <2> DEFINE u == work.ref.to
             marked == [uris EXCEPT ![u].known = TRUE, ![u].segment = TRUE, ![u].depth = work.depth]
  <2>0. /\ pc = "pred" /\ UNCHANGED <<present, limits, dids, reached, outcomes>>
        /\ work.ref.kind = "external" /\ work.ref \in References /\ work.depth \in Nat
        /\ uris \in [Uris -> UriState] /\ frontier \in Seq(Requests) /\ todo \in Seq(Requests)
    BY <1>8 DEF FollowExternal, PlanOK, Works
  <2>1. u \in Uris /\ uris[u].segment \in BOOLEAN
    BY <2>0 DEF References, UriState
  <2>2. marked \in [Uris -> UriState]
    BY <2>0, <2>1, FlagsTyped
  <2>3. ASSUME NEW why \in Reasons, NEW uri \in Uris \cup {None}, Stops(why, uri),
               uris' \in [Uris -> UriState], Spend(spent')
        PROVE  PlanOK'
    BY <2>0, <2>3, StopsPlan DEF PlanOK
  <2>4. ASSUME Returns, uris' \in [Uris -> UriState], frontier' \in Seq(Requests),
               UNCHANGED <<stop, todo>>, Spend(spent')
        PROVE  PlanOK'
    BY <2>0, <2>4, IdleTyped DEF PlanOK, Returns, Phases, Discovering
  <2>5. Upgraded(u) \in Seq(Requests)
    <3> DEFINE i == SelectInSeq(frontier, LAMBDA r : r.uri = u)
    <3>1. Upgraded(u) = [frontier EXCEPT ![i].kind = "segment"]
      BY DEF Upgraded
    <3> HIDE DEF i
    <3>2. ASSUME i \in 1..Len(frontier)
          PROVE  [frontier[i] EXCEPT !.kind = "segment"] \in Requests
      <4>1. frontier[i] \in Requests
        BY <2>0, <3>2
      <4> QED
        BY <4>1 DEF Requests, Kinds
    <3>3. Upgraded(u) = [frontier EXCEPT ![i] = [frontier[i] EXCEPT !.kind = "segment"]]
      BY <3>1
    <3> DEFINE r == [frontier[i] EXCEPT !.kind = "segment"]
    <3>4. i \in 1..Len(frontier) => r \in Requests
      BY <3>2
    <3> HIDE DEF r
    <3>5. DOMAIN frontier = 1..Len(frontier) /\ Len(frontier) \in Nat
      BY <2>0
    <3>6. \A k \in 1..Len(frontier) : Upgraded(u)[k] \in Requests
      BY <2>0, <3>3, <3>4, <3>5 DEF r
    <3>7. Upgraded(u) = [k \in 1..Len(frontier) |-> Upgraded(u)[k]]
      BY <3>3, <3>5
    <3> QED
      BY <3>5, <3>6, <3>7, IsASeq
  <2>6. Append(frontier, [uri |-> u, kind |-> "segment"]) \in Seq(Requests)
    <3>1. [uri |-> u, kind |-> "segment"] \in Requests
      BY <2>1 DEF Requests, Kinds
    <3> QED
      BY <2>0, <3>1
  <2> HIDE DEF u, marked
  <2>7. CASE /\ Stops(PredecessorLimit(~uris[u].segment), None)
             /\ UNCHANGED <<uris, spent>>
    BY <1>0, <1>3, <2>0, <2>1, <2>3, <2>7
  <2>8. CASE /\ PredecessorLimit(FALSE) = "none"
             /\ spent' = Charged(0, 1, 0)
             /\ Returns
             /\ UNCHANGED <<uris, stop, frontier, todo, queue>>
    BY <1>6, <2>0, <2>4, <2>8
  <2>9. CASE /\ PredecessorLimit(TRUE) = "none"
             /\ spent' = Charged(1, 1, 0)
    <3>1. Spend(spent')
      BY <1>5, <2>9
    <3> HIDE DEF Spend
    <3>2. CASE uris' = marked /\ frontier' = Upgraded(u) /\ Returns /\ UNCHANGED <<stop, todo, queue>>
      BY <2>2, <2>4, <2>5, <3>1, <3>2
    <3>3. CASE ResolvesSegment(u, marked, todo)
      BY <2>0, <2>1, <2>2, <3>1, <3>3, ResolvesSegmentPlan DEF Spend
    <3>4. CASE uris' = marked /\ Stops("unavailable", u)
      BY <1>0, <2>1, <2>2, <2>3, <3>1, <3>4
    <3>5. CASE /\ uris' = marked
               /\ frontier' = Append(frontier, [uri |-> u, kind |-> "segment"])
               /\ Returns
               /\ UNCHANGED <<stop, todo, queue>>
      BY <2>2, <2>4, <2>6, <3>1, <3>5
    <3>6. \/ uris' = marked /\ frontier' = Upgraded(u) /\ Returns /\ UNCHANGED <<stop, todo, queue>>
          \/ ResolvesSegment(u, marked, todo)
          \/ uris' = marked /\ Stops("unavailable", u)
          \/ /\ uris' = marked
             /\ frontier' = Append(frontier, [uri |-> u, kind |-> "segment"])
             /\ Returns
             /\ UNCHANGED <<stop, todo, queue>>
          \/ PlanOK'
      BY <1>8, <2>7, <2>8 DEF FollowExternal, u, marked
    <3> QED
      BY <3>2, <3>3, <3>4, <3>5, <3>6
  <2> QED
    BY <1>8, <2>7, <2>8, <2>9 DEF FollowExternal, u
<1> QED
  BY <1>1, <1>2, <1>7, <1>8

-----------------------------------------------------------------------------
(***************************************************************************)
(* The session keeps its invariant.                                        *)
(***************************************************************************)
Inv == PlanOK /\ BudgetOK /\ ConsentOK /\ JudgedOK /\ SessionOK

\* What a step leaves of the invariant when it changes none of the fetches
LEMMA FetchesUnchanged ==
    ASSUME BudgetOK, ConsentOK, UNCHANGED <<fetchVars, consentVars>>
    PROVE  BudgetOK' /\ ConsentOK'
BY DEF BudgetOK, ConsentOK, Forbidden, fetchVars, consentVars

\* ensure_graph_resource for a request of the frontier
LEMMA EnsureOK ==
    ASSUME Inv, EnsureGraphResource
    PROVE  /\ Inv'
           /\ frontier[position + 1].uri \in Uris /\ Settling(frontier[position + 1].uri)
<1> DEFINE u == frontier[position + 1].uri
           purpose == IF uris[u].root THEN "remote_manifest" ELSE "external_data"
<1>0. /\ pc = "planned" /\ position < Len(frontier) /\ position \in Nat
      /\ frontier \in Seq(Requests) /\ Gets(u, purpose) /\ position' = position + 1
      /\ UNCHANGED <<pc, planVars, walkVars, supplied, asksOcsp, documents, saw, judged>>
  BY DEF EnsureGraphResource, Inv, PlanOK, SessionOK
<1>1. u \in Uris
  <2>1. frontier[position + 1] \in Requests
    BY <1>0
  <2> QED
    BY <2>1 DEF Requests
<1>2. purpose \in Purposes
  BY DEF Purposes
<1> HIDE DEF u, purpose
<1>3. BudgetOK' /\ ConsentOK' /\ Settling(u) /\ requests' \in Seq(Sent)
  BY <1>0, <1>1, <1>2, GetsOK DEF Inv, PlanOK, SessionOK
<1>4. PlanOK'
  <2>1. outcomes' \in [Uris -> Outcomes]
    BY <1>3 DEF Settling
  <2> QED
    BY <1>0, <2>1 DEF Inv, PlanOK, planVars, walkVars
<1>5. SessionOK' /\ JudgedOK'
  BY <1>0, <1>3 DEF Inv, SessionOK, JudgedOK
<1> QED
  BY <1>1, <1>3, <1>4, <1>5 DEF Inv, u

\* resolve_did_documents for a DID
LEMMA ResolveDidOK ==
    ASSUME Inv, ResolveDidDocument
    PROVE  /\ Inv'
           /\ \/ UNCHANGED <<outcomes, fetchVars>>
              \/ dids[position + 1] \in Uris /\ Settling(dids[position + 1])
<1> DEFINE u == dids[position + 1]
<1>0. /\ pc = "dids" /\ position < Len(dids) /\ position \in Nat
      /\ dids \in Seq(Uris) /\ position' = position + 1
      /\ UNCHANGED <<pc, planVars, walkVars, supplied, asksOcsp, saw, judged>>
  BY DEF ResolveDidDocument, Inv, PlanOK, SessionOK
<1>1. u \in Uris
  BY <1>0
<1>2. "did_document" \in Purposes
  BY DEF Purposes
<1> HIDE DEF u
<1>3. CASE UNCHANGED <<outcomes, fetchVars, consentVars, needed, documents>>
  <2>1. BudgetOK' /\ ConsentOK'
    BY <1>3, FetchesUnchanged DEF Inv
  <2>2. PlanOK'
    BY <1>0, <1>3 DEF Inv, PlanOK, planVars, walkVars
  <2>3. SessionOK' /\ JudgedOK'
    BY <1>0, <1>3 DEF Inv, SessionOK, JudgedOK, fetchVars
  <2> QED
    BY <1>3, <2>1, <2>2, <2>3 DEF Inv
<1>4. CASE /\ Gets(u, "did_document")
           /\ documents' = [documents EXCEPT ![u] =
                 IF outcomes'[u] \in Bodies /\ Content[outcomes'[u]].json THEN outcomes'[u]
                 ELSE None]
  <2>1. BudgetOK' /\ ConsentOK' /\ Settling(u) /\ requests' \in Seq(Sent)
    BY <1>1, <1>2, <1>4, GetsOK DEF Inv, PlanOK, SessionOK
  <2>2. PlanOK'
    <3>1. outcomes' \in [Uris -> Outcomes]
      BY <2>1 DEF Settling
    <3> QED
      BY <1>0, <3>1 DEF Inv, PlanOK, planVars, walkVars
  <2>3. documents' \in [Uris -> Bodies \cup {None}]
    BY <1>4 DEF Inv, SessionOK
  <2>4. SessionOK' /\ JudgedOK'
    BY <1>0, <2>1, <2>3 DEF Inv, SessionOK, JudgedOK
  <2> QED
    BY <1>1, <2>1, <2>2, <2>4 DEF Inv, u
<1> QED
  BY <1>3, <1>4 DEF ResolveDidDocument, u

LEMMA ContinuePlan ==
    ASSUME PlanOK, Continue
    PROVE  PlanOK'
BY ResolvePlan, ScanPlan, WalkPlan, FollowPlan DEF Continue

\* A step of discovery goes from one of its own phases to another, or hands
\* the plan back.
LEMMA DiscoveryPhases ==
    ASSUME Locate \/ ContinueWith \/ Continue
    PROVE  /\ pc \in Discovering \cup {"planned"} /\ pc' \in Discovering \cup {"planned"}
           /\ pc' # "locate"
<1>1. CASE Locate
  BY <1>1 DEF Locate, LocateStore, LocateRoot, LocateMalformed, LocateNothing, Stops, Scans, Discovering
<1>2. CASE ContinueWith
  BY <1>2 DEF ContinueWith, Discovering
<1>3. CASE Planned \/ Opaque \/ ResolveRoot \/ ResolveSegment
  BY <1>3 DEF Planned, Opaque, ResolveRoot, ResolveSegment, ResolvesSegment, Stops, Scans, Returns,
              Discovering
<1>4. CASE ScanInitialStore \/ WalkManifest
  BY <1>4 DEF ScanInitialStore, WalkManifest, Stops, Discovering
<1>5. CASE EndWalk \/ ScanPredecessorStore \/ FollowInline
  BY <1>5 DEF EndWalk, ScanPredecessorStore, FollowInline, Follows, Returns, Stops, Discovering
<1>6. CASE FollowExternal
  BY <1>6 DEF FollowExternal, ResolvesSegment, Returns, Stops, Discovering
<1> QED
  BY <1>1, <1>2, <1>3, <1>4, <1>5, <1>6 DEF Continue

\* NativeResources::from_caller, NativeOnline::new and FetchSession::new
LEMMA InvInit ==
    ASSUME Init
    PROVE  Inv
<1>1. PlanOK
  <2>1. [known |-> FALSE, root |-> FALSE, rootParsed |-> FALSE, segment |-> FALSE,
         segmentParsed |-> FALSE, depth |-> 0] \in UriState
    BY DEF UriState
  <2>2. uris \in [Uris -> UriState]
    BY <2>1 DEF Init, InitPlan
  <2>3. limits.nodes \in Nat /\ limits.references \in Nat /\ limits.bytes \in Nat
    BY ContentAssumption DEF Init, InitPlan
  <2>4. /\ spent \in Charges /\ spent.nodes <= limits.nodes
        /\ spent.references <= limits.references /\ spent.bytes <= limits.bytes
    BY <2>3 DEF Init, InitPlan, Charges
  <2>5. stop \in [why : Reasons, uri : Uris \cup {None}]
    BY DEF Init, InitPlan, NoStop, Reasons
  <2>6. outcomes \in [Uris -> Outcomes]
    BY SessionAssumption DEF Init
  <2>7. frontier \in Seq(Requests) /\ todo \in Seq(Requests) /\ dids \in Seq(Uris)
    BY DEF Init, InitPlan
  <2>8. pc = "locate" /\ present \in BOOLEAN /\ limits \in Limits /\ reached \in SUBSET Labels
    BY DEF Init, InitPlan
  <2>9. work \in Works
    BY IdleTyped DEF Init, InitPlan
  <2> QED
    BY <2>2, <2>4, <2>5, <2>6, <2>7, <2>8, <2>9 DEF PlanOK, Phases, Discovering
<1>2. BudgetOK
  BY SessionAssumption DEF Init, BudgetOK
<1>3. ConsentOK
  <2>1. consent \in ConsentSpace
    BY SessionAssumption DEF Init, ConsentSpace
  <2> QED
    BY <2>1 DEF Init, ConsentOK
<1>4. JudgedOK
  BY DEF Init, InitPlan, JudgedOK, Judging
<1>5. SessionOK
  BY DEF Init, SessionOK
<1> QED
  BY <1>1, <1>2, <1>3, <1>4, <1>5 DEF Inv

LEMMA InvNext ==
    ASSUME Inv, [Next]_vars
    PROVE  Inv'
<1>0. PlanOK /\ BudgetOK /\ ConsentOK /\ JudgedOK /\ SessionOK
  BY DEF Inv
<1>a. \A p \in Discovering \cup {"planned", "dids"} : p \notin Judging
  BY DEF Discovering, Judging
<1>1. CASE Locates
  <2>1. PlanOK'
    BY <1>0, <1>1, LocatePlan DEF Locates
  <2>2. BudgetOK' /\ ConsentOK'
    BY <1>0, <1>1, FetchesUnchanged DEF Locates
  <2>3. JudgedOK' /\ SessionOK'
    <3>1. pc \notin Judging /\ pc' \notin Judging
      BY <1>1, <1>a, DiscoveryPhases DEF Locates
    <3> QED
      BY <1>0, <1>1, <3>1 DEF Locates, sessionVars, fetchVars, JudgedOK, SessionOK
  <2> QED
    BY <2>1, <2>2, <2>3 DEF Inv
<1>2. CASE EnsureGraphResource
  BY <1>2, EnsureOK
<1>3. CASE Continues
  <2>1. PlanOK'
    BY <1>0, <1>3 DEF Continues, ContinueWith, PlanOK, Phases, Discovering
  <2>2. BudgetOK' /\ ConsentOK'
    BY <1>0, <1>3, FetchesUnchanged DEF Continues
  <2>3. JudgedOK' /\ SessionOK'
    <3>1. pc \notin Judging /\ pc' \notin Judging
      BY <1>3, <1>a, DiscoveryPhases DEF Continues
    <3> QED
      BY <1>0, <1>3, <3>1 DEF Continues, fetchVars, JudgedOK, SessionOK
  <2> QED
    BY <2>1, <2>2, <2>3 DEF Inv
<1>4. CASE Discovers
  <2>1. PlanOK'
    BY <1>0, <1>4, ContinuePlan DEF Discovers
  <2>2. BudgetOK' /\ ConsentOK'
    BY <1>0, <1>4, FetchesUnchanged DEF Discovers
  <2>3. JudgedOK' /\ SessionOK'
    <3>1. pc \notin Judging /\ pc' \notin Judging
      BY <1>4, <1>a, DiscoveryPhases DEF Discovers
    <3> QED
      BY <1>0, <1>4, <3>1 DEF Discovers, sessionVars, fetchVars, JudgedOK, SessionOK
  <2> QED
    BY <2>1, <2>2, <2>3 DEF Inv
<1>5. CASE EndDiscovery
  <2>1. PlanOK'
    BY <1>0, <1>5 DEF EndDiscovery, PlanOK, planVars, walkVars, Phases
  <2>2. BudgetOK' /\ ConsentOK'
    BY <1>0, <1>5 DEF EndDiscovery, BudgetOK, ConsentOK, Forbidden, consentVars
  <2>3. requests' \in Seq(Sent)
    <3> DEFINE i == SelectInSeq(requests, LAMBDA r : r.url = stop.uri /\ r.outcome = "fetched")
    <3>1. requests' = requests \/ requests' = [requests EXCEPT ![i].outcome = "failed"]
      BY <1>5 DEF EndDiscovery, Marked
    <3> HIDE DEF i
    <3>2. CASE requests' = requests
      BY <1>0, <3>2 DEF SessionOK
    <3>3. CASE requests' = [requests EXCEPT ![i].outcome = "failed"]
      <4> DEFINE r == [requests[i] EXCEPT !.outcome = "failed"]
      <4>0. requests \in Seq(Sent) /\ DOMAIN requests = 1..Len(requests) /\ Len(requests) \in Nat
        BY <1>0 DEF SessionOK
      <4>1. ASSUME i \in 1..Len(requests) PROVE r \in Sent
        <5>1. requests[i] \in Sent
          BY <4>0, <4>1
        <5> QED
          BY <5>1 DEF Sent
      <4>2. requests' = [requests EXCEPT ![i] = r]
        BY <3>3
      <4> HIDE DEF r
      <4>3. \A k \in 1..Len(requests) : requests'[k] \in Sent
        BY <4>0, <4>1, <4>2
      <4>4. requests' = [k \in 1..Len(requests) |-> requests'[k]]
        BY <4>0, <4>2
      <4> QED
        BY <4>0, <4>3, <4>4, IsASeq
    <3> QED
      BY <3>1, <3>2, <3>3
  <2>4. JudgedOK' /\ SessionOK'
    BY <1>0, <1>5, <2>3 DEF EndDiscovery, sessionVars, JudgedOK, SessionOK, Judging
  <2> QED
    BY <2>1, <2>2, <2>4 DEF Inv
<1>6. CASE ResolveDidDocument
  BY <1>6, ResolveDidOK
<1>7. CASE Pass
  <2>1. PlanOK'
    BY <1>0, <1>7 DEF Pass, PlanOK, planVars, walkVars, Phases, Judging
  <2>2. BudgetOK' /\ ConsentOK'
    BY <1>0, <1>7, FetchesUnchanged DEF Pass
  <2>3. JudgedOK' /\ SessionOK'
    BY <1>0, <1>7, SessionAssumption DEF Pass, fetchVars, JudgedOK, SessionOK, Judging, PlanOK
  <2> QED
    BY <2>1, <2>2, <2>3 DEF Inv
<1>8. CASE FetchOcsp
  <2>1. /\ BudgetOK' /\ ConsentOK' /\ SessionOK'
        /\ UNCHANGED <<pc, planVars, walkVars, outcomes, judged>>
    BY <1>0, <1>8, FetchOcspOK
  <2> QED
    BY <1>0, <2>1 DEF Inv, PlanOK, JudgedOK, planVars, walkVars
<1>9. CASE Finish
  <2>1. PlanOK'
    BY <1>0, <1>9 DEF Finish, PlanOK, planVars, walkVars, Phases, Judging
  <2>2. BudgetOK' /\ ConsentOK'
    BY <1>0, <1>9, FetchesUnchanged DEF Finish
  <2>3. JudgedOK' /\ SessionOK'
    BY <1>0, <1>9 DEF Finish, sessionVars, fetchVars, JudgedOK, SessionOK, Judging
  <2> QED
    BY <2>1, <2>2, <2>3 DEF Inv
<1>10. CASE UNCHANGED vars
  <2>1. BudgetOK' /\ ConsentOK'
    BY <1>0, <1>10, FetchesUnchanged DEF vars
  <2>2. PlanOK'
    BY <1>0, <1>10 DEF vars, discoveryVars, planVars, walkVars, PlanOK
  <2>3. JudgedOK' /\ SessionOK'
    BY <1>0, <1>10 DEF vars, discoveryVars, sessionVars, fetchVars, JudgedOK, SessionOK
  <2> QED
    BY <2>1, <2>2, <2>3 DEF Inv
<1> QED
  BY <1>1, <1>2, <1>3, <1>4, <1>5, <1>6, <1>7, <1>8, <1>9, <1>10 DEF Next, Ended

LEMMA InvAlways ==
    Spec => []Inv
<1>1. Init => Inv
  BY InvInit
<1>2. Inv /\ [Next]_vars => Inv'
  BY InvNext
<1> QED
  BY <1>1, <1>2, PTL DEF Spec

\* FetchBudget: whatever the frontiers, the DID documents and the OCSP
\* requests are, and whatever the servers answer, a verification sends at most
\* MaxRequests requests and reads at most one unit more than MaxReceived.
THEOREM SessionStaysWithinBudget ==
    Spec => []WithinBudget
<1>1. Inv => WithinBudget
  BY SessionAssumption DEF Inv, BudgetOK, WithinBudget
<1> QED
  BY <1>1, InvAlways, PTL

\* resolve_online and the handled set: nobody is asked twice about a URL, a
\* refused URL is not contacted, and where the option, the environment or the
\* surface forbids requests none is ever sent.
THEOREM SessionFollowsConsent ==
    Spec => []ConsentGoverns
<1>1. Inv => ConsentGoverns
  BY DEF Inv, ConsentOK, ConsentGoverns, Forbidden
<1> QED
  BY <1>1, InvAlways, PTL

\* The session implements the write-once outcome map: a fetch is a contact, the
\* first pass freezes the map, an OCSP request is a query, and every other
\* step of the session leaves the map as it is.
THEOREM SessionImplementsOutcomeMap ==
    Spec => ImplementsOutcomeMap
<1>1. Init => Map!Init
  BY SessionAssumption DEF Init, Map!Init, Outcomes
<1>2. ASSUME Inv, [Next]_vars
      PROVE  [Map!Next]_(Map!vars)
  <2>0. PlanOK /\ BudgetOK /\ ConsentOK /\ JudgedOK /\ SessionOK
    BY <1>2 DEF Inv
  <2>1. ASSUME NEW u \in Uris, Settling(u), pc \in {"planned", "dids"}, UNCHANGED judged
        PROVE  [Map!Next]_(Map!vars)
    <3>1. judged = None
      BY <2>0, <2>1 DEF JudgedOK, Judging
    <3>2. CASE UNCHANGED <<outcomes, contacted, sent>>
      BY <2>1, <3>2 DEF Map!vars
    <3>3. CASE /\ outcomes[u] = "not_attempted" /\ u \notin contacted /\ sent < MaxRequests
               /\ \E o \in Outcomes : outcomes' = [outcomes EXCEPT ![u] = o]
               /\ contacted' = contacted \cup {u}
               /\ sent' = sent + 1
      <4>1. Map!Contact(u)
        BY <2>1, <3>1, <3>3 DEF Map!Contact, Outcomes
      <4> QED
        BY <4>1 DEF Map!Next
    <3> QED
      BY <2>1, <3>2, <3>3 DEF Settling
  <2>2. CASE UNCHANGED <<outcomes, contacted, sent, judged>>
    BY <2>2 DEF Map!vars
  <2>3. CASE EnsureGraphResource
    BY <1>2, <2>1, <2>3, EnsureOK DEF EnsureGraphResource
  <2>4. CASE ResolveDidDocument
    <3>1. pc = "dids" /\ UNCHANGED judged
      BY <2>4 DEF ResolveDidDocument
    <3>2. CASE UNCHANGED <<outcomes, fetchVars>>
      BY <2>2, <3>1, <3>2 DEF fetchVars
    <3> QED
      BY <1>2, <2>1, <2>4, <3>1, <3>2, ResolveDidOK
  <2>5. CASE Pass
    <3>1. judged = None /\ judged' # None
      BY <2>0, <2>5, SessionAssumption DEF Pass, JudgedOK, Judging, PlanOK
    <3>2. Map!Judge
      BY <2>5, <3>1 DEF Pass, fetchVars, Map!Judge
    <3> QED
      BY <3>2 DEF Map!Next
  <2>6. CASE FetchOcsp
    <3>1. judged # None
      BY <2>0, <2>6 DEF FetchOcsp, JudgedOK, Judging
    <3>2. /\ UNCHANGED <<outcomes, contacted, judged>>
          /\ sent' = sent \/ (sent < MaxRequests /\ sent' = sent + 1)
      BY <2>0, <2>6, FetchOcspOK
    <3>3. CASE sent' = sent
      BY <2>2, <3>2, <3>3
    <3>4. CASE sent < MaxRequests /\ sent' = sent + 1
      <4>1. Map!Query
        BY <3>1, <3>2, <3>4 DEF Map!Query
      <4> QED
        BY <4>1 DEF Map!Next
    <3> QED
      BY <3>2, <3>3, <3>4
  <2>7. CASE Locates
    <3>1. UNCHANGED outcomes
      BY <2>7 DEF Locates, Locate, LocateStore, LocateRoot, LocateMalformed, LocateNothing
    <3> QED
      BY <2>2, <2>7, <3>1 DEF Locates, fetchVars, sessionVars
  <2>8. CASE Discovers
    <3>1. UNCHANGED outcomes
      BY <2>8 DEF Discovers, Continue, Planned, Opaque, ResolveRoot, ResolveSegment,
                  ScanInitialStore, WalkManifest, EndWalk, ScanPredecessorStore, FollowInline,
                  FollowExternal
    <3> QED
      BY <2>2, <2>8, <3>1 DEF Discovers, fetchVars, sessionVars
  <2>9. CASE Continues \/ EndDiscovery \/ Finish \/ UNCHANGED vars
    BY <2>2, <2>9 DEF Continues, ContinueWith, EndDiscovery, Finish, vars, discoveryVars,
                      fetchVars, sessionVars
  <2> QED
    BY <1>2, <2>3, <2>4, <2>5, <2>6, <2>7, <2>8, <2>9 DEF Next, Ended
<1> QED
  BY <1>1, <1>2, InvAlways, PTL DEF Spec, ImplementsOutcomeMap, Map!Spec

-----------------------------------------------------------------------------
(***************************************************************************)
(* Discovery reads only what is settled.                                   *)
(***************************************************************************)

\* What a step of discovery does to the part of the state ReadOK is about: a
\* URI it parses is settled, what it leaves to read is settled, a stop empties
\* the frontier, and a URI it learns of waits in the frontier.
ReadsSettled ==
    /\ \A u \in Uris : ~Parsed(uris, u) /\ Parsed(uris', u) => Settles(u)
    /\ \A i \in 1..Len(todo') : Settles(todo'[i].uri)
    /\ stop' # NoStop => frontier' = <<>> /\ pc' = "planned"
    /\ pc' = "planned" => todo' = <<>>
    /\ stop' = NoStop => \A u \in Uris : uris'[u].known => Settles(u) \/ InFrontier(u)'

LEMMA StopReadsSettled ==
    ASSUME NEW why \in Reasons \ {"none"}, NEW uri \in Uris \cup {None}, Stops(why, uri),
           \A u \in Uris : ~Parsed(uris, u) /\ Parsed(uris', u) => Settles(u)
    PROVE  ReadsSettled
<1>1. frontier' = <<>> /\ pc' = "planned" /\ todo' = <<>> /\ stop' # NoStop
  BY StopsPlan
<1> QED
  BY <1>1 DEF ReadsSettled

\* resolve_segment_uri reads a settled URI; `states` may have it newly marked
\* as a predecessor.
LEMMA ResolvesSegmentReads ==
    ASSUME Inv, ReadOK, stop = NoStop, NEW u \in Uris, Settles(u),
           NEW states \in [Uris -> UriState], NEW rest \in Seq(Requests),
           \A v \in Uris : states[v].known => Settles(v) \/ InFrontier(v),
           \A v \in Uris : Parsed(states, v) = Parsed(uris, v),
           \A i \in 1..Len(rest) : Settles(rest[i].uri),
           ResolvesSegment(u, states, rest)
    PROVE  ReadsSettled
<1> DEFINE read == [states EXCEPT ![u].segmentParsed = TRUE]
<1>1. /\ \A v \in Uris : v # u => read[v] = states[v]
      /\ read[u].known = states[u].known
  BY DEF UriState
<1>2. \A v \in Uris : v # u => Parsed(read, v) = Parsed(uris, v)
  BY <1>1 DEF Parsed
<1>3. \A v \in Uris : read[v].known => Settles(v) \/ InFrontier(v)
  BY <1>1
<1> HIDE DEF read
<1>4. CASE /\ uris' = states
           /\ todo' = rest
           /\ Returns
           /\ UNCHANGED <<frontier, stop, queue>>
  <2>1. \A v \in Uris : InFrontier(v)' <=> InFrontier(v)
    BY <1>4 DEF InFrontier
  <2> QED
    BY <1>4, <2>1 DEF ReadsSettled, Returns
<1>5. CASE /\ uris' = read
           /\ todo' = rest
           /\ pc' = "store"
           /\ UNCHANGED <<frontier, stop, queue>>
  <2>1. \A v \in Uris : InFrontier(v)' <=> InFrontier(v)
    BY <1>5 DEF InFrontier
  <2> QED
    BY <1>2, <1>3, <1>5, <2>1 DEF ReadsSettled
<1>6. CASE uris' = read /\ Stops("unavailable", u)
  <2>1. "unavailable" \in Reasons \ {"none"}
    BY DEF Reasons
  <2> QED
    BY <1>2, <1>6, <2>1, StopReadsSettled
<1> QED
  BY <1>4, <1>5, <1>6 DEF ResolvesSegment, read

LEMMA ResolveReads ==
    ASSUME Inv, ReadOK, Planned \/ Opaque \/ ResolveRoot \/ ResolveSegment
    PROVE  ReadsSettled
<1>0. /\ pc = "resolve" /\ todo \in Seq(Requests) /\ uris \in [Uris -> UriState]
      /\ outcomes \in [Uris -> Outcomes]
  BY DEF Inv, PlanOK, Planned, Opaque, ResolveRoot, ResolveSegment
<1>1. /\ stop = NoStop
      /\ \A v \in Uris : uris[v].known => Settles(v) \/ InFrontier(v)
      /\ \A i \in 1..Len(todo) : Settles(todo[i].uri)
  BY <1>0 DEF ReadOK, Discovering
<1>2. CASE Planned
  <2>1. UNCHANGED <<uris, todo, stop, frontier>> /\ todo = <<>>
    BY <1>2 DEF Planned, planVars, walkVars
  <2>2. \A v \in Uris : InFrontier(v)' <=> InFrontier(v)
    BY <2>1 DEF InFrontier
  <2> QED
    BY <1>1, <2>1, <2>2 DEF ReadsSettled
<1> DEFINE u == Head(todo).uri
<1>3. ASSUME todo # <<>>
      PROVE  /\ u \in Uris /\ Settles(u) /\ Tail(todo) \in Seq(Requests)
             /\ \A i \in 1..Len(Tail(todo)) : Settles(Tail(todo)[i].uri)
  <2>1. /\ Head(todo) \in Requests /\ Tail(todo) \in Seq(Requests) /\ Head(todo) = todo[1]
        /\ Len(todo) \in Nat /\ Len(todo) >= 1
    BY <1>0, <1>3, HeadTyped
  <2>2. u \in Uris /\ Settles(u)
    BY <1>1, <2>1 DEF Requests
  <2>3. Len(Tail(todo)) = Len(todo) - 1 /\ \A i \in 1..Len(Tail(todo)) : Tail(todo)[i] = todo[i + 1]
    BY <1>0, <1>3
  <2>4. \A i \in 1..Len(Tail(todo)) : i + 1 \in 1..Len(todo)
    BY <2>1, <2>3
  <2> QED
    BY <1>1, <2>1, <2>2, <2>3, <2>4
<1> HIDE DEF u
<1>4. CASE todo # <<>> /\ todo' = Tail(todo) /\ UNCHANGED <<pc, frontier, stop, uris>>
  <2>1. \A v \in Uris : InFrontier(v)' <=> InFrontier(v)
    BY <1>4 DEF InFrontier
  <2> QED
    BY <1>0, <1>1, <1>3, <1>4, <2>1 DEF ReadsSettled
<1>5. CASE Opaque
  BY <1>4, <1>5 DEF Opaque, planVars
<1>6. CASE ResolveRoot
  <2>0. todo # <<>>
    BY <1>6 DEF ResolveRoot
  <2>1. CASE /\ uris' = RootHeld(u)
             /\ todo' = Tail(todo)
             /\ Scans(outcomes[u], u, TRUE)
             /\ UNCHANGED <<frontier, stop, queue>>
    <3>1. \A v \in Uris : /\ v # u => uris'[v] = uris[v]
                          /\ uris'[v].known = uris[v].known
      BY <1>0, <1>3, <2>0, <2>1 DEF RootHeld, UriState
    <3>2. \A v \in Uris : v # u => Parsed(uris', v) = Parsed(uris, v)
      BY <3>1 DEF Parsed
    <3>3. \A v \in Uris : InFrontier(v)' <=> InFrontier(v)
      BY <2>1 DEF InFrontier
    <3> QED
      BY <1>1, <1>3, <2>0, <2>1, <3>1, <3>2, <3>3 DEF ReadsSettled, Scans
  <2>2. CASE uris' = [uris EXCEPT ![u].rootParsed = TRUE] /\ Stops("unavailable", u)
    <3>1. \A v \in Uris : v # u => uris'[v] = uris[v]
      BY <1>0, <1>3, <2>0, <2>2
    <3>2. \A v \in Uris : v # u => Parsed(uris', v) = Parsed(uris, v)
      BY <3>1 DEF Parsed
    <3>3. "unavailable" \in Reasons \ {"none"}
      BY DEF Reasons
    <3> QED
      BY <1>3, <2>0, <2>2, <3>2, <3>3, StopReadsSettled
  <2> QED
    BY <1>4, <1>6, <2>0, <2>1, <2>2 DEF ResolveRoot, u
<1>7. CASE ResolveSegment
  <2>1. todo # <<>> /\ ResolvesSegment(u, uris, Tail(todo))
    BY <1>7 DEF ResolveSegment, u
  <2> QED
    BY <1>0, <1>1, <1>3, <2>1, ResolvesSegmentReads
<1> QED
  BY <1>2, <1>5, <1>6, <1>7

\* Locating references parses nothing, and what is known afterwards was known
\* before or waits in the frontier.
LEMMA LocatedReads ==
    ASSUME Inv, NEW links \in Links
    PROVE  /\ \A v \in Uris : Parsed(Located(links).uris, v) = Parsed(uris, v)
           /\ \A v \in Uris : Located(links).uris[v].known =>
                uris[v].known \/ \E i \in DOMAIN Located(links).frontier :
                                   Located(links).frontier[i].uri = v
           /\ \A v \in Uris : InFrontier(v) =>
                \E i \in DOMAIN Located(links).frontier : Located(links).frontier[i].uri = v
<1> DEFINE from == [uris |-> uris, frontier |-> frontier]
           L == Located(links)
<1>0. uris \in [Uris -> UriState] /\ frontier \in Seq(Requests)
  BY DEF Inv, PlanOK
<1>1. Extends(L, from) /\ L \in Plans
  BY <1>0, LocatedExtends
<1>2. from.uris = uris /\ from.frontier = frontier
  OBVIOUS
<1> HIDE DEF L, from
<1>3. DOMAIN L.frontier = 1..Len(L.frontier) /\ Len(L.frontier) \in Nat
  BY <1>1 DEF Plans
<1>4. DOMAIN frontier = 1..Len(frontier) /\ Len(frontier) \in Nat
  BY <1>0
<1>5. \A v \in Uris : Parsed(L.uris, v) = Parsed(uris, v)
  BY <1>1, <1>2 DEF Extends, SameStates, Parsed
<1>6. \A v \in Uris : L.uris[v].known =>
        uris[v].known \/ \E i \in DOMAIN L.frontier : L.frontier[i].uri = v
  BY <1>1, <1>2, <1>3 DEF Extends
<1>7. ASSUME NEW v \in Uris, InFrontier(v)
      PROVE  \E i \in DOMAIN L.frontier : L.frontier[i].uri = v
  <2>1. PICK i \in 1..Len(frontier) : frontier[i].uri = v
    BY <1>4, <1>7 DEF InFrontier
  <2>2. i \in 1..Len(L.frontier) /\ L.frontier[i] = frontier[i]
    BY <1>1, <1>2, <1>3, <1>4, <2>1 DEF Extends
  <2> QED
    BY <1>3, <2>1, <2>2
<1> QED
  BY <1>5, <1>6, <1>7 DEF L

LEMMA ScanReads ==
    ASSUME Inv, ReadOK, ScanInitialStore \/ WalkManifest
    PROVE  ReadsSettled
<1>0. pc \in {"scan", "walk"} /\ pc \in Discovering /\ work.uri \in Uris \cup {None} /\ work.body \in Bodies
  BY DEF Inv, PlanOK, Works, ScanInitialStore, WalkManifest, Discovering
<1>1. /\ stop = NoStop
      /\ \A v \in Uris : uris[v].known => Settles(v) \/ InFrontier(v)
      /\ \A i \in 1..Len(todo) : Settles(todo[i].uri)
  BY <1>0 DEF ReadOK
<1>2. \A r \in {"malformed", "references", "nodes", "bytes", "depth"} : r \in Reasons \ {"none"}
  BY DEF Reasons
<1>3. ASSUME NEW why \in Reasons \ {"none"}, NEW uri \in Uris \cup {None}, Stops(why, uri),
             UNCHANGED uris
      PROVE  ReadsSettled
  BY <1>3, StopReadsSettled
<1>4. ASSUME NEW links \in Links, uris' = Located(links).uris,
             frontier' = Located(links).frontier, pc' = "walk", UNCHANGED <<stop, todo>>
      PROVE  ReadsSettled
  <2>1. /\ \A v \in Uris : Parsed(uris', v) = Parsed(uris, v)
        /\ \A v \in Uris : uris'[v].known => uris[v].known \/ InFrontier(v)'
        /\ \A v \in Uris : InFrontier(v) => InFrontier(v)'
    BY <1>4, LocatedReads DEF InFrontier
  <2> QED
    BY <1>1, <1>4, <2>1 DEF ReadsSettled
<1>5. CASE ScanInitialStore
  <2> DEFINE c == Content[work.body]
  <2>1. c.links \in Links
    BY <1>0, ContentAssumption
  <2> HIDE DEF c
  <2>2. CASE (Stops("malformed", work.uri) \/ Stops("references", None)) /\ UNCHANGED uris
    BY <1>0, <1>2, <1>3, <2>2
  <2>3. CASE /\ uris' = Located(c.links).uris
             /\ frontier' = Located(c.links).frontier
             /\ pc' = "walk"
             /\ UNCHANGED <<stop, todo, work>>
    BY <1>4, <2>1, <2>3
  <2> QED
    BY <1>5, <2>2, <2>3 DEF ScanInitialStore, c
<1>6. CASE WalkManifest
  <2> DEFINE at == Head(queue)
             m == Content[work.body].graph[at.label]
             links == IF at.label # "active" THEN m.links ELSE [uris |-> <<>>, examined |-> 0]
             Q == [label : DOMAIN Content[work.body].graph, depth : Nat]
             walk == Enqueued(
                       [references |-> spent.references + links.examined, limit |-> "none",
                        depth |-> at.depth, reached |-> reached, queue |-> Tail(queue)],
                       m.ingredients)
  <2>0. pc = "walk" /\ queue # <<>> /\ queue \in Seq(Q)
    BY <1>6 DEF WalkManifest, Inv, PlanOK
  <2>1. at \in Q
    <3> HIDE DEF Q
    <3> QED
      BY <2>0, HeadTyped
  <2>2. links \in Links
    <3>1. m.links \in Links
      BY <1>0, <2>1, ContentAssumption
    <3> QED
      BY <3>1 DEF Links
  <2>3. CASE /\ \/ Stops("nodes", None) \/ Stops("bytes", None)
                \/ Stops("malformed", work.uri) \/ Stops("references", None)
             /\ UNCHANGED uris
    BY <1>0, <1>2, <1>3, <2>3
  <2>4. CASE UNCHANGED <<pc, stop, frontier, todo, work, uris, reached>>
    <3>1. \A v \in Uris : InFrontier(v)' <=> InFrontier(v)
      BY <2>4 DEF InFrontier
    <3> QED
      BY <1>1, <2>0, <2>4, <3>1 DEF ReadsSettled
  <2> HIDE DEF links
  <2>5. CASE /\ uris' = Located(links).uris
             /\ frontier' = Located(links).frontier
             /\ UNCHANGED <<pc, stop, todo, work>>
    BY <1>4, <2>0, <2>2, <2>5
  <2>6. CASE /\ ~ReferencesSpent(links.examined)
             /\ uris' = Located(links).uris
             /\ walk.limit # "none" /\ Stops(walk.limit, None)
    <3>1. \A v \in Uris : Parsed(uris', v) = Parsed(uris, v)
      BY <2>2, <2>6, LocatedReads
    <3>2. walk.limit \in Reasons \ {"none"}
      <4>1. links.examined \in Nat /\ spent.references + links.examined \in 0..limits.references
        <5>1. links.examined \in Nat
          BY <2>2 DEF Links
        <5>2. ~(spent.references + links.examined > limits.references)
          BY <2>6 DEF ReferencesSpent
        <5>3. spent.references \in Nat /\ limits.references \in Nat
          BY ChargesTyped DEF Inv
        <5> HIDE DEF at, m, Q, walk
        <5> QED
          BY <5>1, <5>2, <5>3
      <4>2. at.depth \in Nat /\ reached \in SUBSET Labels /\ Tail(queue) \in Seq(Q)
        <5>1. Tail(queue) \in Seq(Q)
          <6> HIDE DEF Q
          <6> QED
            BY <2>0, HeadTyped
        <5> QED
          BY <2>1, <5>1 DEF Inv, PlanOK
      <4>3. m.ingredients \in Seq(STRING)
        BY <1>0, <2>1, ContentAssumption
      <4> DEFINE first == [references |-> spent.references + links.examined, limit |-> "none",
                           depth |-> at.depth, reached |-> reached, queue |-> Tail(queue)]
      <4>4. first \in Walks
        <5> HIDE DEF at
        <5> QED
          BY <4>1, <4>2 DEF Walks
      <4>5. walk \in Walks
        <5> HIDE DEF first, m
        <5>1. Enqueued(first, m.ingredients) \in Walks
          BY <1>0, <4>3, <4>4, ChargesTyped, EnqueuedTyped DEF Inv
        <5> QED
          BY <5>1 DEF first, m
      <4> HIDE DEF walk
      <4> QED
        BY <2>6, <4>5 DEF Walks, Reasons
    <3> HIDE DEF walk
    <3> QED
      BY <2>6, <3>1, <3>2, StopReadsSettled
  <2> QED
    BY <1>6, <2>3, <2>4, <2>5, <2>6 DEF WalkManifest, links
<1> QED
  BY <1>5, <1>6

LEMMA FollowReads ==
    ASSUME Inv, ReadOK, EndWalk \/ ScanPredecessorStore \/ FollowInline \/ FollowExternal
    PROVE  ReadsSettled
<1>0. /\ pc \in {"walk", "store", "pred"} /\ pc \in Discovering /\ work.uri \in Uris \cup {None}
      /\ uris \in [Uris -> UriState] /\ frontier \in Seq(Requests) /\ todo \in Seq(Requests)
  BY DEF Inv, PlanOK, Works, EndWalk, ScanPredecessorStore, FollowInline, FollowExternal, Discovering
<1>1. /\ stop = NoStop
      /\ \A v \in Uris : uris[v].known => Settles(v) \/ InFrontier(v)
      /\ \A i \in 1..Len(todo) : Settles(todo[i].uri)
  BY <1>0 DEF ReadOK
<1>2. \A r \in {"malformed", "references", "nodes", "bytes", "depth", "unavailable"} :
        r \in Reasons \ {"none"}
  BY DEF Reasons
<1>3. ASSUME NEW why \in Reasons \ {"none"}, NEW uri \in Uris \cup {None}, Stops(why, uri),
             \A v \in Uris : Parsed(uris', v) = Parsed(uris, v)
      PROVE  ReadsSettled
  BY <1>3, StopReadsSettled
<1>4. ASSUME UNCHANGED <<stop, frontier, todo, uris>>, pc' # "planned"
      PROVE  ReadsSettled
  <2>1. \A v \in Uris : InFrontier(v)' <=> InFrontier(v)
    BY <1>4 DEF InFrontier
  <2> QED
    BY <1>1, <1>4, <2>1 DEF ReadsSettled
<1>5. ASSUME NEW ref, NEW d, Follows(ref, d), UNCHANGED uris
      PROVE  ReadsSettled
  BY <1>0, <1>2, <1>3, <1>4, <1>5 DEF Follows, Returns
<1>6. CASE EndWalk
  BY <1>5, <1>6 DEF EndWalk
<1>7. CASE ScanPredecessorStore
  BY <1>0, <1>2, <1>3, <1>5, <1>7 DEF ScanPredecessorStore
<1>8. ASSUME NEW node, PredecessorLimit(node) # "none"
      PROVE  PredecessorLimit(node) \in Reasons \ {"none"}
  BY <1>8 DEF PredecessorLimit, Reasons
<1>9. CASE FollowInline
  BY <1>3, <1>4, <1>8, <1>9 DEF FollowInline
<1>10. CASE FollowExternal
  <2> DEFINE u == work.ref.to
             marked == [uris EXCEPT ![u].known = TRUE, ![u].segment = TRUE, ![u].depth = work.depth]
             r == [uri |-> u, kind |-> "segment"]
  <2>0. u \in Uris /\ work.depth \in Nat /\ r \in Requests
    BY <1>10 DEF FollowExternal, Inv, PlanOK, Works, References, Requests, Kinds
  <2>1. marked \in [Uris -> UriState] /\ \A v \in Uris : v # u => marked[v] = uris[v]
    BY <1>0, <2>0, FlagsTyped
  <2>2. marked[u].rootParsed = uris[u].rootParsed /\ marked[u].segmentParsed = uris[u].segmentParsed
    BY <1>0, <2>0 DEF UriState
  <2> HIDE DEF marked
  <2>3. \A v \in Uris : Parsed(marked, v) = Parsed(uris, v)
    BY <2>1, <2>2 DEF Parsed
  <2> HIDE DEF u
  <2>4. CASE /\ PredecessorLimit(~uris[u].segment) # "none"
             /\ Stops(PredecessorLimit(~uris[u].segment), None)
             /\ UNCHANGED <<uris, spent>>
    BY <1>3, <1>8, <2>4
  <2>5. CASE Returns /\ UNCHANGED <<uris, stop, frontier, todo, queue>>
    BY <1>4, <2>5 DEF Returns
  <2>6. CASE /\ Awaits(u)
             /\ uris' = marked
             /\ frontier' = Upgraded(u)
             /\ Returns
             /\ UNCHANGED <<stop, todo, queue>>
    <3> DEFINE i == SelectInSeq(frontier, LAMBDA x : x.uri = u)
    <3>1. frontier' = [frontier EXCEPT ![i].kind = "segment"]
      BY <2>6 DEF Upgraded
    <3> HIDE DEF i
    <3>2. DOMAIN frontier' = DOMAIN frontier /\ \A k \in DOMAIN frontier : frontier'[k].uri = frontier[k].uri
      <4>1. ASSUME NEW k \in DOMAIN frontier PROVE frontier'[k].uri = frontier[k].uri
        <5>1. frontier[k] \in Requests
          BY <1>0
        <5>2. frontier'[k] = IF k = i THEN [frontier[k] EXCEPT !.kind = "segment"] ELSE frontier[k]
          BY <3>1
        <5> QED
          BY <5>1, <5>2 DEF Requests
      <4> QED
        BY <3>1, <4>1
    <3>3. \A v \in Uris : InFrontier(v)' <=> InFrontier(v)
      BY <3>2 DEF InFrontier
    <3> QED
      BY <1>1, <2>1, <2>3, <2>6, <3>3 DEF ReadsSettled, Returns, Awaits
  <2>7. CASE /\ ~Awaits(u) /\ Known(u)
             /\ ResolvesSegment(u, marked, todo)
    <3>1. Settles(u)
      BY <1>1, <2>0, <2>7 DEF Awaits, Known
    <3>2. \A v \in Uris : marked[v].known => Settles(v) \/ InFrontier(v)
      BY <1>1, <2>1, <3>1
    <3> QED
      BY <1>0, <1>1, <2>0, <2>1, <2>3, <2>7, <3>1, <3>2, ResolvesSegmentReads
  <2>8. CASE uris' = marked /\ Stops("unavailable", u)
    BY <1>2, <1>3, <2>0, <2>3, <2>8
  <2>9. CASE /\ uris' = marked
             /\ frontier' = Append(frontier, r)
             /\ Returns
             /\ UNCHANGED <<stop, todo, queue>>
    <3> HIDE DEF r
    <3>1. /\ DOMAIN frontier = 1..Len(frontier) /\ DOMAIN frontier' = 1..(Len(frontier) + 1)
          /\ Len(frontier) \in Nat
          /\ frontier'[Len(frontier) + 1] = r
          /\ \A k \in 1..Len(frontier) : frontier'[k] = frontier[k]
      BY <1>0, <2>0, <2>9
    <3>2. \A v \in Uris : v = u \/ InFrontier(v) => InFrontier(v)'
      <4>1. frontier'[Len(frontier) + 1].uri = u
        BY <3>1 DEF r
      <4> QED
        BY <3>1, <4>1 DEF InFrontier
    <3> QED
      BY <1>1, <2>1, <2>3, <2>9, <3>2 DEF ReadsSettled, Returns
  <2> QED
    BY <1>10, <2>4, <2>5, <2>6, <2>7, <2>8, <2>9 DEF FollowExternal, u, marked
<1> QED
  BY <1>6, <1>7, <1>9, <1>10

\* The rest of ReadOK, step by step
LEMMA ReadInit ==
    ASSUME Init
    PROVE  ReadOK
BY DEF Init, InitPlan, ReadOK, Discovering, Judging

\* What settles one URI leaves the others settled, and what discovery read
\* of a resource as it was.
LEMMA SettlingKeepsReads ==
    ASSUME outcomes \in [Uris -> Outcomes], NEW u \in Uris, Settling(u)
    PROVE  /\ \A v \in Uris : Settles(v) => Settles(v)' /\ outcomes'[v] = outcomes[v]
           /\ \A v \in Uris : v = u => Settles(v)'
BY DEF Settling, Settles, HasOutcome

\* A step of discovery
LEMMA DiscoveryReads ==
    ASSUME ReadOK, ReadsSettled, UNCHANGED <<outcomes, handled, position>>, pc \in Discovering,
           pc' \in Discovering \cup {"planned"}, pc' # "locate",
           saw' \in [Uris -> Outcomes \cup {"unread"}],
           \A v \in Uris : saw'[v] = saw[v] \/ (saw'[v] = outcomes[v] /\ Settles(v))
    PROVE  ReadOK'
<1>1. /\ position' = 0 /\ \A v \in Uris : Settles(v)' <=> Settles(v)
      /\ pc' \notin {"dids"} \cup Judging
  BY DEF ReadOK, Settles, HasOutcome, Discovering, Judging
<1>2. \A v \in Uris : saw'[v] # "unread" => Settles(v)' /\ saw'[v] = outcomes'[v]
  BY <1>1 DEF ReadOK
<1>3. (\A i \in 1..Len(todo) : Settles(todo[i].uri))'
  BY DEF ReadsSettled, Settles, HasOutcome
<1>4. stop' # NoStop => frontier' = <<>> /\ pc' \notin Discovering
  BY DEF ReadsSettled, Discovering
<1>5. pc' \notin Discovering => todo' = <<>>
  BY DEF ReadsSettled, Discovering
<1>6. stop' = NoStop => \A v \in Uris : uris'[v].known => Settles(v)' \/ InFrontier(v)'
  BY <1>1 DEF ReadsSettled
<1>7. (\A i \in 1..position : i <= Len(frontier) /\ Settles(frontier[i].uri))'
  BY <1>1
<1> QED
  BY <1>1, <1>2, <1>3, <1>4, <1>5, <1>6, <1>7 DEF ReadOK

LEMMA LocateReads ==
    ASSUME Inv, ReadOK, Locate
    PROVE  ReadsSettled
<1>0. /\ pc = "locate" /\ uris \in [Uris -> UriState] /\ frontier \in Seq(Requests)
  BY DEF Inv, PlanOK, Locate, LocateStore, LocateRoot, LocateMalformed, LocateNothing
<1>1. /\ stop = NoStop /\ todo = <<>>
      /\ \A v \in Uris : uris[v].known => Settles(v) \/ InFrontier(v)
  BY <1>0 DEF ReadOK, Discovering
<1>2. CASE UNCHANGED <<uris, frontier, stop, todo>>
  <2>1. \A v \in Uris : InFrontier(v)' <=> InFrontier(v)
    BY <1>2 DEF InFrontier
  <2> QED
    BY <1>1, <1>2, <2>1 DEF ReadsSettled
<1>3. ASSUME NEW u \in Uris, LocateRoot(u) PROVE ReadsSettled
  <2> DEFINE r == [uri |-> u, kind |-> "segment"]
  <2>0. r \in Requests /\ frontier' = Append(frontier, r) /\ UNCHANGED <<stop, todo>> /\ pc' = "planned"
    BY <1>3 DEF LocateRoot, Requests, Kinds, walkVars
  <2>1. /\ \A v \in Uris : v # u => uris'[v] = uris[v]
        /\ uris'[u].rootParsed = uris[u].rootParsed
        /\ uris'[u].segmentParsed = uris[u].segmentParsed
    BY <1>0, <1>3 DEF LocateRoot, UriState
  <2>2. \A v \in Uris : Parsed(uris', v) = Parsed(uris, v)
    BY <2>1 DEF Parsed
  <2> HIDE DEF r
  <2>3. /\ DOMAIN frontier = 1..Len(frontier) /\ DOMAIN frontier' = 1..(Len(frontier) + 1)
        /\ Len(frontier) \in Nat
        /\ frontier'[Len(frontier) + 1] = r
        /\ \A k \in 1..Len(frontier) : frontier'[k] = frontier[k]
    BY <1>0, <2>0
  <2>4. \A v \in Uris : v = u \/ InFrontier(v) => InFrontier(v)'
    <3>1. frontier'[Len(frontier) + 1].uri = u
      BY <2>3 DEF r
    <3> QED
      BY <2>3, <3>1 DEF InFrontier
  <2> QED
    BY <1>1, <2>0, <2>1, <2>2, <2>4 DEF ReadsSettled
<1>4. CASE LocateMalformed
  <2>1. "malformed" \in Reasons \ {"none"}
    BY DEF Reasons
  <2> QED
    BY <1>4, <2>1, StopReadsSettled DEF LocateMalformed
<1> QED
  BY <1>2, <1>3, <1>4 DEF Locate, LocateStore, LocateNothing, planVars, walkVars

LEMMA ReadNext ==
    ASSUME Inv, ReadOK, [Next]_vars
    PROVE  ReadOK'
<1>0. /\ outcomes \in [Uris -> Outcomes] /\ frontier \in Seq(Requests) /\ todo \in Seq(Requests)
      /\ uris \in [Uris -> UriState] /\ position \in Nat
  BY DEF Inv, PlanOK, SessionOK
<1>1. CASE Locates
  <2>1. UNCHANGED <<outcomes, handled, position, saw>> /\ Locate /\ pc = "locate"
    BY <1>1 DEF Locates, Locate, LocateStore, LocateRoot, LocateMalformed, LocateNothing, fetchVars,
                sessionVars
  <2>2. pc \in Discovering /\ pc' \in Discovering \cup {"planned"} /\ pc' # "locate"
    BY <2>1, DiscoveryPhases DEF Discovering
  <2>3. saw' \in [Uris -> Outcomes \cup {"unread"}]
    BY <2>1 DEF ReadOK
  <2> QED
    BY <2>1, <2>2, <2>3, LocateReads, DiscoveryReads
<1>2. CASE Discovers
  <2>1. UNCHANGED <<outcomes, handled, position>> /\ Continue
    BY <1>2 DEF Discovers, Continue, Planned, Opaque, ResolveRoot, ResolveSegment,
                  ScanInitialStore, WalkManifest, EndWalk, ScanPredecessorStore, FollowInline,
                  FollowExternal, fetchVars, sessionVars
  <2>2. pc \in Discovering /\ pc' \in Discovering \cup {"planned"} /\ pc' # "locate"
    <3>1. pc # "planned"
      BY <2>1 DEF Continue, Planned, Opaque, ResolveRoot, ResolveSegment,
                  ScanInitialStore, WalkManifest, EndWalk, ScanPredecessorStore, FollowInline,
                  FollowExternal
    <3> QED
      BY <2>1, <3>1, DiscoveryPhases
  <2>3. ReadsSettled
    BY <2>1, ResolveReads, ScanReads, FollowReads DEF Continue
  <2>4. saw' = [u \in Uris |->
                  IF ~Parsed(uris, u) /\ Parsed(uris', u) THEN outcomes[u] ELSE saw[u]]
    BY <1>2 DEF Discovers
  <2>5. saw' \in [Uris -> Outcomes \cup {"unread"}]
    BY <1>0, <2>4 DEF ReadOK
  <2>6. \A v \in Uris : saw'[v] = saw[v] \/ (saw'[v] = outcomes[v] /\ Settles(v))
    BY <2>3, <2>4 DEF ReadsSettled
  <2> QED
    BY <2>1, <2>2, <2>3, <2>5, <2>6, DiscoveryReads
<1>3. CASE Continues
  <2>0. /\ pc = "planned" /\ position = Len(frontier) /\ frontier # <<>> /\ position' = 0
        /\ todo' = frontier /\ frontier' = <<>> /\ pc' = "resolve"
        /\ UNCHANGED <<outcomes, handled, saw, stop, uris>>
    BY <1>3 DEF Continues, ContinueWith, fetchVars
  <2>1. \A v \in Uris : Settles(v)' <=> Settles(v)
    BY <2>0 DEF Settles, HasOutcome
  <2>2. stop = NoStop
    BY <2>0 DEF ReadOK
  <2>3. \A i \in 1..Len(frontier) : Settles(frontier[i].uri)
    BY <2>0 DEF ReadOK
  <2>4. \A v \in Uris : InFrontier(v) => Settles(v)
    BY <1>0, <2>3 DEF InFrontier
  <2>5. (\A i \in 1..Len(todo) : Settles(todo[i].uri))'
    BY <2>0, <2>3 DEF Settles, HasOutcome
  <2>6. \A v \in Uris : uris'[v].known => Settles(v)'
    BY <2>0, <2>1, <2>2, <2>4 DEF ReadOK
  <2>7. /\ saw' \in [Uris -> Outcomes \cup {"unread"}]
        /\ \A v \in Uris : saw'[v] # "unread" => Settles(v)' /\ saw'[v] = outcomes'[v]
    BY <2>0, <2>1 DEF ReadOK
  <2> QED
    BY <2>0, <2>2, <2>5, <2>6, <2>7 DEF ReadOK, Discovering, Judging
<1>4. CASE EnsureGraphResource
  <2> DEFINE u == frontier[position + 1].uri
  <2>0. /\ pc = "planned" /\ position < Len(frontier) /\ position' = position + 1
        /\ UNCHANGED <<pc, frontier, stop, uris, todo, saw>>
    BY <1>4 DEF EnsureGraphResource, planVars, walkVars
  <2>1. u \in Uris /\ Settling(u)
    BY <1>4, EnsureOK
  <2> HIDE DEF u
  <2>2. /\ \A v \in Uris : Settles(v) => Settles(v)' /\ outcomes'[v] = outcomes[v]
        /\ \A v \in Uris : v = u => Settles(v)'
    BY <1>0, <2>1, SettlingKeepsReads
  <2>3. todo = <<>> /\ todo' = <<>>
    BY <2>0 DEF ReadOK, Discovering
  <2>4. ASSUME NEW i \in 1..(position + 1)
        PROVE  i <= Len(frontier) /\ Settles(frontier[i].uri)'
    <3>1. i \in 1..Len(frontier) /\ Len(frontier) \in Nat
      BY <1>0, <2>0
    <3>2. frontier[i].uri \in Uris
      BY <1>0, <3>1, UriOf
    <3>3. CASE i = position + 1
      BY <2>0, <2>2, <3>1, <3>2, <3>3 DEF u
    <3>4. CASE i \in 1..position
      BY <2>0, <2>2, <3>1, <3>2, <3>4 DEF ReadOK
    <3> QED
      BY <1>0, <3>3, <3>4
  <2>5. \A v \in Uris : InFrontier(v)' <=> InFrontier(v)
    BY <2>0 DEF InFrontier
  <2>6. stop' = NoStop => \A v \in Uris : uris'[v].known => Settles(v)' \/ InFrontier(v)'
    BY <2>0, <2>2, <2>5 DEF ReadOK
  <2>7. /\ saw' \in [Uris -> Outcomes \cup {"unread"}]
        /\ \A v \in Uris : saw'[v] # "unread" => Settles(v)' /\ saw'[v] = outcomes'[v]
    BY <2>0, <2>2 DEF ReadOK
  <2>8. stop' # NoStop => frontier' = <<>>
    BY <2>0 DEF ReadOK
  <2>9. (\A i \in 1..position : i <= Len(frontier) /\ Settles(frontier[i].uri))'
    BY <2>0, <2>4
  <2> QED
    BY <2>0, <2>3, <2>6, <2>7, <2>8, <2>9 DEF ReadOK, Discovering, Judging
<1>5. CASE EndDiscovery \/ Pass \/ FetchOcsp \/ Finish \/ ResolveDidDocument
  <2>0. /\ pc \in {"planned", "dids"} \cup Judging /\ pc' \in {"dids"} \cup Judging
        /\ UNCHANGED <<frontier, stop, uris, todo, saw>> /\ frontier = <<>>
    BY <1>5 DEF EndDiscovery, Pass, FetchOcsp, Finish, ResolveDidDocument, planVars, walkVars, Judging,
                ReadOK
  <2>1. pc \notin Discovering /\ pc' \notin Discovering /\ pc' # "planned"
    BY <2>0 DEF Discovering, Judging
  <2>2. todo' = <<>>
    BY <2>0, <2>1 DEF ReadOK
  <2>3. \A v \in Uris : Settles(v) => Settles(v)' /\ outcomes'[v] = outcomes[v]
    <3>1. CASE UNCHANGED <<outcomes, handled>>
      BY <3>1 DEF Settles, HasOutcome
    <3>2. CASE ResolveDidDocument
      BY <1>0, <3>1, <3>2, ResolveDidOK, SettlingKeepsReads DEF fetchVars
    <3> QED
      BY <1>5, <3>1, <3>2 DEF EndDiscovery, Pass, FetchOcsp, Finish, fetchVars
  <2>4. /\ saw' \in [Uris -> Outcomes \cup {"unread"}]
        /\ \A v \in Uris : saw'[v] # "unread" => Settles(v)' /\ saw'[v] = outcomes'[v]
    BY <2>0, <2>3 DEF ReadOK
  <2>5. stop' = NoStop => \A v \in Uris : uris'[v].known => Settles(v)' \/ InFrontier(v)'
    BY <2>0, <2>3 DEF ReadOK, InFrontier
  <2> QED
    BY <2>0, <2>1, <2>2, <2>4, <2>5 DEF ReadOK, Discovering
<1>6. CASE UNCHANGED vars
  BY <1>6 DEF ReadOK, vars, discoveryVars, planVars, walkVars, fetchVars, sessionVars, Settles,
              HasOutcome, InFrontier
<1> QED
  BY <1>1, <1>2, <1>3, <1>4, <1>5, <1>6 DEF Next, Ended

LEMMA ReadAlways ==
    Spec => [](Inv /\ ReadOK)
<1>1. Init => Inv /\ ReadOK
  BY InvInit, ReadInit
<1>2. (Inv /\ ReadOK) /\ [Next]_vars => (Inv /\ ReadOK)'
  BY InvNext, ReadNext
<1> QED
  BY <1>1, <1>2, PTL DEF Spec

\* What continue_with read of a resource, every later round and the passes
\* read too: no DID document, no later frontier and no second finding of the
\* same URL changes an outcome that discovery has used.
THEOREM DiscoveryAgreesWithPass ==
    Spec => []DiscoveryAndPassAgree
<1>1. ReadOK => DiscoveryAndPassAgree
  BY DEF ReadOK, DiscoveryAndPassAgree
<1> QED
  BY <1>1, ReadAlways, PTL

-----------------------------------------------------------------------------
(***************************************************************************)
(* Discovery is complete.                                                  *)
(***************************************************************************)

\* Between two states the flags of v stay, or v becomes a predecessor.
KeepsFlags(v) ==
    /\ uris'[v].root = uris[v].root
    /\ uris'[v].rootParsed = uris[v].rootParsed
    /\ uris'[v].segmentParsed = uris[v].segmentParsed
    /\ uris[v].segment => uris'[v].segment
    /\ uris[v].known => uris'[v].known

LEMMA PredecessorTyped ==
    ASSUME NEW b \in Bodies, Content[b].pred.kind = "external"
    PROVE  Content[b].pred.to \in Uris
<1>1. Content[b].pred \in References
  BY ContentAssumption
<1> QED
  BY <1>1 DEF References

LEMMA LinksStayKnown ==
    ASSUME NEW b \in Bodies, LinksKnown(b), \A v \in Uris : uris[v].known => uris'[v].known
    PROVE  LinksKnown(b)'
<1>1. Content[b].links \in Links
  BY ContentAssumption
<1>2. \A i \in 1..Len(Content[b].links.uris) : Content[b].links.uris[i] \in Uris
  BY <1>1 DEF Links
<1> QED
  BY <1>2 DEF LinksKnown

\* A step that reads nothing keeps discovery complete when what waited waits
\* on, and what was about to be noted is noted or still about to be.
LEMMA CompleteFrame ==
    ASSUME NEW v \in Uris, Complete(v), \A w \in Uris : KeepsFlags(w), saw' = saw,
           Waits(v) => Waits(v)' \/ uris[v].segmentParsed,
           uris'[v].segment => uris[v].segment \/ uris[v].segmentParsed \/ Waits(v)',
           Read(v) /\ Content[saw[v]].pred.kind = "external" /\ InFlight(v) =>
               uris'[Content[saw[v]].pred.to].segment \/ InFlight(v)',
           uris[v].root => uris[v].rootParsed \/ RootFirst(v)',
           uris[v].root /\ Read(v) /\ pc = "scan" /\ work.uri = v /\ work.body = saw[v] =>
               LinksKnown(saw[v])' \/ (pc' = "scan" /\ work'.uri = v /\ work'.body = saw[v])
    PROVE  Complete(v)'
<1>0. KeepsFlags(v) /\ \A w \in Uris : (uris[w].segment => uris'[w].segment) /\ (uris[w].known => uris'[w].known)
  BY DEF KeepsFlags
<1>1. Read(v)' <=> Read(v)
  BY DEF Read
<1>2. ReadIsParsed(v)'
  BY <1>0, <1>1 DEF Complete, ReadIsParsed, KeepsFlags
<1>3. PredecessorWaits(v)'
  BY <1>0 DEF Complete, PredecessorWaits, KeepsFlags
<1>4. PredecessorFollowed(v)'
  <2> SUFFICES ASSUME Read(v), Content[saw[v]].pred.kind = "external"
               PROVE  uris'[Content[saw[v]].pred.to].segment \/ InFlight(v)'
    BY <1>1 DEF PredecessorFollowed
  <2>1. Content[saw[v]].pred.to \in Uris
    BY PredecessorTyped DEF Read
  <2> QED
    BY <1>0, <2>1 DEF Complete, PredecessorFollowed
<1>5. RootFirst(v)'
  BY <1>0 DEF Complete, RootFirst, KeepsFlags
<1>6. RootLocated(v)'
  <2> SUFFICES ASSUME uris[v].root, Read(v)
               PROVE  \/ pc' = "scan" /\ work'.uri = v /\ work'.body = saw[v]
                      \/ LinksKnown(saw[v])'
    BY <1>0, <1>1 DEF RootLocated, KeepsFlags
  <2>1. CASE LinksKnown(saw[v])
    <3>1. PICK b \in Bodies : b = saw[v]
      BY DEF Read
    <3>2. LinksKnown(b)'
      BY <1>0, <2>1, <3>1, LinksStayKnown
    <3> QED
      BY <3>1, <3>2 DEF LinksKnown
  <2> QED
    BY <2>1 DEF Complete, RootLocated
<1> QED
  BY <1>2, <1>3, <1>4, <1>5, <1>6 DEF Complete

\* A step that reads the store of u makes it the store in flight.
LEMMA CompleteReading ==
    ASSUME NEW u \in Uris, NEW v \in Uris, Complete(u), Complete(v), outcomes[u] \in Bodies,
           uris[u].root => uris'[u].rootParsed, uris'[u].root = uris[u].root, uris'[u].segmentParsed,
           \A w \in Uris : uris[w].segment => uris'[w].segment,
           \A w \in Uris : uris[w].known => uris'[w].known,
           \A w \in Uris \ {u} : KeepsFlags(w) /\ uris'[w].segment = uris[w].segment,
           saw'[u] = outcomes[u], \A w \in Uris \ {u} : saw'[w] = saw[w],
           work'.uri = u, work'.body = outcomes[u], pc # "scan",
           pc' = "scan" \/ (pc' = "store" /\ ~uris[u].root),
           v # u => (Waits(v) => Waits(v)' \/ uris[v].segmentParsed),
           v # u => (Read(v) /\ Content[saw[v]].pred.kind = "external" /\ InFlight(v) =>
                       uris'[Content[saw[v]].pred.to].segment),
           v # u => (uris[v].root => uris[v].rootParsed)
    PROVE  Complete(v)'
<1>1. CASE v = u
  <2>1. Read(v)' /\ saw'[v] = outcomes[u]
    BY <1>1 DEF Read
  <2>2. ReadIsParsed(v)' /\ PredecessorWaits(v)'
    BY <1>1, <2>1 DEF ReadIsParsed, PredecessorWaits
  <2>3. PredecessorFollowed(v)'
    BY <1>1, <2>1 DEF PredecessorFollowed, InFlight
  <2>4. RootFirst(v)' /\ RootLocated(v)'
    BY <1>1, <2>1 DEF RootFirst, RootLocated
  <2> QED
    BY <2>2, <2>3, <2>4 DEF Complete
<1>2. CASE v # u
  <2>0. KeepsFlags(v) /\ uris'[v].segment = uris[v].segment /\ saw'[v] = saw[v]
    BY <1>2
  <2>1. Read(v)' <=> Read(v)
    BY <2>0 DEF Read
  <2>2. ReadIsParsed(v)'
    BY <2>0, <2>1 DEF Complete, ReadIsParsed, KeepsFlags
  <2>3. PredecessorWaits(v)'
    BY <1>2, <2>0 DEF Complete, PredecessorWaits, KeepsFlags
  <2>4. PredecessorFollowed(v)'
    <3> SUFFICES ASSUME Read(v), Content[saw[v]].pred.kind = "external"
                 PROVE  uris'[Content[saw[v]].pred.to].segment
      BY <2>0, <2>1 DEF PredecessorFollowed
    <3>1. Content[saw[v]].pred.to \in Uris
      BY PredecessorTyped DEF Read
    <3> QED
      BY <1>2, <3>1 DEF Complete, PredecessorFollowed
  <2>5. RootFirst(v)'
    BY <1>2, <2>0 DEF RootFirst, KeepsFlags
  <2>6. RootLocated(v)'
    <3> SUFFICES ASSUME uris[v].root, Read(v)
                 PROVE  LinksKnown(saw[v])'
      BY <2>0, <2>1 DEF RootLocated, KeepsFlags, LinksKnown
    <3>1. LinksKnown(saw[v])
      BY DEF Complete, RootLocated
    <3>2. PICK b \in Bodies : b = saw[v]
      BY DEF Read
    <3>3. LinksKnown(b)'
      BY <3>1, <3>2, LinksStayKnown
    <3> QED
      BY <2>0, <3>2, <3>3 DEF LinksKnown
  <2> QED
    BY <2>2, <2>3, <2>4, <2>5, <2>6 DEF Complete
<1> QED
  BY <1>1, <1>2

\* What discovery reads in a step
SawNow ==
    saw' = [u \in Uris |-> IF ~Parsed(uris, u) /\ Parsed(uris', u) THEN outcomes[u] ELSE saw[u]]

LEMMA SawSame ==
    ASSUME ReadOK, SawNow, \A v \in Uris : KeepsFlags(v)
    PROVE  saw' = saw
BY DEF SawNow, KeepsFlags, Parsed, ReadOK

LEMMA WaitsSame ==
    ASSUME UNCHANGED <<frontier, todo>>, NEW v
    PROVE  Waits(v)' <=> Waits(v)
BY DEF Waits, SegmentRequest

LEMMA WaitsTail ==
    ASSUME todo \in Seq(Requests), todo # <<>>, NEW v, Waits(v), SegmentRequest(v) # Head(todo)
    PROVE  \/ \E i \in 1..Len(frontier) : frontier[i] = SegmentRequest(v)
           \/ \E i \in 1..Len(Tail(todo)) : Tail(todo)[i] = SegmentRequest(v)
<1> DEFINE r == SegmentRequest(v)
<1>1. Len(todo) \in Nat /\ Len(todo) >= 1 /\ Head(todo) = todo[1]
  BY HeadTyped
<1>2. Len(Tail(todo)) = Len(todo) - 1 /\ \A i \in 1..Len(Tail(todo)) : Tail(todo)[i] = todo[i + 1]
  OBVIOUS
<1>3. CASE \E i \in 1..Len(todo) : todo[i] = r
  <2>1. PICK i \in 1..Len(todo) : todo[i] = r
    BY <1>3
  <2>2. i # 1
    BY <1>1, <2>1
  <2>3. i - 1 \in 1..Len(Tail(todo)) /\ (i - 1) + 1 = i
    BY <1>1, <1>2, <2>1, <2>2
  <2>4. Tail(todo)[i - 1] = todo[i]
    BY <1>2, <2>3
  <2> QED
    BY <2>1, <2>3, <2>4
<1> QED
  BY <1>3 DEF Waits

LEMMA CompleteResolvesSegment ==
    ASSUME Inv, ReadOK, CompleteOK, SawNow, stop = NoStop, stop' = NoStop, pc \in {"resolve", "pred"},
           NEW u \in Uris, Settles(u), NEW states \in [Uris -> UriState], NEW rest,
           \A w \in Uris \ {u} : states[w] = uris[w],
           SameStates(states[u], uris[u])
             \/ /\ states[u].segment
                /\ states[u].root = uris[u].root /\ states[u].rootParsed = uris[u].rootParsed
                /\ states[u].segmentParsed = uris[u].segmentParsed,
           uris[u].known => states[u].known,
           uris[u].root => uris[u].rootParsed,
           \A w \in Uris \ {u} : uris[w].root => uris[w].rootParsed,
           \A w \in Uris \ {u} : Waits(w) =>
               \/ \E i \in 1..Len(frontier) : frontier[i] = SegmentRequest(w)
               \/ \E i \in 1..Len(rest) : rest[i] = SegmentRequest(w),
           \A w \in Uris : Read(w) /\ Content[saw[w]].pred.kind = "external" /\ InFlight(w) =>
               Content[saw[w]].pred.to = u /\ states[u].segment,
           ResolvesSegment(u, states, rest), UNCHANGED outcomes,
           NEW v \in Uris
    PROVE  Complete(v)'
<1> DEFINE read == [states EXCEPT ![u].segmentParsed = TRUE]
<1>0. /\ \A w \in Uris : Complete(w)
      /\ uris \in [Uris -> UriState] /\ outcomes \in [Uris -> Outcomes]
  BY DEF CompleteOK, Inv, PlanOK
<1>1. /\ \A w \in Uris : uris[w].segment => states[w].segment
      /\ \A w \in Uris : uris[w].known => states[w].known
      /\ \A w \in Uris : states[w].root = uris[w].root /\ states[w].rootParsed = uris[w].rootParsed
                         /\ states[w].segmentParsed = uris[w].segmentParsed
  BY DEF SameStates
<1>2. ASSUME todo' = rest, UNCHANGED frontier, NEW w \in Uris \ {u}, Waits(w) PROVE Waits(w)'
  BY <1>2 DEF Waits, SegmentRequest
<1>3. CASE /\ states[u].segmentParsed
           /\ uris' = states
           /\ todo' = rest
           /\ Returns
           /\ UNCHANGED <<frontier, stop, queue>>
  <2>1. \A w \in Uris : KeepsFlags(w)
    BY <1>1, <1>3 DEF KeepsFlags
  <2>2. saw' = saw
    BY <2>1, SawSame
  <2>3. Waits(v) => Waits(v)' \/ uris[v].segmentParsed
    BY <1>1, <1>2, <1>3
  <2>4. uris'[v].segment => uris[v].segment \/ uris[v].segmentParsed
    BY <1>1, <1>3
  <2>5. Read(v) /\ Content[saw[v]].pred.kind = "external" /\ InFlight(v) =>
          uris'[Content[saw[v]].pred.to].segment
    BY <1>3
  <2>6. uris[v].root => uris[v].rootParsed
    OBVIOUS
  <2> QED
    BY <1>0, <2>1, <2>2, <2>3, <2>4, <2>5, <2>6, CompleteFrame
<1>4. CASE /\ ~states[u].segmentParsed
           /\ outcomes[u] \in Bodies
           /\ uris' = read
           /\ todo' = rest
           /\ pc' = "store"
           /\ work' = [Idle EXCEPT !.body = outcomes[u], !.uri = u, !.depth = states[u].depth,
                                   !.provider = TRUE]
           /\ UNCHANGED <<frontier, stop, queue>>
  <2>1. /\ \A w \in Uris \ {u} : uris'[w] = states[w]
        /\ uris'[u].segmentParsed = TRUE
        /\ uris'[u].root = states[u].root /\ uris'[u].rootParsed = states[u].rootParsed
        /\ uris'[u].segment = states[u].segment /\ uris'[u].known = states[u].known
    BY <1>4 DEF UriState
  <2>2. ~uris[u].segmentParsed /\ ~uris[u].rootParsed /\ ~uris[u].root
    BY <1>0, <1>1, <1>4 DEF Complete, ReadIsParsed
  <2>3. /\ \A w \in Uris : uris[w].segment => uris'[w].segment
        /\ \A w \in Uris : uris[w].known => uris'[w].known
        /\ \A w \in Uris \ {u} : KeepsFlags(w) /\ uris'[w].segment = uris[w].segment
    BY <1>1, <2>1 DEF KeepsFlags
  <2>4. saw'[u] = outcomes[u]
    BY <2>1, <2>2 DEF SawNow, Parsed
  <2>5. \A w \in Uris \ {u} : saw'[w] = saw[w]
    BY <2>3 DEF SawNow, Parsed, KeepsFlags
  <2>6. work'.uri = u /\ work'.body = outcomes[u]
    BY <1>4 DEF Idle
  <2>7. v # u => (Waits(v) => Waits(v)')
    BY <1>2, <1>4
  <2>8. v # u => (Read(v) /\ Content[saw[v]].pred.kind = "external" /\ InFlight(v) =>
                       uris'[Content[saw[v]].pred.to].segment)
    BY <2>1
  <2>9. uris'[u].root = uris[u].root
    BY <1>1, <2>1
  <2> QED
    BY <1>0, <1>4, <2>1, <2>2, <2>3, <2>4, <2>5, <2>6, <2>7, <2>8, <2>9, CompleteReading
<1>5. CASE Stops("unavailable", u)
  <2>1. "unavailable" \in Reasons /\ "unavailable" # "none"
    BY DEF Reasons
  <2> QED
    BY <1>5, <2>1, StopsPlan
<1> QED
  BY <1>3, <1>4, <1>5 DEF ResolvesSegment

LEMMA CompleteResolve ==
    ASSUME Inv, ReadOK, CompleteOK, SawNow, stop' = NoStop,
           Planned \/ Opaque \/ ResolveRoot \/ ResolveSegment, NEW v \in Uris
    PROVE  Complete(v)'
<1>0. /\ pc = "resolve" /\ todo \in Seq(Requests) /\ uris \in [Uris -> UriState]
      /\ outcomes \in [Uris -> Outcomes] /\ UNCHANGED outcomes
  BY DEF Inv, PlanOK, Planned, Opaque, ResolveRoot, ResolveSegment
<1>1. stop = NoStop /\ \A w \in Uris : Complete(w)
  BY <1>0 DEF ReadOK, CompleteOK, Discovering
<1>2. \A w \in Uris : ~InFlight(w)
  BY <1>0 DEF InFlight
<1>3. CASE Planned
  <2>1. UNCHANGED <<uris, todo, frontier>> /\ todo = <<>> /\ pc' = "planned"
    BY <1>3 DEF Planned, planVars, walkVars
  <2>2. \A w \in Uris : KeepsFlags(w)
    BY <2>1 DEF KeepsFlags
  <2>3. saw' = saw
    BY <2>2, SawSame
  <2>4. uris[v].root => uris[v].rootParsed
    BY <1>0, <1>1, <2>1 DEF Complete, RootFirst
  <2>5. Waits(v)' <=> Waits(v)
    BY <2>1, WaitsSame
  <2>6. uris'[v].segment => uris[v].segment
    BY <2>1
  <2> QED
    BY <1>0, <1>1, <1>2, <2>2, <2>3, <2>4, <2>5, <2>6, CompleteFrame
<1> DEFINE u == Head(todo).uri
<1>4. ASSUME todo # <<>>
      PROVE  /\ u \in Uris /\ Settles(u) /\ Head(todo) \in Requests
             /\ \A w \in Uris \ {u} : uris[w].root => uris[w].rootParsed
             /\ \A w \in Uris : Waits(w) /\ SegmentRequest(w) # Head(todo) =>
                  \/ \E i \in 1..Len(frontier) : frontier[i] = SegmentRequest(w)
                  \/ \E i \in 1..Len(Tail(todo)) : Tail(todo)[i] = SegmentRequest(w)
  <2>1. /\ Head(todo) \in Requests /\ Head(todo) = todo[1]
        /\ Len(todo) \in Nat /\ Len(todo) >= 1
    BY <1>0, <1>4, HeadTyped
  <2>2. u \in Uris /\ Settles(u)
    BY <2>1 DEF Requests, ReadOK
  <2>3. ASSUME NEW w \in Uris \ {u}, uris[w].root PROVE uris[w].rootParsed
    <3>1. todo # <<SegmentRequest(w)>>
      BY <2>1, <2>3 DEF SegmentRequest
    <3> QED
      BY <1>0, <1>1, <2>3, <3>1 DEF Complete, RootFirst
  <2>4. \A w \in Uris : Waits(w) /\ SegmentRequest(w) # Head(todo) =>
                  \/ \E i \in 1..Len(frontier) : frontier[i] = SegmentRequest(w)
                  \/ \E i \in 1..Len(Tail(todo)) : Tail(todo)[i] = SegmentRequest(w)
    BY <1>0, <1>4, WaitsTail
  <2> QED
    BY <2>1, <2>2, <2>3, <2>4
<1>5. \A w \in Uris : w # u => SegmentRequest(w) # Head(todo)
  BY DEF SegmentRequest
<1> HIDE DEF u
<1>6. ASSUME todo # <<>>, todo' = Tail(todo), UNCHANGED <<pc, frontier, uris>>,
             v # u \/ Head(todo).kind # "segment" \/ uris[v].segmentParsed,
             v = u => Head(todo).kind # "segment" \/ uris[v].rootParsed \/ ~uris[v].root
      PROVE  Complete(v)'
  <2>1. \A w \in Uris : KeepsFlags(w)
    BY <1>6 DEF KeepsFlags
  <2>2. saw' = saw
    BY <2>1, SawSame
  <2>3. Waits(v) => Waits(v)' \/ uris[v].segmentParsed
    <3>1. CASE SegmentRequest(v) # Head(todo)
      BY <1>4, <1>6, <3>1 DEF Waits, SegmentRequest
    <3>2. CASE SegmentRequest(v) = Head(todo)
      BY <1>5, <1>6, <3>2 DEF SegmentRequest
    <3> QED
      BY <3>1, <3>2
  <2>4. uris[v].root => uris[v].rootParsed
    <3>1. ASSUME Head(todo).kind # "segment" PROVE todo # <<SegmentRequest(v)>>
      BY <1>0, <1>6, <3>1, HeadTyped DEF SegmentRequest
    <3> QED
      BY <1>0, <1>1, <1>4, <1>6, <3>1 DEF Complete, RootFirst
  <2>5. uris'[v].segment => uris[v].segment
    BY <1>6
  <2> QED
    BY <1>0, <1>1, <1>2, <2>1, <2>2, <2>3, <2>4, <2>5, CompleteFrame
<1>7. CASE Opaque
  BY <1>6, <1>7 DEF Opaque, planVars
<1>8. CASE ResolveRoot
  <2>0. todo # <<>> /\ uris[u].root
    BY <1>8 DEF ResolveRoot, u
  <2>1. CASE /\ uris[u].rootParsed
             /\ todo' = Tail(todo)
             /\ UNCHANGED <<pc, present, frontier, stop, uris, work, queue>>
    <3>1. uris[u].segmentParsed
      BY <1>1, <1>4, <2>0, <2>1 DEF Complete, ReadIsParsed
    <3> QED
      BY <1>6, <2>0, <2>1, <3>1
  <2>2. CASE /\ ~uris[u].rootParsed
             /\ outcomes[u] \in Bodies
             /\ uris' = RootHeld(u)
             /\ todo' = Tail(todo)
             /\ Scans(outcomes[u], u, TRUE)
             /\ UNCHANGED <<frontier, stop, queue>>
    <3>1. /\ \A w \in Uris \ {u} : uris'[w] = uris[w]
          /\ uris'[u].segmentParsed = TRUE /\ uris'[u].rootParsed = TRUE
          /\ uris'[u].root = uris[u].root
          /\ uris'[u].segment = TRUE /\ uris'[u].known = uris[u].known
      BY <1>0, <1>4, <2>0, <2>2 DEF RootHeld, UriState
    <3>2. /\ \A w \in Uris : uris[w].segment => uris'[w].segment
          /\ \A w \in Uris : uris[w].known => uris'[w].known
          /\ \A w \in Uris \ {u} : KeepsFlags(w) /\ uris'[w].segment = uris[w].segment
      BY <3>1 DEF KeepsFlags
    <3>3. saw'[u] = outcomes[u]
      <4>1. CASE ~Parsed(uris, u)
        BY <1>4, <2>0, <3>1, <4>1 DEF SawNow, Parsed
      <4>2. CASE Parsed(uris, u)
        <5>1. Read(u)
          BY <1>1, <1>4, <2>0, <4>2 DEF Parsed, Complete, ReadIsParsed
        <5>2. saw[u] = outcomes[u]
          BY <1>4, <2>0, <5>1, SessionAssumption DEF Read, ReadOK
        <5> QED
          BY <1>4, <2>0, <4>2, <5>2 DEF SawNow
      <4> QED
        BY <4>1, <4>2
    <3>4. \A w \in Uris \ {u} : saw'[w] = saw[w]
      BY <3>2 DEF SawNow, Parsed, KeepsFlags
    <3>5. work'.uri = u /\ work'.body = outcomes[u] /\ pc' = "scan"
      BY <2>2 DEF Scans, Idle
    <3>6. v # u => (Waits(v) => Waits(v)')
      BY <1>4, <1>5, <2>0, <2>2 DEF Waits, SegmentRequest
    <3> QED
      BY <1>0, <1>1, <1>2, <1>4, <2>0, <2>2, <3>1, <3>2, <3>3, <3>4, <3>5, <3>6, CompleteReading
  <2>3. CASE Stops("unavailable", u)
    <3>1. "unavailable" \in Reasons /\ "unavailable" # "none"
      BY DEF Reasons
    <3> QED
      BY <1>4, <2>0, <2>3, <3>1, StopsPlan
  <2> QED
    BY <1>8, <2>1, <2>2, <2>3 DEF ResolveRoot, u
<1>9. CASE ResolveSegment
  <2>0. todo # <<>> /\ ~uris[u].root /\ ResolvesSegment(u, uris, Tail(todo))
    BY <1>9 DEF ResolveSegment, u
  <2>1. SameStates(uris[u], uris[u])
    BY DEF SameStates
  <2>2. \A w \in Uris \ {u} : Waits(w) =>
               \/ \E i \in 1..Len(frontier) : frontier[i] = SegmentRequest(w)
               \/ \E i \in 1..Len(Tail(todo)) : Tail(todo)[i] = SegmentRequest(w)
    BY <1>4, <1>5, <2>0
  <2> QED
    BY <1>0, <1>1, <1>2, <1>4, <2>0, <2>1, <2>2, CompleteResolvesSegment
<1> QED
  BY <1>3, <1>7, <1>8, <1>9

\* The first request for a URI of the frontier becomes a manifest store, and
\* the others stay.
LEMMA UpgradedWaits ==
    ASSUME frontier \in Seq(Requests), NEW u \in Uris, InFrontier(u), NEW f, f = Upgraded(u)
    PROVE  /\ Len(f) = Len(frontier)
           /\ \E i \in 1..Len(frontier) : f[i] = SegmentRequest(u)
           /\ \A v \in Uris : \A i \in 1..Len(frontier) :
                frontier[i] = SegmentRequest(v) => f[i] = SegmentRequest(v)
<1> DEFINE I == {i \in 1..Len(frontier) : frontier[i].uri = u}
           k == SelectInSeq(frontier, LAMBDA r : r.uri = u)
<1>0. Len(frontier) \in Nat /\ DOMAIN frontier = 1..Len(frontier)
  OBVIOUS
<1>1. I # {} /\ I \in SUBSET Nat
  BY <1>0 DEF InFrontier
<1>2. k \in I
  <2>1. k = Min(I)
    BY <1>1 DEF SelectInSeq
  <2> HIDE DEF I
  <2>2. \E n \in I : \A m \in I : n <= m
    BY <1>1, LeastNat
  <2>3. Min(I) \in I
    BY <2>2 DEF Min
  <2> QED
    BY <2>1, <2>3
<1>3. f = [frontier EXCEPT ![k].kind = "segment"]
  BY DEF Upgraded
<1> HIDE DEF k
<1>4. k \in 1..Len(frontier) /\ frontier[k].uri = u /\ frontier[k] \in Requests
  BY <1>2
<1>5. DOMAIN f = 1..Len(frontier) /\ Len(f) = Len(frontier)
  BY <1>0, <1>3
<1>6. f[k] = [frontier[k] EXCEPT !.kind = "segment"] /\ \A i \in 1..Len(frontier) : i # k => f[i] = frontier[i]
  BY <1>0, <1>3, <1>4
<1>7. f[k] = SegmentRequest(u)
  BY <1>4, <1>6 DEF Requests, SegmentRequest
<1>8. \A v \in Uris : frontier[k] = SegmentRequest(v) => f[k] = SegmentRequest(v)
  BY <1>4, <1>7 DEF SegmentRequest
<1> QED
  BY <1>4, <1>5, <1>6, <1>7, <1>8

\* Locating references keeps what waits, and makes known what they name.
LEMMA CompleteLocated ==
    ASSUME Inv, ReadOK, CompleteOK, SawNow, stop = NoStop, pc \in {"scan", "walk"},
           NEW links \in Links, uris' = Located(links).uris,
           frontier' = Located(links).frontier, pc' = "walk", UNCHANGED <<todo, work>>,
           pc = "scan" => links = Content[work.body].links,
           NEW v \in Uris
    PROVE  Complete(v)'
<1> DEFINE from == [uris |-> uris, frontier |-> frontier]
           L == Located(links)
<1>0. /\ uris \in [Uris -> UriState] /\ frontier \in Seq(Requests) /\ \A w \in Uris : Complete(w)
      /\ work.body \in Bodies
  BY DEF Inv, PlanOK, CompleteOK
<1>1. /\ Extends(L, from) /\ L \in Plans
      /\ \A i \in 1..Len(links.uris) : L.uris[links.uris[i]].known
  BY <1>0, LocatedExtends
<1>2. from.uris = uris /\ from.frontier = frontier /\ L.uris = uris' /\ L.frontier = frontier'
  OBVIOUS
<1> HIDE DEF L, from
<1>3. \A w \in Uris : KeepsFlags(w) /\ uris'[w].segment = uris[w].segment
  BY <1>1, <1>2 DEF Extends, SameStates, KeepsFlags
<1>4. saw' = saw
  BY <1>3, SawSame
<1>5. Waits(v) => Waits(v)'
  <2>1. Len(frontier) <= Len(frontier') /\ \A i \in 1..Len(frontier) : frontier'[i] = frontier[i]
    BY <1>1, <1>2 DEF Extends
  <2>2. Len(frontier) \in Nat /\ Len(frontier') \in Nat
    BY <1>0, <1>1, <1>2 DEF Plans
  <2>3. \A i \in 1..Len(frontier) : i \in 1..Len(frontier')
    BY <2>1, <2>2
  <2> QED
    BY <2>1, <2>3 DEF Waits, SegmentRequest
<1>6. InFlight(v) => InFlight(v)'
  BY <1>4 DEF InFlight
<1>7. uris[v].root => uris[v].rootParsed
  BY <1>0 DEF Complete, RootFirst
<1>8. uris[v].root /\ Read(v) /\ pc = "scan" /\ work.uri = v /\ work.body = saw[v] => LinksKnown(saw[v])'
  BY <1>1, <1>2, <1>4 DEF LinksKnown
<1>9. uris'[v].segment => uris[v].segment
  BY <1>3
<1> QED
  BY <1>0, <1>3, <1>4, <1>5, <1>6, <1>7, <1>8, <1>9, CompleteFrame

LEMMA CompleteScan ==
    ASSUME Inv, ReadOK, CompleteOK, SawNow, stop' = NoStop, ScanInitialStore \/ WalkManifest,
           NEW v \in Uris
    PROVE  Complete(v)'
<1>0. /\ pc \in {"scan", "walk"} /\ pc \in Discovering /\ work.uri \in Uris \cup {None}
      /\ work.body \in Bodies /\ stop = NoStop /\ \A w \in Uris : Complete(w)
  BY DEF Inv, PlanOK, Works, ScanInitialStore, WalkManifest, Discovering, ReadOK, CompleteOK
<1>1. ASSUME NEW why, why # "none", NEW uri, Stops(why, uri) PROVE FALSE
  BY <1>1 DEF Stops, NoStop
<1>2. CASE ScanInitialStore
  <2>1. Content[work.body].links \in Links
    BY <1>0, ContentAssumption
  <2>2. /\ uris' = Located(Content[work.body].links).uris
        /\ frontier' = Located(Content[work.body].links).frontier
        /\ pc' = "walk" /\ UNCHANGED <<todo, work>>
    BY <1>1, <1>2 DEF ScanInitialStore
  <2> QED
    BY <1>0, <2>1, <2>2, CompleteLocated
<1>3. CASE WalkManifest
  <2> DEFINE at == Head(queue)
             m == Content[work.body].graph[at.label]
             links == IF at.label # "active" THEN m.links ELSE [uris |-> <<>>, examined |-> 0]
             Q == [label : DOMAIN Content[work.body].graph, depth : Nat]
  <2>0. pc = "walk" /\ queue # <<>> /\ queue \in Seq(Q)
    BY <1>3 DEF WalkManifest, Inv, PlanOK
  <2>1. at \in Q
    <3> HIDE DEF Q
    <3> QED
      BY <2>0, HeadTyped
  <2>2. links \in Links
    <3>1. m.links \in Links
      BY <1>0, <2>1, ContentAssumption
    <3> QED
      BY <3>1 DEF Links
  <2> HIDE DEF links
  <2>3. CASE uris' = Located(links).uris /\ frontier' = Located(links).frontier
             /\ UNCHANGED <<pc, stop, todo, work>>
    BY <1>0, <2>0, <2>2, <2>3, CompleteLocated
  <2>4. CASE UNCHANGED <<pc, stop, frontier, todo, work, uris, reached>>
    <3>1. \A w \in Uris : KeepsFlags(w)
      BY <2>4 DEF KeepsFlags
    <3>2. saw' = saw
      BY <3>1, SawSame
    <3>3. Waits(v)' <=> Waits(v)
      BY <2>4, WaitsSame
    <3>4. InFlight(v)' <=> InFlight(v)
      BY <2>4, <3>2 DEF InFlight
    <3>5. (uris[v].root => uris[v].rootParsed) /\ (uris'[v].segment => uris[v].segment)
      BY <1>0, <2>0, <2>4 DEF Complete, RootFirst
    <3> QED
      BY <1>0, <2>0, <3>1, <3>2, <3>3, <3>4, <3>5, CompleteFrame
  <2> QED
    BY <1>1, <1>3, <2>3, <2>4 DEF WalkManifest, links
<1> QED
  BY <1>2, <1>3

LEMMA CompleteFollow ==
    ASSUME Inv, ReadOK, CompleteOK, SawNow, stop' = NoStop,
           EndWalk \/ ScanPredecessorStore \/ FollowInline \/ FollowExternal, NEW v \in Uris
    PROVE  Complete(v)'
<1>0. /\ pc \in {"walk", "store", "pred"} /\ stop = NoStop /\ \A w \in Uris : Complete(w)
      /\ uris \in [Uris -> UriState] /\ frontier \in Seq(Requests) /\ todo \in Seq(Requests)
      /\ work \in Works /\ UNCHANGED outcomes
  BY DEF Inv, PlanOK, EndWalk, ScanPredecessorStore, FollowInline, FollowExternal, Discovering,
         ReadOK, CompleteOK
<1>1. ASSUME NEW why, why # "none", NEW uri, Stops(why, uri) PROVE FALSE
  BY <1>1 DEF Stops, NoStop
<1>2. \A w \in Uris : uris[w].root => uris[w].rootParsed
  BY <1>0 DEF Complete, RootFirst
<1>3. ASSUME \A w \in Uris : KeepsFlags(w), Waits(v) => Waits(v)' \/ uris[v].segmentParsed,
             uris'[v].segment => uris[v].segment \/ uris[v].segmentParsed \/ Waits(v)',
             saw' = saw => (Read(v) /\ Content[saw[v]].pred.kind = "external" /\ InFlight(v) =>
                              uris'[Content[saw[v]].pred.to].segment \/ InFlight(v)')
      PROVE  Complete(v)'
  <2>1. saw' = saw
    BY <1>3, SawSame
  <2> QED
    BY <1>0, <1>2, <1>3, <2>1, CompleteFrame
<1>4. ASSUME UNCHANGED <<uris, frontier, todo>>
      PROVE  /\ \A w \in Uris : KeepsFlags(w)
             /\ Waits(v)' <=> Waits(v)
             /\ uris'[v].segment => uris[v].segment
  BY <1>4, WaitsSame DEF KeepsFlags
<1>5. ASSUME pc \in {"walk", "store"}, NEW d, Follows(Content[work.body].pred, d), UNCHANGED uris
      PROVE  Complete(v)'
  <2>1. UNCHANGED <<frontier, todo>>
    BY <1>1, <1>5 DEF Follows
  <2>2. Read(v) /\ Content[saw[v]].pred.kind = "external" /\ InFlight(v) /\ saw' = saw => InFlight(v)'
    <3> SUFFICES ASSUME Read(v), Content[saw[v]].pred.kind = "external", InFlight(v), saw' = saw
                 PROVE  pc' = "pred" /\ work'.ref = Content[saw[v]].pred
      BY DEF InFlight
    <3>1. work.body = saw[v]
      BY <1>5 DEF InFlight
    <3>2. /\ pc' = "pred"
          /\ work' = [work EXCEPT !.ref = Content[work.body].pred, !.depth = d]
      BY <1>1, <1>5, <3>1 DEF Follows
    <3> QED
      BY <1>0, <3>1, <3>2 DEF Works
  <2> QED
    BY <1>3, <1>4, <1>5, <2>1, <2>2
<1>6. CASE EndWalk
  BY <1>5, <1>6 DEF EndWalk
<1>7. CASE ScanPredecessorStore
  BY <1>1, <1>5, <1>7 DEF ScanPredecessorStore
<1>8. CASE FollowInline
  <2>1. UNCHANGED <<frontier, todo, uris>> /\ pc = "pred" /\ work.ref.kind = "inline"
    BY <1>1, <1>8 DEF FollowInline
  <2>2. ~(Content[saw[v]].pred.kind = "external" /\ InFlight(v))
    BY <2>1 DEF InFlight
  <2> QED
    BY <1>3, <1>4, <2>1, <2>2
<1>9. CASE FollowExternal
  <2> DEFINE u == work.ref.to
             marked == [uris EXCEPT ![u].known = TRUE, ![u].segment = TRUE, ![u].depth = work.depth]
             r == [uri |-> u, kind |-> "segment"]
  <2>0. u \in Uris /\ work.depth \in Nat /\ r \in Requests /\ pc = "pred"
    BY <1>9 DEF FollowExternal, Inv, PlanOK, Works, References, Requests, Kinds
  <2>1. marked \in [Uris -> UriState] /\ \A w \in Uris \ {u} : marked[w] = uris[w]
    BY <1>0, <2>0, FlagsTyped
  <2>2. /\ marked[u].rootParsed = uris[u].rootParsed /\ marked[u].segmentParsed = uris[u].segmentParsed
        /\ marked[u].root = uris[u].root /\ marked[u].segment = TRUE /\ marked[u].known = TRUE
    BY <1>0, <2>0 DEF UriState
  <2>3. ASSUME NEW w \in Uris, InFlight(w) PROVE Content[saw[w]].pred.to = u
    BY <2>0, <2>3 DEF InFlight
  <2> HIDE DEF u, marked
  <2>4. ASSUME uris' = marked PROVE \A w \in Uris : KeepsFlags(w)
    BY <2>1, <2>2, <2>4 DEF KeepsFlags
  <2>5. CASE uris[u].segment /\ Returns /\ UNCHANGED <<uris, stop, frontier, todo, queue>>
    BY <1>3, <1>4, <2>3, <2>5
  <2>6. CASE /\ Awaits(u)
             /\ uris' = marked
             /\ frontier' = Upgraded(u)
             /\ Returns
             /\ UNCHANGED <<stop, todo, queue>>
    <3>1. /\ Len(frontier') = Len(frontier)
          /\ \E i \in 1..Len(frontier) : frontier'[i] = SegmentRequest(u)
          /\ \A w \in Uris : \A i \in 1..Len(frontier) :
               frontier[i] = SegmentRequest(w) => frontier'[i] = SegmentRequest(w)
      BY <1>0, <2>0, <2>6, UpgradedWaits DEF Awaits
    <3>2. /\ \A w \in Uris : Waits(w) => Waits(w)'
          /\ \A w \in Uris : w = u => Waits(w)'
      BY <2>6, <3>1 DEF Waits, SegmentRequest
    <3>3. uris'[v].segment => uris[v].segment \/ Waits(v)'
      BY <2>1, <2>6, <3>2
    <3>4. InFlight(v) => uris'[Content[saw[v]].pred.to].segment
      BY <2>2, <2>3, <2>6
    <3> QED
      BY <1>3, <2>4, <2>6, <3>2, <3>3, <3>4
  <2>7. CASE ~Awaits(u) /\ Known(u) /\ ResolvesSegment(u, marked, todo)
    <3>1. Settles(u)
      BY <1>0, <2>0, <2>7 DEF Awaits, Known, ReadOK
    <3>2. \A w \in Uris \ {u} : Waits(w) =>
               \/ \E i \in 1..Len(frontier) : frontier[i] = SegmentRequest(w)
               \/ \E i \in 1..Len(todo) : todo[i] = SegmentRequest(w)
      BY DEF Waits
    <3> QED
      BY <1>0, <1>2, <2>0, <2>1, <2>2, <2>3, <2>7, <3>1, <3>2, CompleteResolvesSegment
  <2>8. CASE /\ uris' = marked
             /\ frontier' = Append(frontier, r)
             /\ Returns
             /\ UNCHANGED <<stop, todo, queue>>
    <3> HIDE DEF r
    <3>1. /\ Len(frontier') = Len(frontier) + 1 /\ Len(frontier) \in Nat
          /\ frontier'[Len(frontier) + 1] = r
          /\ \A k \in 1..Len(frontier) : frontier'[k] = frontier[k]
      BY <1>0, <2>0, <2>8
    <3>2. r = SegmentRequest(u)
      BY DEF r, SegmentRequest
    <3>3. \A w \in Uris : Waits(w) => Waits(w)'
      BY <2>8, <3>1 DEF Waits, SegmentRequest
    <3>4. \A w \in Uris : w = u => Waits(w)'
      <4>1. Len(frontier) + 1 \in 1..Len(frontier')
        BY <3>1
      <4> QED
        BY <3>1, <3>2, <4>1 DEF Waits, SegmentRequest
    <3>5. uris'[v].segment => uris[v].segment \/ Waits(v)'
      BY <2>1, <2>8, <3>4
    <3>6. InFlight(v) => uris'[Content[saw[v]].pred.to].segment
      BY <2>2, <2>3, <2>8
    <3> QED
      BY <1>3, <2>4, <2>8, <3>3, <3>5, <3>6
  <2>9. ~Stops("unavailable", u)
    BY <1>1
  <2> QED
    BY <1>1, <1>9, <2>5, <2>6, <2>7, <2>8, <2>9 DEF FollowExternal, u, marked
<1> QED
  BY <1>6, <1>7, <1>8, <1>9

LEMMA CompleteInit ==
    ASSUME Init
    PROVE  CompleteOK
<1>1. \A u \in Uris : /\ uris[u] = [known |-> FALSE, root |-> FALSE, rootParsed |-> FALSE,
                                    segment |-> FALSE, segmentParsed |-> FALSE, depth |-> 0]
                      /\ saw[u] = "unread"
  BY DEF Init, InitPlan
<1>2. \A u \in Uris : ~Read(u)
  BY <1>1, SessionAssumption DEF Read
<1>3. \A u \in Uris : Complete(u)
  BY <1>1, <1>2 DEF Complete, ReadIsParsed, PredecessorWaits, PredecessorFollowed, RootFirst, RootLocated
<1> QED
  BY <1>1, <1>3 DEF CompleteOK, Init, InitPlan

LEMMA CompleteLocate ==
    ASSUME Inv, ReadOK, CompleteOK, Locate, saw' = saw, stop' = NoStop, NEW v \in Uris
    PROVE  Complete(v)'
<1>0. /\ pc = "locate" /\ uris \in [Uris -> UriState] /\ frontier = <<>> /\ todo = <<>>
      /\ \A w \in Uris :
           ~uris[w].root /\ ~uris[w].rootParsed /\ ~uris[w].segment /\ ~uris[w].segmentParsed
  BY DEF Inv, PlanOK, Locate, LocateStore, LocateRoot, LocateMalformed, LocateNothing, CompleteOK
<1>1. Complete(v)
  BY <1>0 DEF ReadOK, CompleteOK, Discovering
<1>2. CASE UNCHANGED uris
  <2>1. ReadIsParsed(v)' /\ RootFirst(v)' /\ RootLocated(v)'
    BY <1>0, <1>1, <1>2 DEF Complete, ReadIsParsed, RootFirst, RootLocated, Read
  <2>2. PredecessorWaits(v)'
    BY <1>0, <1>2 DEF PredecessorWaits
  <2>3. PredecessorFollowed(v)'
    <3> SUFFICES ASSUME Read(v), Content[saw[v]].pred.kind = "external"
                 PROVE  uris[Content[saw[v]].pred.to].segment
      BY <1>2 DEF PredecessorFollowed, Read
    <3> QED
      BY <1>0, <1>1 DEF Complete, PredecessorFollowed, InFlight
  <2> QED
    BY <2>1, <2>2, <2>3 DEF Complete
<1>3. ASSUME NEW u \in Uris, LocateRoot(u) PROVE Complete(v)'
  <2>0. /\ pc' = "planned" /\ UNCHANGED todo
        /\ frontier' = <<SegmentRequest(u)>>
    BY <1>0, <1>3 DEF LocateRoot, SegmentRequest, walkVars
  <2>1. /\ \A w \in Uris : w # u => uris'[w] = uris[w]
        /\ \A w \in Uris : /\ uris'[w].rootParsed = uris[w].rootParsed
                           /\ uris'[w].segmentParsed = uris[w].segmentParsed
                           /\ uris'[w].segment = uris[w].segment
    BY <1>0, <1>3 DEF LocateRoot, UriState
  <2>2. RootFirst(v)'
    BY <1>0, <2>0, <2>1 DEF RootFirst, SegmentRequest
  <2>3. ReadIsParsed(v)' /\ PredecessorWaits(v)'
    BY <1>0, <1>1, <2>1 DEF Complete, ReadIsParsed, PredecessorWaits, Read
  <2>4. ~Read(v)
    BY <1>0, <1>1 DEF Complete, ReadIsParsed
  <2> QED
    BY <2>2, <2>3, <2>4 DEF Complete, PredecessorFollowed, RootLocated, Read
<1> QED
  BY <1>2, <1>3 DEF Locate, LocateStore, LocateMalformed, LocateNothing, Stops, NoStop, planVars

\* A step that is none of discovery's own: it neither reads nor finds anything.
LEMMA CompleteOutside ==
    ASSUME ReadOK, CompleteOK, UNCHANGED <<frontier, stop, uris, todo, saw>>,
           \/ UNCHANGED <<pc, work>>
           \/ frontier = <<>> /\ pc \notin Discovering /\ pc' \notin Discovering
    PROVE  CompleteOK'
<1>1. pc' = "locate" => pc = "locate"
  BY DEF Discovering
<1>2. ASSUME stop = NoStop, NEW v \in Uris PROVE Complete(v)'
  <2>0. Complete(v)
    BY <1>2 DEF CompleteOK
  <2>1. CASE UNCHANGED <<pc, work>>
    BY <2>0, <2>1 DEF Complete, ReadIsParsed, PredecessorWaits, PredecessorFollowed, RootFirst,
                      RootLocated, Read, Waits, InFlight, LinksKnown, SegmentRequest
  <2>2. CASE frontier = <<>> /\ pc \notin Discovering /\ pc' \notin Discovering
    <3>1. \A w \in Uris : KeepsFlags(w)
      BY DEF KeepsFlags
    <3>2. ~InFlight(v) /\ pc # "scan" /\ pc # "resolve"
      BY <2>2 DEF InFlight, Discovering
    <3>3. uris[v].root => uris[v].rootParsed
      BY <2>0, <2>2, <3>2 DEF Complete, RootFirst, SegmentRequest
    <3>4. Waits(v)' <=> Waits(v)
      BY WaitsSame
    <3>5. uris'[v].segment => uris[v].segment
      OBVIOUS
    <3> QED
      BY <2>0, <3>1, <3>2, <3>3, <3>4, <3>5, CompleteFrame
  <2> QED
    BY <2>1, <2>2
<1> QED
  BY <1>1, <1>2 DEF CompleteOK

\* continue_with takes the frontier: what waited there is about to be read.
LEMMA CompleteContinues ==
    ASSUME Inv, ReadOK, CompleteOK, ContinueWith, saw' = saw, stop' = NoStop, NEW v \in Uris
    PROVE  Complete(v)'
<1>0. /\ pc = "planned" /\ pc' = "resolve" /\ todo' = frontier /\ frontier' = <<>>
      /\ UNCHANGED <<uris, stop>> /\ todo = <<>>
  BY DEF ContinueWith, ReadOK, Discovering
<1>1. Complete(v)
  BY <1>0 DEF CompleteOK
<1>2. \A w \in Uris : KeepsFlags(w)
  BY <1>0 DEF KeepsFlags
<1>3. Waits(v) => Waits(v)'
  BY <1>0 DEF Waits, SegmentRequest
<1>4. ~InFlight(v)
  BY <1>0 DEF InFlight
<1>5. uris[v].root => uris[v].rootParsed \/ RootFirst(v)'
  BY <1>0, <1>1 DEF Complete, RootFirst, SegmentRequest
<1>6. uris'[v].segment => uris[v].segment
  BY <1>0
<1> QED
  BY <1>0, <1>1, <1>2, <1>3, <1>4, <1>5, <1>6, CompleteFrame

LEMMA CompleteNext ==
    ASSUME Inv, ReadOK, CompleteOK, [Next]_vars
    PROVE  CompleteOK'
<1>1. CASE Locates
  <2>1. Locate /\ saw' = saw
    BY <1>1 DEF Locates
  <2>2. pc' # "locate"
    BY <2>1, DiscoveryPhases
  <2>3. stop' = NoStop => \A v \in Uris : Complete(v)'
    BY <2>1, CompleteLocate
  <2> QED
    BY <2>2, <2>3 DEF CompleteOK
<1>2. CASE Discovers
  <2>1. Continue /\ SawNow
    BY <1>2 DEF Discovers, SawNow
  <2>2. pc' # "locate"
    BY <2>1, DiscoveryPhases
  <2>3. stop' = NoStop => \A v \in Uris : Complete(v)'
    BY <2>1, CompleteResolve, CompleteScan, CompleteFollow DEF Continue
  <2> QED
    BY <2>2, <2>3 DEF CompleteOK
<1>3. CASE Continues
  <2>1. ContinueWith /\ saw' = saw /\ pc' # "locate"
    BY <1>3 DEF Continues, ContinueWith
  <2>2. stop' = NoStop => \A v \in Uris : Complete(v)'
    BY <2>1, CompleteContinues
  <2> QED
    BY <2>1, <2>2 DEF CompleteOK
<1>4. CASE EnsureGraphResource \/ ResolveDidDocument \/ FetchOcsp \/ UNCHANGED vars
  <2>1. UNCHANGED <<frontier, stop, uris, todo, saw, pc, work>>
    BY <1>4 DEF EnsureGraphResource, ResolveDidDocument, FetchOcsp, vars, discoveryVars, planVars, walkVars
  <2> QED
    BY <2>1, CompleteOutside
<1>5. CASE EndDiscovery \/ Pass \/ Finish
  <2>1. /\ UNCHANGED <<frontier, stop, uris, todo, saw>> /\ frontier = <<>>
        /\ pc \notin Discovering /\ pc' \notin Discovering
    BY <1>5 DEF EndDiscovery, Pass, Finish, planVars, walkVars, Discovering, Judging, ReadOK
  <2> QED
    BY <2>1, CompleteOutside
<1> QED
  BY <1>1, <1>2, <1>3, <1>4, <1>5 DEF Next, Ended

\* locate_external_resources and continue_with: discovery that ends without a
\* reason to stop has offered every URI it found, read every predecessor, and
\* missed no reference of a store it read, for every content of the stores.
THEOREM DiscoveryIsComplete ==
    Spec => []CompleteUnlessStopped
<1>1. ASSUME Inv, ReadOK, CompleteOK PROVE CompleteUnlessStopped
  <2> SUFFICES ASSUME pc = "dids", stop = NoStop, NEW u \in Uris
               PROVE  /\ uris[u].known => Settles(u)
                      /\ uris[u].segment => Read(u)
                      /\ Read(u) /\ Content[saw[u]].pred.kind = "external" =>
                           uris[Content[saw[u]].pred.to].segment
                      /\ Read(u) /\ uris[u].root =>
                           \A v \in Range(Content[saw[u]].links.uris) : uris[v].known
    BY DEF CompleteUnlessStopped, Settles
  <2>0. frontier = <<>> /\ todo = <<>> /\ Complete(u)
    BY <1>1 DEF ReadOK, Discovering, CompleteOK
  <2>1. ~InFrontier(u) /\ ~Waits(u) /\ ~InFlight(u)
    BY <2>0 DEF InFrontier, Waits, InFlight
  <2>2. uris[u].known => Settles(u)
    BY <1>1, <2>1 DEF ReadOK
  <2>3. uris[u].segment => Read(u)
    BY <2>0, <2>1 DEF Complete, PredecessorWaits, ReadIsParsed
  <2>4. Read(u) /\ Content[saw[u]].pred.kind = "external" => uris[Content[saw[u]].pred.to].segment
    BY <2>0, <2>1 DEF Complete, PredecessorFollowed
  <2>5. ASSUME Read(u), uris[u].root, NEW v \in Range(Content[saw[u]].links.uris)
        PROVE  uris[v].known
    <3>1. PICK b \in Bodies : b = saw[u]
      BY <2>5 DEF Read
    <3>2. LinksKnown(b)
      BY <2>0, <2>5, <3>1 DEF Complete, RootLocated
    <3>3. Content[b].links.uris \in Seq(Uris)
      BY <3>1, ContentAssumption DEF Links
    <3>4. PICK i \in 1..Len(Content[b].links.uris) : v = Content[b].links.uris[i]
      BY <2>5, <3>1, <3>3 DEF Range
    <3> QED
      BY <3>2, <3>4 DEF LinksKnown
  <2> QED
    BY <2>2, <2>3, <2>4, <2>5
<1>2. Init => CompleteOK
  BY CompleteInit
<1>3. Inv /\ ReadOK /\ CompleteOK /\ [Next]_vars => CompleteOK'
  BY CompleteNext
<1> QED
  BY <1>1, <1>2, <1>3, ReadAlways, PTL DEF Spec

\* The declared types, with the fetch budget and the discovery budget within
\* their limits.
THEOREM SessionTypeOK ==
    Spec => []TypeOK
<1>1. ASSUME Inv, ReadOK PROVE TypeOK
  <2>1. TypeOKPlan
    <3>0. /\ frontier \in Seq(Requests) /\ todo \in Seq(Requests) /\ limits \in Limits
          /\ spent \in Charges
      BY <1>1 DEF Inv, PlanOK
    <3>1. limits.nodes \in Nat /\ limits.references \in Nat /\ limits.bytes \in Nat
      BY <3>0, ContentAssumption
    <3>2. \A i \in DOMAIN frontier : frontier[i].uri \in Uris /\ frontier[i].kind \in Kinds
      <4>1. \A i \in DOMAIN frontier : frontier[i] \in Requests
        BY <3>0
      <4> QED
        BY <4>1 DEF Requests
    <3>3. \A k \in {"nodes", "references", "bytes"} : spent[k] \in 0..limits[k]
      BY <1>1, <3>0, <3>1 DEF Inv, PlanOK, Charges
    <3>4. stop.why \in Reasons /\ stop.uri \in Uris \cup {None}
      BY <1>1 DEF Inv, PlanOK
    <3> QED
      BY <1>1, <3>0, <3>2, <3>3, <3>4 DEF TypeOKPlan, Inv, PlanOK, Reasons
  <2>2. budget.requests \in 0..MaxRequests /\ budget.bytes \in 0..MaxReceived
    BY <1>1, SessionAssumption DEF Inv, BudgetOK
  <2>3. \A i \in DOMAIN requests :
          /\ requests[i].purpose \in Purposes
          /\ requests[i].outcome \in {"fetched", "failed", "blocked", "skipped"}
    <3>1. requests \in Seq(Sent)
      BY <1>1 DEF Inv, SessionOK
    <3>2. \A i \in DOMAIN requests : requests[i] \in Sent
      BY <3>1
    <3> QED
      BY <3>2 DEF Sent
  <2>4. refused \subseteq Uris
    BY <1>1 DEF Inv, ConsentOK
  <2> QED
    BY <1>1, <2>1, <2>2, <2>3, <2>4 DEF TypeOK, Inv, ConsentOK, SessionOK, ReadOK
<1> QED
  BY <1>1, ReadAlways, PTL

-----------------------------------------------------------------------------
(***************************************************************************)
(* The update check, for every clock, every sequence of releases, both     *)
(* builds and any number of commands at once.                              *)
(*                                                                         *)
(* What a person chose and when a check was recorded, as far as no older   *)
(* copy was written over it, is in the file or, on Windows between the     *)
(* removal and the rename, in the copy of the process that removed it; and *)
(* a process whose copy is not stale holds one that still says so.         *)
(***************************************************************************)

\* Settings that say what was saved last, where that was not exposed.
Honours(s) ==
    /\ off /\ "off" \notin exposed => ~s.check
    /\ checkedAt # None /\ "check" \notin exposed =>
         checkedAt \in 0..now /\ s.last \in 0..now /\ checkedAt <= s.last

Remembers(s) == Honours(s) /\ (skipped # None /\ "skip" \notin exposed => s.skip = skipped)

\* There is nothing to lose.
Untouched ==
    /\ off => "off" \in exposed
    /\ checkedAt # None => "check" \in exposed
    /\ skipped # None => "skip" \in exposed

\* The steps of a process that has read the settings and not yet asked.
Carrying == {"record", "fetch", "prompt", "update_write", "setting_write"}

FileKeeps ==
    /\ file \in Settings => Remembers(file)
    /\ file = Absent => Untouched \/ \E p \in Procs : removed[p]

\* What a copy says whoever has written since, and what it says when nobody has.
Plain(p) ==
    /\ stage[p] = "record" => mine[p].last \in 0..now
    /\ stage[p] = "prompt" => mine[p].skip # newest[p]
    /\ stage[p] = "save" => mine[p].skip = newest[p] \/ ~mine[p].check

Current(p) ==
    /\ stage[p] \in Carrying => Remembers(mine[p])
    /\ stage[p] = "save" =>
         Honours(mine[p]) /\ (mine[p].skip = newest[p] \/ Remembers(mine[p]))

CopyKeeps(p) == Plain(p) /\ (p \notin stale => Current(p))

Removals == \A p \in Procs : removed[p] => windows /\ stage[p] \in Writing

UpdateInv ==
    /\ UpdateTypeOK
    /\ Removals
    /\ FileKeeps
    /\ \A p \in Procs : CopyKeeps(p)

-----------------------------------------------------------------------------
LEMMA UpdateInitially == UpdateInit => UpdateInv
<1> SUFFICES ASSUME UpdateInit PROVE UpdateInv
  OBVIOUS
<1>1. DefaultSettings \in Settings /\ [DefaultSettings EXCEPT !.last = Future] \in Settings
  BY UpdateAssumption DEF DefaultSettings, Settings, Times, Future, Versions
<1>2. UpdateTypeOK
  <2>0. windows \in Builds /\ off = FALSE /\ stale \subseteq Procs /\ exposed \subseteq Savable
    BY DEF UpdateInit
  <2>1. /\ now \in 0..MaxTime /\ published \in Versions
        /\ checkedAt \in Times \cup {None} /\ skipped \in Versions \cup {None}
    BY UpdateAssumption DEF UpdateInit, Versions
  <2>4. file \in Settings \cup {Absent, Unreadable}
    BY <1>1 DEF UpdateInit
  <2>2. /\ stage \in [Procs -> Steps] /\ mine \in [Procs -> Settings]
        /\ newest \in [Procs -> Versions] /\ removed \in [Procs -> BOOLEAN]
    BY <1>1, UpdateAssumption DEF UpdateInit, Versions, Steps
  <2>3. env \in [Procs -> {None, TRUE}]
    BY Zenon DEF UpdateInit
  <2> QED
    BY <2>0, <2>1, <2>2, <2>3, <2>4, Zenon DEF UpdateTypeOK
<1>3. Removals
  BY DEF UpdateInit, Removals
<1>4. FileKeeps
  BY DEF UpdateInit, FileKeeps, Remembers, Honours, Untouched
<1>5. \A p \in Procs : CopyKeeps(p)
  BY DEF UpdateInit, CopyKeeps, Plain, Current, Carrying
<1> QED
  BY <1>2, <1>3, <1>4, <1>5 DEF UpdateInv

-----------------------------------------------------------------------------
(***************************************************************************)
(* The types, in the parts the actions disturb.                            *)
(***************************************************************************)

WorldTypes == windows \in Builds /\ now \in 0..MaxTime /\ published \in Versions
FileTypes == file \in Settings \cup {Absent, Unreadable}
ProcessTypes ==
    /\ stage \in [Procs -> Steps]
    /\ env \in [Procs -> {None, TRUE}]
    /\ mine \in [Procs -> Settings]
    /\ newest \in [Procs -> Versions]
    /\ removed \in [Procs -> BOOLEAN]
HistoryTypes ==
    /\ off \in BOOLEAN
    /\ checkedAt \in Times \cup {None}
    /\ skipped \in Versions \cup {None}
    /\ stale \subseteq Procs
    /\ exposed \subseteq Savable

LEMMA UpdateTypeParts ==
    UpdateTypeOK <=> WorldTypes /\ FileTypes /\ ProcessTypes /\ HistoryTypes
BY Zenon DEF UpdateTypeOK, WorldTypes, FileTypes, ProcessTypes, HistoryTypes

LEMMA SettingsFields ==
    ASSUME NEW s \in Settings
    PROVE  /\ s.check \in BOOLEAN /\ s.last \in Times \cup {None}
           /\ s.skip \in Versions \cup {None}
           /\ \A b \in BOOLEAN : [s EXCEPT !.check = b] \in Settings
           /\ \A l \in Times \cup {None} : [s EXCEPT !.last = l] \in Settings
           /\ \A v \in Versions : [s EXCEPT !.skip = v] \in Settings
BY DEF Settings

LEMMA ContentsAreSettings ==
    ASSUME FileTypes, WorldTypes, file # Unreadable
    PROVE  Contents \in Settings /\ Recorded(Contents) \in Settings
<1>1. DefaultSettings \in Settings
  BY DEF DefaultSettings, Settings
<1>2. Contents \in Settings
  BY <1>1 DEF Contents, FileTypes
<1>3. now \in Times \cup {None}
  BY DEF WorldTypes, Times
<1> QED
  BY <1>2, <1>3, SettingsFields DEF Recorded

LEMMA EndsTypes ==
    ASSUME NEW p \in Procs, ProcessTypes, Ends(p)
    PROVE  ProcessTypes'
<1>1. DefaultSettings \in Settings /\ 0 \in Versions
  BY UpdateAssumption DEF DefaultSettings, Settings, Versions
<1>2. stage' \in [Procs -> Steps] /\ mine' \in [Procs -> Settings]
      /\ newest' \in [Procs -> Versions] /\ removed' \in [Procs -> BOOLEAN]
  BY <1>1 DEF Ends, ProcessTypes, Steps
<1>3. env' \in [Procs -> {None, TRUE}]
  BY Zenon DEF Ends, ProcessTypes
<1> QED
  BY <1>2, <1>3, Zenon DEF ProcessTypes

LEMMA GoesTypes ==
    ASSUME NEW p \in Procs, ProcessTypes, NEW s \in Steps, Goes(p, s)
    PROVE  ProcessTypes'
<1>1. stage' \in [Procs -> Steps] /\ removed' \in [Procs -> BOOLEAN]
  BY DEF Goes, ProcessTypes
<1>2. env' \in [Procs -> {None, TRUE}]
  BY Zenon DEF Goes, ProcessTypes
<1> QED
  BY <1>1, <1>2, Zenon DEF Goes, ProcessTypes

LEMMA AfterTypes ==
    ASSUME NEW p \in Procs, ProcessTypes, After(p)
    PROVE  ProcessTypes'
<1>1. Goes(p, "fetch") \/ Goes(p, "update_install") \/ Ends(p)
  BY DEF After
<1>2. {"fetch", "update_install"} \subseteq Steps
  BY DEF Steps
<1> QED
  BY <1>1, <1>2, GoesTypes, EndsTypes

\* The step of a process that takes one.
Acts(p) ==
    \/ StartCheck(p)
    \/ \E enable \in BOOLEAN : ReadSetting(p, enable)
    \/ WriteSettings(p)
    \/ RemoveOld(p)
    \/ WriteFails(p)
    \/ FetchIndex(p)
    \/ AnswerAndSave(p)
    \/ AnswerAndGo(p)
    \/ RunUpdate(p)
    \/ UpdateRead(p)
    \/ UpdateInstall(p)
    \/ Killed(p)

LEMMA UpdateSteps ==
    ASSUME [UpdateNext]_updateVars
    PROVE  Tick \/ Publish \/ (\E p \in Procs : Acts(p)) \/ UNCHANGED updateVars
BY Zenon DEF UpdateNext, Acts

LEMMA ProcessTypesKept ==
    ASSUME WorldTypes, FileTypes, ProcessTypes, [UpdateNext]_updateVars
    PROVE  ProcessTypes'
<1>1. CASE Tick \/ Publish \/ UNCHANGED updateVars
  BY <1>1, Zenon DEF Tick, Publish, updateVars, ProcessTypes
<1>2. ASSUME NEW p \in Procs, Acts(p) PROVE ProcessTypes'
  <2>0. mine[p] \in Settings /\ newest[p] \in Versions
    BY DEF ProcessTypes
  <2>1. CASE StartCheck(p)
    <3>1. PICK e \in {None, TRUE} : env' = [env EXCEPT ![p] = e]
      BY <2>1, Zenon DEF StartCheck
    <3>2. env' \in [Procs -> {None, TRUE}]
      BY <3>1, Zenon DEF ProcessTypes
    <3>3. Recorded(Contents) \in Settings
      BY <2>1, ContentsAreSettings DEF StartCheck
    <3>4. stage' \in [Procs -> Steps] /\ mine' \in [Procs -> Settings]
      BY <2>1, <3>3 DEF StartCheck, ProcessTypes, Steps, Writing
    <3> QED
      BY <2>1, <3>2, <3>4, Zenon DEF StartCheck, ProcessTypes
  <2>2. ASSUME NEW enable \in BOOLEAN, ReadSetting(p, enable) PROVE ProcessTypes'
    <3>1. [Contents EXCEPT !.check = enable] \in Settings
      BY <2>2, ContentsAreSettings, SettingsFields DEF ReadSetting
    <3>2. stage' \in [Procs -> Steps] /\ mine' \in [Procs -> Settings]
      BY <2>2, <3>1 DEF ReadSetting, ProcessTypes, Steps, Writing
    <3> QED
      BY <2>2, <3>2, Zenon DEF ReadSetting, ProcessTypes
  <2>3. CASE WriteSettings(p) \/ WriteFails(p)
    BY <2>3, AfterTypes, Zenon DEF WriteSettings, WriteFails
  <2>4. CASE RemoveOld(p)
    <3>1. removed' \in [Procs -> BOOLEAN]
      BY <2>4 DEF RemoveOld, ProcessTypes
    <3> QED
      BY <2>4, <3>1, Zenon DEF RemoveOld, ProcessTypes
  <2>5. CASE FetchIndex(p)
    <3>1. CASE Ends(p)
      BY <3>1, EndsTypes
    <3>2. CASE ~Ends(p)
      <4>1. /\ newest' = [newest EXCEPT ![p] = published]
            /\ stage' = [stage EXCEPT ![p] = "prompt"]
            /\ UNCHANGED <<env, mine, removed>>
        BY <2>5, <3>2, Zenon DEF FetchIndex
      <4>2. stage' \in [Procs -> Steps] /\ newest' \in [Procs -> Versions]
        BY <4>1 DEF ProcessTypes, WorldTypes, Steps
      <4> QED
        BY <4>1, <4>2, Zenon DEF ProcessTypes
    <3> QED
      BY <3>1, <3>2
  <2>6. CASE AnswerAndSave(p)
    <3>1. /\ stage' = [stage EXCEPT ![p] = "save"]
          /\ \/ mine' = [mine EXCEPT ![p] = [mine[p] EXCEPT !.skip = newest[p]]]
             \/ mine' = [mine EXCEPT ![p] = [mine[p] EXCEPT !.check = FALSE]]
      BY <2>6 DEF AnswerAndSave, ProcessTypes
    <3>2. [mine[p] EXCEPT !.skip = newest[p]] \in Settings
          /\ [mine[p] EXCEPT !.check = FALSE] \in Settings
      BY <2>0, SettingsFields
    <3>3. mine' \in [Procs -> Settings] /\ stage' \in [Procs -> Steps]
      BY <3>1, <3>2 DEF ProcessTypes, Steps, Writing
    <3> QED
      BY <2>6, <3>3, Zenon DEF AnswerAndSave, ProcessTypes
  <2>7. CASE AnswerAndGo(p) \/ UpdateInstall(p) \/ Killed(p)
    BY <2>7, EndsTypes, Zenon DEF AnswerAndGo, UpdateInstall, Killed
  <2>8. "update_read" \in Steps /\ "update_install" \in Steps
    BY DEF Steps
  <2>9. CASE RunUpdate(p)
    BY <2>8, <2>9, GoesTypes, Zenon DEF RunUpdate
  <2>10. CASE UpdateRead(p)
    <3>1. CASE file = Unreadable
      BY <2>8, <2>10, <3>1, GoesTypes, Zenon DEF UpdateRead
    <3>2. CASE file # Unreadable
      <4>1. /\ mine' = [mine EXCEPT ![p] = Recorded(Contents)]
            /\ stage' = [stage EXCEPT ![p] = "update_write"]
            /\ UNCHANGED <<env, newest, removed>>
        BY <2>10, <3>2, Zenon DEF UpdateRead
      <4>2. Recorded(Contents) \in Settings
        BY <3>2, ContentsAreSettings
      <4>3. mine' \in [Procs -> Settings] /\ stage' \in [Procs -> Steps]
        BY <4>1, <4>2 DEF ProcessTypes, Steps, Writing
      <4> QED
        BY <4>1, <4>3, Zenon DEF ProcessTypes
    <3> QED
      BY <3>1, <3>2
  <2> QED
    BY <1>2, <2>1, <2>2, <2>3, <2>4, <2>5, <2>6, <2>7, <2>9, <2>10, Zenon DEF Acts
<1> QED
  BY <1>1, <1>2, UpdateSteps

LEMMA OtherTypesKept ==
    ASSUME WorldTypes, FileTypes, ProcessTypes, HistoryTypes, [UpdateNext]_updateVars
    PROVE  WorldTypes' /\ FileTypes' /\ HistoryTypes'
<1>1. CASE Tick \/ Publish \/ UNCHANGED updateVars
  <2>1. WorldTypes'
    BY <1>1, UpdateAssumption DEF Tick, Publish, updateVars, WorldTypes
  <2> QED
    BY <1>1, <2>1, Zenon DEF Tick, Publish, updateVars, FileTypes, HistoryTypes, history
<1>2. ASSUME NEW p \in Procs, Acts(p) PROVE WorldTypes' /\ FileTypes' /\ HistoryTypes'
  <2>0. mine[p] \in Settings /\ newest[p] \in Versions
    BY DEF ProcessTypes
  <2>1. WorldTypes'
    BY <1>2, Zenon
       DEF Acts, StartCheck, ReadSetting, WriteSettings, RemoveOld, WriteFails, FetchIndex,
           AnswerAndSave, AnswerAndGo, RunUpdate, UpdateRead, UpdateInstall, Killed, world,
           WorldTypes
  <2>2. CASE WriteSettings(p)
    <3>1. file' \in Settings
      BY <2>0, <2>2 DEF WriteSettings
    <3>2. off' \in BOOLEAN
      BY <2>2, Zenon DEF WriteSettings
    <3>3. checkedAt' \in Times \cup {None} /\ skipped' \in Versions \cup {None}
      BY <2>0, <2>2, SettingsFields DEF WriteSettings, HistoryTypes
    <3>4. stale' \subseteq Procs /\ exposed' \subseteq Savable
      BY <2>2 DEF WriteSettings, HistoryTypes
    <3> QED
      BY <2>1, <3>1, <3>2, <3>3, <3>4, Zenon DEF FileTypes, HistoryTypes
  <2>3. CASE RemoveOld(p)
    BY <2>1, <2>3, Zenon DEF RemoveOld, FileTypes, HistoryTypes, history
  <2>4. CASE StartCheck(p) \/ \E enable \in BOOLEAN : ReadSetting(p, enable)
    <3>1. /\ Reads(p) /\ UNCHANGED <<file, checkedAt, skipped, exposed>>
          /\ off' \in BOOLEAN
      BY <2>4, Zenon DEF StartCheck, ReadSetting, HistoryTypes
    <3>2. stale' \subseteq Procs
      BY <3>1 DEF Reads, HistoryTypes
    <3> QED
      BY <2>1, <3>1, <3>2, Zenon DEF FileTypes, HistoryTypes
  <2>5. CASE WriteFails(p) \/ Killed(p)
    <3>1. Leaves(p) /\ UNCHANGED <<file, off, checkedAt, skipped, stale>>
      BY <2>5, Zenon DEF WriteFails, Killed
    <3>2. exposed' \subseteq Savable
      BY <3>1 DEF Leaves, HistoryTypes
    <3> QED
      BY <2>1, <3>1, <3>2, Zenon DEF FileTypes, HistoryTypes
  <2>6. CASE UpdateRead(p)
    <3>1. /\ Reads(p) \/ UNCHANGED stale
          /\ UNCHANGED <<file, off, checkedAt, skipped, exposed>>
      BY <2>6, Zenon DEF UpdateRead
    <3>2. stale' \subseteq Procs
      BY <3>1 DEF Reads, HistoryTypes
    <3> QED
      BY <2>1, <3>1, <3>2, Zenon DEF FileTypes, HistoryTypes
  <2>7. CASE UNCHANGED <<file, history>>
    BY <2>1, <2>7, Zenon DEF history, FileTypes, HistoryTypes
  <2> QED
    BY <1>2, <2>2, <2>3, <2>4, <2>5, <2>6, <2>7, Zenon
       DEF Acts, FetchIndex, AnswerAndSave, AnswerAndGo, RunUpdate, UpdateInstall
<1> QED
  BY <1>1, <1>2, UpdateSteps

-----------------------------------------------------------------------------
(***************************************************************************)
(* What a step does to the process that takes it, and to the others.       *)
(***************************************************************************)

LEMMA OthersLeft ==
    ASSUME ProcessTypes, NEW p \in Procs, NEW q \in Procs, q # p, Acts(p)
    PROVE  /\ stage'[q] = stage[q] /\ mine'[q] = mine[q] /\ newest'[q] = newest[q]
           /\ removed'[q] = removed[q]
<1> DEFINE Left == /\ stage'[q] = stage[q] /\ mine'[q] = mine[q] /\ newest'[q] = newest[q]
                   /\ removed'[q] = removed[q]
<1>1. CASE StartCheck(p) \/ (\E enable \in BOOLEAN : ReadSetting(p, enable))
           \/ RemoveOld(p) \/ AnswerAndSave(p)
  BY <1>1 DEF StartCheck, ReadSetting, RemoveOld, AnswerAndSave, ProcessTypes
<1>2. CASE Ends(p)
  BY <1>2 DEF Ends, ProcessTypes
<1>3. CASE \E s \in Steps : Goes(p, s)
  BY <1>3 DEF Goes, ProcessTypes
<1>4. CASE FetchIndex(p)
  <2>1. CASE ~Ends(p)
    <3>1. /\ newest' = [newest EXCEPT ![p] = published]
          /\ stage' = [stage EXCEPT ![p] = "prompt"]
          /\ UNCHANGED <<mine, removed>>
      BY <1>4, <2>1, Zenon DEF FetchIndex
    <3> QED
      BY <3>1 DEF ProcessTypes
  <2> QED
    BY <1>2, <2>1
<1>5. "update_read" \in Steps /\ "update_install" \in Steps
  BY DEF Steps
<1>6. CASE UpdateRead(p)
  <2>1. CASE ~Goes(p, "update_install")
    <3>1. /\ mine' = [mine EXCEPT ![p] = Recorded(Contents)]
          /\ stage' = [stage EXCEPT ![p] = "update_write"]
          /\ UNCHANGED <<newest, removed>>
      BY <1>6, <2>1, Zenon DEF UpdateRead
    <3> QED
      BY <3>1 DEF ProcessTypes
  <2> QED
    BY <1>3, <1>5, <2>1
<1>7. After(p) => Ends(p) \/ \E s \in Steps : Goes(p, s)
  BY DEF After, Steps
<1> HIDE DEF Left
<1> QED
  BY <1>1, <1>2, <1>3, <1>4, <1>5, <1>6, <1>7, Zenon
     DEF Acts, WriteSettings, WriteFails, AnswerAndGo, RunUpdate, UpdateInstall, Killed, Left

LEMMA RemovalsKept ==
    ASSUME ProcessTypes, Removals, [UpdateNext]_updateVars
    PROVE  Removals'
<1>1. CASE Tick \/ Publish \/ UNCHANGED updateVars
  BY <1>1 DEF Tick, Publish, updateVars, Removals
<1>2. ASSUME NEW p \in Procs, Acts(p), NEW q \in Procs, removed'[q]
      PROVE  windows' /\ stage'[q] \in Writing
  <2>0. windows' = windows
    BY <1>2, Zenon
       DEF Acts, StartCheck, ReadSetting, WriteSettings, RemoveOld, WriteFails, FetchIndex,
           AnswerAndSave, AnswerAndGo, RunUpdate, UpdateRead, UpdateInstall, Killed, world
  <2>1. CASE q # p
    <3>1. stage'[q] = stage[q] /\ removed'[q] = removed[q]
      BY <1>2, <2>1, OthersLeft
    <3> QED
      BY <1>2, <2>0, <2>1, <3>1, Zenon DEF Removals
  <2>2. CASE q = p
    <3>1. ~Ends(p) /\ ~(\E s \in Steps : Goes(p, s))
      BY <1>2, <2>2 DEF Ends, Goes, ProcessTypes
    <3>2. ~After(p)
      BY <3>1 DEF After, Steps
    <3>3. CASE RemoveOld(p)
      BY <2>0, <2>2, <3>3 DEF RemoveOld
    <3>4. CASE ~RemoveOld(p)
      <4>1. "update_read" \in Steps /\ "update_install" \in Steps
        BY DEF Steps
      <4>2. UNCHANGED removed /\ stage[p] \notin Writing
        BY <1>2, <3>1, <3>2, <3>4, <4>1
           DEF Acts, StartCheck, ReadSetting, WriteSettings, WriteFails, FetchIndex,
               AnswerAndSave, AnswerAndGo, RunUpdate, UpdateRead, UpdateInstall, Killed, Writing
      <4> QED
        BY <1>2, <2>2, <4>2 DEF Removals
    <3> QED
      BY <3>3, <3>4
  <2> QED
    BY <2>1, <2>2
<1> QED
  BY <1>1, <1>2, UpdateSteps DEF Removals

-----------------------------------------------------------------------------
(***************************************************************************)
(* What a step does to what was saved.                                     *)
(***************************************************************************)

\* A step that saves nothing: what was saved may only be exposed or withdrawn.
SavesNothing ==
    /\ now' \in {now, now + 1}
    /\ off' => off
    /\ UNCHANGED <<checkedAt, skipped>>
    /\ exposed \subseteq exposed'

LEMMA StillRemembered ==
    ASSUME NEW s, WorldTypes, SavesNothing
    PROVE  (Honours(s) => Honours(s)') /\ (Remembers(s) => Remembers(s)')
<1>1. Honours(s) => Honours(s)'
  BY UpdateAssumption DEF Honours, WorldTypes, SavesNothing
<1> QED
  BY <1>1 DEF Remembers, SavesNothing

\* The same of a copy, or of the file, that the step leaves alone.
LEMMA CopyStillRemembered ==
    ASSUME NEW p \in Procs, WorldTypes, SavesNothing, mine'[p] = mine[p]
    PROVE  /\ Honours(mine[p]) => Honours(mine[p])'
           /\ Remembers(mine[p]) => Remembers(mine[p])'
<1>1. Honours(mine[p]) => Honours(mine[p])'
  BY UpdateAssumption DEF Honours, WorldTypes, SavesNothing
<1> QED
  BY <1>1 DEF Remembers, SavesNothing

LEMMA CopyLeft ==
    ASSUME NEW p \in Procs, WorldTypes, SavesNothing, CopyKeeps(p),
           mine'[p] = mine[p], stage'[p] = stage[p], newest'[p] = newest[p],
           p \in stale => p \in stale'
    PROVE  CopyKeeps(p)'
<1>1. mine[p].last \in 0..now => mine[p].last \in 0..now'
  BY UpdateAssumption DEF WorldTypes, SavesNothing
<1>2. Plain(p)'
  BY <1>1 DEF CopyKeeps, Plain
<1>3. Current(p) => Current(p)'
  BY CopyStillRemembered DEF Current, Carrying
<1> QED
  BY <1>2, <1>3 DEF CopyKeeps

LEMMA FileLeft ==
    ASSUME WorldTypes, FileKeeps, SavesNothing, UNCHANGED file,
           file = Absent /\ (\E q \in Procs : removed[q])
              => Untouched' \/ \E q \in Procs : removed'[q]
    PROVE  FileKeeps'
<1>1. Remembers(file) => Remembers(file)'
  <2>1. Honours(file) => Honours(file)'
    BY UpdateAssumption DEF Honours, WorldTypes, SavesNothing
  <2> QED
    BY <2>1 DEF Remembers, SavesNothing
<1>2. Untouched => Untouched'
  BY DEF Untouched, SavesNothing
<1> QED
  BY <1>1, <1>2 DEF FileKeeps

\* What a process reads of a file that is not being replaced says what was saved.
LEMMA ContentsRemembered ==
    ASSUME WorldTypes, FileTypes, FileKeeps, file # Unreadable, ~BeingReplaced
    PROVE  Remembers(Contents) /\ Remembers(Recorded(Contents))
<1>1. Contents \in Settings
  BY ContentsAreSettings
<1>2. CASE file = Absent
  <2>1. Untouched
    BY <1>2 DEF FileKeeps, BeingReplaced
  <2> QED
    BY <1>1, <2>1 DEF Untouched, Remembers, Honours, Recorded, Settings
<1>3. CASE file # Absent
  <2>1. Contents = file /\ file \in Settings
    BY <1>3 DEF Contents, FileTypes
  <2>2. Remembers(file)
    BY <2>1 DEF FileKeeps
  <2>3. /\ Recorded(file).check = file.check /\ Recorded(file).skip = file.skip
        /\ Recorded(file).last = now
    BY <2>1 DEF Recorded, Settings
  <2> QED
    BY <2>1, <2>2, <2>3 DEF Remembers, Honours, WorldTypes
<1> QED
  BY <1>2, <1>3

\* A process that ends, or has yet to read the settings, holds no copy.
LEMMA NoCopy ==
    ASSUME NEW p \in Procs, ProcessTypes, Ends(p) \/ Goes(p, "update_read")
                                         \/ Goes(p, "update_install")
    PROVE  CopyKeeps(p)' /\ ~removed'[p]
BY DEF Ends, Goes, ProcessTypes, CopyKeeps, Plain, Current, Carrying

\* What a write puts in the file says what is then saved, also when the copy is
\* stale: what it may undo is exposed.
LEMMA WrittenRemembers ==
    ASSUME NEW p \in Procs, WorldTypes, ProcessTypes, HistoryTypes, CopyKeeps(p),
           WriteSettings(p), NEW s, s = mine[p]
    PROVE  Remembers(s)'
<1>1. /\ off' = (off \/ (TurnsOff(p) /\ \A q \in Procs : ~TurnsOn(q)))
      /\ checkedAt' = IF stage[p] = "record" THEN s.last ELSE checkedAt
      /\ skipped' = IF Skips(p) THEN newest[p] ELSE skipped
      /\ now' = now /\ stage[p] \in Writing
      /\ exposed' = (IF p \in stale THEN Savable ELSE exposed) \ Saves(p)
  BY Zenon DEF WriteSettings, world
<1>2. /\ "off" \in Saves(p) <=> TurnsOff(p)
      /\ "check" \in Saves(p) <=> stage[p] = "record"
      /\ "skip" \in Saves(p) <=> Skips(p)
  BY DEF Saves, Savable
<1>3. ASSUME NEW c \in Savable, c \notin Saves(p), c \notin exposed'
      PROVE  Current(p) /\ c \notin exposed
  BY <1>1, <1>3 DEF CopyKeeps
<1>4. Current(p) => Honours(s) /\ (Skips(p) \/ Remembers(s))
  <2>1. Current(p) => Honours(mine[p]) /\ (Skips(p) \/ Remembers(mine[p]))
    BY <1>1 DEF Current, Carrying, Writing, Skips, Remembers
  <2> QED
    BY <2>1, Zenon DEF Honours, Remembers
<1>5. off' /\ "off" \notin exposed' => ~s.check
  <2>1. CASE TurnsOff(p)
    BY <2>1 DEF TurnsOff, Skips, CopyKeeps, Plain
  <2>2. CASE ~TurnsOff(p)
    <3>1. off' => off
      BY <1>1, <2>2, Zenon
    <3> QED
      BY <1>2, <1>3, <1>4, <2>2, <3>1 DEF Savable, Honours
  <2> QED
    BY <2>1, <2>2
<1>6. checkedAt' # None /\ "check" \notin exposed' =>
        checkedAt' \in 0..now' /\ s.last \in 0..now' /\ checkedAt' <= s.last
  <2>1. CASE stage[p] = "record"
    <3>1. s.last \in 0..now /\ checkedAt' = s.last
      BY <1>1, <2>1 DEF CopyKeeps, Plain
    <3> QED
      BY <1>1, <3>1 DEF WorldTypes
  <2>2. CASE stage[p] # "record"
    BY <1>1, <1>2, <1>3, <1>4, <2>2 DEF Savable, Honours
  <2> QED
    BY <2>1, <2>2
<1>7. skipped' # None /\ "skip" \notin exposed' => s.skip = skipped'
  <2>1. CASE Skips(p)
    BY <1>1, <2>1 DEF Skips
  <2>2. CASE ~Skips(p)
    BY <1>1, <1>2, <1>3, <1>4, <2>2 DEF Savable, Remembers
  <2> QED
    BY <2>1, <2>2
<1> QED
  BY <1>5, <1>6, <1>7 DEF Remembers, Honours

LEMMA WriteKeeps ==
    ASSUME NEW p \in Procs, WorldTypes, ProcessTypes, HistoryTypes,
           \A q \in Procs : CopyKeeps(q), WriteSettings(p)
    PROVE  FileKeeps' /\ \A q \in Procs : CopyKeeps(q)'
<1> DEFINE s == mine[p]
<1>0. s \in Settings
  BY DEF ProcessTypes
<1>1. \A z : z = mine[p] => Remembers(z)'
  BY WrittenRemembers
<1>2. file' = s /\ now' = now
  BY Zenon DEF WriteSettings, world
<1>3. FileKeeps'
  <2>1. file' # Absent
    BY <1>0, <1>2, MarkersAssumption
  <2>2. Remembers(file)'
    BY <1>1, <1>2 DEF Remembers, Honours
  <2> QED
    BY <2>1, <2>2 DEF FileKeeps
<1>4. CopyKeeps(p)'
  <2>1. CASE stage[p] = "record"
    <3>1. stage'[p] = "fetch" /\ mine'[p] = s
      BY <2>1 DEF WriteSettings, After, Goes, ProcessTypes
    <3>2. Remembers(mine[p])'
      BY <1>1, <3>1 DEF Remembers, Honours
    <3> QED
      BY <3>1, <3>2 DEF CopyKeeps, Plain, Current, Carrying
  <2>2. CASE stage[p] # "record"
    <3>1. Ends(p) \/ Goes(p, "update_install")
      BY <2>2 DEF WriteSettings, After
    <3> QED
      BY <3>1, NoCopy
  <2> QED
    BY <2>1, <2>2
<1>5. ASSUME NEW q \in Procs, q # p PROVE CopyKeeps(q)'
  <2>1. /\ stage'[q] = stage[q] /\ mine'[q] = mine[q] /\ newest'[q] = newest[q]
    BY <1>5, OthersLeft, Zenon DEF Acts
  <2>2. Plain(q)'
    BY <1>2, <2>1 DEF CopyKeeps, Plain
  <2>3. q \in stale' \/ ~Holding(q)
    BY <1>5 DEF WriteSettings
  <2>4. ~Holding(q) => Current(q)'
    BY <2>1 DEF Holding, Current, Carrying
  <2> QED
    BY <2>2, <2>3, <2>4 DEF CopyKeeps
<1> QED
  BY <1>3, <1>4, <1>5

LEMMA OnlyWritesSave ==
    ASSUME NEW p \in Procs, Acts(p), ~WriteSettings(p), HistoryTypes
    PROVE  SavesNothing /\ now' = now /\ \A q \in Procs \ {p} : q \in stale => q \in stale'
<1>0. now' = now
  BY Zenon
     DEF Acts, StartCheck, ReadSetting, WriteSettings, RemoveOld, WriteFails, FetchIndex,
         AnswerAndSave, AnswerAndGo, RunUpdate, UpdateRead, UpdateInstall, Killed, world
<1>1. CASE UNCHANGED history
  BY <1>0, <1>1 DEF history, SavesNothing
<1>2. CASE StartCheck(p) \/ (\E enable \in BOOLEAN : ReadSetting(p, enable)) \/ UpdateRead(p)
  <2>1. /\ off' => off
        /\ UNCHANGED <<checkedAt, skipped, exposed>>
        /\ Reads(p) \/ UNCHANGED stale
    <3>1. CASE StartCheck(p) \/ UpdateRead(p)
      <4>1. /\ UNCHANGED <<off, checkedAt, skipped, exposed>>
            /\ Reads(p) \/ UNCHANGED stale
        BY <3>1, Zenon DEF StartCheck, UpdateRead
      <4> QED
        BY <4>1
    <3>2. ASSUME NEW enable \in BOOLEAN, ReadSetting(p, enable)
          PROVE  (off' => off) /\ UNCHANGED <<checkedAt, skipped, exposed>> /\ Reads(p)
      BY <3>2, Zenon DEF ReadSetting
    <3> QED
      BY <1>2, <3>1, <3>2, Zenon
  <2> QED
    BY <1>0, <2>1 DEF SavesNothing, Reads
<1>3. CASE WriteFails(p) \/ Killed(p)
  <2>1. UNCHANGED <<off, checkedAt, skipped, stale>> /\ Leaves(p)
    BY <1>3, Zenon DEF WriteFails, Killed
  <2>2. exposed \subseteq exposed'
    BY <2>1 DEF Leaves, HistoryTypes
  <2> QED
    BY <1>0, <2>1, <2>2 DEF SavesNothing
<1> QED
  BY <1>1, <1>2, <1>3, Zenon
     DEF Acts, RemoveOld, FetchIndex, AnswerAndSave, AnswerAndGo, RunUpdate, UpdateInstall

\* A process that has removed the file and goes on leaves FileKeeps to itself,
\* one that stops exposes everything.
LEMMA FileKept ==
    ASSUME UpdateInv, NEW p \in Procs, Acts(p), ~WriteSettings(p)
    PROVE  FileKeeps'
<1>0. WorldTypes /\ FileTypes /\ ProcessTypes /\ HistoryTypes /\ Removals /\ FileKeeps
  BY UpdateTypeParts, Zenon DEF UpdateInv
<1>1. SavesNothing
  BY <1>0, OnlyWritesSave
<1>2. CASE RemoveOld(p)
  <2>1. removed'[p] /\ file' = Absent
    BY <1>0, <1>2 DEF RemoveOld, ProcessTypes
  <2> QED
    BY <2>1, MarkersAssumption DEF FileKeeps
<1>3. CASE WriteFails(p) \/ Killed(p)
  <2>1. UNCHANGED file /\ Leaves(p)
    BY <1>3, Zenon DEF WriteFails, Killed
  <2>2. file = Absent /\ removed[p] => Untouched'
    BY <2>1, <1>0, <1>1 DEF Leaves, Untouched, Savable
  <2>3. \A q \in Procs \ {p} : removed'[q] = removed[q]
    BY <1>0, OthersLeft
  <2> QED
    BY <1>0, <1>1, <2>1, <2>2, <2>3, FileLeft
<1>4. CASE ~(RemoveOld(p) \/ WriteFails(p) \/ Killed(p))
  <2>1. UNCHANGED file /\ stage[p] \notin Writing
    BY <1>4, Zenon
       DEF Acts, StartCheck, ReadSetting, FetchIndex, AnswerAndSave, AnswerAndGo, RunUpdate,
           UpdateRead, UpdateInstall, Writing
  <2>2. ~removed[p]
    BY <1>0, <2>1 DEF Removals
  <2>3. \A q \in Procs \ {p} : removed'[q] = removed[q]
    BY <1>0, OthersLeft
  <2> QED
    BY <1>0, <1>1, <2>1, <2>2, <2>3, FileLeft
<1> QED
  BY <1>2, <1>3, <1>4

\* A copy is as new as the file it was read from.
LEMMA ReadKeeps ==
    ASSUME UpdateInv, NEW p \in Procs, StartCheck(p) \/ (UpdateRead(p) /\ file # Unreadable)
    PROVE  CopyKeeps(p)'
<1>0. WorldTypes /\ FileTypes /\ ProcessTypes /\ HistoryTypes /\ FileKeeps
  BY UpdateTypeParts, Zenon DEF UpdateInv
<1>1. /\ mine' = [mine EXCEPT ![p] = Recorded(Contents)]
      /\ \/ stage' = [stage EXCEPT ![p] = "record"]
         \/ stage' = [stage EXCEPT ![p] = "update_write"]
      /\ UNCHANGED <<off, checkedAt, skipped, exposed, now>>
      /\ file # Unreadable /\ Reads(p)
  BY Zenon DEF StartCheck, UpdateRead, world
<1>2. mine'[p] = Recorded(Contents) /\ stage'[p] \in {"record", "update_write"}
  BY <1>0, <1>1 DEF ProcessTypes
<1>3. Recorded(Contents).last = now
  BY <1>0, <1>1, ContentsAreSettings DEF Recorded, Settings
<1>4. Plain(p)'
  BY <1>0, <1>1, <1>2, <1>3, UpdateAssumption DEF Plain, WorldTypes
<1>5. p \notin stale' => ~BeingReplaced
  BY <1>1 DEF Reads
<1>6. p \notin stale' => Remembers(mine[p])'
  <2>1. p \notin stale' => Remembers(Recorded(Contents))
    BY <1>0, <1>1, <1>5, ContentsRemembered
  <2>2. Remembers(Recorded(Contents)) => Remembers(mine[p])'
    BY <1>1, <1>2 DEF Remembers, Honours
  <2> QED
    BY <2>1, <2>2
<1> QED
  BY <1>2, <1>4, <1>6 DEF CopyKeeps, Current

LEMMA ReadSettingKeeps ==
    ASSUME UpdateInv, NEW p \in Procs, NEW enable \in BOOLEAN, ReadSetting(p, enable)
    PROVE  CopyKeeps(p)'
<1>0. WorldTypes /\ FileTypes /\ ProcessTypes /\ FileKeeps
  BY UpdateTypeParts, Zenon DEF UpdateInv
<1>1. /\ mine' = [mine EXCEPT ![p] = [Contents EXCEPT !.check = enable]]
      /\ stage' = [stage EXCEPT ![p] = "setting_write"]
      /\ off' = (off /\ ~enable)
      /\ UNCHANGED <<checkedAt, skipped, exposed, now>>
      /\ file # Unreadable /\ Reads(p)
  BY Zenon DEF ReadSetting, world
<1>2. Contents \in Settings
  BY <1>0, <1>1, ContentsAreSettings
<1>3. /\ mine'[p].check = enable /\ mine'[p].last = Contents.last
      /\ mine'[p].skip = Contents.skip /\ stage'[p] = "setting_write"
  BY <1>0, <1>1, <1>2 DEF ProcessTypes, Settings
<1>4. p \notin stale' => ~BeingReplaced
  BY <1>1 DEF Reads
<1>5. p \notin stale' => Remembers(Contents)
  BY <1>0, <1>1, <1>4, ContentsRemembered
<1>6. Remembers(Contents) => Remembers(mine[p])'
  BY <1>1, <1>3 DEF Remembers, Honours
<1> QED
  BY <1>3, <1>5, <1>6 DEF CopyKeeps, Current, Plain

\* Whatever else a process does, its copy still says what was saved.
LEMMA CopyKept ==
    ASSUME UpdateInv, NEW p \in Procs, Acts(p), ~WriteSettings(p)
    PROVE  CopyKeeps(p)'
<1>0. WorldTypes /\ FileTypes /\ ProcessTypes /\ HistoryTypes /\ CopyKeeps(p)
  BY UpdateTypeParts, Zenon DEF UpdateInv
<1>1. mine[p] \in Settings /\ newest[p] \in Versions
  BY <1>0 DEF ProcessTypes
<1>2. SavesNothing /\ now' = now
  BY <1>0, OnlyWritesSave
<1>3. CASE StartCheck(p) \/ (UpdateRead(p) /\ file # Unreadable)
  BY <1>3, ReadKeeps
<1>4. CASE \E enable \in BOOLEAN : ReadSetting(p, enable)
  BY <1>4, ReadSettingKeeps
<1>5. CASE RemoveOld(p)
  <2>1. UNCHANGED <<stage, mine, newest, stale>>
    BY <1>5, Zenon DEF RemoveOld, history
  <2> QED
    BY <1>0, <1>2, <2>1, CopyLeft
<1>6. CASE WriteFails(p)
  <2>1. CASE stage[p] = "record"
    <3>1. stage'[p] = "fetch" /\ mine'[p] = mine[p] /\ UNCHANGED stale
      BY <1>0, <1>6, <2>1 DEF WriteFails, After, Goes, ProcessTypes
    <3>2. p \notin stale => Remembers(mine[p])
      BY <1>0, <2>1 DEF CopyKeeps, Current, Carrying
    <3>3. p \notin stale' => Remembers(mine[p])'
      BY <1>0, <1>2, <3>1, <3>2, CopyStillRemembered
    <3> QED
      BY <3>1, <3>3 DEF CopyKeeps, Plain, Current
  <2>2. CASE stage[p] # "record"
    <3>1. Ends(p) \/ Goes(p, "update_install")
      BY <1>6, <2>2 DEF WriteFails, After
    <3> QED
      BY <1>0, <3>1, NoCopy
  <2> QED
    BY <2>1, <2>2
<1>7. CASE FetchIndex(p) /\ ~Ends(p)
  <2>1. /\ stage[p] = "fetch" /\ Offers(mine[p])
        /\ newest' = [newest EXCEPT ![p] = published]
        /\ stage' = [stage EXCEPT ![p] = "prompt"]
        /\ UNCHANGED <<mine, stale>>
    BY <1>7, Zenon DEF FetchIndex, history
  <2>2. stage'[p] = "prompt" /\ newest'[p] = published /\ mine'[p] = mine[p]
    BY <1>0, <2>1 DEF ProcessTypes
  <2>3. mine[p].skip # published /\ (p \notin stale => Remembers(mine[p]))
    BY <1>0, <2>1 DEF CopyKeeps, Current, Carrying, Offers
  <2>4. p \notin stale' => Remembers(mine[p])'
    BY <1>0, <1>2, <2>1, <2>2, <2>3, CopyStillRemembered
  <2> QED
    BY <2>2, <2>3, <2>4 DEF CopyKeeps, Plain, Current
<1>8. CASE AnswerAndSave(p)
  <2>1. /\ stage[p] = "prompt"
        /\ stage' = [stage EXCEPT ![p] = "save"]
        /\ UNCHANGED <<newest, off, checkedAt, skipped, stale, exposed>>
    BY <1>8, Zenon DEF AnswerAndSave, history
  <2>2. stage'[p] = "save"
    BY <1>0, <2>1 DEF ProcessTypes
  <2>3. p \notin stale => Remembers(mine[p])
    BY <1>0, <2>1 DEF CopyKeeps, Current, Carrying
  <2>4. \/ /\ mine'[p].skip = newest[p] /\ mine'[p].check = mine[p].check
           /\ mine'[p].last = mine[p].last
        \/ /\ mine'[p].skip = mine[p].skip /\ ~mine'[p].check
           /\ mine'[p].last = mine[p].last
    BY <1>0, <1>1, <1>8 DEF AnswerAndSave, ProcessTypes, Settings
  <2>5. Remembers(mine[p]) =>
          Honours(mine[p])' /\ (mine'[p].skip = newest'[p] \/ Remembers(mine[p])')
    BY <1>2, <2>1, <2>4 DEF Remembers, Honours
  <2>6. Plain(p)'
    BY <2>1, <2>2, <2>4 DEF Plain
  <2> QED
    BY <2>1, <2>2, <2>3, <2>5, <2>6 DEF CopyKeeps, Current, Carrying
<1>9. CASE Ends(p) \/ Goes(p, "update_read") \/ Goes(p, "update_install")
  BY <1>0, <1>9, NoCopy
<1> QED
  BY <1>3, <1>4, <1>5, <1>6, <1>7, <1>8, <1>9, Zenon
     DEF Acts, FetchIndex, AnswerAndGo, RunUpdate, UpdateRead, UpdateInstall, Killed

LEMMA SavedKept ==
    ASSUME UpdateInv, [UpdateNext]_updateVars
    PROVE  FileKeeps' /\ \A p \in Procs : CopyKeeps(p)'
<1>0. /\ WorldTypes /\ FileTypes /\ ProcessTypes /\ HistoryTypes /\ FileKeeps
      /\ \A p \in Procs : CopyKeeps(p)
  BY UpdateTypeParts, Zenon DEF UpdateInv
<1>1. CASE Tick \/ Publish \/ UNCHANGED updateVars
  <2>1. UNCHANGED <<file, stage, mine, newest, removed, stale, exposed>> /\ SavesNothing
    BY <1>1 DEF Tick, Publish, updateVars, history, SavesNothing
  <2>2. FileKeeps'
    BY <1>0, <2>1, FileLeft
  <2>3. ASSUME NEW p \in Procs PROVE CopyKeeps(p)'
    BY <1>0, <2>1, CopyLeft
  <2> QED
    BY <2>2, <2>3
<1>2. ASSUME NEW p \in Procs, Acts(p) PROVE FileKeeps' /\ \A q \in Procs : CopyKeeps(q)'
  <2>1. CASE WriteSettings(p)
    BY <1>0, <2>1, WriteKeeps
  <2>2. CASE ~WriteSettings(p)
    <3>1. FileKeeps' /\ CopyKeeps(p)'
      BY <1>2, <2>2, FileKept, CopyKept
    <3>2. SavesNothing /\ \A q \in Procs \ {p} : q \in stale => q \in stale'
      BY <1>0, <1>2, <2>2, OnlyWritesSave
    <3>3. ASSUME NEW q \in Procs, q # p PROVE CopyKeeps(q)'
      <4>1. stage'[q] = stage[q] /\ mine'[q] = mine[q] /\ newest'[q] = newest[q]
        BY <1>0, <1>2, <3>3, OthersLeft
      <4>2. CopyKeeps(q) /\ (q \in stale => q \in stale')
        BY <1>0, <3>2, <3>3
      <4> QED
        BY <1>0, <3>2, <4>1, <4>2, CopyLeft
    <3> QED
      BY <3>1, <3>3
  <2> QED
    BY <2>1, <2>2
<1> QED
  BY <1>1, <1>2, UpdateSteps

\* The types hold with any number of commands at once, and a process that has
\* removed the file is about to put the new one in its place.
THEOREM UpdateTypes ==
    UpdateSpec => [](UpdateTypeOK /\ Removals)
<1>1. UpdateInit => UpdateTypeOK /\ Removals
  BY UpdateInitially DEF UpdateInv
<1>2. UpdateTypeOK /\ Removals /\ [UpdateNext]_updateVars => (UpdateTypeOK /\ Removals)'
  <2> SUFFICES ASSUME UpdateTypeOK, Removals, [UpdateNext]_updateVars
               PROVE  UpdateTypeOK' /\ Removals'
    BY Zenon
  <2>1. WorldTypes /\ FileTypes /\ ProcessTypes /\ HistoryTypes
    BY UpdateTypeParts
  <2>2. ProcessTypes' /\ WorldTypes' /\ FileTypes' /\ HistoryTypes'
    BY <2>1, ProcessTypesKept, OtherTypesKept
  <2>3. Removals'
    BY <2>1, RemovalsKept
  <2>4. UpdateTypeOK'
    BY <2>2, Zenon DEF UpdateTypeOK, WorldTypes, FileTypes, ProcessTypes, HistoryTypes
  <2> QED
    BY <2>3, <2>4
<1> QED
  BY <1>1, <1>2, PTL DEF UpdateSpec

\* The inductive invariant.
LEMMA UpdateAlways == UpdateSpec => []UpdateInv
<1>1. UpdateInit => UpdateInv
  BY UpdateInitially
<1>2. UpdateInv /\ [UpdateNext]_updateVars /\ (UpdateTypeOK /\ Removals)' => UpdateInv'
  <2> SUFFICES ASSUME UpdateInv, [UpdateNext]_updateVars, UpdateTypeOK', Removals'
               PROVE  FileKeeps' /\ \A p \in Procs : CopyKeeps(p)'
    BY Zenon DEF UpdateInv
  <2> QED
    BY SavedKept
<1> QED
  BY <1>1, <1>2, UpdateTypes, PTL DEF UpdateSpec

\* Only StartCheck begins a check, and unless the file is being replaced the
\* settings it reads say what was saved.
LEMMA Beginning ==
    ASSUME UpdateInv, [UpdateNext]_updateVars, NEW p \in Procs, Begins(p), ~BeingReplaced
    PROVE  StartCheck(p) /\ Remembers(Contents) /\ Contents \in Settings
<1>0. WorldTypes /\ FileTypes /\ ProcessTypes /\ Removals /\ FileKeeps
  BY UpdateTypeParts, Zenon DEF UpdateInv
<1>1. stage[p] = "idle" /\ stage'[p] = "record"
  BY DEF Begins
<1>2. ~(Tick \/ Publish \/ UNCHANGED updateVars)
  BY <1>1 DEF Tick, Publish, updateVars
<1>3. PICK q \in Procs : Acts(q)
  BY <1>2, UpdateSteps
<1>4. Acts(p)
  BY <1>0, <1>1, <1>3, OthersLeft
<1>5. ~Goes(p, "update_read") /\ ~(\E enable \in BOOLEAN : ReadSetting(p, enable))
  BY <1>0, <1>1 DEF Goes, ReadSetting, ProcessTypes
<1>6. StartCheck(p)
  BY <1>1, <1>4, <1>5
     DEF Acts, WriteSettings, RemoveOld, WriteFails, FetchIndex, AnswerAndSave, AnswerAndGo,
         RunUpdate, UpdateRead, UpdateInstall, Killed, Writing
<1> QED
  BY <1>0, <1>6, ContentsRemembered, ContentsAreSettings DEF StartCheck

\* A saved off is respected, and a release saved as skipped is not offered
\* again, by any number of commands at once, wherever no older copy was
\* written over the choice and the file is neither gone nor being replaced.
THEOREM ChoicesAreKept == UpdateSpec => SavedChoicesHold
<1> DEFINE Respected ==
      \A p \in Procs :
         /\ (Begins(p) /\ off /\ "off" \notin exposed /\ ~BeingReplaced) => env'[p] = TRUE
         /\ (Offered(p) /\ "skip" \notin exposed /\ p \notin stale) => newest'[p] # skipped
<1>1. UpdateInv /\ [UpdateNext]_updateVars => Respected
  <2> SUFFICES ASSUME UpdateInv, [UpdateNext]_updateVars, NEW p \in Procs
               PROVE  /\ (Begins(p) /\ off /\ "off" \notin exposed /\ ~BeingReplaced)
                            => env'[p] = TRUE
                      /\ (Offered(p) /\ "skip" \notin exposed /\ p \notin stale)
                            => newest'[p] # skipped
    BY Zenon
  <2>0. WorldTypes /\ ProcessTypes /\ HistoryTypes /\ CopyKeeps(p)
    BY UpdateTypeParts, Zenon DEF UpdateInv
  <2>1. ASSUME Begins(p), off, "off" \notin exposed, ~BeingReplaced PROVE env'[p] = TRUE
    <3>1. StartCheck(p) /\ Remembers(Contents)
      BY <2>1, Beginning
    <3>2. ~Contents.check
      BY <2>1, <3>1 DEF Remembers, Honours
    <3>3. PICK e \in {None, TRUE} : Allowed(e, Contents) /\ env' = [env EXCEPT ![p] = e]
      BY <3>1, Zenon DEF StartCheck
    <3>4. e = TRUE
      BY <3>2, <3>3, Zenon DEF Allowed
    <3> QED
      BY <2>0, <3>3, <3>4, Zenon DEF ProcessTypes
  <2>2. ASSUME Offered(p), "skip" \notin exposed, p \notin stale PROVE newest'[p] # skipped
    <3>0. stage[p] = "fetch" /\ stage'[p] = "prompt"
      BY <2>2 DEF Offered
    <3>1. ~(Tick \/ Publish \/ UNCHANGED updateVars)
      BY <3>0 DEF Tick, Publish, updateVars
    <3>2. Acts(p)
      BY <2>0, <3>0, <3>1, UpdateSteps, OthersLeft
    <3>3. FetchIndex(p) \/ Killed(p)
      BY <3>0, <3>2
         DEF Acts, StartCheck, ReadSetting, WriteSettings, RemoveOld, WriteFails,
             AnswerAndSave, AnswerAndGo, RunUpdate, UpdateRead, UpdateInstall, Writing
    <3>4. ~Ends(p)
      BY <2>0, <3>0 DEF Ends, ProcessTypes
    <3>5. Offers(mine[p]) /\ newest' = [newest EXCEPT ![p] = published]
      BY <3>3, <3>4, Zenon DEF FetchIndex, Killed
    <3>6. newest'[p] = published /\ mine[p].skip # published
      BY <2>0, <3>5 DEF ProcessTypes, Offers
    <3>7. skipped # None => mine[p].skip = skipped
      BY <2>0, <2>2, <3>0 DEF CopyKeeps, Current, Carrying, Remembers
    <3>8. published # None
      BY <2>0, UpdateAssumption, MarkersAssumption DEF WorldTypes, Versions
    <3> QED
      BY <3>6, <3>7, <3>8
  <2> QED
    BY <2>1, <2>2
<1> QED
  BY <1>1, UpdateAlways, PTL DEF UpdateSpec, SavedChoicesHold

\* No second check within a day of a recorded one, whatever became of the
\* process that recorded it, with any number of commands at once and the same
\* exceptions.
THEOREM ChecksAreADayApart == UpdateSpec => OncePerDay
<1> DEFINE Apart ==
      \A p \in Procs :
          (Begins(p) /\ checkedAt # None /\ "check" \notin exposed /\ ~BeingReplaced)
              => now >= checkedAt + Day
<1>1. UpdateInv /\ [UpdateNext]_updateVars => Apart
  <2> SUFFICES ASSUME UpdateInv, [UpdateNext]_updateVars, NEW p \in Procs, Begins(p),
                      checkedAt # None, "check" \notin exposed, ~BeingReplaced
               PROVE  now >= checkedAt + Day
    BY Zenon
  <2>1. StartCheck(p) /\ Remembers(Contents)
    BY Beginning
  <2>2. checkedAt \in 0..now /\ Contents.last \in 0..now /\ checkedAt <= Contents.last
    BY <2>1 DEF Remembers, Honours
  <2>3. Contents.last # None /\ now \in Nat
    BY <2>2, UpdateAssumption, MarkersAssumption, UpdateTypeParts DEF UpdateInv, WorldTypes
  <2>4. now - Contents.last >= Day
    BY <2>1, <2>2, <2>3 DEF StartCheck, CheckDue
  <2> QED
    BY <2>2, <2>3, <2>4, UpdateAssumption
<1> QED
  BY <1>1, UpdateAlways, PTL DEF UpdateSpec, OncePerDay
=============================================================================
