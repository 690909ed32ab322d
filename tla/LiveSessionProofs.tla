-------------------------- MODULE LiveSessionProofs --------------------------
(***************************************************************************)
(* The session-key lane of a live stream, for every set of segments, every *)
(* delivery of keys and every number of segments: sequence numbers, gaps   *)
(* and the ledger of event ids.                                            *)
(***************************************************************************)
EXTENDS LiveSession, WellFoundedInduction, NaturalsInduction, TLAPS

-----------------------------------------------------------------------------
(***************************************************************************)
(* Numbers and recursion.                                                  *)
(***************************************************************************)

\* A set of natural numbers that is not empty has a least element.
LEMMA LeastNat ==
    ASSUME NEW T \in SUBSET Nat, T # {}
    PROVE  \E n \in T : \A m \in T : n <= m
<1>1. PICK x \in T : \A y \in T : ~(<<y, x>> \in OpToRel(<, Nat))
  BY NatLessThanWellFounded, WFMin, Zenon
<1>2. \A y \in T : ~(y < x)
  BY <1>1, Zenon DEF OpToRel
<1> QED
  BY <1>2

\* A set that holds 0, and n + 1 whenever it holds n, up to a bound, holds
\* every number up to the bound.
LEMMA BoundedInduction ==
    ASSUME NEW S, NEW n \in Nat, 0 \in S, \A i \in 0..(n - 1) : i \in S => i + 1 \in S
    PROVE  \A i \in 0..n : i \in S
<1> SUFFICES ASSUME (0..n) \ S # {} PROVE FALSE
  OBVIOUS
<1> DEFINE T == (0..n) \ S
<1>1. T \in SUBSET Nat /\ T # {}
  OBVIOUS
<1>2. PICK i \in T : \A m \in T : i <= m
  <2> HIDE DEF T
  <2> QED
    BY <1>1, LeastNat
<1> QED
  BY <1>2

\* Some function takes `step` at every position up to n, from `base` on.
Recurs(P, n, base, step) ==
    \E f \in [0..n -> P] : f[0] = base /\ \A i \in 1..n : f[i] = step[i][f[i - 1]]

\* From a first value and a step there is a function that takes the step at
\* every position.
LEMMA Recursion ==
    ASSUME NEW P, NEW n \in Nat, NEW base \in P, NEW step \in [1..n -> [P -> P]]
    PROVE  Recurs(P, n, base, step)
<1> DEFINE Good(f, k) == f[0] = base /\ \A i \in 1..k : f[i] = step[i][f[i - 1]]
           S == {k \in 0..n : \E f \in [0..n -> P] : Good(f, k)}
<1>1. 0 \in S
  <2> DEFINE f == [i \in 0..n |-> base]
  <2>1. f \in [0..n -> P] /\ Good(f, 0)
    OBVIOUS
  <2>2. \E g \in [0..n -> P] : Good(g, 0)
    BY <2>1
  <2> QED
    BY <2>2
<1>2. \A k \in 0..(n - 1) : k \in S => k + 1 \in S
  <2> SUFFICES ASSUME NEW k \in 0..(n - 1), k \in S PROVE k + 1 \in S
    OBVIOUS
  <2>1. PICK f \in [0..n -> P] : Good(f, k)
    OBVIOUS
  <2> DEFINE g == [f EXCEPT ![k + 1] = step[k + 1][f[k]]]
  <2>2. g \in [0..n -> P]
    <3>1. k \in 0..n /\ k + 1 \in 1..n
      OBVIOUS
    <3>2. step[k + 1] \in [P -> P] /\ f[k] \in P
      BY <3>1
    <3> QED
      BY <3>1, <3>2
  <2>3. g[k + 1] = step[k + 1][f[k]] /\ \A i \in 0..k : g[i] = f[i]
    OBVIOUS
  <2>4. Good(g, k + 1)
    BY <2>1, <2>3
  <2>5. \E h \in [0..n -> P] : Good(h, k + 1)
    BY <2>2, <2>4
  <2> QED
    BY <2>5
<1>3. n \in S
  <2> HIDE DEF S
  <2>1. \A i \in 0..n : i \in S
    BY <1>1, <1>2, BoundedInduction
  <2> QED
    BY <2>1
<1> QED
  BY <1>3 DEF Recurs

-----------------------------------------------------------------------------
(***************************************************************************)
(* The ledger of event ids.                                                *)
(***************************************************************************)
AllIds == UNION {Ids(seg) : seg \in Segments}
Entries == [origin : Segments, originIndex : Nat, lastIndex : Nat]
Ledgers == UNION {[D -> Entries] : D \in SUBSET AllIds}
Scans == [ledger : Ledgers, replayOf : Nat \cup {None}, refused : BOOLEAN]

\* What a ledger is, and when a function is one.
LEMMA LedgerFacts ==
    /\ \A g \in Ledgers : /\ g = [id \in DOMAIN g |-> g[id]]
                          /\ DOMAIN g \subseteq AllIds
                          /\ \A id \in DOMAIN g : g[id] \in Entries
    /\ \A D \in SUBSET AllIds : \A g \in [D -> Entries] : g \in Ledgers
BY DEF Ledgers

\* h is g with one id added or touched, and every other origin as it was.
OneMore(h, g, id, seg, index) ==
    /\ DOMAIN h = DOMAIN g \cup {id}
    /\ \A i \in DOMAIN g : h[i].origin = g[i].origin /\ h[i].originIndex = g[i].originIndex
    /\ id \notin DOMAIN g => h[id].origin = seg /\ h[id].originIndex = index

\* admit adds or touches one id and leaves the origin of every other alone.
LEMMA AdmittedLedger ==
    ASSUME NEW g \in Ledgers, NEW id \in AllIds, NEW seg \in Segments, NEW index \in Nat
    PROVE  /\ Admitted(g, id, seg, index) \in Ledgers
           /\ OneMore(Admitted(g, id, seg, index), g, id, seg, index)
<1> DEFINE h == Admitted(g, id, seg, index)
<1>0. g = [i \in DOMAIN g |-> g[i]] /\ DOMAIN g \subseteq AllIds /\ \A i \in DOMAIN g : g[i] \in Entries
  BY LedgerFacts
<1>1. CASE id \in DOMAIN g
  <2>1. h = [g EXCEPT ![id].lastIndex = index]
    BY <1>1 DEF Admitted
  <2>2. DOMAIN h = DOMAIN g /\ \A i \in DOMAIN g : i # id => h[i] = g[i]
    BY <2>1
  <2>3. h[id] = [g[id] EXCEPT !.lastIndex = index]
    BY <1>1, <2>1
  <2>4. g[id] \in Entries
    BY <1>0, <1>1
  <2>5. h[id] \in Entries /\ h[id].origin = g[id].origin /\ h[id].originIndex = g[id].originIndex
    BY <2>3, <2>4 DEF Entries
  <2>6. h \in [DOMAIN g -> Entries]
    <3>1. h = [i \in DOMAIN g |-> h[i]]
      BY <2>1, <2>2
    <3>2. \A i \in DOMAIN g : h[i] \in Entries
      BY <1>0, <2>2, <2>5
    <3> QED
      BY <3>1, <3>2
  <2>7. h \in Ledgers
    BY <1>0, <2>6, LedgerFacts
  <2>8. DOMAIN g \cup {id} = DOMAIN g
    BY <1>1
  <2> HIDE DEF h
  <2> QED
    BY <1>1, <2>2, <2>5, <2>7, <2>8 DEF h, OneMore
<1>2. CASE id \notin DOMAIN g
  <2> DEFINE new == [origin |-> seg, originIndex |-> index, lastIndex |-> index]
  <2>1. h = [i \in DOMAIN g \cup {id} |-> IF i = id THEN new ELSE g[i]]
    BY <1>2 DEF Admitted
  <2>2. new \in Entries /\ new.origin = seg /\ new.originIndex = index
    BY DEF Entries
  <2> HIDE DEF new, h
  <2>3. DOMAIN h = DOMAIN g \cup {id} /\ h[id] = new /\ \A i \in DOMAIN g : h[i] = g[i]
    BY <1>2, <2>1
  <2>4. h \in [DOMAIN g \cup {id} -> Entries]
    BY <1>0, <2>1, <2>2
  <2>5. DOMAIN g \cup {id} \in SUBSET AllIds
    BY <1>0
  <2>6. h \in Ledgers
    BY <2>4, <2>5, LedgerFacts
  <2> QED
    BY <1>2, <2>2, <2>3, <2>6 DEF h, OneMore
<1> QED
  BY <1>1, <1>2

LEMMA IdsAre ==
    ASSUME NEW seg \in Segments
    PROVE  /\ Len(seg.events) \in Nat /\ DOMAIN seg.events = 1..Len(seg.events)
           /\ \A n \in 1..Len(seg.events) : seg.events[n].id \in AllIds /\ seg.events[n].id \in Ids(seg)
           /\ \A id \in Ids(seg) : \E n \in 1..Len(seg.events) : seg.events[n].id = id
<1>1. Len(seg.events) \in Nat /\ DOMAIN seg.events = 1..Len(seg.events)
  BY SegmentsAssumption
<1>2. \A n \in 1..Len(seg.events) : seg.events[n].id \in Ids(seg)
  BY <1>1 DEF Ids
<1>3. \A id \in Ids(seg) : id \in AllIds
  BY DEF AllIds
<1>4. \A id \in Ids(seg) : \E n \in 1..Len(seg.events) : seg.events[n].id = id
  BY <1>1, Zenon DEF Ids
<1> QED
  BY <1>1, <1>2, <1>3, <1>4

\* The segment at index k, when `seg` is presented at `index`
Whole(seg, index, k) == IF k = index THEN seg ELSE presented[k]

\* What the scan has found after n candidates: no origin changed, every origin
\* is the segment at its index, and while nothing is refused the ids so far
\* all name this very segment.
ScanOK(b, n, seg, index) ==
    /\ b \in Scans
    /\ \A id \in DOMAIN seen : id \in DOMAIN b.ledger /\ b.ledger[id].origin = seen[id].origin
    /\ \A id \in DOMAIN b.ledger :
         /\ b.ledger[id].originIndex \in 1..index
         /\ Whole(seg, index, b.ledger[id].originIndex) = b.ledger[id].origin
    /\ b.replayOf # None => b.replayOf \in 1..index /\ Whole(seg, index, b.replayOf) = seg
    /\ ~b.refused => \A m \in 1..n : /\ seg.events[m].id \in DOMAIN b.ledger
                                     /\ b.ledger[seg.events[m].id].origin = seg

LEMMA ExaminedTyped ==
    ASSUME NEW b \in Scans, NEW seg \in Segments, NEW n \in 1..Len(seg.events), NEW index \in Nat
    PROVE  Examined(b, n, seg, index) \in Scans
<1> DEFINE id == seg.events[n].id
           admits == n <= MaxCandidates /\ Admits(b.ledger, b.replayOf, id, seg, index)
           next == Admitted(b.ledger, id, seg, index)
           of == IF id \in DOMAIN b.ledger /\ b.replayOf = None
                 THEN b.ledger[id].originIndex ELSE b.replayOf
<1>1. b.ledger \in Ledgers /\ b.replayOf \in Nat \cup {None} /\ b.refused \in BOOLEAN
  BY DEF Scans
<1>2. id \in AllIds
  BY IdsAre
<1>3. next \in Ledgers
  BY <1>1, <1>2, AdmittedLedger
<1>4. of \in Nat \cup {None}
  BY <1>1, LedgerFacts DEF Entries
<1>5. [b EXCEPT !.refused = TRUE] \in Scans
  BY DEF Scans
<1>6. [ledger |-> next, replayOf |-> of, refused |-> FALSE] \in Scans
  <2> HIDE DEF next, of
  <2> QED
    BY <1>3, <1>4 DEF Scans
<1>7. Examined(b, n, seg, index) = IF b.refused THEN b
                                   ELSE IF ~admits THEN [b EXCEPT !.refused = TRUE]
                                   ELSE [ledger |-> next, replayOf |-> of, refused |-> FALSE]
  BY DEF Examined
<1> HIDE DEF admits, next, of
<1> QED
  BY <1>5, <1>6, <1>7

LEMMA ExaminedKeeps ==
    ASSUME NEW b, NEW seg \in Segments, NEW n \in 1..Len(seg.events), NEW index \in Nat \ {0},
           ScanOK(b, n - 1, seg, index)
    PROVE  ScanOK(Examined(b, n, seg, index), n, seg, index)
<1> DEFINE id == seg.events[n].id
           admits == n <= MaxCandidates /\ Admits(b.ledger, b.replayOf, id, seg, index)
           next == Admitted(b.ledger, id, seg, index)
           of == IF id \in DOMAIN b.ledger /\ b.replayOf = None
                 THEN b.ledger[id].originIndex ELSE b.replayOf
           c == Examined(b, n, seg, index)
<1>0. b \in Scans /\ b.ledger \in Ledgers /\ n \in Nat
  BY IdsAre DEF ScanOK, Scans
<1>1. c \in Scans
  BY <1>0, ExaminedTyped
<1>2. CASE b.refused
  <2>1. c = b
    BY <1>2 DEF Examined
  <2> QED
    BY <1>2, <2>1 DEF ScanOK
<1>3. CASE ~b.refused /\ ~admits
  <2>1. c = [b EXCEPT !.refused = TRUE]
    BY <1>3 DEF Examined
  <2>2. c.ledger = b.ledger /\ c.replayOf = b.replayOf /\ c.refused
    BY <1>0, <2>1 DEF Scans
  <2> HIDE DEF c
  <2>3. ScanOK(c, n, seg, index)
    BY <1>1, <2>2 DEF ScanOK
  <2> QED
    BY <2>3 DEF c
<1>4. CASE ~b.refused /\ admits
  <2>1. c = [ledger |-> next, replayOf |-> of, refused |-> FALSE]
    BY <1>4 DEF Examined
  <2>2. c.ledger = next /\ c.replayOf = of /\ ~c.refused
    BY <2>1
  <2>3. id \in AllIds
    BY IdsAre
  <2>4. /\ DOMAIN next = DOMAIN b.ledger \cup {id}
        /\ \A i \in DOMAIN b.ledger : /\ next[i].origin = b.ledger[i].origin
                                      /\ next[i].originIndex = b.ledger[i].originIndex
        /\ id \notin DOMAIN b.ledger => next[id].origin = seg /\ next[id].originIndex = index
    <3>1. index \in Nat
      OBVIOUS
    <3>2. OneMore(next, b.ledger, id, seg, index)
      BY <1>0, <2>3, <3>1, AdmittedLedger
    <3> HIDE DEF id, next
    <3> QED
      BY <3>2 DEF OneMore
  <2>5. Admits(b.ledger, b.replayOf, id, seg, index)
    BY <1>4
  <2>6. /\ \A i \in DOMAIN seen : i \in DOMAIN b.ledger /\ b.ledger[i].origin = seen[i].origin
        /\ \A i \in DOMAIN b.ledger :
             /\ b.ledger[i].originIndex \in 1..index
             /\ Whole(seg, index, b.ledger[i].originIndex) = b.ledger[i].origin
        /\ b.replayOf # None => b.replayOf \in 1..index /\ Whole(seg, index, b.replayOf) = seg
        /\ \A m \in 1..(n - 1) : /\ seg.events[m].id \in DOMAIN b.ledger
                                 /\ b.ledger[seg.events[m].id].origin = seg
    BY <1>4 DEF ScanOK
  <2>7. index \in 1..index /\ Whole(seg, index, index) = seg
    BY DEF Whole
  <2>8. id \in DOMAIN b.ledger => b.ledger[id].origin = seg
    <3> SUFFICES ASSUME id \in DOMAIN b.ledger PROVE b.ledger[id].origin = seg
      OBVIOUS
    <3>1. CASE b.replayOf = None
      BY <2>5, <3>1 DEF Admits
    <3>2. CASE b.replayOf # None
      <4>1. b.replayOf = b.ledger[id].originIndex
        BY <2>5, <3>2 DEF Admits
      <4> QED
        BY <2>6, <3>2, <4>1
    <3> QED
      BY <3>1, <3>2
  <2>9. \A i \in DOMAIN seen : i \in DOMAIN next /\ next[i].origin = seen[i].origin
    <3> HIDE DEF next, id
    <3> QED
      BY <2>4, <2>6
  <2>10. \A i \in DOMAIN next : /\ next[i].originIndex \in 1..index
                                /\ Whole(seg, index, next[i].originIndex) = next[i].origin
    <3> HIDE DEF next, id
    <3> SUFFICES ASSUME NEW i \in DOMAIN next
                 PROVE  /\ next[i].originIndex \in 1..index
                        /\ Whole(seg, index, next[i].originIndex) = next[i].origin
      OBVIOUS
    <3>1. CASE i \in DOMAIN b.ledger
      BY <2>4, <2>6, <3>1
    <3>2. CASE i \notin DOMAIN b.ledger
      BY <2>4, <2>7, <3>2
    <3> QED
      BY <3>1, <3>2
  <2>11. of # None => of \in 1..index /\ Whole(seg, index, of) = seg
    <3>1. CASE id \in DOMAIN b.ledger /\ b.replayOf = None
      <4>1. of = b.ledger[id].originIndex
        BY <3>1
      <4> HIDE DEF of, id, next
      <4> QED
        BY <2>6, <2>8, <3>1, <4>1
    <3>2. CASE ~(id \in DOMAIN b.ledger /\ b.replayOf = None)
      <4>1. of = b.replayOf
        BY <3>2
      <4> HIDE DEF of, id, next
      <4> QED
        BY <2>6, <4>1
    <3> QED
      BY <3>1, <3>2
  <2>12. \A m \in 1..n : seg.events[m].id \in DOMAIN next /\ next[seg.events[m].id].origin = seg
    <3> SUFFICES ASSUME NEW m \in 1..n
                 PROVE  seg.events[m].id \in DOMAIN next /\ next[seg.events[m].id].origin = seg
      OBVIOUS
    <3>1. CASE m = n
      <4>1. id \in DOMAIN next /\ next[id].origin = seg
        <5> HIDE DEF id, next
        <5> QED
          BY <2>4, <2>8
      <4> QED
        BY <3>1, <4>1
    <3>2. CASE m # n
      <4>1. m \in 1..(n - 1)
        BY <1>0, <3>2
      <4> HIDE DEF id, next
      <4> QED
        BY <2>4, <2>6, <4>1
    <3> QED
      BY <3>1, <3>2
  <2> HIDE DEF next, of, c, id
  <2>13. ScanOK(c, n, seg, index)
    BY <1>1, <2>2, <2>9, <2>10, <2>11, <2>12 DEF ScanOK
  <2> QED
    BY <2>13 DEF c
<1> QED
  BY <1>2, <1>3, <1>4

\* The scan of a segment's candidates, to its end
LEMMA ScanKeeps ==
    ASSUME NEW seg \in Segments, NEW index \in Nat \ {0}, seen \in Ledgers,
           \A id \in DOMAIN seen : /\ seen[id].originIndex \in 1..index
                                   /\ Whole(seg, index, seen[id].originIndex) = seen[id].origin
    PROVE  ScanOK(Scan(seg, index), Len(seg.events), seg, index)
<1> DEFINE n == Len(seg.events)
           base == [ledger |-> seen, replayOf |-> None, refused |-> FALSE]
           scan[k \in 0..n] == IF k = 0 THEN base ELSE Examined(scan[k - 1], k, seg, index)
           Eq(f) == f = [k \in 0..n |-> IF k = 0 THEN base ELSE Examined(f[k - 1], k, seg, index)]
           step == [k \in 1..n |-> [b \in Scans |-> Examined(b, k, seg, index)]]
<1>0. n \in Nat
  BY IdsAre
<1>1. base \in Scans
  BY DEF Scans
<1>2. step \in [1..n -> [Scans -> Scans]]
  BY ExaminedTyped
<1>3. PICK f \in [0..n -> Scans] : f[0] = base /\ \A k \in 1..n : f[k] = step[k][f[k - 1]]
  <2> HIDE DEF n, base, scan, Eq, step
  <2>1. Recurs(Scans, n, base, step)
    BY <1>0, <1>1, <1>2, Recursion
  <2> QED
    BY <2>1 DEF Recurs
<1>4. \A k \in 1..n : f[k] = Examined(f[k - 1], k, seg, index)
  <2> SUFFICES ASSUME NEW k \in 1..n PROVE f[k] = Examined(f[k - 1], k, seg, index)
    OBVIOUS
  <2>1. k - 1 \in 0..n
    BY <1>0
  <2>2. f[k - 1] \in Scans
    BY <2>1
  <2>3. f[k] = step[k][f[k - 1]]
    BY <1>3
  <2> HIDE DEF n, base, scan, Eq
  <2> QED
    BY <2>2, <2>3
<1>5. Eq(f)
  <2> HIDE DEF n, base, scan, step
  <2>1. \A k \in 0..n : f[k] = IF k = 0 THEN base ELSE Examined(f[k - 1], k, seg, index)
    <3> SUFFICES ASSUME NEW k \in 0..n
                 PROVE  f[k] = IF k = 0 THEN base ELSE Examined(f[k - 1], k, seg, index)
      OBVIOUS
    <3>1. CASE k = 0
      BY <1>3, <3>1
    <3>2. CASE k # 0
      <4>1. k \in 1..n
        BY <1>0, <3>2
      <4> QED
        BY <1>4, <3>2, <4>1
    <3> QED
      BY <3>1, <3>2
  <2> QED
    BY <2>1
<1>6. Eq(scan)
  <2>1. scan = CHOOSE g : Eq(g)
    BY DEF scan
  <2> HIDE DEF scan, Eq
  <2> QED
    BY <1>5, <2>1
<1>7. Scan(seg, index) = scan[n]
  BY DEF Scan
<1> HIDE DEF scan, step
<1>8. scan[0] = base /\ \A k \in 1..n : scan[k] = Examined(scan[k - 1], k, seg, index)
  <2> HIDE DEF n, base
  <2>1. \A k \in 0..n : scan[k] = IF k = 0 THEN base ELSE Examined(scan[k - 1], k, seg, index)
    BY <1>6, Zenon DEF Eq
  <2>2. 0 \in 0..n /\ \A k \in 1..n : k \in 0..n /\ k # 0
    BY <1>0
  <2>3. scan[0] = base
    BY <2>1, <2>2, Zenon
  <2>4. ASSUME NEW k \in 1..n PROVE scan[k] = Examined(scan[k - 1], k, seg, index)
    BY <2>1, <2>2, Zenon
  <2> QED
    BY <2>3, <2>4
<1> DEFINE S == {k \in 0..n : ScanOK(scan[k], k, seg, index)}
<1>9. 0 \in S
  <2>1. ScanOK(base, 0, seg, index)
    BY <1>1 DEF ScanOK
  <2> HIDE DEF base, n
  <2> QED
    BY <1>0, <1>8, <2>1
<1>10. \A k \in 0..(n - 1) : k \in S => k + 1 \in S
  <2> SUFFICES ASSUME NEW k \in 0..(n - 1), ScanOK(scan[k], k, seg, index)
               PROVE  k + 1 \in S
    OBVIOUS
  <2>1. k + 1 \in 1..n /\ k + 1 \in 0..n /\ (k + 1) - 1 = k
    BY <1>0
  <2>2. scan[k + 1] = Examined(scan[k], k + 1, seg, index)
    BY <1>8, <2>1
  <2>3. ScanOK(scan[k], (k + 1) - 1, seg, index)
    BY <2>1
  <2>4. ScanOK(Examined(scan[k], k + 1, seg, index), k + 1, seg, index)
    BY <2>1, <2>3, ExaminedKeeps
  <2> HIDE DEF n
  <2> QED
    BY <2>1, <2>2, <2>4
<1>11. n \in S
  <2> HIDE DEF S, n
  <2>1. \A k \in 0..n : k \in S
    BY <1>0, <1>9, <1>10, BoundedInduction
  <2> QED
    BY <1>0, <2>1
<1> QED
  BY <1>7, <1>11

-----------------------------------------------------------------------------
(***************************************************************************)
(* The candidate chosen for a segment.                                     *)
(***************************************************************************)
Infos == (UNION {{seg.events[n].info : n \in DOMAIN seg.events} : seg \in Segments}) \cup {None}

LEMMA EarliestIsOne ==
    ASSUME NEW S \in SUBSET Nat, S # {}
    PROVE  Earliest(S) \in S
<1>1. \E n \in S : \A m \in S : n <= m
  BY LeastNat
<1> QED
  BY <1>1 DEF Earliest

\* What is chosen was authenticated for the segment's media by a key in force.
LEMMA ChosenIsAuthentic ==
    ASSUME NEW seg \in Segments, NEW at, NEW expected, Chosen(seg, at, expected) # None
    PROVE  LET info == Chosen(seg, at, expected)
           IN  /\ info \in Infos
               /\ info.seq \in 0..MaxU64
               /\ info.media = seg.media
               /\ \E k \in DOMAIN keys : keys[k].id = info.key /\ at \in keys[k].window
<1> DEFINE authentic == Authentic(seg, at)
           fitting == {n \in authentic : expected = None \/ seg.events[n].info.seq = expected}
           info == Chosen(seg, at, expected)
<1>1. Len(seg.events) \in Nat /\ DOMAIN seg.events = 1..Len(seg.events)
  BY IdsAre
<1>2. /\ authentic \in SUBSET Nat /\ fitting \in SUBSET Nat /\ fitting \subseteq authentic
      /\ authentic \subseteq DOMAIN seg.events
  BY <1>1 DEF Authentic
<1>3. \E n \in authentic : info = seg.events[n].info
  <2>1. CASE fitting # {}
    <3>1. info = seg.events[Earliest(fitting)].info
      BY <2>1 DEF Chosen
    <3>2. Earliest(fitting) \in fitting
      <4> HIDE DEF fitting
      <4> QED
        BY <1>2, <2>1, EarliestIsOne
    <3> HIDE DEF authentic, fitting, info
    <3> QED
      BY <1>2, <3>1, <3>2
  <2>2. CASE fitting = {} /\ authentic # {}
    <3>1. info = seg.events[Earliest(authentic)].info
      BY <2>2 DEF Chosen
    <3>2. Earliest(authentic) \in authentic
      <4> HIDE DEF authentic
      <4> QED
        BY <1>2, <2>2, EarliestIsOne
    <3> HIDE DEF authentic, fitting, info
    <3> QED
      BY <3>1, <3>2
  <2>3. CASE fitting = {} /\ authentic = {}
    <3>1. info = None
      BY <2>3 DEF Chosen
    <3> QED
      BY <3>1
  <2> QED
    BY <2>1, <2>2, <2>3
<1>4. PICK n \in authentic : info = seg.events[n].info
  BY <1>3
<1>5. n \in DOMAIN seg.events /\ Authenticates(seg.events[n].info, seg, at)
  BY <1>1 DEF Authentic
<1> HIDE DEF authentic, fitting, info
<1>6. Authenticates(info, seg, at)
  BY <1>4, <1>5
<1>7. info # None /\ info.media = seg.media
  BY <1>6 DEF Authenticates
<1>8. \E k \in DOMAIN keys : keys[k].id = info.key /\ at \in keys[k].window
  BY <1>6 DEF Authenticates
<1>9. info.seq \in 0..MaxU64
  BY <1>4, <1>5, <1>7, SegmentsAssumption
<1>10. info \in Infos
  BY <1>4, <1>5 DEF Infos
<1> QED
  BY <1>7, <1>8, <1>9, <1>10 DEF info

-----------------------------------------------------------------------------
(***************************************************************************)
(* The inductive invariant.                                                *)
(***************************************************************************)

\* The vectors of the loop run in step.
Typed ==
    /\ phase \in {"init", "segments", "done"}
    /\ presented \in Seq(Segments) /\ verified \in Seq(Infos) /\ times \in Seq(Times)
    /\ Len(verified) = Len(presented) /\ Len(times) = Len(presented)
    /\ failed \subseteq 0..Len(presented)
    /\ seeks \subseteq 1..Len(presented)
    /\ phase = "init" => presented = <<>>

\* The number expected follows the last segment, if it was authenticated.
NextFollows ==
    /\ phase # "init" /\ presented = <<>> => nextSequence = FirstSequence(keys)
    /\ presented # <<>> /\ verified[Len(presented)] # None =>
         nextSequence = CheckedNext(verified[Len(presented)].seq)
    /\ \A i \in 1..Len(presented) : verified[i] # None => verified[i].seq \in 0..MaxU64

\* The ledger's origins are segments really presented.
LedgerOK ==
    /\ seen \in Ledgers
    /\ \A id \in DOMAIN seen : /\ seen[id].originIndex \in 1..Len(presented)
                               /\ presented[seen[id].originIndex] = seen[id].origin

\* Every id of a segment that passed names that segment.
PassedOwnIds ==
    \A i \in 1..Len(presented) : i \notin failed =>
        \A id \in Ids(presented[i]) : id \in DOMAIN seen /\ seen[id].origin = presented[i]

Inv == /\ Typed /\ NextFollows /\ LedgerOK /\ PassedOwnIds
       /\ ValidStreamIsContinuous /\ GapReportedOnce

LEMMA InitInv == Init => Inv
<1> SUFFICES ASSUME Init PROVE Inv
  OBVIOUS
<1>1. /\ presented = <<>> /\ Len(presented) = 0 /\ 1..Len(presented) = {} /\ 2..Len(presented) = {}
      /\ DOMAIN seen = {} /\ phase = "init"
  BY DEF Init
<1>2. Typed
  BY DEF Init, Typed
<1>3. seen \in [{} -> Entries]
  BY DEF Init
<1>4. LedgerOK
  BY <1>1, <1>3, LedgerFacts DEF LedgerOK
<1>5. NextFollows /\ PassedOwnIds
  BY <1>1 DEF NextFollows, PassedOwnIds
<1>6. ValidStreamIsContinuous /\ GapReportedOnce
  BY <1>1 DEF ValidStreamIsContinuous, GapReportedOnce
<1> QED
  BY <1>2, <1>4, <1>5, <1>6 DEF Inv

\* The vectors one segment longer
LEMMA Longer ==
    ASSUME NEW T, NEW s \in Seq(T), NEW e \in T
    PROVE  /\ Append(s, e) \in Seq(T) /\ Len(Append(s, e)) = Len(s) + 1 /\ Len(s) \in Nat
           /\ \A i \in 1..Len(s) : Append(s, e)[i] = s[i]
           /\ Append(s, e)[Len(s) + 1] = e
OBVIOUS

\* One segment presented
LEMMA PresentKeeps ==
    ASSUME Inv, NEW seg \in Segments, NEW seek \in BOOLEAN, NEW at \in Times,
           PresentSegment(seg, seek, at)
    PROVE  Inv'
<1> DEFINE n == Len(presented)
           index == n + 1
           expected == IF seek THEN None ELSE nextSequence
           exhausted == ~seek /\ nextSequence = None
           examined == keys # <<>> /\ seg.spanOk
           scanned == Scan(seg, index)
           info == IF examined /\ ~scanned.refused THEN Chosen(seg, at, expected) ELSE None
<1>1. /\ phase = "segments" /\ phase' = phase /\ keys' = keys
      /\ presented' = Append(presented, seg)
      /\ seeks' = IF seek THEN seeks \cup {index} ELSE seeks
      /\ times' = Append(times, at)
      /\ seen' = IF examined THEN scanned.ledger ELSE seen
      /\ verified' = Append(verified, info)
      /\ nextSequence' = NextAfter(info, expected)
      /\ failed' = IF Fits(info, expected) /\ ~exhausted THEN failed ELSE failed \cup {index}
  BY DEF PresentSegment
<1>2. /\ presented \in Seq(Segments) /\ verified \in Seq(Infos) /\ times \in Seq(Times)
      /\ Len(verified) = n /\ Len(times) = n /\ n \in Nat
      /\ failed \subseteq 0..n /\ seeks \subseteq 1..n
  BY DEF Inv, Typed
<1>3. ScanOK(scanned, Len(seg.events), seg, index)
  <2>1. index \in Nat \ {0} /\ \A k \in 1..n : k \in 1..index /\ k # index
    BY <1>2
  <2>2. seen \in Ledgers
    BY DEF Inv, LedgerOK
  <2>3. \A id \in DOMAIN seen : /\ seen[id].originIndex \in 1..index
                                /\ Whole(seg, index, seen[id].originIndex) = seen[id].origin
    <3> HIDE DEF index
    <3> QED
      BY <2>1 DEF Inv, LedgerOK, Whole
  <2> HIDE DEF index
  <2> QED
    BY <2>1, <2>2, <2>3, ScanKeeps
<1> HIDE DEF scanned
<1>4. info # None =>
        /\ examined /\ ~scanned.refused
        /\ info \in Infos /\ info.seq \in 0..MaxU64 /\ info.media = seg.media
        /\ \E k \in DOMAIN keys : keys[k].id = info.key /\ at \in keys[k].window
  <2> SUFFICES ASSUME info # None
               PROVE  /\ examined /\ ~scanned.refused
                      /\ info \in Infos /\ info.seq \in 0..MaxU64 /\ info.media = seg.media
                      /\ \E k \in DOMAIN keys : keys[k].id = info.key /\ at \in keys[k].window
    OBVIOUS
  <2>1. examined /\ ~scanned.refused /\ info = Chosen(seg, at, expected)
    OBVIOUS
  <2> HIDE DEF info, expected, examined
  <2> QED
    BY <2>1, ChosenIsAuthentic
<1>5. info \in Infos
  <2>1. None \in Infos
    BY DEF Infos
  <2> HIDE DEF info
  <2> QED
    BY <1>4, <2>1
<1> HIDE DEF info, examined
<1>6. /\ presented' \in Seq(Segments) /\ Len(presented') = index
      /\ \A i \in 1..n : presented'[i] = presented[i]
      /\ presented'[index] = seg
  BY <1>1, <1>2, Longer
<1>7. /\ verified' \in Seq(Infos) /\ Len(verified') = index
      /\ \A i \in 1..n : verified'[i] = verified[i]
      /\ verified'[index] = info
  BY <1>1, <1>2, <1>5, Longer
<1>8. /\ times' \in Seq(Times) /\ Len(times') = index
      /\ \A i \in 1..n : times'[i] = times[i]
      /\ times'[index] = at
  BY <1>1, <1>2, Longer
<1>9. /\ \A i \in 1..index : i \in 1..n \/ i = index
      /\ \A i \in 1..n : i \in 1..index /\ i # index
      /\ index \in 1..index /\ index \in 0..index /\ index \notin 0..n
      /\ \A i \in 0..n : i \in 0..index
      /\ index \in Nat /\ index # 0
  BY <1>2
<1>10. /\ \A i \in 1..n : i \in failed' <=> i \in failed
       /\ index \notin failed' => Fits(info, expected) /\ ~exhausted
       /\ failed \subseteq failed'
  BY <1>1, <1>2, <1>9
<1> HIDE DEF index, exhausted, expected
<1>11. Typed'
  <2>1. failed' \subseteq 0..index
    BY <1>1, <1>2, <1>9
  <2>2. seeks' \subseteq 1..index
    BY <1>1, <1>2, <1>9
  <2>3. phase' # "init" /\ phase' \in {"init", "segments", "done"}
    BY <1>1
  <2> QED
    BY <1>6, <1>7, <1>8, <2>1, <2>2, <2>3 DEF Typed
<1>12. presented' # <<>>
  BY <1>6, <1>9
<1>13. NextFollows'
  <2>1. info # None => nextSequence' = CheckedNext(info.seq)
    BY <1>1 DEF NextAfter
  <2>2. \A i \in 1..index : verified'[i] # None => verified'[i].seq \in 0..MaxU64
    <3> SUFFICES ASSUME NEW i \in 1..index, verified'[i] # None PROVE verified'[i].seq \in 0..MaxU64
      OBVIOUS
    <3>1. CASE i \in 1..n
      BY <1>7, <3>1 DEF Inv, NextFollows
    <3>2. CASE i = index
      BY <1>4, <1>7, <3>2
    <3> QED
      BY <1>9, <3>1, <3>2
  <2>3. verified'[Len(presented')] = info
    BY <1>6, <1>7
  <2>4. verified'[Len(presented')] # None => nextSequence' = CheckedNext(verified'[Len(presented')].seq)
    BY <2>1, <2>3
  <2> QED
    BY <1>6, <1>12, <2>2, <2>4 DEF NextFollows
<1>14. /\ scanned \in Scans
       /\ \A id \in DOMAIN seen : id \in DOMAIN scanned.ledger /\ scanned.ledger[id].origin = seen[id].origin
       /\ \A id \in DOMAIN scanned.ledger :
            /\ scanned.ledger[id].originIndex \in 1..index
            /\ Whole(seg, index, scanned.ledger[id].originIndex) = scanned.ledger[id].origin
       /\ ~scanned.refused => \A m \in 1..Len(seg.events) :
            /\ seg.events[m].id \in DOMAIN scanned.ledger
            /\ scanned.ledger[seg.events[m].id].origin = seg
  BY <1>3 DEF ScanOK
<1>15. \A k \in 1..index : Whole(seg, index, k) = presented'[k]
  BY <1>6, <1>9 DEF Whole
<1>16. LedgerOK'
  <2>1. CASE examined
    <3>1. seen' = scanned.ledger /\ scanned.ledger \in Ledgers
      BY <1>1, <1>14, <2>1 DEF Scans
    <3>2. \A id \in DOMAIN seen' : /\ seen'[id].originIndex \in 1..index
                                   /\ presented'[seen'[id].originIndex] = seen'[id].origin
      BY <1>14, <1>15, <3>1
    <3> QED
      BY <1>6, <3>1, <3>2 DEF LedgerOK
  <2>2. CASE ~examined
    <3>1. seen' = seen
      BY <1>1, <2>2
    <3>2. \A id \in DOMAIN seen : /\ seen[id].originIndex \in 1..n
                                  /\ presented[seen[id].originIndex] = seen[id].origin
      BY DEF Inv, LedgerOK
    <3>3. \A id \in DOMAIN seen : /\ seen[id].originIndex \in 1..index
                                  /\ presented'[seen[id].originIndex] = seen[id].origin
      <4> HIDE DEF n
      <4> QED
        BY <1>6, <1>9, <3>2
    <3> QED
      BY <1>6, <3>1, <3>3 DEF LedgerOK, Inv
  <2> QED
    BY <2>1, <2>2
<1>17. \A id \in DOMAIN seen : id \in DOMAIN seen' /\ seen'[id].origin = seen[id].origin
  BY <1>1, <1>14
<1>18. PassedOwnIds'
  <2> SUFFICES ASSUME NEW i \in 1..index, i \notin failed', NEW id \in Ids(presented'[i])
               PROVE  id \in DOMAIN seen' /\ seen'[id].origin = presented'[i]
    BY <1>6 DEF PassedOwnIds
  <2>1. CASE i \in 1..n
    <3>1. i \notin failed /\ presented'[i] = presented[i]
      BY <1>6, <1>10, <2>1
    <3>2. id \in DOMAIN seen /\ seen[id].origin = presented[i]
      BY <2>1, <3>1 DEF Inv, PassedOwnIds
    <3> QED
      BY <1>17, <3>1, <3>2
  <2>2. CASE i = index
    <3>1. info # None
      BY <1>10, <2>2 DEF Fits
    <3>2. examined /\ ~scanned.refused
      BY <1>4, <3>1
    <3>3. presented'[i] = seg /\ id \in Ids(seg) /\ seen' = scanned.ledger
      BY <1>1, <1>6, <2>2, <3>2
    <3>4. PICK m \in 1..Len(seg.events) : seg.events[m].id = id
      BY <3>3, IdsAre
    <3> QED
      BY <1>14, <3>2, <3>3, <3>4
  <2> QED
    BY <1>9, <2>1, <2>2
<1>19. index \notin failed' /\ ~seek =>
         info # None /\ nextSequence # None /\ info.seq = nextSequence
  BY <1>10 DEF Fits, expected, exhausted
<1>20. /\ n = 0 => nextSequence = FirstSequence(keys)
       /\ n # 0 /\ verified[n] # None => nextSequence = CheckedNext(verified[n].seq)
  <2>1. n = 0 <=> presented = <<>>
    BY <1>2
  <2> QED
    BY <1>1, <2>1 DEF Inv, NextFollows
<1> HIDE DEF n
<1>21. ValidStreamIsContinuous'
  <2> DEFINE Good(i) == /\ verified'[i] # None /\ verified'[i].media = presented'[i].media
                        /\ \E k \in DOMAIN keys' :
                             keys'[k].id = verified'[i].key /\ times'[i] \in keys'[k].window
                        /\ i \notin seeks' => verified'[i].seq = IF i = 1 THEN FirstSequence(keys')
                                                                 ELSE verified'[i - 1].seq + 1
  <2> SUFFICES ASSUME failed' = {}, NEW i \in 1..index PROVE Good(i)
    BY <1>6 DEF ValidStreamIsContinuous
  <2>1. failed = {}
    BY <1>10
  <2>2. \A j \in 1..n : /\ verified[j] # None /\ verified[j].media = presented[j].media
                        /\ \E k \in DOMAIN keys :
                             keys[k].id = verified[j].key /\ times[j] \in keys[k].window
                        /\ j \notin seeks => verified[j].seq = IF j = 1 THEN FirstSequence(keys)
                                                               ELSE verified[j - 1].seq + 1
    BY <2>1 DEF Inv, ValidStreamIsContinuous, n
  <2>3. CASE i \in 1..n
    <3>1. i = 1 \/ i - 1 \in 1..n
      BY <1>2, <2>3
    <3>2. i = 1 \/ verified'[i - 1] = verified[i - 1]
      BY <1>7, <3>1
    <3>3. i \notin seeks' => i \notin seeks
      BY <1>1
    <3>4. verified'[i] = verified[i] /\ presented'[i] = presented[i] /\ times'[i] = times[i]
      BY <1>6, <1>7, <1>8, <2>3
    <3>5. keys' = keys /\ FirstSequence(keys') = FirstSequence(keys)
      BY <1>1
    <3>6. /\ verified'[i] # None /\ verified'[i].media = presented'[i].media
          /\ \E k \in DOMAIN keys' :
               keys'[k].id = verified'[i].key /\ times'[i] \in keys'[k].window
      BY <2>2, <2>3, <3>4, <3>5
    <3>7. i \notin seeks' => verified'[i].seq = IF i = 1 THEN FirstSequence(keys')
                                                ELSE verified'[i - 1].seq + 1
      BY <2>2, <2>3, <3>2, <3>3, <3>4, <3>5
    <3> QED
      BY <3>6, <3>7
  <2>4. CASE i = index
    <3>1. Fits(info, expected) /\ ~exhausted /\ info # None
      BY <1>10 DEF Fits
    <3>2. /\ verified'[i] # None /\ verified'[i].media = presented'[i].media
          /\ \E k \in DOMAIN keys' :
               keys'[k].id = verified'[i].key /\ times'[i] \in keys'[k].window
      BY <1>1, <1>4, <1>6, <1>7, <1>8, <2>4, <3>1
    <3>3. ASSUME i \notin seeks'
          PROVE  verified'[i].seq = IF i = 1 THEN FirstSequence(keys') ELSE verified'[i - 1].seq + 1
      <4>1. ~seek
        BY <1>1, <2>4, <3>3
      <4>2. nextSequence # None /\ info.seq = nextSequence /\ verified'[i] = info
        BY <1>7, <1>19, <2>4, <4>1
      <4>3. CASE n = 0
        <5>1. i = 1 /\ nextSequence = FirstSequence(keys')
          BY <1>1, <1>20, <2>4, <4>3 DEF index
        <5> QED
          BY <4>2, <5>1
      <4>4. CASE n # 0
        <5>1. n \in 1..n /\ i # 1 /\ i - 1 = n
          BY <1>2, <2>4, <4>4 DEF index
        <5>2. verified[n] # None /\ verified'[i - 1] = verified[n]
          BY <1>7, <2>2, <5>1
        <5>3. nextSequence = CheckedNext(verified[n].seq)
          BY <1>20, <4>4, <5>2
        <5>4. nextSequence = verified[n].seq + 1
          BY <4>2, <5>3 DEF CheckedNext
        <5> QED
          BY <4>2, <5>1, <5>2, <5>4
      <4> QED
        BY <4>3, <4>4
    <3> QED
      BY <3>2, <3>3
  <2> QED
    BY <1>9, <2>3, <2>4
<1>22. GapReportedOnce'
  <2> SUFFICES ASSUME NEW i \in 2..index, verified'[i - 1] # None, verified'[i] # None,
                      verified'[i].seq = verified'[i - 1].seq + 1
               PROVE  i \notin failed'
    BY <1>6 DEF GapReportedOnce
  <2>1. CASE i \in 1..n
    <3>1. i \in 2..n /\ i - 1 \in 1..n
      BY <1>2, <2>1
    <3>2. verified'[i] = verified[i] /\ verified'[i - 1] = verified[i - 1]
      BY <1>7, <2>1, <3>1
    <3>3. i \notin failed
      BY <3>1, <3>2 DEF Inv, GapReportedOnce, n
    <3> QED
      BY <1>10, <2>1, <3>3
  <2>2. CASE i = index
    <3>1. n # 0 /\ n \in 1..n /\ i - 1 = n
      BY <1>2, <2>2 DEF index
    <3>2. verified'[i] = info /\ verified'[i - 1] = verified[n]
      BY <1>7, <2>2, <3>1
    <3>3. info # None /\ verified[n] # None /\ info.seq = verified[n].seq + 1
      BY <3>2
    <3>4. nextSequence = CheckedNext(verified[n].seq)
      BY <1>20, <3>1, <3>3
    <3>5. verified[n].seq \in 0..MaxU64 /\ info.seq \in 0..MaxU64
      BY <1>4, <3>1, <3>3 DEF Inv, NextFollows, n
    <3>6. verified[n].seq # MaxU64 /\ verified[n].seq + 1 \in Nat
      BY <3>3, <3>5, BoundsAssumption
    <3>7. nextSequence = verified[n].seq + 1 /\ nextSequence # None
      BY <3>4, <3>6, SegmentsAssumption DEF CheckedNext
    <3>8. Fits(info, expected) /\ ~exhausted
      BY <3>3, <3>7 DEF Fits, expected, exhausted
    <3>9. failed' = failed
      BY <1>1, <3>8
    <3> QED
      BY <1>2, <1>9, <2>2, <3>9
  <2>3. i \in 1..index
    BY <1>9
  <2> QED
    BY <1>9, <2>1, <2>2, <2>3
<1> QED
  BY <1>11, <1>13, <1>16, <1>18, <1>21, <1>22 DEF Inv

LEMMA NextInv == Inv /\ [Next]_vars => Inv'
<1> SUFFICES ASSUME Inv, [Next]_vars PROVE Inv'
  OBVIOUS
<1>1. ASSUME NEW entries \in Deliveries \cup {None}, NEW initOk \in BOOLEAN, Deliver(entries, initOk)
      PROVE  Inv'
  <2>1. /\ phase = "init" /\ phase' = "segments" /\ failed' \subseteq {0}
        /\ nextSequence' = FirstSequence(keys')
        /\ seen' = seen /\ presented' = presented /\ seeks' = seeks /\ verified' = verified
        /\ times' = times
    BY <1>1 DEF Deliver
  <2>2. presented = <<>> /\ Len(presented) = 0 /\ 1..Len(presented) = {} /\ 2..Len(presented) = {}
    BY <2>1 DEF Inv, Typed
  <2>3. Typed'
    BY <2>1, <2>2 DEF Inv, Typed
  <2>4. NextFollows' /\ PassedOwnIds' /\ ValidStreamIsContinuous' /\ GapReportedOnce'
    BY <2>1, <2>2 DEF NextFollows, PassedOwnIds, ValidStreamIsContinuous, GapReportedOnce
  <2>5. LedgerOK'
    BY <2>1 DEF Inv, LedgerOK
  <2> QED
    BY <2>3, <2>4, <2>5 DEF Inv
<1>2. ASSUME NEW seg \in Segments, NEW seek \in BOOLEAN, NEW at \in Times,
             PresentSegment(seg, seek, at)
      PROVE  Inv'
  BY <1>2, PresentKeeps
<1>3. CASE Return \/ UNCHANGED vars
  <2>1. /\ keys' = keys /\ nextSequence' = nextSequence /\ seen' = seen /\ presented' = presented
        /\ seeks' = seeks /\ verified' = verified /\ failed' = failed /\ times' = times
    BY <1>3 DEF Return, vars
  <2>2. phase' = phase \/ (phase' = "done" /\ phase = "segments")
    BY <1>3 DEF Return, vars
  <2>3. Typed'
    BY <2>1, <2>2 DEF Inv, Typed
  <2>4. NextFollows'
    BY <2>1, <2>2 DEF Inv, NextFollows
  <2>5. LedgerOK' /\ PassedOwnIds'
    BY <2>1 DEF Inv, LedgerOK, PassedOwnIds
  <2>6. ValidStreamIsContinuous' /\ GapReportedOnce'
    BY <2>1 DEF Inv, ValidStreamIsContinuous, GapReportedOnce
  <2> QED
    BY <2>3, <2>4, <2>5, <2>6 DEF Inv
<1> QED
  BY <1>1, <1>2, <1>3 DEF Next

LEMMA SpecInv == Spec => []Inv
<1> QED
  BY InitInv, NextInv, PTL DEF Spec

-----------------------------------------------------------------------------
(***************************************************************************)
(* The theorems.                                                           *)
(***************************************************************************)

\* A live stream without failures is what was signed: it starts at the lowest
\* key floor, goes up by one but for signalled seeks, and every segment was
\* authenticated for its own media by a key in force (validate_emsg_segments).
THEOREM ContinuousInvariant == Spec => []ValidStreamIsContinuous
<1>1. Inv => ValidStreamIsContinuous
  BY DEF Inv
<1> QED
  BY <1>1, SpecInv, PTL

\* Two segments that passed and share an event id are byte for byte the same
\* (SessionEventIds::admit over the scans of all segments).
THEOREM IdsInvariant == Spec => []AcceptedIdsNameOneSegment
<1>1. Inv => AcceptedIdsNameOneSegment
  <2> SUFFICES ASSUME Inv, NEW i \in (1..Len(presented)) \ failed,
                      NEW j \in (1..Len(presented)) \ failed,
                      Ids(presented[i]) \cap Ids(presented[j]) # {}
               PROVE  presented[i] = presented[j]
    BY DEF AcceptedIdsNameOneSegment
  <2>1. PICK id : id \in Ids(presented[i]) /\ id \in Ids(presented[j])
    OBVIOUS
  <2> QED
    BY <2>1 DEF Inv, PassedOwnIds
<1> QED
  BY <1>1, SpecInv, PTL

\* A gap is reported once: the segment that carries the number after an
\* authenticated one passes (validate_emsg_segments, next_sequence).
THEOREM GapsInvariant == Spec => []GapReportedOnce
<1>1. Inv => GapReportedOnce
  BY DEF Inv
<1> QED
  BY <1>1, SpecInv, PTL
=============================================================================
