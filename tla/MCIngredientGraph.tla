-------------------------- MODULE MCIngredientGraph --------------------------
(***************************************************************************)
(* Stores and ceilings for IngredientGraph.  Shapes is every way three     *)
(* manifests can link to each other, to themselves and to an absent        *)
(* manifest with up to two links, the first of which leads to the second   *)
(* manifest; Lineages are stores with redactions, time-stamp manifests and *)
(* claims that do not decode.                                              *)
(***************************************************************************)
EXTENDS IngredientGraph

Seen(l) == {<<"claimSignature.validated", l, None>>}
Link(name, target, recorded) ==
    [name |-> name, kind |-> "ingredient", box |-> "match", target |-> target,
     recorded |-> recorded, manifestLink |-> "ingredient.manifest.validated",
     signatureLink |-> "ingredient.claimSignature.validated"]
Plain(name, kind, box) ==
    [Link(name, None, None) EXCEPT !.kind = kind, !.box = box]
Manifest(assertions) ==
    [claim |-> "decoded", signature |-> "claimSignature.validated", bytes |-> 1,
     references |-> 0, redacts |-> {}, assertions |-> assertions]

----------------------------------------------------------------------------
Names == <<"i1", "i2">>
Linked(targets) ==
    [i \in DOMAIN targets |-> Link(Names[i], targets[i], Seen(targets[i]))]
TargetLists(most) ==
    {s \in {<<>>} \cup {<<t>> : t \in 1..4} \cup {<<t, u>> : t \in 1..4, u \in 1..4} :
        Len(s) <= most}
Shapes ==
    {1 :> Manifest(Linked(s1)) @@ 2 :> Manifest(Linked(s2)) @@ 3 :> Manifest(Linked(s3)) :
        s1 \in {s \in TargetLists(2) : s # <<>> /\ s[1] = 2}, s2 \in TargetLists(2), s3 \in TargetLists(1)}

Ceiling(depth, nodes, references, bytes) ==
    [depth |-> depth, nodes |-> nodes, references |-> references, bytes |-> bytes]
----------------------------------------------------------------------------
\* The first ingredient's assertion "a" is gone; the second ingredient, which
\* is validated later, is the claim that redacts it.
Redacting(boxOfA, kindOfA) ==
    1 :> Manifest(<<Link("i1", 2, Seen(2)), Link("i2", 3, None)>>)
    @@ 2 :> Manifest(<<Plain("a", kindOfA, boxOfA), Link("i1", 4, None)>>)
    @@ 3 :> [Manifest(<<Link("i1", 2, None)>>)
               EXCEPT !.redacts = {<<2, "a">>, <<3, "i1">>}, !.references = 1]
    @@ 4 :> Manifest(<<Plain("b", "other", "match")>>)

\* A link redacted by a claim that only that link leads to.
Undercut ==
    1 :> [Manifest(<<Link("i1", 2, None), Link("i2", 3, Seen(3))>>) EXCEPT !.references = 1]
    @@ 2 :> Manifest(<<Link("i1", 4, None)>>)
    @@ 3 :> Manifest(<<Link("i1", 5, None)>>)    \* which the store does not carry
    @@ 4 :> [Manifest(<<Plain("h", "protected", "match")>>) EXCEPT !.redacts = {<<2, "i1">>}]

\* A time-stamp manifest, claims that do not read, a link altered in place.
Ended ==
    1 :> Manifest(<<Link("i1", 2, Seen(2)), Link("i2", 3, None), Link("i3", 4, Seen(4))>>)
    @@ 2 :> Manifest(<<Plain("t", "timestamp", "match"), Link("i1", 5, None)>>)
    @@ 3 :> [Manifest(<<>>) EXCEPT !.claim = "missing"]
    @@ 4 :> [Manifest(<<Link("i1", 3, None), [Link("i2", 2, None) EXCEPT !.box = "altered"],
                        Plain("t", "timestamp", "match"), Plain("n", "ingredient", "match")>>)
               EXCEPT !.references = 2, !.signature = "claimSignature.mismatch",
                      !.assertions = Append(@, Plain("o", "other", "zeroed"))]
    @@ 5 :> [Manifest(<<>>) EXCEPT !.claim = "invalid"]

\* An ingredient of an ingredient is also linked by the active manifest, and
\* its signer recorded the verdict in full.
Diamond ==
    1 :> Manifest(<<Link("i1", 2, Seen(2)), Link("i2", 3, Seen(3))>>)
    @@ 2 :> Manifest(<<Link("i1", 3, Seen(3)), Link("i2", 4, None)>>)
    @@ 3 :> Manifest(<<>>)
    @@ 4 :> [Manifest(<<Link("i1", 1, None), Link("i2", 5, None)>>) EXCEPT !.bytes = 2]
    @@ 5 :> [Manifest(<<>>) EXCEPT !.claim = "invalid"]

Lineages ==
    {Redacting(box, kind) : box \in Boxes, kind \in {"other", "protected"}}
        \cup {Undercut, Ended, Diamond}

MCStores == Shapes \cup Lineages

\* Every value of one ceiling with the others out of reach, and some that compete.
MCLimits ==
    {Ceiling(d, 9, 9, 9) : d \in 0..3}
        \cup {Ceiling(9, n, 9, 9) : n \in 0..4}
        \cup {Ceiling(9, 9, r, 9) : r \in 0..6}
        \cup {Ceiling(9, 9, 9, b) : b \in {2, 3, 5}}
        \cup {Ceiling(1, 2, 9, 9), Ceiling(2, 9, 2, 9), Ceiling(9, 3, 4, 3)}
==============================================================================
