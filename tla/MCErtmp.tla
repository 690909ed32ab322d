------------------------------- MODULE MCErtmp -------------------------------
(***************************************************************************)
(* Small instances of Ertmp for TLC.                                       *)
(***************************************************************************)
EXTENDS Ertmp

Key(id, signer, floor, live) == [id |-> id, signer |-> signer, floor |-> floor, live |-> live]
Store(label, keys, binds) ==
    [label |-> label, keys |-> keys, admissible |-> TRUE, binds |-> binds, intact |-> TRUE]

\* Two tracks compete for two session keys.  A manifest for the first track alone, and
\* one for both that delivers its key again, with other material and a higher floor.
MCTracksStores ==
    {Store("m1", {Key("k1", "s1", 0, TRUE)}, <<1>>),
     Store("m1", {Key("k1", "s2", 1, TRUE), Key("k2", "s1", 0, TRUE)}, <<1, 1>>)}
MCTracksPayloads == {<<1>>}

\* One label with two stores that bind different initialization data, a store that fails
\* validation and one that manifest_delivery refuses.
MCBindingStores ==
    {Store("m1", {Key("k1", "s1", 1, TRUE)}, <<1>>),
     Store("m1", {Key("k1", "s1", 1, TRUE)}, <<1, 2>>),
     [Store("m1", {Key("k1", "s1", 1, TRUE)}, <<1>>) EXCEPT !.intact = FALSE],
     [Store("m1", {}, <<1>>) EXCEPT !.admissible = FALSE]}
MCBindingPayloads == {<<1>>, <<1, 2>>}
=============================================================================
