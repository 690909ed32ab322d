--------------------------- MODULE MCOnlineSession ---------------------------
(***************************************************************************)
(* Instance of OnlineSession for TLC.                                      *)
(***************************************************************************)
EXTENDS OnlineSession

NoLinks == [uris |-> <<>>, examined |-> 0]
NoPred == [kind |-> "none", to |-> None]
External(u) == [kind |-> "external", to |-> u]
Inline(b) == [kind |-> "inline", to |-> b]

Manifest(uriList, n, ingredients) ==
    [links |-> [uris |-> uriList, examined |-> n], claim |-> TRUE, stamp |-> FALSE,
     ingredients |-> ingredients]

Store(links, didList, pred) ==
    [store |-> TRUE, json |-> FALSE, size |-> 1, dids |-> didList, links |-> links,
     pred |-> pred, graph |-> [l \in {"active"} |-> Manifest(<<>>, 0, <<>>)]]

NoStore(json, size) ==
    [Store(NoLinks, <<>>, NoPred) EXCEPT !.store = FALSE, !.json = json, !.size = size]

\* leaf      a store without references
\* chain     a store whose predecessor is at b, found first as a resource
\* again     a store whose predecessor is at a, which the identity names too
\* nested    a store whose predecessor is inline, and in turn at b
\* graph     a store with an ingredient graph: a cycle, a missing manifest, a
\*           time-stamp manifest, and a reference found in an ingredient
\* torn      a store with an ingredient whose claim cannot be read
MCContent ==
    [leaf   |-> Store(NoLinks, <<>>, NoPred),
     chain  |-> Store([uris |-> <<"b", "b">>, examined |-> 3], <<>>, External("b")),
     again  |-> Store([uris |-> <<"b">>, examined |-> 1], <<"a", "a">>, External("a")),
     nested |-> Store(NoLinks, <<"b">>, Inline("chain")),
     graph  |-> [Store([uris |-> <<>>, examined |-> 1], <<"a">>, NoPred) EXCEPT
                   !.graph = [active |-> Manifest(<<>>, 0, <<"p", "lost", "p">>),
                              p |-> Manifest(<<"a">>, 1, <<"active", "q">>),
                              q |-> [Manifest(<<"b">>, 1, <<>>) EXCEPT !.stamp = TRUE]]],
     torn   |-> [Store(NoLinks, <<"a">>, [kind |-> "bad", to |-> None]) EXCEPT
                   !.graph = [active |-> Manifest(<<>>, 0, <<"p">>),
                              p |-> [Manifest(<<>>, 0, <<>>) EXCEPT !.claim = FALSE]]],
     bad    |-> Store(NoLinks, <<>>, [kind |-> "bad", to |-> None]),
     doc    |-> NoStore(TRUE, 1),
     junk   |-> NoStore(FALSE, 2)]

MCEvidence == {[u \in Uris |-> "not_attempted"],
               [u \in Uris |-> IF u = "b" THEN "chain" ELSE "not_attempted"],
               [u \in Uris |-> IF u = "a" THEN "unavailable" ELSE "not_attempted"]}

Decided(o, e, w, s) == [option |-> o, environment |-> e, surface |-> w, saved |-> s]

MCConsents == {Decided("on", "off", "library", "off"),
               Decided("unset", "unset", "library", "on"),
               Decided("unset", "invalid", "terminal", "on"),
               Decided("unset", "unset", "terminal", "absent"),
               Decided("unset", "unset", "pipe", "on")}

MCOcspLists == {<<>>, << <<"k", 1>>, <<"k", 1>>, <<"k", 2>> >>}

MCLimit == [remote_manifest |-> 2, external_data |-> 2, did_document |-> 1, ocsp |-> 1]

\* Each of the four ceilings is the one that stops some asset.
MCLimits == {[depth |-> 2, nodes |-> 9, references |-> 9, bytes |-> 9],
             [depth |-> 5, nodes |-> 2, references |-> 9, bytes |-> 9],
             [depth |-> 5, nodes |-> 9, references |-> 2, bytes |-> 2]}
=============================================================================
