------------------------------ MODULE OutcomeMap ------------------------------
(***************************************************************************)
(* What one online verification promises about the network: a write-once   *)
(* map from URLs to outcomes.  The caller's evidence is there from the     *)
(* start, a URL is contacted at most once, what the contact brought stays  *)
(* as it is, the contacts stay within the request budget, and nothing      *)
(* changes once a pass has judged with the map.  OnlineSession implements  *)
(* this specification.                                                     *)
(***************************************************************************)
EXTENDS Integers

CONSTANTS Uris, Settled, MaxRequests

VARIABLES
    held,        \* what is held for each URL
    contacted,   \* the URLs a request was sent to
    sent,        \* the number of requests sent, OCSP requests included
    frozen       \* a pass has judged

vars == <<held, contacted, sent, frozen>>

Init ==
    /\ held \in [Uris -> Settled \cup {"not_attempted"}]
    /\ contacted = {}
    /\ sent = 0
    /\ frozen = FALSE

\* A request for u, which may leave it without an outcome.
Contact(u) ==
    /\ ~frozen
    /\ held[u] = "not_attempted"
    /\ u \notin contacted
    /\ sent < MaxRequests
    /\ \E o \in Settled \cup {"not_attempted"} : held' = [held EXCEPT ![u] = o]
    /\ contacted' = contacted \cup {u}
    /\ sent' = sent + 1
    /\ UNCHANGED frozen

\* A pass judges with the map as it is.
Judge ==
    /\ ~frozen
    /\ frozen' = TRUE
    /\ UNCHANGED <<held, contacted, sent>>

\* An OCSP request, between two passes.
Query ==
    /\ frozen
    /\ sent < MaxRequests
    /\ sent' = sent + 1
    /\ UNCHANGED <<held, contacted, frozen>>

Next == Judge \/ Query \/ \E u \in Uris : Contact(u)

Spec == Init /\ [][Next]_vars
=============================================================================
