----------------------------- MODULE VerifyCache -----------------------------
(***************************************************************************)
(* The content-addressed cache of verification results                     *)
(* (c2pa-validate/cache.rs).                                               *)
(*                                                                         *)
(* The cache is a map with expiry and a vector of its keys, least recently *)
(* used first.  It is borrowed mutably, so its own operations never        *)
(* interleave, but time passes while verify_cached runs the verifier       *)
(* between its lookup and its store, and an entry's life starts at the     *)
(* store.                                                                  *)
(*                                                                         *)
(* An input has the parts the key is made of (asset stands for the bytes   *)
(* and the MIME type, trust for the fingerprint of both trust lists, time  *)
(* for the validation time, None for the system clock) and the rest, which *)
(* the verifier reads as well: profile, allowed_certs, evidence and        *)
(* cawg_strict_encoding.  SHA-256 is taken to be injective.  A result is   *)
(* named by the input it came from and the time it was judged at.          *)
(***************************************************************************)
EXTENDS Integers, Sequences, FiniteSets, SequencesExt

CONSTANTS
    Assets,       \* asset bytes with their MIME type
    Refused,      \* the assets the verifier returns an error for
    Trusts,       \* trust fingerprints
    Instants,     \* explicit validation times
    Rests,        \* the inputs the key does not cover
    Capacities,   \* capacities asked of VerifyCache::new
    Ttls,         \* times to live, default and explicit
    None,         \* the system clock as validation time; no entry
    MaxTime,      \* bound on the monotonic clock
    MaxOps        \* bound on the operations

ASSUME BoundsAssumption ==
    /\ Refused \subseteq Assets
    /\ Capacities \subseteq Nat
    /\ Ttls \subseteq Nat
    /\ MaxTime \in Nat
    /\ MaxOps \in Nat

Inputs == [asset : Assets, trust : Trusts, time : Instants \cup {None}, rest : Rests]
Keys == [asset : Assets, trust : Trusts, time : Instants \cup {None}]
Results == [input : Inputs, at : Instants \cup 0..MaxTime]
Entries == [result : Results, inserted : 0..MaxTime, ttl : Ttls]

ASSUME NoneAssumption == None \notin Entries

VARIABLES
    now,        \* Instant::now()
    capacity,   \* at least 1
    defaultTtl,
    map,        \* entries by key
    order,      \* keys, least recently used first
    hits,
    misses,
    pc,         \* verify_cached: "idle", "verify", "store"
    asked,      \* the input verify_cached works on
    found,      \* the result it is about to store
    ops,        \* number of uses so far
    used,       \* the number of each key's last use, 0 before
    latest,     \* the entry last put under each key, None before
    served      \* the last lookup: its input, key and answer, None for a miss

vars == <<now, capacity, defaultTtl, map, order, hits, misses, pc, asked, found,
          ops, used, latest, served>>

cache == <<capacity, defaultTtl, map, order, hits, misses>>

-----------------------------------------------------------------------------
\* VerifyCache::key
Key(input) == [asset |-> input.asset, trust |-> input.trust, time |-> input.time]

\* Mutant of IsFresh: an entry lives one instant longer.
FreshOneLonger(e) == now - e.inserted <= e.ttl

\* CachedResult::is_fresh
IsFresh(e) == now - e.inserted < e.ttl

Hit(key) == key \in DOMAIN map /\ IsFresh(map[key])

\* Mutant of Touched: a hit does not count as a use.
Untouched(key) == order

\* A hit moves the key to the most recently used end.
Touched(key) == Append(RemoveFirst(order, key), key)

Without(f, key) == [k \in DOMAIN f \ {key} |-> f[k]]

\* Mutant of Dropped: an expired key stays in the order.
StaysInOrder(key) == order

\* A miss on an expired entry takes its key out of the order.
Dropped(key) == IF key \in DOMAIN map THEN RemoveFirst(order, key) ELSE order

\* capacity.max(1)
AtLeastOne(c) == IF c < 1 THEN 1 ELSE c

\* VerifyCache::new
Init ==
    /\ now = 0
    /\ \E c \in Capacities : capacity = AtLeastOne(c)
    /\ defaultTtl \in Ttls
    /\ map = [k \in {} |-> None]
    /\ order = <<>>
    /\ hits = 0
    /\ misses = 0
    /\ pc = "idle"
    /\ asked = None
    /\ found = None
    /\ ops = 0
    /\ used = [k \in Keys |-> 0]
    /\ latest = [k \in Keys |-> None]
    /\ served = None

Tick ==
    /\ now < MaxTime
    /\ now' = now + 1
    /\ served' = None
    /\ UNCHANGED <<cache, pc, asked, found, ops, used, latest>>

\* get, for a caller that asks on behalf of `input`
Get(input) ==
    LET key == Key(input) IN
    /\ ops < MaxOps
    /\ ops' = ops + 1
    /\ \/ /\ Hit(key)
          /\ hits' = hits + 1
          /\ order' = Touched(key)
          /\ used' = [used EXCEPT ![key] = ops + 1]
          /\ served' = [input |-> input, key |-> key, answer |-> map[key].result]
          /\ UNCHANGED <<map, misses>>
       \/ /\ ~Hit(key)
          /\ misses' = misses + 1
          /\ order' = Dropped(key)
          /\ map' = Without(map, key)
          /\ served' = [input |-> input, key |-> key, answer |-> None]
          /\ UNCHANGED <<hits, used>>
    /\ UNCHANGED <<now, capacity, defaultTtl, latest>>

\* A new key in a full cache evicts the least recently used one.
Victims(key) ==
    IF key \notin DOMAIN map /\ Cardinality(DOMAIN map) >= capacity /\ order # <<>>
    THEN {Head(order)} ELSE {}

\* order.retain(|k| k != key)
Retained(s, key) ==
    LET kept[n \in 0..Len(s)] ==
          IF n = 0 THEN <<>>
          ELSE IF s[n] = key THEN kept[n - 1] ELSE Append(kept[n - 1], s[n])
    IN  kept[Len(s)]

\* put_with_ttl
PutWithTtl(key, result, ttl) ==
    LET entry == [result |-> result, inserted |-> now, ttl |-> ttl]
        gone == Victims(key)
        left == IF gone = {} THEN order ELSE Tail(order)
        kept == DOMAIN map \ gone
    IN  /\ ops < MaxOps
        /\ ops' = ops + 1
        /\ order' = Append(Retained(left, key), key)
        /\ map' = [k \in kept \cup {key} |-> IF k = key THEN entry ELSE map[k]]
        /\ used' = [used EXCEPT ![key] = ops + 1]
        /\ latest' = [latest EXCEPT ![key] = entry]
        /\ served' = None
        /\ UNCHANGED <<now, capacity, defaultTtl, hits, misses>>

-----------------------------------------------------------------------------
\* The verifier's answer: what it says depends on all of its input and on the
\* clock when no validation time is given.
Verified(input) ==
    [input |-> input, at |-> IF input.time = None THEN now ELSE input.time]

\* verify_cached: the lookup ...
VerifyCached(input) ==
    /\ pc = "idle"
    /\ Get(input)
    /\ IF Hit(Key(input)) THEN UNCHANGED <<pc, asked>>
       ELSE pc' = "verify" /\ asked' = input
    /\ UNCHANGED found

\* ... the verification, whose error leaves the cache as it is ...
Verify ==
    /\ pc = "verify"
    /\ IF asked.asset \in Refused
       THEN pc' = "idle" /\ asked' = None /\ found' = None
       ELSE pc' = "store" /\ found' = Verified(asked) /\ UNCHANGED asked
    /\ served' = None
    /\ UNCHANGED <<now, cache, ops, used, latest>>

\* ... and the store.
Store ==
    /\ pc = "store"
    /\ PutWithTtl(Key(asked), found, defaultTtl)
    /\ pc' = "idle"
    /\ asked' = None
    /\ found' = None

\* A service that calls get and put itself, with a result of its own.
CallerGet(input) ==
    /\ pc = "idle"
    /\ Get(input)
    /\ UNCHANGED <<pc, asked, found>>

CallerPut(input, ttl) ==
    /\ pc = "idle"
    /\ input.asset \notin Refused
    /\ PutWithTtl(Key(input), Verified(input), ttl)
    /\ UNCHANGED <<pc, asked, found>>

Next ==
    \/ Tick
    \/ Verify
    \/ Store
    \/ \E input \in Inputs :
         \/ VerifyCached(input)
         \/ CallerGet(input)
         \/ \E ttl \in Ttls : CallerPut(input, ttl)

Spec == Init /\ [][Next]_vars

-----------------------------------------------------------------------------
(***************************************************************************)
(* Properties.                                                             *)
(***************************************************************************)

\* Every variable holds what the code declares it to hold, and the counters
\* count the lookups.
TypeOK ==
    /\ now \in 0..MaxTime
    /\ capacity \in Nat \ {0}
    /\ defaultTtl \in Ttls
    /\ DOMAIN map \subseteq Keys
    /\ \A k \in DOMAIN map : map[k] \in Entries
    /\ order \in Seq(Keys)
    /\ hits \in Nat /\ misses \in Nat /\ hits + misses <= ops
    /\ pc \in {"idle", "verify", "store"}
    /\ asked \in Inputs \cup {None}
    /\ found \in Results \cup {None}
    /\ ops \in 0..MaxOps
    /\ used \in [Keys -> 0..MaxOps]
    /\ latest \in [Keys -> Entries \cup {None}]

\* The vector and the map never drift apart over hits, expiries, evictions
\* and repeated puts: the vector lists every key of the map once and nothing
\* else, so the cache never holds more than its capacity and never evicts a
\* key it does not hold.
OrderListsTheMap ==
    /\ IsInjective(order)
    /\ Range(order) = DOMAIN map
    /\ Len(order) <= capacity

\* A put evicts at most one entry, and none that was used after one that
\* stays.
EvictsLeastRecentlyUsed ==
    [][latest' # latest =>
         LET gone == DOMAIN map \ DOMAIN map'
         IN  /\ Cardinality(gone) <= 1
             /\ \A v \in gone, k \in DOMAIN map \cap DOMAIN map' : used[v] < used[k]]_vars

\* A hit answers with the result put last under its key, put less than its
\* time to live ago - neither an eviction, an expiry nor an older put shows -
\* and computed for the asset, the trust lists and the validation time asked
\* for: "so a trust-list change busts the entry".
HitIsCurrent ==
    (served # None /\ served.answer # None) =>
        LET e == latest[served.key]
            computed == served.answer.input
        IN  /\ e # None
            /\ served.answer = e.result
            /\ now - e.inserted < e.ttl
            /\ computed.asset = served.input.asset
            /\ computed.trust = served.input.trust
            /\ computed.time = served.input.time
=============================================================================
