-------------------------- MODULE MCManifestPipeline --------------------------
(***************************************************************************)
(* Instance of ManifestPipeline for TLC: a sound, trusted call and every    *)
(* call that differs from it in at most two of the listed ways, for every   *)
(* profile and every way the content can be given.                          *)
(***************************************************************************)
EXTENDS ManifestPipeline, TLC

Token(scope, verified, time) ==
  [scope |-> scope, verified |-> verified, time |-> time]

Parent(link, findings) == [link |-> link, findings |-> findings]

Staples(leaf, ca) == [rejected |-> FALSE, leaf |-> leaf, ca |-> ca]

Defect(code, isFatal) == [code |-> code, fatal |-> isFatal]

Base ==
  [multi |-> "none", declared |-> "created", parents |-> <<>>,
   claim |-> "ok", conformant |-> TRUE, structure |-> <<>>, references |-> {},
   semver |-> TRUE, evidenceRejected |-> FALSE, signed |-> TRUE,
   header |-> <<Token("manifest", TRUE, "T1")>>, tokens |-> <<>>,
   stampMalformed |-> FALSE,
   leaf |-> "acceptable", verification |-> "ok",
   window |-> {Now, "T1"}, caWindow |-> {Now, "T1"},
   anchors |-> "path", allowed |-> "absent",
   findings |-> {}, identityFailures |-> {},
   staples |-> Staples({"good"}, {}), onlineLeaf |-> None,
   onlineCaRevoked |-> FALSE, unboundFragments |-> FALSE]

Profile(mode, compliance, version) ==
  [profile |-> [mode |-> mode, compliance |-> compliance, version |-> version]]

Profiles ==
  {Profile("regular", "core", "2.4"), Profile("regular", "core", "2.5"),
   Profile("conformance", "core", "2.4"), Profile("conformance", "program", "2.5")}

Content(binding, asset) == [binding |-> binding, asset |-> asset]

Contents ==
  {Content("asset", a) : a \in {"primary", "fallback", "neither", "malformed"}}
  \union {Content("caller", a) : a \in {"primary", "neither", "stray"}}
  \union {Content("prehashed", a) : a \in {"primary", "neither"}}
  \union {Content("hostless", a) : a \in {"primary", "neither"}}
  \union {Content("deferred", "neither"), Content("storeOnly", "neither")}

Mismatch == "assertion.hashedURI.mismatch"

Changes ==
  {[multi |-> m] : m \in {"created", "gathered"}}
  \union {[declared |-> d] : d \in {"gathered", "none"}}
  \union {[parents |-> p] : p \in {
       <<Parent("manifest", {})>>, <<Parent("legacy", {})>>,
       <<Parent("broken", {})>>,
       <<Parent("manifest", {Mismatch})>>,
       <<Parent("signature", {}), Parent("manifest", {})>>,
       <<Parent("manifest", {Mismatch}), Parent("manifest", {})>>,
       <<Parent("manifest", {}), Parent("broken", {})>>,
       <<Parent("manifest", {}), Parent("legacy", {})>>}}
  \union {[claim |-> c] : c \in {"claim.missing", "claim.cbor.invalid"}}
  \union {[conformant |-> FALSE], [semver |-> FALSE],
          [evidenceRejected |-> TRUE], [signed |-> FALSE],
          [unboundFragments |-> TRUE], [onlineCaRevoked |-> TRUE],
          [stampMalformed |-> TRUE],
          [allowed |-> "listed"], [caWindow |-> {"T1"}]}
  \union {[structure |-> s] : s \in {
       <<Defect("claim.multiple", TRUE)>>,
       <<Defect("assertion.selfRedacted", FALSE), Defect("claim.malformed", TRUE)>>}}
  \union {[references |-> r] : r \in {
       {ExternalMismatch}, {"assertion.inaccessible"}, {"hashedURI.missing"}}}
  \union {[header |-> h] : h \in {<<>>, <<Token("manifest", FALSE, "T1")>>}}
  \union {[header |-> <<>>, tokens |-> t] : t \in {
       <<Token("ingredient", TRUE, "T1")>>,
       <<Token("manifest", FALSE, "T0"), Token("manifest", TRUE, "T1")>>}}
  \union {[leaf |-> l] : l \in {"none", "unacceptable"}}
  \union {[verification |-> v] :
            v \in {"claimSignature.mismatch", "algorithm.unsupported"}}
  \union {[window |-> w] : w \in {{Now}, {"T1"}, {"T0"}}}
  \union {[anchors |-> a] : a \in {"absent", "none", "self"}}
  \union {[anchors |-> "absent", allowed |-> a] : a \in {"unlisted", "listed"}}
  \union {[findings |-> f] : f \in {{Mismatch}, {"assertion.missing"}}}
  \union {[identityFailures |-> IdentityScoped]}
  \union {[staples |-> s] : s \in {
       Staples({}, {}), Staples({"revoked"}, {}), Staples({"good", "revoked"}, {}),
       Staples({"good"}, {"revoked"}),
       [Staples({"revoked"}, {}) EXCEPT !.rejected = TRUE]}}
  \union {[onlineLeaf |-> o] :
            o \in {"notRevoked", "revoked", "unknown", "unreachable"}}

MCCalls ==
  {a @@ b @@ c @@ p @@ Base :
     a \in Changes, b \in Changes, c \in Contents, p \in Profiles}
=============================================================================
