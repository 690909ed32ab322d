------------------------ MODULE ManifestPipelineProofs ------------------------
(***************************************************************************)
(* What one pass of verify_manifest_bound promises, for every call.         *)
(*                                                                          *)
(* The stages follow one another and the results only grow, so the          *)
(* invariant says of each stage what it has left behind once it is passed.  *)
(* The stages that return early skip the rest: CutShort tells those calls.  *)
(***************************************************************************)
EXTENDS ManifestPipeline, WellFoundedInduction, NaturalsInduction, TLAPS

Last == {"finish", "fragments", "done"}
Upgraded == {"upgrades"} \union Last
Revoked == {"trust"} \union Upgraded
Judged == {"revocation"} \union Revoked
Compared == {"identity"} \union Judged
Bound == {"content"} \union Compared
Opened == {"bindings"} \union Bound
Timed == {"credential"} \union Opened
Signed == {"time"} \union Timed
Referenced == {"signature"} \union Signed
Structured == {"references"} \union Referenced
Stages == {"claim", "structure"} \union Structured

\* The pass ends before the credential is judged.
CutShort(c) == c.claim # "ok" \/ ~c.signed

Typed ==
  /\ call \in Calls
  /\ pc \in Stages
  /\ identity \in BOOLEAN

\* capture_early_return
Returned(code) ==
  /\ pc \in Last
  /\ code \in results.failure
  /\ ~identity
  /\ Captures(call) => gate = code

ReturnOK ==
  /\ call.claim # "ok" /\ pc # "claim" => Returned(call.claim)
  /\ call.claim = "ok" /\ ~call.signed /\ pc \in Signed => Returned("claimSignature.missing")

\* claim_structure_first_fatal and the checks of references
StructureOK ==
  /\ pc \in {"claim", "structure"} => fatal = None
  /\ fatal # None => fatal \in results.failure /\ fatal \notin Caveats
  /\ pc \in Structured /\ call.claim = "ok" =>
       /\ fatal = None => \A i \in DOMAIN call.structure : ~call.structure[i].fatal
       /\ BindingMissing(call) => "claim.hardBindings.missing" \in results.failure
  /\ pc \in Referenced /\ call.claim = "ok" => call.references \subseteq results.failure

TimeOK ==
  /\ at = Now \/ \E i \in Verified(call) : Tokens(call)[i].time = at
  /\ "timeStamp.trusted" \in results.success => Verified(call) # {}

\* The signature and its certificate
CredentialOK ==
  pc \in Opened /\ ~CutShort(call) =>
    /\ Usable(call, fatal, at) => "claimSignature.validated" \in results.success
    /\ InValidity(call, at) => "claimSignature.insideValidity" \in results.success
    /\ call.leaf = "none" =>
         {"signingCredential.invalid", "claimSignature.mismatch"} \subseteq results.failure
    /\ call.leaf # "none" /\ call.verification # "ok" => call.verification \in results.failure
    /\ call.leaf # "none" /\ ~InValidity(call, at) =>
         "claimSignature.outsideValidity" \in results.failure
    /\ pc \in {"bindings", "content", "identity"} => Usable(call, fatal, at)

\* The stages that run only when the signature may be used
Examined == ~CutShort(call) /\ Usable(call, fatal, at)

BoundOK ==
  pc \in Bound /\ Examined =>
    /\ call.findings \subseteq results.failure
    /\ IsUpdate(call) => LinkFails(call, call.parents[1].link) \subseteq results.failure

MatchCodes == {"assertion.dataHash.match", "assertion.multiAssetHash.match"}

ContentOK ==
  /\ pc \in Compared /\ Examined =>
       /\ \A i \in Visited(call) :
            /\ call.parents[i].findings \subseteq results.failure
            /\ LinkFails(call, call.parents[i + 1].link) \subseteq results.failure
       /\ IsUpdate(call) /\ ChainReached(call) =>
            call.parents[Len(call.parents)].findings \subseteq results.failure
       /\ Compares(call) =>
            \E compromised \in BOOLEAN :
              /\ Comparison(call, compromised).failure \subseteq results.failure
              /\ Comparison(call, compromised).informational \subseteq results.informational
  /\ results.success \intersect MatchCodes # {} => call.binding # "storeOnly"

\* The identity step ran on a manifest without a failure.
IdentitySound ==
  /\ {"claimSignature.validated", "claimSignature.insideValidity"} \subseteq results.success
  /\ call.references = {} /\ call.findings = {}
  /\ ContentMatches(call) \/ call.binding = "storeOnly"

IdentityOK ==
  /\ pc \notin Judged => ~identity
  /\ identity /\ ~Captures(call) /\ ~LegacyChain(call) => IdentitySound

\* DeferredCapture
GateOK ==
  /\ pc \notin Judged => gate = None
  /\ Captures(call) /\ pc \in Judged /\ ~CutShort(call) =>
       /\ Usable(call, fatal, at) => identity /\ gate = None
       /\ ~Usable(call, fatal, at) => ~identity /\ gate # None /\ gate \in results.failure

\* record_ocsp_status
RevocationOK ==
  pc \in Revoked /\ ~CutShort(call) =>
    /\ LeafRevocation(call) = "revoked" => "signingCredential.ocsp.revoked" \in results.failure
    /\ LeafRevocation(call) \in {"skipped", "unknown", "inaccessible"} =>
         results.informational \intersect NoRevocationInformation # {}

\* The trust decision
TrustOK ==
  "signingCredential.trusted" \in results.success =>
    /\ pc \in Upgraded /\ ~CutShort(call)
    /\ ChainTrusted(call, at) \/ LeafAllowed(call, at)
    /\ fatal = None
    /\ ~BlocksTrust(call)

\* apply_compliance_upgrades
UpgradesOK ==
  pc \in Last /\ ~CutShort(call) /\ call.profile.compliance = "program" =>
    /\ results.informational \intersect NoRevocationInformation # {} =>
         "com.encypher.conformance.revocationInformationMissing" \in results.failure
    /\ "timeStamp.trusted" \notin results.success =>
         "com.encypher.conformance.trustedTimeStampMissing" \in results.failure

ReportOK ==
  pc \in {"fragments", "done"} => report = Verdict(results, call.profile)

Inv ==
  /\ Typed /\ ReturnOK /\ StructureOK /\ TimeOK /\ CredentialOK /\ BoundOK /\ ContentOK
  /\ IdentityOK /\ GateOK /\ RevocationOK /\ TrustOK /\ UpgradesOK /\ ReportOK

-----------------------------------------------------------------------------
(***************************************************************************)
(* What every stage leaves alone.                                           *)
(***************************************************************************)

\* A set of natural numbers that is not empty has a least element.
LEMMA LeastNat ==
  ASSUME NEW T \in SUBSET Nat, T # {}
  PROVE  \E n \in T : \A m \in T : n <= m
<1>1. PICK x \in T : \A y \in T : ~(<<y, x>> \in OpToRel(<, Nat))
  BY NatLessThanWellFounded, WFMin, Zenon
<1>2. \A y \in T : ~(y < x)
  BY <1>1, Zenon DEF OpToRel
<1> QED
  BY <1>2

LEMMA FirstIsOne ==
  ASSUME NEW T \in SUBSET Nat, T # {}
  PROVE  First(T) \in T
BY LeastNat DEF First

\* What the next stage is
Flows ==
  /\ pc = "claim" => pc' \in {"structure", "finish"}
  /\ pc = "structure" => pc' = "references"
  /\ pc = "references" => pc' = "signature"
  /\ pc = "signature" => pc' \in {"time", "finish"}
  /\ pc = "time" => pc' = "credential"
  /\ pc = "credential" => pc' \in {"bindings", "revocation"}
  /\ pc = "bindings" => pc' = "content"
  /\ pc = "content" => pc' = "identity"
  /\ pc = "identity" => pc' = "revocation"
  /\ pc = "revocation" => pc' = "trust"
  /\ pc = "trust" => pc' = "upgrades"
  /\ pc = "upgrades" => pc' = "finish"
  /\ pc = "finish" => pc' = "fragments"
  /\ pc = "fragments" => pc' = "done"
  /\ pc # "done"

\* The results only grow, and only some stages write what decides a verdict.
Keeps ==
  /\ call' = call
  /\ results.failure \subseteq results'.failure
  /\ results.informational \subseteq results'.informational
  /\ results.success \subseteq results'.success
  /\ pc \notin {"structure", "references"} => fatal' = fatal
  /\ pc # "time" => at' = at
  /\ pc \notin {"claim", "signature", "credential"} => gate' = gate
  /\ pc # "identity" => identity' = identity
  /\ pc \notin {"finish", "fragments"} => report' = report
  /\ pc \in Last => results'.informational = results.informational
  /\ pc \in Last => results'.success = results.success
  /\ pc # "time" => ("timeStamp.trusted" \in results'.success => "timeStamp.trusted" \in results.success)
  /\ pc # "trust" =>
       ("signingCredential.trusted" \in results'.success => "signingCredential.trusted" \in results.success)
  /\ pc # "content" =>
       (results'.success \intersect MatchCodes # {} => results.success \intersect MatchCodes # {})

\* push_failure, push_informational and push_success
Pushes(f, i, s) ==
  /\ results'.failure = results.failure \union f
  /\ results'.informational = results.informational \union i
  /\ results'.success = results.success \union s

LEMMA WithPushes ==
  ASSUME NEW f, NEW i, NEW s, results' = With(results, f, i, s)
  PROVE  Pushes(f, i, s)
BY DEF With, Pushes

\* The statuses a call names are statuses.
Links == {"manifest", "signature", "legacy", "broken"}
LEMMA CallCodes ==
  ASSUME Typed
  PROVE  /\ call.claim # "ok" => call.claim \notin Caveats /\ call.claim # None
         /\ call.references \intersect IdentityScoped = {}
         /\ call.findings \intersect Caveats = {}
         /\ call.identityFailures \subseteq IdentityScoped
         /\ call.verification # "ok" => call.verification \notin Caveats /\ call.verification # None
         /\ \A i \in DOMAIN call.structure :
              call.structure[i].code \notin Caveats /\ call.structure[i].code # None
         /\ DOMAIN call.structure \in SUBSET Nat
         /\ Len(call.parents) \in Nat /\ DOMAIN call.parents = 1..Len(call.parents)
         /\ IsUpdate(call) => Len(call.parents) >= 1
         /\ \A i \in 1..Len(call.parents) :
              /\ call.parents[i].findings \intersect Caveats = {}
              /\ call.parents[i].link \in Links
<1> DEFINE Defects == [code : Breaking, fatal : BOOLEAN]
           Parents == [link : Links, findings : SUBSET Breaking]
<1>1. call.structure \in Seq(Defects) /\ call.parents \in Seq(Parents)
  BY CallsAssumption DEF Typed, Links
<1>2. \A code \in Breaking : code \notin Caveats /\ code # None
  BY CallsAssumption DEF Breaking
<1>4. /\ call.references \subseteq STRING \ IdentityScoped /\ call.findings \subseteq Breaking
      /\ call.identityFailures \subseteq IdentityScoped
      /\ call.verification = "ok" \/ call.verification \in Breaking
      /\ call.claim = "ok" \/ call.claim \in Breaking
  BY CallsAssumption DEF Typed
<1>5. /\ \A i \in DOMAIN call.structure : call.structure[i] \in Defects
      /\ DOMAIN call.structure \in SUBSET Nat
      /\ Len(call.parents) \in Nat /\ DOMAIN call.parents = 1..Len(call.parents)
      /\ IsUpdate(call) => Len(call.parents) >= 1
      /\ \A i \in 1..Len(call.parents) : call.parents[i] \in Parents
  <2> HIDE DEF Defects, Parents
  <2> QED
    BY <1>1 DEF IsUpdate
<1>6. \A i \in DOMAIN call.structure : call.structure[i].code \in Breaking
  BY <1>5
<1>7. \A i \in 1..Len(call.parents) :
        /\ call.parents[i].findings \subseteq Breaking
        /\ call.parents[i].link \in Links
  BY <1>5
<1> HIDE DEF Defects, Parents
<1>8. /\ call.claim # "ok" => call.claim \notin Caveats /\ call.claim # None
      /\ call.verification # "ok" => call.verification \notin Caveats /\ call.verification # None
      /\ \A i \in DOMAIN call.structure :
           call.structure[i].code \notin Caveats /\ call.structure[i].code # None
  BY <1>2, <1>4, <1>6
<1>9. /\ call.references \intersect IdentityScoped = {}
      /\ call.findings \intersect Caveats = {}
  BY <1>2, <1>4, Zenon
<1>10. \A i \in 1..Len(call.parents) : call.parents[i].findings \intersect Caveats = {}
  BY <1>2, <1>7
<1> QED
  BY <1>4, <1>5, <1>7, <1>8, <1>9, <1>10

\* What a stage that pushes statuses leaves alone
LEMMA PushKeeps ==
  ASSUME Typed, NEW f, NEW i, NEW s, Pushes(f, i, s), call' = call,
         pc # "time" => "timeStamp.trusted" \notin s,
         pc # "trust" => "signingCredential.trusted" \notin s,
         pc # "content" => s \intersect MatchCodes = {},
         pc \in Last => i = {} /\ s = {},
         pc \notin {"structure", "references"} => fatal' = fatal,
         pc # "time" => at' = at,
         pc \notin {"claim", "signature", "credential"} => gate' = gate,
         pc # "identity" => identity' = identity,
         pc \notin {"finish", "fragments"} => report' = report
  PROVE  Keeps
BY DEF Pushes, Keeps, MatchCodes

LEMMA SameKeeps ==
  ASSUME Typed, UNCHANGED <<call, results, fatal, at, gate, identity>>,
         pc \notin {"finish", "fragments"} => report' = report
  PROVE  Keeps
BY DEF Keeps, Typed, MatchCodes

\* capture_early_return
LEMMA EarlyReturnKeeps ==
  ASSUME Typed, NEW code, EarlyReturn(code), pc \in {"claim", "signature"}
  PROVE  /\ Keeps /\ pc' = "finish" /\ code \in results'.failure
         /\ UNCHANGED <<fatal, identity>>
         /\ Captures(call) => gate' = code
<1>1. Pushes({code}, {}, {})
  <2>1. results' = With(results, {code}, {}, {})
    BY DEF EarlyReturn
  <2> QED
    BY <2>1, WithPushes
<1>2. Keeps
  <2>1. pc \notin Last /\ UNCHANGED <<call, fatal, at, identity, report>>
    BY DEF EarlyReturn, Last
  <2> QED
    BY <1>1, <2>1, PushKeeps
<1> QED
  BY <1>1, <1>2 DEF EarlyReturn, Typed, Pushes

-----------------------------------------------------------------------------
(***************************************************************************)
(* The stages, one by one: what each leaves alone and what it leaves behind. *)
(***************************************************************************)

LEMMA ClaimStage ==
  ASSUME Typed, CheckClaim
  PROVE  /\ Keeps /\ UNCHANGED <<fatal, identity>>
         /\ \/ call.claim = "ok" /\ pc' = "structure" /\ gate' = gate
            \/ /\ call.claim # "ok" /\ pc' = "finish" /\ call.claim \in results'.failure
               /\ Captures(call) => gate' = call.claim
<1>1. CASE call.claim # "ok" /\ EarlyReturn(call.claim)
  <2>1. pc = "claim"
    BY DEF CheckClaim
  <2> QED
    BY <1>1, <2>1, EarlyReturnKeeps
<1>2. CASE /\ call.claim = "ok" /\ pc' = "structure"
           /\ UNCHANGED <<call, results, fatal, at, gate, identity, report>>
  BY <1>2, SameKeeps DEF Typed
<1> QED
  BY <1>1, <1>2 DEF CheckClaim

\* The first status that stops the structure checks is one of them.
LEMMA FirstFatalIsOne ==
  ASSUME Typed
  PROVE  \/ /\ FirstFatal(call.structure) = None
            /\ \A i \in DOMAIN call.structure : ~call.structure[i].fatal
         \/ \E i \in DOMAIN call.structure : FirstFatal(call.structure) = call.structure[i].code
<1> DEFINE stops == {i \in DOMAIN call.structure : call.structure[i].fatal}
<1>1. stops \in SUBSET Nat
  BY CallCodes
<1>2. FirstFatal(call.structure) = IF stops = {} THEN None ELSE call.structure[First(stops)].code
  BY DEF FirstFatal
<1>3. CASE stops = {}
  BY <1>2, <1>3
<1>4. CASE stops # {}
  <2>1. First(stops) \in stops
    <3> HIDE DEF stops
    <3> QED
      BY <1>1, <1>4, FirstIsOne
  <2>2. First(stops) \in DOMAIN call.structure
    BY <2>1
  <2> HIDE DEF stops
  <2> QED
    BY <1>2, <1>4, <2>2
<1> QED
  BY <1>3, <1>4

LEMMA StructureStage ==
  ASSUME Typed, CheckStructure
  PROVE  /\ Keeps /\ pc' = "references" /\ UNCHANGED <<gate, identity>>
         /\ fatal' = FirstFatal(call.structure)
         /\ \A i \in DOMAIN call.structure : call.structure[i].code \in results'.failure
         /\ BindingMissing(call) => "claim.hardBindings.missing" \in results'.failure
<1> DEFINE program == call.profile.compliance = "program"
           nonconformant == If(Nonconformant(call),
                               {"com.encypher.conformance.specVersionNonConformant"})
           codes == {call.structure[i].code : i \in DOMAIN call.structure}
           missing == If(BindingMissing(call), {"claim.hardBindings.missing"})
           F == If(program, nonconformant) \union codes \union missing
           I == If(~program, nonconformant)
<1>1. results' = With(results, F, I, {})
  BY DEF CheckStructure
<1>2. /\ pc = "structure" /\ pc' = "references" /\ fatal' = FirstFatal(call.structure)
      /\ UNCHANGED <<call, at, gate, identity, report>>
  BY DEF CheckStructure
<1>3. codes \subseteq F /\ (BindingMissing(call) => "claim.hardBindings.missing" \in F)
  BY DEF If
<1> HIDE DEF I, F
<1>4. Pushes(F, I, {})
  BY <1>1, WithPushes
<1>5. Keeps
  BY <1>2, <1>4, PushKeeps DEF Last
<1>6. F \subseteq results'.failure
  BY <1>4 DEF Pushes
<1> QED
  BY <1>2, <1>3, <1>5, <1>6

LEMMA ReferencesStage ==
  ASSUME Typed, CheckReferences
  PROVE  /\ Keeps /\ pc' = "signature" /\ UNCHANGED <<gate, identity>>
         /\ call.references \subseteq results'.failure
         /\ \/ fatal' = fatal
            \/ fatal = None /\ fatal' = "claim.malformed" /\ "claim.malformed" \in results'.failure
<1> DEFINE F == call.references \union If(Malformed(call), {"claim.malformed"})
           I == If(~call.semver /\ call.profile.compliance = "core",
                   {"com.encypher.claim.specVersionNotSemver"})
<1>1. results' = With(results, F, I, {})
  BY DEF CheckReferences
<1>2. /\ pc = "references" /\ pc' = "signature"
      /\ fatal' = IF fatal = None /\ Malformed(call) THEN "claim.malformed" ELSE fatal
      /\ UNCHANGED <<call, at, gate, identity, report>>
  BY DEF CheckReferences
<1>3. call.references \subseteq F /\ (Malformed(call) => "claim.malformed" \in F)
  BY DEF If
<1> HIDE DEF F, I
<1>4. Pushes(F, I, {})
  BY <1>1, WithPushes
<1>5. Keeps
  BY <1>2, <1>4, PushKeeps DEF Last
<1>6. F \subseteq results'.failure
  BY <1>4 DEF Pushes
<1> QED
  BY <1>2, <1>3, <1>5, <1>6

LEMMA SignatureStage ==
  ASSUME Typed, FindSignature
  PROVE  /\ Keeps /\ UNCHANGED <<fatal, identity>>
         /\ \/ call.signed /\ pc' = "time" /\ gate' = gate
            \/ /\ ~call.signed /\ pc' = "finish" /\ "claimSignature.missing" \in results'.failure
               /\ Captures(call) => gate' = "claimSignature.missing"
<1>1. CASE ~call.signed /\ EarlyReturn("claimSignature.missing")
  <2>1. pc = "signature"
    BY DEF FindSignature
  <2> QED
    BY <1>1, <2>1, EarlyReturnKeeps
<1>2. CASE /\ call.signed /\ pc' = "time"
           /\ UNCHANGED <<call, results, fatal, at, gate, identity, report>>
  BY <1>2, SameKeeps DEF Typed
<1> QED
  BY <1>1, <1>2 DEF FindSignature

\* The signing time is the time of a token that verified.
LEMMA SigningTimeIsAttested ==
  ASSUME Typed
  PROVE  \/ SigningTime(call) = None /\ Verified(call) = {}
         \/ /\ Verified(call) # {} /\ SigningTime(call) # None
            /\ \E i \in Verified(call) : Tokens(call)[i].time = SigningTime(call)
<1>1. call.header \in Seq(TimeStamps) /\ call.tokens \in Seq(TimeStamps)
  <2>1. /\ call.header \in Seq({t \in TimeStamps : t.scope = "manifest"})
        /\ call.tokens \in Seq(TimeStamps)
    BY CallsAssumption DEF Typed
  <2> DEFINE Own == {t \in TimeStamps : t.scope = "manifest"}
  <2>2. Own \subseteq TimeStamps
    OBVIOUS
  <2> HIDE DEF Own
  <2>3. call.header \in Seq(Own)
    BY <2>1 DEF Own
  <2> QED
    BY <2>1, <2>2, <2>3
<1>2. Tokens(call) \in Seq(TimeStamps)
  BY <1>1 DEF Tokens
<1>3. /\ Verified(call) \in SUBSET Nat
      /\ \A i \in Verified(call) : Tokens(call)[i] \in TimeStamps
  BY <1>2 DEF Verified, Evidence
<1>4. \A i \in Verified(call) : Tokens(call)[i].time \in Instants
  BY <1>3 DEF TimeStamps
<1>5. None \notin Instants
  BY CallsAssumption
<1>6. Verified(call) # {} => First(Verified(call)) \in Verified(call)
  BY <1>3, FirstIsOne
<1> QED
  BY <1>4, <1>5, <1>6 DEF SigningTime

LEMMA TimeStage ==
  ASSUME Typed, EstablishTime
  PROVE  /\ Keeps /\ pc' = "credential" /\ UNCHANGED <<fatal, gate, identity>>
         /\ at' = Now \/ \E i \in Verified(call) : Tokens(call)[i].time = at'
         /\ "timeStamp.trusted" \in results'.success =>
              "timeStamp.trusted" \in results.success \/ Verified(call) # {}
         /\ "signingCredential.trusted" \in results'.success => "signingCredential.trusted" \in results.success
<1> DEFINE signed == SigningTime(call)
           F == If(call.stampMalformed, {"assertion.timestamp.malformed"})
           I == If(signed = None /\ Evidence(call) # {}, {"timeStamp.untrusted"})
           S == If(signed # None, {"timeStamp.validated", "timeStamp.trusted"})
<1>2. results' = With(results, F, I, S)
  BY DEF EstablishTime
<1>3. /\ pc = "time" /\ pc' = "credential" /\ at' = IF signed = None THEN Now ELSE signed
      /\ UNCHANGED <<call, fatal, gate, identity, report>>
  BY DEF EstablishTime
<1>4. /\ S \subseteq {"timeStamp.validated", "timeStamp.trusted"}
      /\ signed = None => S = {}
  BY DEF If
<1> HIDE DEF signed, F, I, S
<1>5. Pushes(F, I, S)
  BY <1>2, WithPushes
<1>6. Keeps
  <2>1. pc # "content" => S \intersect MatchCodes = {}
    BY <1>4 DEF MatchCodes
  <2>2. "signingCredential.trusted" \notin S
    BY <1>4
  <2> QED
    BY <1>3, <1>5, <2>1, <2>2, PushKeeps DEF Last
<1>7. \/ signed = None /\ Verified(call) = {}
      \/ /\ Verified(call) # {} /\ signed # None
         /\ \E i \in Verified(call) : Tokens(call)[i].time = signed
  BY SigningTimeIsAttested DEF signed
<1>8. results'.success = results.success \union S
  BY <1>5 DEF Pushes
<1>9. "signingCredential.trusted" \in results'.success => "signingCredential.trusted" \in results.success
  BY <1>4, <1>8
<1>10. at' = Now \/ \E i \in Verified(call) : Tokens(call)[i].time = at'
  <2>1. CASE signed = None
    BY <1>3, <2>1
  <2>2. CASE signed # None
    <3>1. at' = signed
      BY <1>3, <2>2
    <3> QED
      BY <1>7, <2>2, <3>1
  <2> QED
    BY <2>1, <2>2
<1> QED
  BY <1>3, <1>4, <1>6, <1>7, <1>8, <1>9, <1>10

LEMMA CredentialStage ==
  ASSUME Typed, CheckCredential
  PROVE  /\ Keeps /\ UNCHANGED <<fatal, at, identity>>
         /\ Usable(call, fatal, at) => "claimSignature.validated" \in results'.success
         /\ InValidity(call, at) => "claimSignature.insideValidity" \in results'.success
         /\ call.leaf = "none" =>
              {"signingCredential.invalid", "claimSignature.mismatch"} \subseteq results'.failure
         /\ call.leaf # "none" /\ call.verification # "ok" => call.verification \in results'.failure
         /\ call.leaf # "none" /\ ~InValidity(call, at) =>
              "claimSignature.outsideValidity" \in results'.failure
         /\ \/ Usable(call, fatal, at) /\ pc' = "bindings" /\ gate' = gate
            \/ /\ ~Usable(call, fatal, at) /\ pc' = "revocation"
               /\ gate' = IF Captures(call) THEN GateCode(call, fatal, at) ELSE gate
<1> DEFINE leaf == call.leaf # "none"
           failed == IF leaf THEN call.verification ELSE "claimSignature.mismatch"
           F1 == If(call.leaf # "acceptable", {"signingCredential.invalid"})
           F2 == If(failed # "ok", {failed})
           F3 == If(leaf /\ ~InValidity(call, at), {"claimSignature.outsideValidity"})
           S1 == If(Usable(call, fatal, at), {"claimSignature.validated"})
           S2 == If(leaf /\ InValidity(call, at), {"claimSignature.insideValidity"})
           F == F1 \union F2 \union F3
           S == S1 \union S2
<1>3. /\ S1 \subseteq {"claimSignature.validated"}
      /\ S2 \subseteq {"claimSignature.insideValidity"}
  BY DEF If
<1>5. results' = With(results, F, {}, S)
  BY DEF CheckCredential
<1>6. /\ pc = "credential" /\ UNCHANGED <<call, fatal, at, identity, report>>
      /\ \/ Usable(call, fatal, at) /\ pc' = "bindings" /\ gate' = gate
         \/ /\ ~Usable(call, fatal, at) /\ pc' = "revocation"
            /\ gate' = IF Captures(call) THEN GateCode(call, fatal, at) ELSE gate
  BY DEF CheckCredential
<1>7. /\ Usable(call, fatal, at) => "claimSignature.validated" \in S1
      /\ leaf /\ InValidity(call, at) => "claimSignature.insideValidity" \in S2
      /\ call.leaf = "none" => "signingCredential.invalid" \in F1
      /\ leaf /\ ~InValidity(call, at) => "claimSignature.outsideValidity" \in F3
  BY DEF If
<1>8. /\ call.leaf = "none" => "claimSignature.mismatch" \in F2
      /\ leaf /\ call.verification # "ok" => call.verification \in F2
  BY DEF If
<1>9. InValidity(call, at) => leaf
  BY DEF InValidity
<1> HIDE DEF F1, F2, F3, S1, S2, failed, leaf
<1>11. S \subseteq {"claimSignature.validated", "claimSignature.insideValidity"}
  BY <1>3
<1>12. F1 \subseteq F /\ F2 \subseteq F /\ F3 \subseteq F /\ S1 \subseteq S /\ S2 \subseteq S
  OBVIOUS
<1> HIDE DEF F, S
<1>13. Pushes(F, {}, S)
  BY <1>5, WithPushes
<1>14. Keeps
  BY <1>6, <1>11, <1>13, PushKeeps DEF Last, MatchCodes
<1>15. F \subseteq results'.failure /\ S \subseteq results'.success
  BY <1>13 DEF Pushes
<1>16. /\ F1 \subseteq results'.failure /\ F2 \subseteq results'.failure /\ F3 \subseteq results'.failure
       /\ S1 \subseteq results'.success /\ S2 \subseteq results'.success
  BY <1>12, <1>15
<1> QED
  BY <1>6, <1>7, <1>8, <1>9, <1>14, <1>16 DEF leaf

\* What a link to a parent adds to the results
LEMMA LinkCodes ==
  ASSUME NEW c, NEW link
  PROVE  /\ LinkFails(c, link) \subseteq {"ingredient.manifest.mismatch"}
         /\ LinkNoted(c, link) \subseteq {"com.encypher.ingredient.legacyClaimHash"}
         /\ LinkValidated(link) \subseteq
              {"ingredient.manifest.validated", "ingredient.claimSignature.validated"}
BY DEF LinkFails, LinkNoted, LinkValidated, If

LEMMA BindingsStage ==
  ASSUME Typed, CheckBindings
  PROVE  /\ Keeps /\ pc' = "content" /\ UNCHANGED <<fatal, at, gate, identity>>
         /\ call.findings \subseteq results'.failure
         /\ IsUpdate(call) => LinkFails(call, call.parents[1].link) \subseteq results'.failure
<1> DEFINE link == IF IsUpdate(call) THEN call.parents[1].link ELSE "manifest"
           F == call.findings \union LinkFails(call, link)
           I == LinkNoted(call, link)
           S == If(IsUpdate(call), LinkValidated(link))
<1>1. S \subseteq LinkValidated(link)
  BY DEF If
<1>2. results' = With(results, F, I, S)
  BY DEF CheckBindings
<1>3. IsUpdate(call) => link = call.parents[1].link
  OBVIOUS
<1> HIDE DEF link, S
<1>4. /\ LinkFails(call, link) \subseteq {"ingredient.manifest.mismatch"}
      /\ I \subseteq {"com.encypher.ingredient.legacyClaimHash"}
      /\ S \subseteq {"ingredient.manifest.validated", "ingredient.claimSignature.validated"}
  BY <1>1, LinkCodes
<1>6. /\ pc = "bindings" /\ pc' = "content" /\ UNCHANGED <<call, fatal, at, gate, identity, report>>
  BY DEF CheckBindings
<1>7. call.findings \subseteq F /\ LinkFails(call, link) \subseteq F
  OBVIOUS
<1> HIDE DEF F, I
<1>8. Pushes(F, I, S)
  BY <1>2, WithPushes
<1>9. Keeps
  BY <1>4, <1>6, <1>8, PushKeeps DEF Last, MatchCodes
<1>10. F \subseteq results'.failure
  BY <1>8 DEF Pushes
<1> QED
  BY <1>3, <1>6, <1>7, <1>9, <1>10

\* Whatever stands for the content, a comparison succeeds with a match.
LEMMA ComparisonMatches ==
  ASSUME Typed, NEW compromised \in BOOLEAN
  PROVE  /\ Comparison(call, compromised).success \subseteq
              MatchCodes \union {"assertion.compoundContent.match"}
         /\ call.binding = "storeOnly" => Comparison(call, compromised).success = {}
<1> DEFINE S == MatchCodes \union {"assertion.compoundContent.match"}
<1>0. call.binding \in {"asset", "prehashed", "hostless", "deferred", "caller", "storeOnly"}
  BY CallsAssumption DEF Typed
<1>1. ASSUME NEW f, NEW i, NEW s PROVE Added(f, i, s).success = s
  BY DEF Added
<1>2. ASSUME NEW code PROVE Matched(code, compromised).success \subseteq {code}
  BY <1>1 DEF Matched, If
<1>3. Mismatched.success = {} /\ NotEvaluated.success = {}
  BY <1>1 DEF Mismatched, NotEvaluated
<1>4. DigestCompared(call, compromised).success \subseteq S
  BY <1>2, <1>3 DEF DigestCompared, MatchCodes
<1>5. AssetCompared(call, compromised).success \subseteq S
  BY <1>1, <1>2, <1>3 DEF AssetCompared, MatchCodes
<1>6. CompoundCompared(call).success \subseteq S
  BY <1>1 DEF CompoundCompared
<1>7. CallerCompared(call, compromised).success \subseteq S
  BY <1>1 DEF CallerCompared, MatchCodes
<1>8. Comparison(call, compromised).success \subseteq S
  BY <1>0, <1>1, <1>3, <1>4, <1>5, <1>6, <1>7 DEF Comparison
<1>9. call.binding = "storeOnly" => Comparison(call, compromised).success = {}
  BY <1>3 DEF Comparison
<1> QED
  BY <1>8, <1>9

LEMMA ContentStage ==
  ASSUME Typed, CheckContent
  PROVE  /\ Keeps /\ pc' = "identity" /\ UNCHANGED <<fatal, at, gate, identity>>
         /\ \A i \in Visited(call) :
              /\ call.parents[i].findings \subseteq results'.failure
              /\ LinkFails(call, call.parents[i + 1].link) \subseteq results'.failure
         /\ IsUpdate(call) /\ ChainReached(call) =>
              call.parents[Len(call.parents)].findings \subseteq results'.failure
         /\ Compares(call) =>
              \E compromised \in BOOLEAN :
                /\ Comparison(call, compromised).failure \subseteq results'.failure
                /\ Comparison(call, compromised).informational \subseteq results'.informational
         /\ results'.success \intersect MatchCodes # {} =>
              results.success \intersect MatchCodes # {} \/ call.binding # "storeOnly"
<1> DEFINE F == ChainFailures(call)
           I == UNION {LinkNoted(call, call.parents[i + 1].link) : i \in Visited(call)}
           S == UNION {LinkValidated(call.parents[i + 1].link) : i \in Visited(call)}
           chain == ChainWalked(call, results)
           compromised == Compromised(chain)
           compared == Comparison(call, compromised)
<1>0. /\ pc = "content" /\ pc' = "identity" /\ UNCHANGED <<call, fatal, at, gate, identity, report>>
  BY DEF CheckContent
<1>1. results' = IF Compares(call)
                 THEN With(chain, compared.failure, compared.informational, compared.success)
                 ELSE chain
  BY DEF CheckContent
<1>2. chain = With(results, F, I, S)
  BY DEF ChainWalked
<1>3. /\ \A i \in Visited(call) :
            /\ call.parents[i].findings \subseteq F
            /\ LinkFails(call, call.parents[i + 1].link) \subseteq F
      /\ IsUpdate(call) /\ ChainReached(call) => call.parents[Len(call.parents)].findings \subseteq F
  <2> DEFINE last == If(IsUpdate(call) /\ ChainReached(call), call.parents[Len(call.parents)].findings)
  <2>1. last \subseteq F /\ \A i \in Visited(call) : FoundAt(call, i) \subseteq F
    <3> HIDE DEF last
    <3> QED
      BY DEF ChainFailures, last
  <2>2. IsUpdate(call) /\ ChainReached(call) => last = call.parents[Len(call.parents)].findings
    BY DEF If
  <2>3. \A i \in Visited(call) :
          /\ call.parents[i].findings \subseteq FoundAt(call, i)
          /\ LinkFails(call, call.parents[i + 1].link) \subseteq FoundAt(call, i)
    BY DEF FoundAt
  <2> HIDE DEF F, last
  <2> QED
    BY <2>1, <2>2, <2>3
<1>7. S \subseteq {"ingredient.manifest.validated", "ingredient.claimSignature.validated"}
  <2>1. \A i \in Visited(call) : LinkValidated(call.parents[i + 1].link) \subseteq
          {"ingredient.manifest.validated", "ingredient.claimSignature.validated"}
    BY LinkCodes
  <2> QED
    BY <2>1
<1>9. compromised \in BOOLEAN
  BY DEF Compromised
<1> HIDE DEF F, I, S, chain, compromised
<1>12. /\ chain.failure = results.failure \union F
       /\ chain.informational = results.informational \union I
       /\ chain.success = results.success \union S
  BY <1>2 DEF With
<1>13. /\ compared.success \subseteq MatchCodes \union {"assertion.compoundContent.match"}
       /\ call.binding = "storeOnly" => compared.success = {}
  BY <1>9, ComparisonMatches
<1> HIDE DEF compared
<1>14. /\ chain.failure \subseteq results'.failure
       /\ chain.informational \subseteq results'.informational
       /\ chain.success \subseteq results'.success
       /\ results'.success \subseteq chain.success \union compared.success
       /\ Compares(call) => /\ compared.failure \subseteq results'.failure
                            /\ compared.informational \subseteq results'.informational
  <2>1. CASE Compares(call)
    <3>1. results' = With(chain, compared.failure, compared.informational, compared.success)
      BY <1>1, <2>1
    <3> QED
      BY <3>1 DEF With
  <2>2. CASE ~Compares(call)
    BY <1>1, <1>12, <2>2
  <2> QED
    BY <2>1, <2>2
<1>15. results'.success \intersect MatchCodes # {} =>
         results.success \intersect MatchCodes # {} \/ call.binding # "storeOnly"
  BY <1>7, <1>12, <1>13, <1>14 DEF MatchCodes
<1>16. /\ "timeStamp.trusted" \in results'.success => "timeStamp.trusted" \in results.success
       /\ "signingCredential.trusted" \in results'.success => "signingCredential.trusted" \in results.success
  BY <1>7, <1>12, <1>13, <1>14 DEF MatchCodes
<1>17. /\ results.failure \subseteq results'.failure
       /\ results.informational \subseteq results'.informational
       /\ results.success \subseteq results'.success
       /\ F \subseteq results'.failure
  BY <1>12, <1>14
<1>18. Keeps
  BY <1>0, <1>14, <1>16, <1>17 DEF Keeps, Last
<1>19. Compares(call) =>
         \E b \in BOOLEAN :
           /\ Comparison(call, b).failure \subseteq results'.failure
           /\ Comparison(call, b).informational \subseteq results'.informational
  BY <1>9, <1>14 DEF compared
<1>20. \A i \in Visited(call) :
         /\ call.parents[i].findings \subseteq results'.failure
         /\ LinkFails(call, call.parents[i + 1].link) \subseteq results'.failure
  BY <1>3, <1>17
<1>21. IsUpdate(call) /\ ChainReached(call) =>
         call.parents[Len(call.parents)].findings \subseteq results'.failure
  BY <1>3, <1>17
<1> QED
  BY <1>0, <1>15, <1>18, <1>19, <1>20, <1>21

LEMMA IdentityStage ==
  ASSUME Typed, CheckIdentity
  PROVE  /\ Keeps /\ pc' = "revocation" /\ UNCHANGED <<fatal, at, gate>>
         /\ \/ IdentityAllowed(call, results) /\ identity' = TRUE
            \/ ~IdentityAllowed(call, results) /\ identity' = identity
<1>0. pc = "identity" /\ pc' = "revocation" /\ UNCHANGED <<call, fatal, at, gate, report>>
  BY DEF CheckIdentity
<1>1. CASE IdentityAllowed(call, results)
  <2>1. results' = With(results, call.identityFailures, {}, {}) /\ identity' = TRUE
    BY <1>1 DEF CheckIdentity
  <2>2. Pushes(call.identityFailures, {}, {})
    BY <2>1, WithPushes
  <2>3. Keeps
    BY <1>0, <2>2, PushKeeps DEF Last
  <2> QED
    BY <1>0, <1>1, <2>1, <2>3
<1>2. CASE ~IdentityAllowed(call, results)
  <2>1. UNCHANGED <<results, identity>>
    BY <1>2 DEF CheckIdentity
  <2> QED
    BY <1>0, <1>2, <2>1, SameKeeps DEF Typed
<1> QED
  BY <1>1, <1>2

LEMMA RevocationStage ==
  ASSUME Typed, RecordRevocation
  PROVE  /\ Keeps /\ pc' = "trust" /\ UNCHANGED <<fatal, at, gate, identity>>
         /\ LeafRevocation(call) = "revoked" => "signingCredential.ocsp.revoked" \in results'.failure
         /\ LeafRevocation(call) \in {"skipped", "unknown", "inaccessible"} =>
              results'.informational \intersect NoRevocationInformation # {}
<1> DEFINE leaf == LeafRevocation(call)
           caRevoked == OnlineCaRevoked(call) \/ Stapled(call, "ca") = "revoked"
           F == If(leaf = "revoked", {"signingCredential.ocsp.revoked"})
                  \union If(caRevoked, {"signingCredential.untrusted"})
           I == If(leaf = "skipped", {"signingCredential.ocsp.skipped"})
                  \union If(leaf = "unknown", {"signingCredential.ocsp.unknown"})
                  \union If(leaf = "inaccessible", {"signingCredential.ocsp.inaccessible"})
                  \union If(Outranked(call, "leaf") \/ Outranked(call, "ca"),
                            {"com.encypher.ocsp.conflictingRevokedResponse"})
           S == If(leaf = "good", {"signingCredential.ocsp.notRevoked"})
<1>1. results' = With(results, F, I, S)
  BY DEF RecordRevocation
<1>2. /\ pc = "revocation" /\ pc' = "trust" /\ UNCHANGED <<call, fatal, at, gate, identity, report>>
  BY DEF RecordRevocation
<1> HIDE DEF leaf, caRevoked
<1>3. S \subseteq {"signingCredential.ocsp.notRevoked"}
  BY DEF If
<1>4. /\ leaf = "revoked" => "signingCredential.ocsp.revoked" \in F
      /\ leaf \in {"skipped", "unknown", "inaccessible"} => I \intersect NoRevocationInformation # {}
  BY DEF If, NoRevocationInformation
<1> HIDE DEF F, I, S
<1>5. Pushes(F, I, S)
  BY <1>1, WithPushes
<1>6. Keeps
  BY <1>2, <1>3, <1>5, PushKeeps DEF Last, MatchCodes
<1>7. F \subseteq results'.failure /\ I \subseteq results'.informational
  BY <1>5 DEF Pushes
<1> QED
  BY <1>2, <1>4, <1>6, <1>7 DEF leaf

LEMMA TrustStage ==
  ASSUME Typed, EvaluateTrust
  PROVE  /\ Keeps /\ pc' = "upgrades" /\ UNCHANGED <<fatal, at, gate, identity>>
         /\ "signingCredential.trusted" \in results'.success =>
              \/ "signingCredential.trusted" \in results.success
              \/ /\ ChainTrusted(call, at) \/ LeafAllowed(call, at)
                 /\ fatal = None
                 /\ ~BlocksTrust(call)
<1> DEFINE trusted == /\ TrustEvaluated(call)
                      /\ ChainTrusted(call, at) \/ LeafAllowed(call, at)
                      /\ fatal = None
                      /\ ~BlocksTrust(call)
           denied == \/ TrustEvaluated(call) /\ ~trusted
                     \/ /\ ~TrustEvaluated(call)
                        /\ ~Generous(call.profile) /\ call.leaf # "none"
           F == If(denied, {"signingCredential.untrusted"})
           S == If(trusted, {"signingCredential.trusted"})
<1>1. results' = With(results, F, {}, S)
  BY DEF EvaluateTrust
<1>2. /\ pc = "trust" /\ pc' = "upgrades" /\ UNCHANGED <<call, fatal, at, gate, identity, report>>
  BY DEF EvaluateTrust
<1> HIDE DEF denied
<1>3. S \subseteq {"signingCredential.trusted"} /\ (~trusted => S = {})
  BY DEF If
<1> HIDE DEF F, S
<1>4. Pushes(F, {}, S)
  BY <1>1, WithPushes
<1>5. Keeps
  BY <1>2, <1>3, <1>4, PushKeeps DEF Last, MatchCodes
<1>6. results'.success = results.success \union S
  BY <1>4 DEF Pushes
<1> QED
  BY <1>2, <1>3, <1>5, <1>6

LEMMA UpgradesStage ==
  ASSUME Typed, ApplyUpgrades
  PROVE  /\ Keeps /\ pc' = "finish" /\ UNCHANGED <<fatal, at, gate, identity>>
         /\ results'.informational = results.informational /\ results'.success = results.success
         /\ call.profile.compliance = "program" =>
              /\ results.informational \intersect NoRevocationInformation # {} =>
                   "com.encypher.conformance.revocationInformationMissing" \in results'.failure
              /\ "timeStamp.trusted" \notin results.success =>
                   "com.encypher.conformance.trustedTimeStampMissing" \in results'.failure
<1>0. pc = "upgrades" /\ pc' = "finish" /\ UNCHANGED <<call, fatal, at, gate, identity, report>>
  BY DEF ApplyUpgrades
<1>1. CASE call.profile.compliance # "program"
  <2>1. results' = results
    BY <1>1 DEF ApplyUpgrades
  <2> QED
    BY <1>0, <1>1, <2>1, SameKeeps
<1>2. CASE call.profile.compliance = "program"
  <2> DEFINE F == If(results.informational \intersect NoRevocationInformation # {},
                     {"com.encypher.conformance.revocationInformationMissing"})
                    \union If("timeStamp.trusted" \notin results.success,
                              {"com.encypher.conformance.trustedTimeStampMissing"})
  <2>1. results' = With(results, F, {}, {})
    BY <1>2 DEF ApplyUpgrades
  <2>3. /\ results.informational \intersect NoRevocationInformation # {} =>
             "com.encypher.conformance.revocationInformationMissing" \in F
        /\ "timeStamp.trusted" \notin results.success =>
             "com.encypher.conformance.trustedTimeStampMissing" \in F
    BY DEF If
  <2> HIDE DEF F
  <2>4. Pushes(F, {}, {})
    BY <2>1, WithPushes
  <2>5. Keeps
    BY <1>0, <2>4, PushKeeps DEF Last
  <2> QED
    BY <1>0, <2>3, <2>4, <2>5 DEF Pushes
<1> QED
  BY <1>1, <1>2

LEMMA ReportStages ==
  ASSUME Typed, Finish \/ RequireFragmentsBound
  PROVE  /\ Keeps /\ UNCHANGED <<fatal, at, gate, identity>>
         /\ \/ Finish /\ pc' = "fragments" /\ report' = Verdict(results', call.profile)
            \/ /\ RequireFragmentsBound /\ pc' = "done"
               /\ \/ report' = Verdict(results', call.profile)
                  \/ UNCHANGED <<results, report>>
<1>1. CASE Finish
  <2>1. /\ pc = "finish" /\ UNCHANGED <<call, results, fatal, at, gate, identity>>
        /\ pc' = "fragments" /\ report' = Verdict(results, call.profile)
    BY <1>1 DEF Finish
  <2>2. report' = Verdict(results', call.profile)
    BY <2>1
  <2> QED
    BY <1>1, <2>1, <2>2, SameKeeps
<1>2. CASE RequireFragmentsBound /\ call.unboundFragments
  <2>1. /\ pc = "fragments" /\ UNCHANGED <<call, fatal, at, gate, identity>>
        /\ pc' = "done" /\ report' = Verdict(results', call.profile)
        /\ results' = With(results, {"livevideo.segment.invalid"}, {}, {})
    BY <1>2 DEF RequireFragmentsBound
  <2>2. Pushes({"livevideo.segment.invalid"}, {}, {})
    BY <2>1, WithPushes
  <2>3. Keeps
    BY <2>1, <2>2, PushKeeps
  <2> QED
    BY <1>2, <2>1, <2>3
<1>3. CASE RequireFragmentsBound /\ ~call.unboundFragments
  <2>1. /\ pc = "fragments" /\ UNCHANGED <<call, fatal, at, gate, identity, results, report>>
        /\ pc' = "done"
    BY <1>3 DEF RequireFragmentsBound
  <2> QED
    BY <1>3, <2>1, SameKeeps
<1> QED
  BY <1>1, <1>2, <1>3

-----------------------------------------------------------------------------
(***************************************************************************)
(* The invariant.                                                           *)
(***************************************************************************)

\* Which stage runs is decided by pc alone.
LEMMA StageRuns ==
  ASSUME Next
  PROVE  /\ pc # "done"
         /\ pc = "claim" => CheckClaim
         /\ pc = "structure" => CheckStructure
         /\ pc = "references" => CheckReferences
         /\ pc = "signature" => FindSignature
         /\ pc = "time" => EstablishTime
         /\ pc = "credential" => CheckCredential
         /\ pc = "bindings" => CheckBindings
         /\ pc = "content" => CheckContent
         /\ pc = "identity" => CheckIdentity
         /\ pc = "revocation" => RecordRevocation
         /\ pc = "trust" => EvaluateTrust
         /\ pc = "upgrades" => ApplyUpgrades
         /\ pc \in {"finish", "fragments"} => Finish \/ RequireFragmentsBound
<1> USE DEF Next
<1>1. CASE CheckClaim \/ CheckStructure \/ CheckReferences \/ FindSignature \/ EstablishTime
  BY <1>1 DEF CheckClaim, CheckStructure, CheckReferences, FindSignature, EstablishTime
<1>2. CASE CheckCredential \/ CheckBindings \/ CheckContent \/ CheckIdentity
  BY <1>2 DEF CheckCredential, CheckBindings, CheckContent, CheckIdentity
<1>3. CASE RecordRevocation \/ EvaluateTrust \/ ApplyUpgrades \/ Finish \/ RequireFragmentsBound
  BY <1>3 DEF RecordRevocation, EvaluateTrust, ApplyUpgrades, Finish, RequireFragmentsBound
<1> QED
  BY <1>1, <1>2, <1>3

LEMMA StepKeeps ==
  ASSUME Typed, Next
  PROVE  /\ Keeps /\ Flows
         /\ pc = "claim" => (pc' = "finish" <=> call.claim # "ok")
         /\ pc = "signature" => (pc' = "finish" <=> ~call.signed)
         /\ pc = "credential" => (pc' = "bindings" <=> Usable(call, fatal, at))
<1>0. pc \in Stages /\ pc # "done"
  BY StageRuns DEF Typed
<1>1. CASE pc \in {"claim", "structure", "references", "signature", "time"}
  BY <1>1, StageRuns, ClaimStage, StructureStage, ReferencesStage, SignatureStage, TimeStage DEF Flows
<1>2. CASE pc \in {"credential", "bindings", "content", "identity"}
  BY <1>2, StageRuns, CredentialStage, BindingsStage, ContentStage, IdentityStage DEF Flows
<1>3. CASE pc \in {"revocation", "trust", "upgrades"}
  BY <1>3, StageRuns, RevocationStage, TrustStage, UpgradesStage DEF Flows
<1>4. CASE pc \in {"finish", "fragments"}
  <2>1. Keeps /\ (pc' = "fragments" \/ pc' = "done")
    BY <1>4, StageRuns, ReportStages
  <2>2. pc = "finish" => pc' = "fragments"
    BY StageRuns DEF Finish, RequireFragmentsBound
  <2>3. pc = "fragments" => pc' = "done"
    BY StageRuns DEF Finish, RequireFragmentsBound
  <2> QED
    BY <1>4, <2>1, <2>2, <2>3 DEF Flows
<1> QED
  BY <1>0, <1>1, <1>2, <1>3, <1>4 DEF Stages, Structured, Referenced, Signed, Timed, Opened, Bound,
     Compared, Judged, Revoked, Upgraded, Last

LEMMA TypedNext ==
  ASSUME Typed, Next
  PROVE  Typed'
<1>1. Keeps /\ Flows
  BY StepKeeps
<1>2. call' \in Calls
  BY <1>1 DEF Keeps, Typed
<1>3. pc' \in Stages
  BY <1>1 DEF Typed, Flows, Stages, Structured, Referenced, Signed, Timed, Opened, Bound, Compared,
              Judged, Revoked, Upgraded, Last
<1>6. identity' \in BOOLEAN
  <2>1. CASE pc = "identity"
    BY <2>1, StageRuns, IdentityStage DEF Typed
  <2> QED
    BY <1>1, <2>1 DEF Keeps, Typed
<1> QED
  BY <1>2, <1>3, <1>6 DEF Typed

\* How a stage is reached, except by an early return.
LEMMA Passing ==
  ASSUME Typed, Next
  PROVE  /\ CutShort(call)' <=> CutShort(call)
         /\ pc' \in Structured /\ call.claim = "ok" => pc \in Structured \/ pc = "structure"
         /\ pc' \in Referenced /\ call.claim = "ok" => pc \in Referenced \/ pc = "references"
         /\ pc' \in Opened /\ ~CutShort(call) => pc \in Opened \/ pc = "credential"
         /\ pc' \in Bound /\ Examined' => (pc \in Bound \/ pc = "bindings") /\ Examined
         /\ pc' \in Compared /\ Examined' => (pc \in Compared \/ pc = "content") /\ Examined
         /\ pc' \in Judged /\ ~CutShort(call) => pc \in Judged \/ pc \in {"identity", "credential"}
         /\ pc' \in Revoked /\ ~CutShort(call) => pc \in Revoked \/ pc = "revocation"
         /\ pc' \in Last /\ ~CutShort(call) => pc \in Last \/ pc = "upgrades"
         /\ pc \in Upgraded => pc' \in Upgraded
         /\ pc \in Last => pc' \in Last
         /\ pc \in Judged => pc' \in Judged
<1>1. /\ Keeps /\ Flows /\ pc \in Stages
      /\ pc = "claim" => (pc' = "finish" <=> call.claim # "ok")
      /\ pc = "signature" => (pc' = "finish" <=> ~call.signed)
      /\ pc = "credential" => (pc' = "bindings" <=> Usable(call, fatal, at))
  BY StepKeeps DEF Typed
<1>2. call' = call /\ (CutShort(call)' <=> CutShort(call))
  BY <1>1 DEF Keeps, CutShort
<1>3. pc \notin {"structure", "references", "time"} => (Examined' <=> Examined)
  BY <1>1, <1>2 DEF Keeps, Examined, Usable, InValidity
<1>4. pc = "claim" /\ call.claim = "ok" => pc' = "structure"
  BY <1>1 DEF Flows
<1>5. pc = "signature" /\ call.signed => pc' = "time"
  BY <1>1 DEF Flows
<1>6. pc \in {"claim", "signature"} /\ ~CutShort(call) => pc' \in {"structure", "time"}
  BY <1>1, <1>4, <1>5 DEF CutShort
<1>7. Examined => ~CutShort(call)
  BY DEF Examined
<1>8. pc = "credential" /\ Examined => pc' = "bindings"
  BY <1>1 DEF Examined
<1> USE DEF Flows, Stages, Structured, Referenced, Signed, Timed, Opened, Bound, Compared, Judged,
            Revoked, Upgraded, Last
<1>9. /\ pc' \in Structured /\ call.claim = "ok" => pc \in Structured \/ pc = "structure"
      /\ pc' \in Referenced /\ call.claim = "ok" => pc \in Referenced \/ pc = "references"
  BY <1>1, <1>4
<1>10. /\ pc' \in Opened /\ ~CutShort(call) => pc \in Opened \/ pc = "credential"
       /\ pc' \in Judged /\ ~CutShort(call) => pc \in Judged \/ pc \in {"identity", "credential"}
       /\ pc' \in Revoked /\ ~CutShort(call) => pc \in Revoked \/ pc = "revocation"
       /\ pc' \in Last /\ ~CutShort(call) => pc \in Last \/ pc = "upgrades"
  BY <1>1, <1>6
<1>11. ASSUME pc' \in Bound, Examined' PROVE (pc \in Bound \/ pc = "bindings") /\ Examined
  <2>1. pc \notin {"structure", "references", "time"}
    BY <1>1, <1>11
  <2>2. Examined /\ ~CutShort(call)
    BY <1>3, <1>7, <1>11, <2>1
  <2> QED
    BY <1>1, <1>6, <1>8, <1>11, <2>2
<1>12. ASSUME pc' \in Compared, Examined' PROVE (pc \in Compared \/ pc = "content") /\ Examined
  <2>1. pc \notin {"structure", "references", "time"}
    BY <1>1, <1>12
  <2>2. Examined /\ ~CutShort(call)
    BY <1>3, <1>7, <1>12, <2>1
  <2> QED
    BY <1>1, <1>6, <1>8, <1>12, <2>2
<1>13. /\ pc \in Upgraded => pc' \in Upgraded
       /\ pc \in Last => pc' \in Last
       /\ pc \in Judged => pc' \in Judged
  BY <1>1
<1> QED
  BY <1>2, <1>9, <1>10, <1>11, <1>12, <1>13

\* A pass that was cut short is in its last stages.
LEMMA NotCutShort ==
  ASSUME ReturnOK, pc \in Signed, pc \notin Last
  PROVE  ~CutShort(call)
BY DEF ReturnOK, Returned, CutShort, Signed, Timed, Opened, Bound, Compared, Judged, Revoked,
       Upgraded, Last

\* What an early return left stays.
LEMMA ReturnedStays ==
  ASSUME Typed, Next, NEW code, Returned(code)
  PROVE  /\ pc' \in Last /\ code \in results'.failure /\ ~identity'
         /\ Captures(call) => gate' = code
<1>1. Keeps /\ pc \in Last /\ pc' \in Last
  BY StepKeeps, Passing DEF Returned
<1>2. pc \notin {"claim", "signature", "credential", "identity"}
  BY <1>1 DEF Last
<1> QED
  BY <1>1, <1>2 DEF Keeps, Returned

LEMMA ReturnNext ==
  ASSUME Typed, ReturnOK, IdentityOK, Next
  PROVE  ReturnOK'
<1>1. Keeps /\ Flows /\ call' = call
  BY StepKeeps DEF Keeps
<1>2. pc \in {"claim", "signature"} => ~identity
  BY DEF IdentityOK, Judged, Revoked, Upgraded, Last
<1> DEFINE After(code) == /\ pc' \in Last /\ code \in results'.failure /\ ~identity'
                          /\ Captures(call) => gate' = code
<1>3. ASSUME call.claim # "ok" PROVE After(call.claim)
  <2>1. CASE pc = "claim"
    <3>1. /\ pc' = "finish" /\ call.claim \in results'.failure /\ identity' = identity
          /\ Captures(call) => gate' = call.claim
      BY <1>3, <2>1, StageRuns, ClaimStage
    <3> QED
      BY <1>2, <2>1, <3>1 DEF Last
  <2>2. CASE pc # "claim"
    BY <1>3, <2>2, ReturnedStays DEF ReturnOK
  <2> QED
    BY <2>1, <2>2
<1>4. ASSUME call.claim = "ok", ~call.signed, pc' \in Signed PROVE After("claimSignature.missing")
  <2>1. CASE pc = "signature"
    <3>1. /\ pc' = "finish" /\ "claimSignature.missing" \in results'.failure /\ identity' = identity
          /\ Captures(call) => gate' = "claimSignature.missing"
      BY <1>4, <2>1, StageRuns, SignatureStage
    <3> QED
      BY <1>2, <2>1, <3>1 DEF Last
  <2>2. CASE pc # "signature"
    <3>1. pc = "claim" => pc' = "structure"
      BY <1>1, <1>4, StepKeeps DEF Flows
    <3>2. pc \in Signed
      BY <1>1, <1>4, <2>2, <3>1 DEF Typed, Flows, Stages, Structured, Referenced, Signed, Timed, Opened,
         Bound, Compared, Judged, Revoked, Upgraded, Last
    <3>3. Returned("claimSignature.missing")
      BY <1>4, <3>2 DEF ReturnOK
    <3> QED
      BY <3>3, ReturnedStays
  <2> QED
    BY <2>1, <2>2
<1> QED
  BY <1>1, <1>3, <1>4 DEF ReturnOK, Returned, Captures

LEMMA StructureNext ==
  ASSUME Typed, StructureOK, Next
  PROVE  StructureOK'
<1>1. Keeps /\ Flows /\ call' = call /\ results.failure \subseteq results'.failure
  BY StepKeeps DEF Keeps
<1>2. pc' \in {"claim", "structure"} => fatal' = None
  <2>1. pc' \in {"claim", "structure"} => pc = "claim"
    BY <1>1 DEF Typed, Flows, Stages, Structured, Referenced, Signed, Timed, Opened, Bound, Compared,
                Judged, Revoked, Upgraded, Last
  <2>2. pc = "claim" => fatal' = fatal /\ fatal = None
    BY <1>1 DEF Keeps, StructureOK
  <2> QED
    BY <2>1, <2>2
<1>3. pc \notin {"structure", "references"} => fatal' = fatal
  BY <1>1 DEF Keeps
<1>4. pc = "structure" =>
        /\ fatal' # None => fatal' \in results'.failure /\ fatal' \notin Caveats
        /\ fatal' = None => \A i \in DOMAIN call.structure : ~call.structure[i].fatal
        /\ BindingMissing(call) => "claim.hardBindings.missing" \in results'.failure
  <2> SUFFICES ASSUME pc = "structure"
               PROVE  /\ fatal' # None => fatal' \in results'.failure /\ fatal' \notin Caveats
                      /\ fatal' = None => \A i \in DOMAIN call.structure : ~call.structure[i].fatal
                      /\ BindingMissing(call) => "claim.hardBindings.missing" \in results'.failure
    OBVIOUS
  <2>1. /\ fatal' = FirstFatal(call.structure)
        /\ \A i \in DOMAIN call.structure : call.structure[i].code \in results'.failure
        /\ BindingMissing(call) => "claim.hardBindings.missing" \in results'.failure
    BY StageRuns, StructureStage
  <2>2. \A i \in DOMAIN call.structure :
          call.structure[i].code \notin Caveats /\ call.structure[i].code # None
    BY CallCodes
  <2> QED
    BY <2>1, <2>2, FirstFatalIsOne
<1>5. pc = "references" =>
        /\ call.references \subseteq results'.failure
        /\ \/ fatal' = fatal
           \/ fatal' = "claim.malformed" /\ fatal' \in results'.failure
  BY StageRuns, ReferencesStage
<1>6. "claim.malformed" \notin Caveats /\ "claim.malformed" # None
  BY CallsAssumption DEF Caveats, RegularIntegrityCaveats, IdentityScoped, ExternalDataScoped,
     ExternalMismatch
<1>7. fatal' # None => fatal' \in results'.failure /\ fatal' \notin Caveats
  BY <1>1, <1>3, <1>4, <1>5, <1>6 DEF StructureOK
<1>8. pc' \in Structured /\ call.claim = "ok" =>
        /\ fatal' = None => \A i \in DOMAIN call.structure : ~call.structure[i].fatal
        /\ BindingMissing(call) => "claim.hardBindings.missing" \in results'.failure
  <2> SUFFICES ASSUME pc' \in Structured, call.claim = "ok"
               PROVE  /\ fatal' = None => \A i \in DOMAIN call.structure : ~call.structure[i].fatal
                      /\ BindingMissing(call) => "claim.hardBindings.missing" \in results'.failure
    OBVIOUS
  <2>1. pc \in Structured \/ pc = "structure"
    BY Passing
  <2>2. pc # "structure" /\ fatal' = None => fatal = None
    BY <1>3, <1>5, <1>6
  <2> QED
    BY <1>1, <1>4, <2>1, <2>2 DEF StructureOK
<1>9. pc' \in Referenced /\ call.claim = "ok" => call.references \subseteq results'.failure
  <2>1. pc' \in Referenced /\ call.claim = "ok" => pc \in Referenced \/ pc = "references"
    BY Passing
  <2> QED
    BY <1>1, <1>5, <2>1 DEF StructureOK
<1> QED
  BY <1>1, <1>2, <1>7, <1>8, <1>9 DEF StructureOK

LEMMA TimeNext ==
  ASSUME Typed, TimeOK, Next
  PROVE  TimeOK'
<1>1. Keeps /\ call' = call
  BY StepKeeps DEF Keeps
<1>2. /\ at' = Now \/ \E i \in Verified(call) : Tokens(call)[i].time = at'
      /\ "timeStamp.trusted" \in results'.success => Verified(call) # {}
  <2>1. CASE pc = "time"
    BY <2>1, StageRuns, TimeStage DEF TimeOK
  <2>2. CASE pc # "time"
    BY <1>1, <2>2 DEF Keeps, TimeOK
  <2> QED
    BY <2>1, <2>2
<1> QED
  BY <1>1, <1>2 DEF TimeOK

LEMMA CredentialNext ==
  ASSUME Typed, CredentialOK, Next
  PROVE  CredentialOK'
<1>1. Keeps /\ Flows /\ call' = call
  BY StepKeeps DEF Keeps
<1> SUFFICES ASSUME pc' \in Opened, ~CutShort(call)
             PROVE  CredentialOK'
  BY <1>1 DEF CredentialOK, CutShort
<1>2. pc \in Opened \/ pc = "credential"
  BY Passing
<1>3. pc \notin {"structure", "references", "time"}
  BY <1>2 DEF Opened, Bound, Compared, Judged, Revoked, Upgraded, Last
<1>4. /\ fatal' = fatal /\ at' = at
      /\ results.failure \subseteq results'.failure /\ results.success \subseteq results'.success
  BY <1>1, <1>3 DEF Keeps
<1>5. /\ Usable(call, fatal, at) => "claimSignature.validated" \in results'.success
      /\ InValidity(call, at) => "claimSignature.insideValidity" \in results'.success
      /\ call.leaf = "none" =>
           {"signingCredential.invalid", "claimSignature.mismatch"} \subseteq results'.failure
      /\ call.leaf # "none" /\ call.verification # "ok" => call.verification \in results'.failure
      /\ call.leaf # "none" /\ ~InValidity(call, at) =>
           "claimSignature.outsideValidity" \in results'.failure
      /\ pc' \in {"bindings", "content", "identity"} => Usable(call, fatal, at)
  <2>1. CASE pc = "credential"
    BY <2>1, StageRuns, CredentialStage
  <2>2. CASE pc \in Opened
    <3>1. pc' \in {"bindings", "content", "identity"} => pc \in {"bindings", "content"}
      BY <1>1, <2>2 DEF Flows, Opened, Bound, Compared, Judged, Revoked, Upgraded, Last
    <3> QED
      BY <1>4, <2>2, <3>1 DEF CredentialOK
  <2> QED
    BY <1>2, <2>1, <2>2
<1> QED
  BY <1>1, <1>4, <1>5 DEF CredentialOK

LEMMA BoundNext ==
  ASSUME Typed, BoundOK, Next
  PROVE  BoundOK'
<1>1. Keeps /\ call' = call /\ results.failure \subseteq results'.failure
  BY StepKeeps DEF Keeps
<1>2. ASSUME pc' \in Bound, Examined'
      PROVE  /\ call.findings \subseteq results'.failure
             /\ IsUpdate(call) => LinkFails(call, call.parents[1].link) \subseteq results'.failure
  <2>1. (pc \in Bound \/ pc = "bindings") /\ Examined
    BY <1>2, Passing
  <2>2. CASE pc = "bindings"
    BY <2>2, StageRuns, BindingsStage
  <2>3. CASE pc \in Bound
    BY <1>1, <2>1, <2>3 DEF BoundOK
  <2> QED
    BY <2>1, <2>2, <2>3
<1> QED
  BY <1>1, <1>2 DEF BoundOK

LEMMA ContentNext ==
  ASSUME Typed, ContentOK, Next
  PROVE  ContentOK'
<1>1. /\ Keeps /\ call' = call /\ results.failure \subseteq results'.failure
      /\ results.informational \subseteq results'.informational
  BY StepKeeps DEF Keeps
<1>2. ASSUME pc' \in Compared, Examined'
      PROVE  /\ \A i \in Visited(call) :
                  /\ call.parents[i].findings \subseteq results'.failure
                  /\ LinkFails(call, call.parents[i + 1].link) \subseteq results'.failure
             /\ IsUpdate(call) /\ ChainReached(call) =>
                  call.parents[Len(call.parents)].findings \subseteq results'.failure
             /\ Compares(call) =>
                  \E compromised \in BOOLEAN :
                    /\ Comparison(call, compromised).failure \subseteq results'.failure
                    /\ Comparison(call, compromised).informational \subseteq results'.informational
  <2>1. (pc \in Compared \/ pc = "content") /\ Examined
    BY <1>2, Passing
  <2>2. CASE pc = "content"
    BY <2>2, StageRuns, ContentStage
  <2>3. CASE pc \in Compared
    <3>1. /\ \A i \in Visited(call) :
               /\ call.parents[i].findings \subseteq results.failure
               /\ LinkFails(call, call.parents[i + 1].link) \subseteq results.failure
          /\ IsUpdate(call) /\ ChainReached(call) =>
               call.parents[Len(call.parents)].findings \subseteq results.failure
          /\ Compares(call) =>
               \E compromised \in BOOLEAN :
                 /\ Comparison(call, compromised).failure \subseteq results.failure
                 /\ Comparison(call, compromised).informational \subseteq results.informational
      BY <2>1, <2>3 DEF ContentOK
    <3> QED
      BY <1>1, <3>1
  <2> QED
    BY <2>1, <2>2, <2>3
<1>3. results'.success \intersect MatchCodes # {} => call.binding # "storeOnly"
  <2>1. CASE pc = "content"
    BY <2>1, StageRuns, ContentStage DEF ContentOK
  <2>2. CASE pc # "content"
    BY <1>1, <2>2 DEF Keeps, ContentOK
  <2> QED
    BY <2>1, <2>2
<1> QED
  BY <1>1, <1>2, <1>3 DEF ContentOK

-----------------------------------------------------------------------------
(***************************************************************************)
(* What a pass without an integrity failure has established about the       *)
(* content: the chain, link by link, and the comparison at its end.         *)
(***************************************************************************)

\* If the failures F hold what the walk along the chain found, and none of
\* them breaks integrity, then the walk reached the end of a sound chain.
LEMMA ChainSound ==
  ASSUME Typed, ~LegacyChain(call), NEW F, F \subseteq Caveats,
         IsUpdate(call) => LinkFails(call, call.parents[1].link) \subseteq F,
         \A i \in Visited(call) :
           /\ call.parents[i].findings \subseteq F
           /\ LinkFails(call, call.parents[i + 1].link) \subseteq F,
         IsUpdate(call) /\ ChainReached(call) =>
           call.parents[Len(call.parents)].findings \subseteq F
  PROVE  /\ Compares(call)
         /\ \A i \in DOMAIN call.parents :
              call.parents[i].link # "broken" /\ call.parents[i].findings = {}
<1> DEFINE n == Len(call.parents)
<1>1. /\ n \in Nat /\ DOMAIN call.parents = 1..n
      /\ IsUpdate(call) => n >= 1
      /\ \A i \in 1..n : call.parents[i].link \in Links
  BY CallCodes
<1>2. \A i \in 1..n : call.parents[i].findings \subseteq F => call.parents[i].findings = {}
  <2>1. \A i \in 1..n : call.parents[i].findings \intersect Caveats = {}
    BY CallCodes
  <2> QED
    BY <2>1
<1>3. "ingredient.manifest.mismatch" \notin F
  <2>1. "ingredient.manifest.mismatch" \notin Caveats
    BY DEF Caveats, RegularIntegrityCaveats, IdentityScoped, ExternalDataScoped, ExternalMismatch
  <2> QED
    BY <2>1
<1>4. ASSUME NEW i \in 1..n, LinkFails(call, call.parents[i].link) \subseteq F
      PROVE  ParentValidated(call, i)
  <2>1. /\ call.parents[i].link # "broken"
        /\ call.parents[i].link = "legacy" => Generous(call.profile)
    BY <1>3, <1>4 DEF LinkFails, If
  <2>2. call.parents[i].link # "legacy"
    BY <1>1, <2>1 DEF LegacyChain
  <2>3. call.parents[i].link \in {"manifest", "signature"}
    BY <1>1, <2>1, <2>2 DEF Links
  <2> QED
    BY <2>3 DEF ParentValidated, LinkValidated
<1>5. \A i \in 1..n : ParentValidated(call, i) => call.parents[i].link # "broken"
  BY DEF ParentValidated, LinkValidated
<1>6. CASE ~IsUpdate(call)
  <2>1. DOMAIN call.parents = {}
    BY <1>6 DEF IsUpdate
  <2> QED
    BY <1>6, <2>1 DEF Compares
<1>7. CASE IsUpdate(call)
  <2>1. ParentValidated(call, 1)
    BY <1>1, <1>4, <1>7
  <2>2. \A i \in Intermediate(call) : i \in 1..n /\ i + 1 \in 1..n /\ i \in Nat
    BY <1>1 DEF Intermediate
  <2>3. \A i \in Visited(call) : Sound(call, i)
    <3> SUFFICES ASSUME NEW i \in Visited(call) PROVE Sound(call, i)
      OBVIOUS
    <3>1. i \in 1..n /\ i + 1 \in 1..n
      BY <2>2 DEF Visited
    <3>2. call.parents[i].findings = {} /\ ParentValidated(call, i + 1)
      BY <1>2, <1>4, <3>1
    <3> QED
      BY <3>2 DEF Sound
  <2>4. \A i \in Intermediate(call) : Sound(call, i)
    <3> SUFFICES ASSUME NEW k \in Intermediate(call), ~Sound(call, k) PROVE FALSE
      OBVIOUS
    <3> DEFINE T == {i \in Intermediate(call) : ~Sound(call, i)}
    <3>1. T \in SUBSET Nat /\ T # {}
      BY <2>2
    <3> HIDE DEF T
    <3>2. PICK m \in T : \A j \in T : m <= j
      BY <3>1, LeastNat
    <3>3. m \in Intermediate(call) /\ ~Sound(call, m)
      BY DEF T
    <3>4. \A j \in 1..(m - 1) : Sound(call, j)
      <4> SUFFICES ASSUME NEW j \in 1..(m - 1), ~Sound(call, j) PROVE FALSE
        OBVIOUS
      <4>1. j \in Intermediate(call) /\ j < m
        BY <1>1, <3>3 DEF Intermediate
      <4>2. j \in T
        BY <4>1 DEF T
      <4>3. m \in Nat /\ j \in Nat
        BY <2>2, <3>3, <4>1
      <4> QED
        BY <3>2, <4>1, <4>2, <4>3
    <3>5. m \in Visited(call)
      BY <2>1, <3>3, <3>4 DEF Visited
    <3> QED
      BY <2>3, <3>3, <3>5
  <2>5. ChainReached(call)
    BY <2>1, <2>4 DEF ChainReached
  <2>6. \A i \in 1..n : call.parents[i].findings = {}
    <3> SUFFICES ASSUME NEW i \in 1..n PROVE call.parents[i].findings = {}
      OBVIOUS
    <3>1. CASE i = n
      BY <1>2, <1>7, <2>5, <3>1
    <3>2. CASE i # n
      <4>1. i \in Intermediate(call)
        BY <1>1, <3>2 DEF Intermediate
      <4> QED
        BY <2>4, <4>1 DEF Sound
    <3> QED
      BY <3>1, <3>2
  <2>7. \A i \in 1..n : ParentValidated(call, i)
    <3> SUFFICES ASSUME NEW i \in 1..n, i # 1 PROVE ParentValidated(call, i)
      BY <2>1
    <3>1. i - 1 \in Intermediate(call) /\ (i - 1) + 1 = i
      BY <1>1 DEF Intermediate
    <3>2. Sound(call, i - 1)
      BY <2>4, <3>1
    <3> QED
      BY <3>1, <3>2 DEF Sound
  <2> QED
    BY <1>1, <1>5, <2>5, <2>6, <2>7 DEF Compares
<1> QED
  BY <1>6, <1>7

\* The statuses of a failed comparison break integrity.
LEMMA MismatchesBreak ==
  Caveats \intersect
    {"assertion.dataHash.mismatch", "assertion.multiAssetHash.mismatch", "assertion.dataHash.malformed",
     "assertion.compoundContent.mismatch", "com.encypher.hardBinding.callerEvidenceMismatch",
     "claim.hardBindings.missing", "livevideo.segment.invalid", "claimSignature.missing",
     "signingCredential.invalid"} = {}
BY DEF Caveats, RegularIntegrityCaveats, IdentityScoped, ExternalDataScoped, ExternalMismatch

\* A comparison without such a status is a match, if it was one at all.
LEMMA ComparisonFollows ==
  ASSUME Typed, NEW compromised \in BOOLEAN, Declares(call) # "none",
         Comparison(call, compromised).failure \subseteq Caveats
  PROVE  \/ ContentMatches(call)
         \/ call.binding = "deferred"
         \/ /\ call.binding = "storeOnly"
            /\ Comparison(call, compromised).informational = {"com.encypher.hardBinding.notEvaluated"}
<1>0. /\ call.binding \in {"asset", "prehashed", "hostless", "deferred", "caller", "storeOnly"}
      /\ call.asset \in {"primary", "fallback", "neither", "malformed", "stray"}
  BY CallsAssumption DEF Typed
<1>1. ASSUME NEW f, NEW i, NEW s PROVE Added(f, i, s).failure = f /\ Added(f, i, s).informational = i
  BY DEF Added
<1>2. /\ "assertion.dataHash.mismatch" \notin Caveats /\ "assertion.multiAssetHash.mismatch" \notin Caveats
      /\ "assertion.dataHash.malformed" \notin Caveats
      /\ "assertion.compoundContent.mismatch" \notin Caveats
      /\ "com.encypher.hardBinding.callerEvidenceMismatch" \notin Caveats
  BY MismatchesBreak
<1>3. Mismatched.failure = {"assertion.dataHash.mismatch"}
  BY <1>1 DEF Mismatched
<1>4. CASE call.binding = "prehashed"
  <2>1. Comparison(call, compromised) = DigestCompared(call, compromised)
    BY <1>4 DEF Comparison
  <2> QED
    BY <1>2, <1>3, <2>1 DEF DigestCompared, ContentMatches
<1>5. CASE call.binding = "asset"
  <2>1. Comparison(call, compromised) = AssetCompared(call, compromised)
    BY <1>5 DEF Comparison
  <2>2. CASE call.asset = "malformed"
    <3>1. AssetCompared(call, compromised) = Added({"assertion.dataHash.malformed"}, {}, {})
      BY <2>2 DEF AssetCompared
    <3> QED
      BY <1>1, <1>2, <2>1, <3>1
  <2>3. CASE call.asset \notin {"primary", "malformed"} /\ ~FallbackAllowed(call)
    <3>1. AssetCompared(call, compromised) = Mismatched
      BY <2>3 DEF AssetCompared
    <3> QED
      BY <1>2, <1>3, <2>1, <3>1
  <2>4. CASE call.asset \notin {"primary", "malformed", "fallback"} /\ FallbackAllowed(call)
    <3>1. AssetCompared(call, compromised) = Added({"assertion.multiAssetHash.mismatch"}, {}, {})
      BY <2>4 DEF AssetCompared
    <3> QED
      BY <1>1, <1>2, <2>1, <3>1
  <2> QED
    BY <1>5, <2>2, <2>3, <2>4 DEF ContentMatches
<1>6. CASE call.binding = "hostless"
  <2>1. Comparison(call, compromised) = CompoundCompared(call)
    BY <1>6 DEF Comparison
  <2>2. CASE call.asset # "primary"
    <3>1. CompoundCompared(call) = Added({"assertion.compoundContent.mismatch"}, {}, {})
      BY <2>2 DEF CompoundCompared
    <3> QED
      BY <1>1, <1>2, <2>1, <3>1
  <2> QED
    BY <2>2 DEF ContentMatches
<1>7. CASE call.binding = "caller"
  <2> DEFINE byCaller == {"com.encypher.hardBinding.callerVerified"}
  <2>1. Comparison(call, compromised) = CallerCompared(call, compromised)
    BY <1>7 DEF Comparison
  <2>2. CASE call.asset = "stray"
    <3>1. CallerCompared(call, compromised) =
            Added({"com.encypher.hardBinding.callerEvidenceMismatch"}, {}, {})
      BY <2>2 DEF CallerCompared
    <3> QED
      BY <1>1, <1>2, <2>1, <3>1
  <2>3. CASE call.asset = "malformed"
    <3>1. CallerCompared(call, compromised) = Added({"assertion.dataHash.malformed"}, {}, {})
      BY <2>3 DEF CallerCompared
    <3> QED
      BY <1>1, <1>2, <2>1, <3>1
  <2>4. CASE call.asset \in {"fallback", "neither"}
    <3>1. CallerCompared(call, compromised) = Added({"assertion.dataHash.mismatch"}, byCaller, {})
      BY <2>4 DEF CallerCompared
    <3> QED
      BY <1>1, <1>2, <2>1, <3>1
  <2> QED
    BY <1>0, <2>2, <2>3, <2>4 DEF ContentMatches
<1>8. CASE call.binding = "storeOnly"
  BY <1>1, <1>8 DEF Comparison, NotEvaluated
<1> QED
  BY <1>0, <1>4, <1>5, <1>6, <1>7, <1>8

\* After the comparison, no failure that breaks integrity means a sound chain
\* and content that matches or is said not to have been evaluated.
LEMMA ContentFollows ==
  ASSUME Typed, StructureOK, BoundOK, ContentOK, Examined, pc \in Compared,
         results.failure \subseteq Caveats, ~LegacyChain(call)
  PROVE  /\ \A i \in DOMAIN call.parents :
              call.parents[i].link # "broken" /\ call.parents[i].findings = {}
         /\ Declares(call) # "none"
         /\ \/ ContentMatches(call)
            \/ call.binding = "deferred"
            \/ /\ call.binding = "storeOnly"
               /\ "com.encypher.hardBinding.notEvaluated" \in results.informational
<1>1. pc \in Bound /\ pc \in Structured /\ call.claim = "ok"
  BY DEF Examined, CutShort, Bound, Structured, Referenced, Signed, Timed, Opened
<1>2. Declares(call) # "none"
  <2>1. "claim.hardBindings.missing" \notin Caveats
    BY MismatchesBreak
  <2>2. BindingMissing(call) => "claim.hardBindings.missing" \in results.failure
    BY <1>1 DEF StructureOK
  <2> QED
    BY <2>1, <2>2 DEF BindingMissing
<1>3. /\ Compares(call)
      /\ \A i \in DOMAIN call.parents :
           call.parents[i].link # "broken" /\ call.parents[i].findings = {}
  <2>1. IsUpdate(call) => LinkFails(call, call.parents[1].link) \subseteq results.failure
    BY <1>1 DEF BoundOK
  <2>2. /\ \A i \in Visited(call) :
             /\ call.parents[i].findings \subseteq results.failure
             /\ LinkFails(call, call.parents[i + 1].link) \subseteq results.failure
        /\ IsUpdate(call) /\ ChainReached(call) =>
             call.parents[Len(call.parents)].findings \subseteq results.failure
    BY DEF ContentOK
  <2> QED
    BY <2>1, <2>2, ChainSound
<1>4. PICK compromised \in BOOLEAN :
        /\ Comparison(call, compromised).failure \subseteq results.failure
        /\ Comparison(call, compromised).informational \subseteq results.informational
  BY <1>3 DEF ContentOK
<1>5. Comparison(call, compromised).failure \subseteq Caveats
  BY <1>4
<1>6. \/ ContentMatches(call)
      \/ call.binding = "deferred"
      \/ /\ call.binding = "storeOnly"
         /\ Comparison(call, compromised).informational = {"com.encypher.hardBinding.notEvaluated"}
  BY <1>2, <1>5, ComparisonFollows
<1> QED
  BY <1>2, <1>3, <1>4, <1>6

-----------------------------------------------------------------------------
(***************************************************************************)
(* The later stages keep the invariant.                                     *)
(***************************************************************************)

\* The identity step passes on a manifest without a failure only.
LEMMA IdentityFollows ==
  ASSUME Typed, ReturnOK, StructureOK, CredentialOK, BoundOK, ContentOK, pc = "identity",
         results.failure \subseteq IdentityScoped, ~Captures(call), ~LegacyChain(call)
  PROVE  IdentitySound
<1>1. /\ pc \in Signed /\ pc \notin Last /\ pc \in Opened /\ pc \in Bound /\ pc \in Compared
      /\ pc \in Referenced
  BY DEF Referenced, Signed, Timed, Opened, Bound, Compared, Judged, Revoked, Upgraded, Last
<1>2. ~CutShort(call) /\ call.claim = "ok"
  BY <1>1, NotCutShort DEF CutShort
<1>3. Usable(call, fatal, at) /\ Examined
  BY <1>1, <1>2 DEF CredentialOK, Examined
<1>4. "claimSignature.validated" \in results.success
  BY <1>1, <1>2, <1>3 DEF CredentialOK
<1>5. "claimSignature.outsideValidity" \notin results.failure
  BY DEF IdentityScoped
<1>6. call.leaf # "none"
  BY <1>3 DEF Usable
<1>7. "claimSignature.insideValidity" \in results.success
  BY <1>1, <1>2, <1>5, <1>6 DEF CredentialOK
<1>8. results.failure \subseteq Caveats
  BY DEF Caveats
<1>9. call.references = {}
  <2>1. call.references \subseteq results.failure
    BY <1>1, <1>2 DEF StructureOK
  <2> QED
    BY <2>1, CallCodes
<1>10. call.findings = {}
  <2>1. call.findings \subseteq results.failure
    BY <1>1, <1>3 DEF BoundOK
  <2> QED
    BY <1>8, <2>1, CallCodes
<1>11. ContentMatches(call) \/ call.binding = "storeOnly"
  <2>1. call.binding # "deferred"
    BY DEF Captures
  <2> QED
    BY <1>1, <1>3, <1>8, <2>1, ContentFollows
<1> QED
  BY <1>4, <1>7, <1>9, <1>10, <1>11 DEF IdentitySound

LEMMA IdentityNext ==
  ASSUME Typed, ReturnOK, StructureOK, CredentialOK, BoundOK, ContentOK, IdentityOK, Next
  PROVE  IdentityOK'
<1>1. Keeps /\ call' = call /\ results.success \subseteq results'.success
  BY StepKeeps DEF Keeps
<1>2. pc # "identity" => identity' = identity
  BY <1>1 DEF Keeps
<1>3. pc' \notin Judged => ~identity'
  <2>1. pc' \notin Judged => pc \notin Judged
    BY Passing
  <2>2. pc = "identity" => pc' \in Judged
    BY StageRuns, IdentityStage DEF Judged
  <2> QED
    BY <1>2, <2>1, <2>2 DEF IdentityOK
<1>4. ASSUME identity', ~Captures(call), ~LegacyChain(call) PROVE IdentitySound
  <2>1. CASE pc = "identity"
    <3>1. ~identity
      BY <2>1 DEF IdentityOK, Judged, Revoked, Upgraded, Last
    <3>2. IdentityAllowed(call, results)
      BY <1>4, <2>1, <3>1, StageRuns, IdentityStage
    <3>3. results.failure \subseteq IdentityScoped
      BY <1>4, <3>2 DEF IdentityAllowed
    <3> QED
      BY <1>4, <2>1, <3>3, IdentityFollows
  <2>2. CASE pc # "identity"
    BY <1>2, <1>4, <2>2 DEF IdentityOK
  <2> QED
    BY <2>1, <2>2
<1>5. IdentitySound => IdentitySound'
  BY <1>1 DEF IdentitySound
<1>6. (Captures(call)' <=> Captures(call)) /\ (LegacyChain(call)' <=> LegacyChain(call))
  BY <1>1
<1> QED
  BY <1>3, <1>4, <1>5, <1>6 DEF IdentityOK

\* The gate is one of the failures, when the signature may not be used.
LEMMA GateIsAFailure ==
  ASSUME Typed, StructureOK, CheckCredential, ~Usable(call, fatal, at)
  PROVE  GateCode(call, fatal, at) # None /\ GateCode(call, fatal, at) \in results'.failure
<1>1. /\ call.leaf = "none" => "signingCredential.invalid" \in results'.failure
      /\ call.leaf # "none" /\ call.verification # "ok" => call.verification \in results'.failure
      /\ call.leaf # "none" /\ ~InValidity(call, at) =>
           "claimSignature.outsideValidity" \in results'.failure
  BY CredentialStage
<1>2. fatal # None => fatal \in results'.failure
  BY CredentialStage DEF Keeps, StructureOK
<1>3. "signingCredential.invalid" # None /\ "claimSignature.outsideValidity" # None
  BY CallsAssumption
<1>4. call.verification # "ok" => call.verification # None
  BY CallCodes
<1>5. CASE fatal # None
  BY <1>2, <1>5 DEF GateCode
<1>6. CASE fatal = None /\ call.leaf = "none"
  BY <1>1, <1>3, <1>6 DEF GateCode, SignatureGate
<1>7. CASE fatal = None /\ call.leaf # "none" /\ call.verification # "ok"
  BY <1>1, <1>4, <1>7 DEF GateCode, SignatureGate
<1>8. CASE fatal = None /\ call.leaf # "none" /\ call.verification = "ok"
  <2>1. ~InValidity(call, at)
    BY <1>8 DEF Usable
  <2>2. GateCode(call, fatal, at) = "claimSignature.outsideValidity"
    BY <1>8, <2>1 DEF GateCode, SignatureGate
  <2> QED
    BY <1>1, <1>3, <1>8, <2>1, <2>2
<1> QED
  BY <1>5, <1>6, <1>7, <1>8

LEMMA GateNext ==
  ASSUME Typed, ReturnOK, StructureOK, CredentialOK, IdentityOK, GateOK, Next
  PROVE  GateOK'
<1>1. /\ Keeps /\ call' = call /\ results.failure \subseteq results'.failure
      /\ pc \notin {"claim", "signature", "credential"} => gate' = gate
      /\ pc # "identity" => identity' = identity
  BY StepKeeps DEF Keeps
<1>2. pc' \notin Judged => gate' = None
  <2>1. pc' \notin Judged => pc \notin Judged /\ gate = None
    BY Passing DEF GateOK
  <2>2. pc = "claim" => gate' = gate \/ pc' \in Judged
    BY StageRuns, ClaimStage DEF Judged, Revoked, Upgraded, Last
  <2>3. pc = "signature" => gate' = gate \/ pc' \in Judged
    BY StageRuns, SignatureStage DEF Judged, Revoked, Upgraded, Last
  <2>4. pc = "credential" => gate' = gate \/ pc' \in Judged
    BY StageRuns, CredentialStage DEF Judged
  <2> QED
    BY <1>1, <2>1, <2>2, <2>3, <2>4
<1>3. ASSUME Captures(call), pc' \in Judged, ~CutShort(call)
      PROVE  /\ fatal' = fatal /\ at' = at
             /\ Usable(call, fatal, at) => identity' /\ gate' = None
             /\ ~Usable(call, fatal, at) => ~identity' /\ gate' # None /\ gate' \in results'.failure
  <2>1. pc \in Judged \/ pc \in {"identity", "credential"}
    BY <1>3, Passing
  <2>2. pc \notin {"structure", "references", "time"}
    BY <2>1 DEF Judged, Revoked, Upgraded, Last
  <2>3. fatal' = fatal /\ at' = at
    BY <1>1, <2>2 DEF Keeps
  <2>4. CASE pc \in Judged
    <3>1. pc \notin {"claim", "signature", "credential", "identity"}
      BY <2>4 DEF Judged, Revoked, Upgraded, Last
    <3> QED
      BY <1>1, <1>3, <2>3, <2>4, <3>1 DEF GateOK
  <2>5. CASE pc = "identity"
    <3>1. Usable(call, fatal, at) /\ gate = None
      BY <1>3, <2>5 DEF CredentialOK, GateOK, Opened, Bound, Compared, Judged, Revoked, Upgraded, Last
    <3>2. IdentityAllowed(call, results)
      BY <1>3 DEF IdentityAllowed
    <3>3. identity' = TRUE /\ gate' = gate
      BY <1>1, <2>5, <3>2, StageRuns, IdentityStage
    <3> QED
      BY <2>3, <3>1, <3>3
  <2>6. CASE pc = "credential"
    <3>1. CheckCredential
      BY <2>6, StageRuns
    <3>2. /\ ~Usable(call, fatal, at) /\ gate' = GateCode(call, fatal, at) /\ identity' = identity
      <4>1. pc' # "bindings"
        BY <1>3 DEF Judged, Revoked, Upgraded, Last
      <4> QED
        BY <1>3, <3>1, <4>1, CredentialStage
    <3>3. ~identity
      BY <2>6 DEF IdentityOK, Judged, Revoked, Upgraded, Last
    <3>4. gate' # None /\ gate' \in results'.failure
      BY <3>1, <3>2, GateIsAFailure
    <3> QED
      BY <2>3, <3>2, <3>3, <3>4
  <2> QED
    BY <2>1, <2>4, <2>5, <2>6
<1>4. (Captures(call)' <=> Captures(call)) /\ (CutShort(call)' <=> CutShort(call))
  BY <1>1
<1> QED
  BY <1>1, <1>2, <1>3, <1>4 DEF GateOK

LEMMA RevocationNext ==
  ASSUME Typed, RevocationOK, Next
  PROVE  RevocationOK'
<1>1. /\ Keeps /\ call' = call /\ results.failure \subseteq results'.failure
      /\ results.informational \subseteq results'.informational
  BY StepKeeps DEF Keeps
<1>2. ASSUME pc' \in Revoked, ~CutShort(call)
      PROVE  /\ LeafRevocation(call) = "revoked" =>
                  "signingCredential.ocsp.revoked" \in results'.failure
             /\ LeafRevocation(call) \in {"skipped", "unknown", "inaccessible"} =>
                  results'.informational \intersect NoRevocationInformation # {}
  <2>1. pc \in Revoked \/ pc = "revocation"
    BY <1>2, Passing
  <2>2. CASE pc = "revocation"
    BY <2>2, StageRuns, RevocationStage
  <2>3. CASE pc \in Revoked
    BY <1>1, <1>2, <2>3 DEF RevocationOK
  <2> QED
    BY <2>1, <2>2, <2>3
<1> QED
  BY <1>1, <1>2 DEF RevocationOK

LEMMA TrustNext ==
  ASSUME Typed, ReturnOK, TrustOK, Next
  PROVE  TrustOK'
<1>1. Keeps /\ call' = call
  BY StepKeeps DEF Keeps
<1>2. ASSUME "signingCredential.trusted" \in results'.success
      PROVE  /\ pc' \in Upgraded /\ ~CutShort(call) /\ fatal' = fatal /\ at' = at
             /\ ChainTrusted(call, at) \/ LeafAllowed(call, at)
             /\ fatal = None
             /\ ~BlocksTrust(call)
  <2>1. CASE "signingCredential.trusted" \in results.success
    <3>1. pc \in Upgraded /\ pc' \in Upgraded
      BY <2>1, Passing DEF TrustOK
    <3>2. fatal' = fatal /\ at' = at
      BY <1>1, <3>1 DEF Keeps, Upgraded, Last
    <3> QED
      BY <2>1, <3>1, <3>2 DEF TrustOK
  <2>2. CASE "signingCredential.trusted" \notin results.success
    <3>1. pc = "trust"
      BY <1>1, <1>2, <2>2 DEF Keeps
    <3>2. /\ pc' = "upgrades" /\ fatal' = fatal /\ at' = at
          /\ ChainTrusted(call, at) \/ LeafAllowed(call, at)
          /\ fatal = None /\ ~BlocksTrust(call)
      BY <1>2, <2>2, <3>1, StageRuns, TrustStage
    <3>3. pc \in Signed /\ pc \notin Last
      BY <3>1 DEF Signed, Timed, Opened, Bound, Compared, Judged, Revoked, Upgraded, Last
    <3>4. ~CutShort(call)
      BY <3>3, NotCutShort
    <3> QED
      BY <3>2, <3>4 DEF Upgraded
  <2> QED
    BY <2>1, <2>2
<1> QED
  BY <1>1, <1>2 DEF TrustOK

LEMMA UpgradesNext ==
  ASSUME Typed, UpgradesOK, Next
  PROVE  UpgradesOK'
<1>1. Keeps /\ call' = call /\ results.failure \subseteq results'.failure
  BY StepKeeps DEF Keeps
<1>2. ASSUME pc' \in Last, ~CutShort(call), call.profile.compliance = "program"
      PROVE  /\ results'.informational \intersect NoRevocationInformation # {} =>
                  "com.encypher.conformance.revocationInformationMissing" \in results'.failure
             /\ "timeStamp.trusted" \notin results'.success =>
                  "com.encypher.conformance.trustedTimeStampMissing" \in results'.failure
  <2>1. pc \in Last \/ pc = "upgrades"
    BY <1>2, Passing
  <2>2. CASE pc = "upgrades"
    BY <1>2, <2>2, StageRuns, UpgradesStage
  <2>3. CASE pc \in Last
    <3>1. results'.informational = results.informational /\ results'.success = results.success
      BY <1>1, <2>3 DEF Keeps
    <3> QED
      BY <1>1, <1>2, <2>3, <3>1 DEF UpgradesOK
  <2> QED
    BY <2>1, <2>2, <2>3
<1> QED
  BY <1>1, <1>2 DEF UpgradesOK

LEMMA ReportNext ==
  ASSUME Typed, ReportOK, Next
  PROVE  ReportOK'
<1>1. Keeps /\ Flows /\ call' = call
  BY StepKeeps DEF Keeps
<1>2. ASSUME pc' \in {"fragments", "done"} PROVE report' = Verdict(results', call.profile)
  <2>1. pc \in {"finish", "fragments"}
    BY <1>1, <1>2 DEF Typed, Flows, Stages, Structured, Referenced, Signed, Timed, Opened, Bound,
       Compared, Judged, Revoked, Upgraded, Last
  <2>2. CASE report' = Verdict(results', call.profile)
    BY <2>2
  <2>3. CASE RequireFragmentsBound /\ UNCHANGED <<results, report>>
    <3>1. pc = "fragments"
      BY <2>3 DEF RequireFragmentsBound
    <3> QED
      BY <2>3, <3>1 DEF ReportOK
  <2> QED
    BY <2>1, <2>2, <2>3, StageRuns, ReportStages
<1> QED
  BY <1>1, <1>2 DEF ReportOK

LEMMA InvInit ==
  Init => Inv
<1> SUFFICES ASSUME Init PROVE Inv
  OBVIOUS
<1> USE DEF Init
<1>1. pc = "claim" /\ results.failure = {} /\ results.informational = {} /\ results.success = {}
  BY DEF NoResults
<1>2. /\ pc \notin Structured /\ pc \in Stages
  BY <1>1 DEF Stages, Structured, Referenced, Signed, Timed, Opened, Bound, Compared, Judged, Revoked,
              Upgraded, Last
<1>3. /\ pc \notin Referenced /\ pc \notin Signed /\ pc \notin Opened /\ pc \notin Bound
      /\ pc \notin Compared /\ pc \notin Judged /\ pc \notin Revoked /\ pc \notin Last
  BY <1>2 DEF Structured, Referenced, Signed, Timed, Opened, Bound, Compared, Judged, Revoked, Upgraded
<1>4. Typed /\ ReturnOK /\ StructureOK
  BY <1>1, <1>2, <1>3 DEF Typed, ReturnOK, StructureOK
<1>5. TimeOK /\ CredentialOK /\ BoundOK /\ ContentOK
  BY <1>1, <1>3 DEF TimeOK, CredentialOK, BoundOK, ContentOK
<1>6. IdentityOK /\ GateOK /\ RevocationOK /\ TrustOK /\ UpgradesOK /\ ReportOK
  BY <1>1, <1>3 DEF IdentityOK, GateOK, RevocationOK, TrustOK, UpgradesOK, ReportOK
<1> QED
  BY <1>4, <1>5, <1>6 DEF Inv

LEMMA InvNext ==
  Inv /\ [Next]_vars => Inv'
<1>1. ASSUME Inv, Next PROVE Inv'
  <2>1. Typed' /\ ReturnOK' /\ StructureOK' /\ TimeOK' /\ CredentialOK'
    BY <1>1, TypedNext, ReturnNext, StructureNext, TimeNext, CredentialNext DEF Inv
  <2>2. BoundOK' /\ ContentOK' /\ IdentityOK' /\ GateOK'
    BY <1>1, BoundNext, ContentNext, IdentityNext, GateNext DEF Inv
  <2>3. RevocationOK' /\ TrustOK' /\ UpgradesOK' /\ ReportOK'
    BY <1>1, RevocationNext, TrustNext, UpgradesNext, ReportNext DEF Inv
  <2> QED
    BY <2>1, <2>2, <2>3 DEF Inv
<1>2. ASSUME Inv, UNCHANGED vars PROVE Inv'
  <2> USE <1>2 DEF vars
  <2>1. Typed' /\ ReturnOK' /\ StructureOK' /\ TimeOK'
    BY DEF Inv, Typed, ReturnOK, Returned, StructureOK, TimeOK
  <2>2. CredentialOK' /\ BoundOK' /\ ContentOK'
    BY DEF Inv, CredentialOK, BoundOK, ContentOK, Examined
  <2>3. IdentityOK' /\ GateOK' /\ RevocationOK'
    BY DEF Inv, IdentityOK, IdentitySound, GateOK, RevocationOK
  <2>4. TrustOK' /\ UpgradesOK' /\ ReportOK'
    BY DEF Inv, TrustOK, UpgradesOK, ReportOK
  <2> QED
    BY <2>1, <2>2, <2>3, <2>4 DEF Inv
<1> QED
  BY <1>1, <1>2

LEMMA InvAlways ==
  Spec => []Inv
BY InvInit, InvNext, PTL DEF Spec

-----------------------------------------------------------------------------
(***************************************************************************)
(* The theorems.                                                            *)
(***************************************************************************)

\* Whatever the call, integrity "valid" of provenance_verdict_json means that
\* the signature verified, that no link of the parent chain and no assertion
\* along it is broken, and that the content matches unless the report says it
\* was not evaluated.
THEOREM ValidMeansBound ==
  Spec => []BoundWhenValid
<1>1. Inv => BoundWhenValid
  <2> SUFFICES ASSUME Inv, Done, report.integrity = "valid", ~LegacyChain(call)
               PROVE  /\ call.verification = "ok"
                      /\ \A i \in DOMAIN call.parents :
                           call.parents[i].link # "broken" /\ call.parents[i].findings = {}
                      /\ \/ ContentMatches(call) /\ Declares(call) # "none"
                         \/ call.binding = "deferred"
                         \/ /\ call.binding = "storeOnly"
                            /\ "com.encypher.hardBinding.notEvaluated" \in results.informational
                            /\ report.hardBinding = "unknown"
    BY DEF BoundWhenValid
  <2>1. pc = "done" /\ pc \in Compared /\ pc \in Opened /\ pc \in Signed
    BY DEF Done, Signed, Timed, Opened, Bound, Compared, Judged, Revoked, Upgraded, Last
  <2>2. /\ ProvenanceIntegrity(results, call.profile) = "valid"
        /\ report.hardBinding = HardBindingStatus(results)
    BY <2>1 DEF Inv, ReportOK, Verdict
  <2>3. results.failure \subseteq Caveats /\ ~StrictCredentialFailure(results, call.profile)
    BY <2>2 DEF ProvenanceIntegrity, ConstructionInvalidating
  <2>4. ~CutShort(call)
    <3>1. call.claim # "ok" => call.claim \in results.failure /\ call.claim \notin Caveats
      BY <2>1, CallCodes DEF Inv, ReturnOK, Returned
    <3>2. call.claim = "ok" /\ ~call.signed => "claimSignature.missing" \in results.failure
      BY <2>1 DEF Inv, ReturnOK, Returned
    <3>3. "claimSignature.missing" \notin Caveats
      BY MismatchesBreak
    <3> QED
      BY <2>3, <3>1, <3>2, <3>3 DEF CutShort
  <2>5. fatal = None
    BY <2>3 DEF Inv, StructureOK
  <2>6. CredentialOK /\ pc \in Opened
    BY <2>1 DEF Inv
  <2>7. call.leaf # "none"
    <3>1. "signingCredential.invalid" \notin Caveats
      BY MismatchesBreak
    <3> QED
      BY <2>3, <2>4, <2>6, <3>1 DEF CredentialOK
  <2>8. call.verification = "ok"
    <3>1. call.verification # "ok" => call.verification \notin Caveats
      BY CallCodes DEF Inv
    <3> QED
      BY <2>3, <2>4, <2>6, <2>7, <3>1 DEF CredentialOK
  <2>9. Generous(call.profile) \/ InValidity(call, at)
    <3>1. ~InValidity(call, at) => "claimSignature.outsideValidity" \in results.failure
      BY <2>4, <2>6, <2>7 DEF CredentialOK
    <3> QED
      BY <2>3, <3>1 DEF StrictCredentialFailure
  <2>10. Examined
    BY <2>4, <2>5, <2>7, <2>8, <2>9 DEF Examined, Usable
  <2>11. /\ \A i \in DOMAIN call.parents :
              call.parents[i].link # "broken" /\ call.parents[i].findings = {}
         /\ Declares(call) # "none"
         /\ \/ ContentMatches(call)
            \/ call.binding = "deferred"
            \/ /\ call.binding = "storeOnly"
               /\ "com.encypher.hardBinding.notEvaluated" \in results.informational
    BY <2>1, <2>3, <2>10, ContentFollows DEF Inv
  <2>12. call.binding = "storeOnly" => report.hardBinding = "unknown"
    <3>1. call.binding = "storeOnly" => results.success \intersect MatchCodes = {}
      BY DEF Inv, ContentOK
    <3>2. /\ results.failure \intersect {"livevideo.segment.invalid",
               "com.encypher.hardBinding.callerEvidenceMismatch"} = {}
          /\ results.failure \intersect {"assertion.dataHash.mismatch",
               "assertion.multiAssetHash.mismatch"} = {}
          /\ "claim.hardBindings.missing" \notin results.failure
      BY <2>3, MismatchesBreak
    <3> QED
      BY <2>2, <3>1, <3>2 DEF HardBindingStatus, MatchCodes
  <2> QED
    BY <2>8, <2>11, <2>12
<1> QED
  BY <1>1, InvAlways, PTL

\* Outside a deferred pass, a named actor is judged only on a manifest whose
\* signature verified inside its validity window, without a failure of any
\* stage, and whose content matched or is reported as not evaluated.
THEOREM IdentityNeedsSoundManifest ==
  Spec => []IdentityOnSoundManifest
<1>1. Inv => IdentityOnSoundManifest
  BY DEF Inv, IdentityOK, IdentitySound, IdentityOnSoundManifest
<1> QED
  BY <1>1, InvAlways, PTL

\* A deferred pass either ran the identity step or names a recorded failure
\* that kept it from running, the early return's when there was one.
THEOREM DeferredPassIsExplained ==
  Spec => []GateExplains
<1>1. Inv => GateExplains
  <2> SUFFICES ASSUME Inv, Done, Captures(call)
               PROVE  /\ identity <=> gate = None
                      /\ gate # None => gate \in results.failure
                      /\ call.claim # "ok" => gate = call.claim
                      /\ call.claim = "ok" /\ ~call.signed => gate = "claimSignature.missing"
    BY DEF GateExplains
  <2>1. pc = "done" /\ pc \in Judged /\ pc \in Signed /\ identity \in BOOLEAN
    BY DEF Inv, Typed, Done, Signed, Timed, Opened, Bound, Compared, Judged, Revoked, Upgraded, Last
  <2>2. CASE call.claim # "ok"
    <3>1. Returned(call.claim) /\ call.claim # None
      BY <2>1, <2>2, CallCodes DEF Inv, ReturnOK
    <3> QED
      BY <2>2, <3>1 DEF Returned
  <2>3. CASE call.claim = "ok" /\ ~call.signed
    <3>1. Returned("claimSignature.missing") /\ "claimSignature.missing" # None
      BY <2>1, <2>3, CallsAssumption DEF Inv, ReturnOK
    <3> QED
      BY <2>3, <3>1 DEF Returned
  <2>4. CASE call.claim = "ok" /\ call.signed
    <3>1. ~CutShort(call)
      BY <2>4 DEF CutShort
    <3>2. /\ Usable(call, fatal, at) => identity /\ gate = None
          /\ ~Usable(call, fatal, at) => ~identity /\ gate # None /\ gate \in results.failure
      BY <2>1, <3>1 DEF Inv, GateOK
    <3> QED
      BY <2>4, <3>2
  <2> QED
    BY <2>2, <2>3, <2>4
<1> QED
  BY <1>1, InvAlways, PTL

\* No source that was asked says revoked, when trust is not blocked.
LEMMA NobodySaysRevoked ==
  ASSUME Typed, call.leaf # "none", ~BlocksTrust(call)
  PROVE  /\ ~call.onlineCaRevoked /\ call.onlineLeaf # "revoked"
         /\ \/ call.staples.rejected
            \/ \A which \in {"leaf", "ca"} :
                 \/ "revoked" \notin call.staples[which]
                 \/ ~Generous(call.profile) /\ "good" \in call.staples[which]
<1>1. Stapled(call, "leaf") # "revoked" /\ Stapled(call, "ca") # "revoked"
  BY DEF BlocksTrust
<1>2. ~call.onlineCaRevoked /\ call.onlineLeaf # "revoked"
  BY DEF BlocksTrust, OnlineLeaf, OnlineCaRevoked
<1>3. ASSUME ~call.staples.rejected, NEW which \in {"leaf", "ca"}
      PROVE  \/ "revoked" \notin call.staples[which]
             \/ ~Generous(call.profile) /\ "good" \in call.staples[which]
  <2>1. Resolve(call.staples[which], call.profile) # "revoked"
    BY <1>1, <1>3 DEF Stapled
  <2> QED
    BY <2>1 DEF Resolve
<1> QED
  BY <1>2, <1>3

\* Revocation information that is there, and does not say revoked, says good.
LEMMA InformedMeansGood ==
  ASSUME Typed, call.leaf # "none", ~BlocksTrust(call),
         LeafRevocation(call) \notin {"skipped", "unknown", "inaccessible"}
  PROVE  \/ call.onlineLeaf = "notRevoked"
         \/ call.onlineLeaf = None /\ "good" \in call.staples.leaf
<1>1. call.onlineLeaf \in {None, "notRevoked", "revoked", "unknown", "unusable", "unreachable"}
  BY CallsAssumption DEF Typed
<1>2. OnlineLeaf(call) = call.onlineLeaf
  BY DEF OnlineLeaf
<1>3. /\ Stapled(call, "leaf") # "revoked" /\ Stapled(call, "ca") # "revoked"
      /\ OnlineLeaf(call) # "revoked"
  BY DEF BlocksTrust
<1>4. CASE call.onlineLeaf = "unknown"
  BY <1>2, <1>4 DEF LeafRevocation
<1>5. CASE call.onlineLeaf \in {"unusable", "unreachable"}
  BY <1>2, <1>5 DEF LeafRevocation
<1>6. CASE OnlineLeaf(call) \notin {"notRevoked", "revoked", "unknown", "unusable", "unreachable"}
  <2>1. Stapled(call, "leaf") = "good"
    BY <1>3, <1>6 DEF LeafRevocation
  <2>2. ~call.staples.rejected => Resolve(call.staples["leaf"], call.profile) = "good"
    BY <2>1 DEF Stapled
  <2>3. call.staples["leaf"] \subseteq {"good", "revoked"}
    BY CallsAssumption DEF Typed
  <2>4. ~call.staples.rejected /\ None # "good"
    BY <2>1, CallsAssumption DEF Stapled
  <2>5. "good" \in call.staples["leaf"]
    BY <2>2, <2>3, <2>4 DEF Resolve
  <2> QED
    BY <1>1, <1>2, <1>6, <2>5
<1> QED
  BY <1>1, <1>2, <1>3, <1>4, <1>5, <1>6

\* Whatever the call, Trusted is earned: a sound structure, a verified
\* signature of an acceptable credential that is anchored or listed, valid at
\* the validation time or at an attested one, revoked by nobody who was asked;
\* under the program, with revocation information and a verified time stamp.
THEOREM TrustIsEarned ==
  Spec => []TrustedIsEarned
<1>1. Inv => TrustedIsEarned
  <2> SUFFICES ASSUME Inv, Done, report.state = "Trusted"
               PROVE  /\ \A i \in DOMAIN call.structure : ~call.structure[i].fatal
                      /\ call.verification = "ok" /\ call.leaf = "acceptable"
                      /\ call.anchors \in {"path", "self"} \/ call.allowed = "listed"
                      /\ \/ Is25(call.profile) /\ call.anchors = "self"
                         \/ Now \in call.window
                         \/ \E i \in Verified(call) : Tokens(call)[i].time \in call.window
                      /\ ~call.onlineCaRevoked /\ call.onlineLeaf # "revoked"
                      /\ \/ call.staples.rejected
                         \/ \A which \in {"leaf", "ca"} :
                               \/ "revoked" \notin call.staples[which]
                               \/ ~Generous(call.profile) /\ "good" \in call.staples[which]
                      /\ call.profile.compliance = "program" =>
                           /\ \/ call.onlineLeaf = "notRevoked"
                              \/ call.onlineLeaf = None /\ "good" \in call.staples.leaf
                           /\ Verified(call) # {}
    BY DEF TrustedIsEarned
  <2>1. /\ pc = "done" /\ pc \in Opened /\ pc \in Structured /\ pc \in Revoked /\ pc \in Last
    BY DEF Done, Structured, Referenced, Signed, Timed, Opened, Bound, Compared, Judged, Revoked,
           Upgraded, Last
  <2>2. ComputeState(results, call.profile) = "Trusted"
    BY <2>1 DEF Inv, ReportOK, Verdict
  <2>3. /\ IntegrityInvalidating(results.failure, call.profile) = {}
        /\ "signingCredential.trusted" \in results.success
    BY <2>2 DEF ComputeState
  <2>4. /\ ~CutShort(call) /\ fatal = None /\ ~BlocksTrust(call)
        /\ ChainTrusted(call, at) \/ LeafAllowed(call, at)
    BY <2>3 DEF Inv, TrustOK
  <2>5. results.failure \subseteq Caveats
    BY <2>3 DEF IntegrityInvalidating, ConstructionInvalidating, Caveats, RegularIntegrityCaveats
  <2>6. call.leaf = "acceptable" /\ call.leaf # "none"
    BY <2>4 DEF ChainTrusted, LeafAllowed
  <2>7. call.verification = "ok"
    <3>1. call.verification # "ok" => call.verification \in results.failure
      BY <2>1, <2>4, <2>6 DEF Inv, CredentialOK
    <3>2. call.verification # "ok" => call.verification \notin Caveats
      BY CallCodes DEF Inv
    <3> QED
      BY <2>5, <3>1, <3>2
  <2>8. \A i \in DOMAIN call.structure : ~call.structure[i].fatal
    BY <2>1, <2>4 DEF Inv, StructureOK, CutShort
  <2>9. call.anchors \in {"path", "self"} \/ call.allowed = "listed"
    BY <2>4 DEF ChainTrusted, LeafAllowed
  <2>10. \/ Is25(call.profile) /\ call.anchors = "self"
         \/ Now \in call.window
         \/ \E i \in Verified(call) : Tokens(call)[i].time \in call.window
    <3>1. (Is25(call.profile) /\ call.anchors = "self") \/ at \in call.window
      BY <2>4 DEF ChainTrusted, LeafAllowed
    <3>2. at = Now \/ \E i \in Verified(call) : Tokens(call)[i].time = at
      BY DEF Inv, TimeOK
    <3> QED
      BY <3>1, <3>2
  <2>11. /\ ~call.onlineCaRevoked /\ call.onlineLeaf # "revoked"
         /\ \/ call.staples.rejected
            \/ \A which \in {"leaf", "ca"} :
                 \/ "revoked" \notin call.staples[which]
                 \/ ~Generous(call.profile) /\ "good" \in call.staples[which]
    BY <2>4, <2>6, NobodySaysRevoked DEF Inv
  <2>12. ASSUME call.profile.compliance = "program"
         PROVE  /\ \/ call.onlineLeaf = "notRevoked"
                   \/ call.onlineLeaf = None /\ "good" \in call.staples.leaf
                /\ Verified(call) # {}
    <3>1. ~Generous(call.profile)
      BY <2>12 DEF Generous
    <3>2. /\ "com.encypher.conformance.revocationInformationMissing" \notin results.failure
          /\ "com.encypher.conformance.trustedTimeStampMissing" \notin results.failure
      BY <2>3, <3>1 DEF IntegrityInvalidating, IdentityScoped, ExternalDataScoped, ExternalMismatch
    <3>3. /\ results.informational \intersect NoRevocationInformation = {}
          /\ "timeStamp.trusted" \in results.success
      BY <2>1, <2>4, <2>12, <3>2 DEF Inv, UpgradesOK
    <3>4. LeafRevocation(call) \notin {"skipped", "unknown", "inaccessible"}
      BY <2>1, <2>4, <3>3 DEF Inv, RevocationOK
    <3> QED
      BY <2>4, <2>6, <3>3, <3>4, InformedMeansGood DEF Inv, TimeOK
  <2> QED
    BY <2>6, <2>7, <2>8, <2>9, <2>10, <2>11, <2>12
<1> QED
  BY <1>1, InvAlways, PTL
=============================================================================
